---------------------------- MODULE MCReconnect ----------------------------
(* Reconnect for TLC: the phones and what their records say. *)
EXTENDS Reconnect

Says(hfp, a2dp) == [p \in Profile |-> IF p = "HF" THEN hfp ELSE a2dp]

\* Phones that play music and are known to.  Only the source role, in an earlier
\* session, leaves hfp_act set.
MCPhones  == {{"A2DP"}, {"HF", "A2DP"}}
MCRecords == {Says(FALSE, TRUE), Says(TRUE, TRUE)}

\* A phone that is used for calls only, just paired: no flag is set yet.
CallPhones == {{"HF"}}
NewRecords == {Says(FALSE, FALSE)}
=============================================================================
