----------------------------- MODULE MCSysFreq -----------------------------
(* Four users: the key driver (0), the USB driver (1), APP_0 (2), which the
   audio streams use, and APP_1 (3), which the stack's busy notification
   uses.  MCAsk holds the frequencies their call sites name. *)
EXTENDS SysFreq, TLC

MCAppUser == {2, 3}
MCAsk == (0 :> {0, 2}) @@ (1 :> {0, 3}) @@ (2 :> {0, 3, 5}) @@ (3 :> {0, 3})

\* One user alone asks for more than 52 MHz (Alone in SysFreq_proofs).
ASSUME OneFastUser == \A u \in User \ {2} : \A f \in Ask[u] : f <= F52M
=============================================================================
