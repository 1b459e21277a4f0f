----------------------------- MODULE Reconnect -----------------------------
(***************************************************************************)
(* The headset connects to its phone again, at power-on and after the link *)
(* was lost: the profile manager of services/bt_app/app_bt.cpp as a sink,  *)
(* one device (BT_DEVICE_NUM = 1).                                         *)
(*                                                                         *)
(* The two profile callbacks run in the Bluetooth thread.  Each stops the  *)
(* retry timer first, and works on the profile's status, the mode and the  *)
(* counter of failed retries; the timer's handler runs in the timer thread *)
(* and asks for a profile through the Bluetooth thread's mailbox.  The     *)
(* stack is closed code: what it does is taken from the comments of hf.h   *)
(* and a2dp.h on the calls and events used here.                           *)
(***************************************************************************)
EXTENDS Naturals, Sequences

CONSTANTS
  RETRY_LIMIT_CNT,  \* APP_BT_PROFILE_RECONNECT_RETRY_LIMIT_CNT
  Phones,           \* the profiles a phone has: one is chosen
  Records,          \* what its record says about them: one is chosen
  MAILBOX_MAX       \* bound: requests that wait

Profile == {"HF", "A2DP"}
Other(p) == IF p = "HF" THEN "A2DP" ELSE "HF"

ASSUME RetryAssumption == RETRY_LIMIT_CNT \in Nat \ {0} /\ MAILBOX_MAX \in Nat \ {0}
ASSUME PhoneAssumption == Phones \subseteq SUBSET Profile /\ Records \subseteq [Profile -> BOOLEAN]

VARIABLES
  phone,    \* the profiles of the phone
  inRange,  \* the phone answers a page
  act,      \* hfp_act and a2dp_act in its record
  manager,  \* bt_profile_manager[BT_DEVICE_ID_1]
  armed,    \* connect_timer runs
  due,      \* it expired and its handler did not run yet
  mail,     \* the requests in app_bt_mailbox
  chan,     \* the profile's connection in the stack
  pages     \* attempts of this reconnection since a profile was last connected (history)

vars == <<phone, inRange, act, manager, armed, due, mail, chan, pages>>

Status == {"unknow", "success", "failure"}
Mode   == {"null", "openreconnecting", "reconnecting"}

TypeOK ==
  /\ phone \in Phones /\ inRange \in BOOLEAN
  /\ act \in [Profile -> BOOLEAN]
  /\ manager \in [mode : Mode, cnt : 0..RETRY_LIMIT_CNT + MAILBOX_MAX + 1, status : [Profile -> Status],
                  has_connected : BOOLEAN]
  /\ armed \in BOOLEAN /\ due \in BOOLEAN
  /\ mail \in Seq(Profile) /\ Len(mail) <= MAILBOX_MAX
  /\ chan \in [Profile -> {"closed", "opening", "open", "lost"}]
  /\ pages \in Nat

----------------------------------------------------------------------------
\* (mutant) the music profile is forgotten
HandsFreeOnly(plf) == IF plf["HF"] THEN <<"HF">> ELSE <<>>

\* The timer's choice, and the first one at power-on: hands-free if its flag is
\* set, else music, else nothing.
FirstChoice(plf) ==
  IF plf["HF"] THEN <<"HF">> ELSE IF plf["A2DP"] THEN <<"A2DP">> ELSE <<>>

\* app_bt_profile_connect_manager_open, ..._opening_reconnect: a record without
\* flags would have been deleted.
Init ==
  /\ phone \in Phones /\ inRange \in BOOLEAN /\ act \in Records
  /\ manager = [mode |-> IF \E p \in Profile : act[p] THEN "openreconnecting" ELSE "null",
                cnt |-> 0, status |-> [p \in Profile |-> "unknow"], has_connected |-> FALSE]
  /\ armed = FALSE /\ due = FALSE
  /\ mail = FirstChoice(act)
  /\ chan = [p \in Profile |-> "closed"]
  /\ pages = 0

\* The end of both callbacks: whether the reconnection is over, whether the
\* other profile is next, and what counts as connected.
Waiting(g, plf, q) == plf[q] /\ g.status[q] = "unknow"
Failed(g) == \E q \in Profile : g.status[q] = "failure"

\* (mutant) at power-on only success on every profile ends the reconnection
IsOverOnSuccess(g, p, plf) ==
  \/ g.mode = "reconnecting" /\ ~Failed(g)
  \/ g.mode = "openreconnecting" /\ \A q \in Profile : ~Waiting(g, plf, q) /\ g.status[q] # "failure"

IsOver(g, p, plf) ==
  \/ g.mode = "reconnecting" /\ ~Failed(g)
  \/ /\ g.mode = "openreconnecting"
     /\ (\A q \in Profile : ~Waiting(g, plf, q)) \/ g.status[p] = "failure"

Continues(g, p, plf) ==
  /\ g.mode = "openreconnecting"
  /\ plf[p] /\ g.status[p] = "success"
  /\ Waiting(g, plf, Other(p))

\* The music's callback looks at its own profile only.
Connected(g, p) ==
  IF p = "HF" THEN \E q \in Profile : g.status[q] = "success"
              ELSE g.status["A2DP"] = "success"

Finish(g, p, plf, requests) ==
  /\ manager' = [g EXCEPT !.mode = IF IsOver(g, p, plf) THEN "null" ELSE @,
                          !.has_connected = Connected(g, p)]
  /\ mail' = mail \o requests \o IF Continues(g, p, plf) THEN <<Other(p)>> ELSE <<>>

\* (mutant) a profile that connects does not stop the timer
OpenedTimerRuns(p) ==
  LET plf == IF p = "A2DP" THEN [act EXCEPT !["A2DP"] = TRUE] ELSE act
  IN /\ act' = plf /\ armed' = armed
     /\ Finish([manager EXCEPT !.status[p] = "success", !.cnt = 0], p, plf, <<>>)

\* HF_EVENT_SERVICE_CONNECTED, A2DP_EVENT_STREAM_OPEN.  As a sink the first
\* does not set its flag: the assignment became the else branch of the
\* status indication.
Opened(p) ==
  LET plf  == IF p = "A2DP" THEN [act EXCEPT !["A2DP"] = TRUE] ELSE act
      g    == [manager EXCEPT !.status[p] = "success", !.cnt = 0]
      next == g.mode = "reconnecting" /\ plf[Other(p)] /\ g.status[Other(p)] # "success"
  IN /\ act' = plf /\ armed' = FALSE
     /\ Finish(g, p, plf, IF next THEN <<Other(p)>> ELSE <<>>)

\* (mutant) one retry too many
RetriesOnceMore(g) == g.cnt <= RETRY_LIMIT_CNT

\* (mutant) the limit is forgotten
RetriesForever(g) == TRUE

Retries(g) == g.cnt + 1 < RETRY_LIMIT_CNT

Begins(p, lost, plf) == lost /\ (p = "A2DP" => plf["A2DP"] /\ ~plf["HF"])

\* HF_EVENT_SERVICE_DISCONNECTED, A2DP_EVENT_STREAM_CLOSED: lost if the reason
\* is 0x8.
Closed(p, lost, plf) ==
  LET g == manager
      failed == [g EXCEPT !.status[p] = "failure"]
  IN \/ /\ g.mode = "openreconnecting"
        /\ armed' = FALSE
        /\ Finish(failed, p, plf, <<>>)
     \/ /\ g.mode = "reconnecting"
        /\ armed' = Retries(g)
        /\ Finish([failed EXCEPT !.cnt = @ + 1,
                                 !.mode = IF Retries(g) THEN @ ELSE "null"], p, plf, <<>>)
     \/ /\ g.mode = "null"
        /\ armed' = Begins(p, lost, plf)
        /\ Finish(IF Begins(p, lost, plf)
                    THEN [failed EXCEPT !.mode = "reconnecting"]
                    ELSE [failed EXCEPT !.status[p] = "unknow"], p, plf, <<>>)

----------------------------------------------------------------------------
(* The timer thread. *)

TimerExpires ==
  /\ armed /\ ~due
  /\ armed' = FALSE /\ due' = TRUE
  /\ UNCHANGED <<phone, inRange, act, manager, mail, chan, pages>>

\* app_bt_profile_reconnect_timehandler; connect_timer_cb is always NULL
\* (__AUTO_CONNECT_OHTER_PROFILE__ is not defined).
TimerHandler ==
  /\ due /\ Len(mail) < MAILBOX_MAX
  /\ due' = FALSE
  /\ mail' = mail \o FirstChoice(act)
  /\ UNCHANGED <<phone, inRange, act, manager, armed, chan, pages>>

----------------------------------------------------------------------------
(* The Bluetooth thread: one request, or one event of the stack. *)

\* app_bt_mail_poll.  The stack is busy if the profile is connected or about to be.
MailPoll ==
  /\ mail # <<>>
  /\ mail' = Tail(mail)
  /\ IF chan[Head(mail)] = "closed"
       THEN /\ chan' = [chan EXCEPT ![Head(mail)] = "opening"]
            /\ pages' = IF manager.mode = "reconnecting" THEN pages + 1 ELSE pages
       ELSE UNCHANGED <<chan, pages>>
  /\ UNCHANGED <<phone, inRange, act, manager, armed, due>>

Room == Len(mail) < MAILBOX_MAX
ChanBecomes(p, c) == chan' = [chan EXCEPT ![p] = c]

\* The profile is connected: asked for, or by the phone.
ProfileOpens(p) ==
  /\ Room /\ p \in phone /\ inRange /\ chan[p] \in {"opening", "closed"}
  /\ ChanBecomes(p, "open") /\ pages' = 0
  /\ Opened(p)
  /\ UNCHANGED <<phone, due, inRange>>

\* The profile is closed in the stack, for this reason.
Closes(p, lost) ==
  /\ Room /\ ChanBecomes(p, "closed")
  /\ Closed(p, lost, act)
  /\ pages' = IF manager'.mode = "reconnecting" THEN pages ELSE 0
  /\ UNCHANGED <<phone, due, inRange, act>>

\* An attempt fails: the page is not answered, or the phone refuses.
AttemptFails(p) == chan[p] = "opening" /\ Closes(p, FALSE)

\* The phone's user disconnects a profile.
PhoneCloses(p) == chan[p] = "open" /\ inRange /\ Closes(p, FALSE)

\* The link is lost; every profile that had it hears so, one after the other.
LinkLost ==
  /\ inRange /\ inRange' = FALSE
  /\ \E paging \in SUBSET {p \in Profile : chan[p] = "opening"} :
       chan' = [p \in Profile |-> IF chan[p] # "closed" /\ p \notin paging THEN "lost" ELSE chan[p]]
  /\ UNCHANGED <<phone, act, manager, armed, due, mail, pages>>

ProfileLost(p) == chan[p] = "lost" /\ Closes(p, TRUE)

ComesBack ==
  /\ ~inRange /\ \A p \in Profile : chan[p] # "lost"
  /\ inRange' = TRUE
  /\ UNCHANGED <<phone, act, manager, armed, due, mail, chan, pages>>

Next ==
  \/ TimerExpires \/ TimerHandler \/ MailPoll \/ LinkLost \/ ComesBack
  \/ \E p \in Profile : ProfileOpens(p) \/ AttemptFails(p) \/ PhoneCloses(p) \/ ProfileLost(p)

Spec == Init /\ [][Next]_vars

\* The kernel runs the timer and the Bluetooth thread; the stack answers every
\* attempt and reports a lost link.
FairSpec ==
  /\ Spec
  /\ WF_vars(TimerExpires) /\ WF_vars(TimerHandler) /\ WF_vars(MailPoll)
  /\ \A p \in Profile : WF_vars(AttemptFails(p)) /\ WF_vars(ProfileLost(p))

----------------------------------------------------------------------------
\* The battery depends on it: a phone that does not come back is paged
\* RETRY_LIMIT_CNT times, once more if a request was waiting when the retries
\* began, whatever the two profiles report in between.
PagesBounded == pages <= RETRY_LIMIT_CNT + 1

\* Requests for a profile: those that wait, and that of a timer that has expired.
Asked == Len(mail) + IF due THEN 1 ELSE 0

\* Once a reconnection is over, by any of the callbacks, nobody asks for the phone
\* again: the timer does not expire any more and no callback asks for the other
\* profile.  What was asked before is still served, and may page the phone after
\* the end: a timer that has expired just before the phone connected by itself
\* does so once.
NothingNewAsked == [][manager.mode = "null" => Asked' <= Asked]_vars

\* A reconnection does not lie idle while nothing is connected: it goes on until
\* a profile is open or it is given up.
Linked == \E p \in Profile : chan[p] = "open"
RetriesGoOn == manager.mode = "reconnecting" /\ ~Linked ~> manager.mode = "null" \/ Linked

\* The reconnection at power-on comes to an end.
OpeningEnds == manager.mode = "openreconnecting" ~> manager.mode # "openreconnecting"

\* So does the one after a lost link: RETRY_LIMIT_CNT retries, 120 seconds.
ReconnectEnds == manager.mode = "reconnecting" ~> manager.mode = "null"
=============================================================================
