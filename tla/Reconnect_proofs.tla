--------------------------- MODULE Reconnect_proofs ---------------------------
(***************************************************************************)
(* The reconnection, for any retry limit, any mailbox, any phone and any   *)
(* record of it.                                                           *)
(*                                                                         *)
(* The counter does not bound the pages by itself: a reconnection may      *)
(* begin with what an earlier one has left in it, and a request that was   *)
(* waiting is served and counted after the limit.  CountInv and PagesInv   *)
(* say how far either can go.                                              *)
(***************************************************************************)
EXTENDS Reconnect, SequenceTheorems, TLAPS

Num(b) == IF b THEN 1 ELSE 0

\* The profiles that are not closed, and those whose attempt is not answered.
NotClosed(c)  == Num(c["HF"] # "closed") + Num(c["A2DP"] # "closed")
Unanswered(c) == Num(c["HF"] \in {"opening", "lost"}) + Num(c["A2DP"] \in {"opening", "lost"})

\* What will still end in a callback: requests that wait or will, and profiles that
\* are not closed.
Pending == Len(mail) + Num(due) + Num(armed) + NotClosed(chan)

Limit == RETRY_LIMIT_CNT + MAILBOX_MAX + 1

\* Past the limit the counter lives on what is pending.
CountInv == manager.cnt < RETRY_LIMIT_CNT \/ manager.cnt + Pending <= Limit

\* Every page is counted, or still to be answered.
Counted == IF manager.cnt < RETRY_LIMIT_CNT THEN manager.cnt ELSE 0
PagesInv == IF manager.mode = "reconnecting"
              THEN pages <= Counted + Unanswered(chan)
              ELSE pages = 0

\* The timer runs for a reconnection only.
TimerForRetries == armed => manager.mode = "reconnecting"

IInv == TypeOK /\ CountInv /\ PagesInv /\ TimerForRetries

----------------------------------------------------------------------------
(* The requests. *)

LEMMA OneChoice ==
  ASSUME NEW plf PROVE FirstChoice(plf) \in Seq(Profile) /\ Len(FirstChoice(plf)) <= 1
<1>1. /\ <<>> \in Seq(Profile) /\ Len(<<>>) = 0
      /\ <<"HF">> \in Seq(Profile) /\ Len(<<"HF">>) = 1
      /\ <<"A2DP">> \in Seq(Profile) /\ Len(<<"A2DP">>) = 1
  BY DEF Profile
<1> QED
  BY <1>1 DEF FirstChoice

LEMMA OneRequest ==
  ASSUME NEW p \in Profile
  PROVE  Other(p) \in Profile /\ <<Other(p)>> \in Seq(Profile) /\ Len(<<Other(p)>>) = 1
BY DEF Other, Profile

LEMMA Appending ==
  ASSUME NEW s \in Seq(Profile), NEW t \in Seq(Profile)
  PROVE  s \o t \in Seq(Profile) /\ Len(s \o t) = Len(s) + Len(t)
BY ConcatProperties

LEMMA NoRequest ==
  /\ <<>> \in Seq(Profile) /\ Len(<<>>) = 0
  /\ \A s \in Seq(Profile) : s \o <<>> = s
BY ConcatEmptySeq, EmptySeq

----------------------------------------------------------------------------
(* The callbacks. *)

ManagerType == [mode : Mode, cnt : Nat, status : [Profile -> Status], has_connected : BOOLEAN]

LEMMA Typed ==
  ASSUME TypeOK
  PROVE  /\ manager \in ManagerType /\ manager.cnt \in Nat /\ manager.mode \in Mode
         /\ manager.status \in [Profile -> Status]
         /\ act \in [Profile -> BOOLEAN] /\ mail \in Seq(Profile) /\ Len(mail) \in Nat
BY RetryAssumption, LenProperties DEF TypeOK, ManagerType

LEMMA FinishFields ==
  ASSUME TypeOK, NEW g \in ManagerType, NEW p \in Profile, NEW plf, NEW requests,
         Finish(g, p, plf, requests)
  PROVE  /\ manager' \in ManagerType
         /\ manager'.cnt = g.cnt /\ manager'.status = g.status
         /\ manager'.mode = IF IsOver(g, p, plf) THEN "null" ELSE g.mode
         /\ mail' = mail \o requests \o IF Continues(g, p, plf) THEN <<Other(p)>> ELSE <<>>
<1>1. PICK m, c \in BOOLEAN : /\ m = IsOver(g, p, plf)
                              /\ manager' = [g EXCEPT !.mode = IF m THEN "null" ELSE @,
                                                      !.has_connected = c]
  <2>1. Connected(g, p) \in BOOLEAN /\ IsOver(g, p, plf) \in BOOLEAN
    BY Zenon DEF Connected, IsOver
  <2> QED
    BY <2>1, Zenon DEF Finish
<1>2. mail' = mail \o requests \o IF Continues(g, p, plf) THEN <<Other(p)>> ELSE <<>>
  BY Zenon DEF Finish
<1>3. g.mode \in Mode /\ (IF m THEN "null" ELSE g.mode) \in Mode
  BY DEF ManagerType, Mode
<1>4. manager' \in ManagerType
      /\ manager'.cnt = g.cnt /\ manager'.status = g.status
      /\ manager'.mode = IF m THEN "null" ELSE g.mode
  BY <1>1, <1>3 DEF ManagerType
<1> QED
  BY <1>1, <1>2, <1>4

\* manager with this status of p
LEMMA StatusSet ==
  ASSUME TypeOK, NEW p \in Profile, NEW s \in Status, NEW g, g = [manager EXCEPT !.status[p] = s]
  PROVE  /\ g \in ManagerType /\ g.cnt = manager.cnt /\ g.mode = manager.mode
         /\ g.status[p] = s
<1> DEFINE st == [manager.status EXCEPT ![p] = s]
<1>1. st \in [Profile -> Status] /\ st[p] = s
  BY Typed
<1> HIDE DEF st
<1>2. g = [manager EXCEPT !.status = st]
  BY Zenon DEF st
<1> QED
  BY <1>1, <1>2, Typed DEF ManagerType

\* A callback that reports the end of a profile asks for nothing, and keeps the
\* reconnection going or not.
LEMMA ClosedFields ==
  ASSUME TypeOK, NEW p \in Profile, NEW lost \in BOOLEAN, NEW plf \in [Profile -> BOOLEAN],
         Closed(p, lost, plf)
  PROVE  /\ manager' \in ManagerType /\ armed' \in BOOLEAN /\ mail' = mail
         /\ \/ /\ manager.mode = "openreconnecting" /\ manager'.mode # "reconnecting"
               /\ manager'.cnt = manager.cnt /\ armed' = FALSE
            \/ /\ manager.mode = "reconnecting" /\ manager'.cnt = manager.cnt + 1
               /\ IF manager.cnt + 1 < RETRY_LIMIT_CNT
                    THEN armed' = TRUE /\ manager'.mode = "reconnecting"
                    ELSE armed' = FALSE /\ manager'.mode = "null"
            \/ /\ manager.mode = "null" /\ manager'.cnt = manager.cnt
               /\ armed' = TRUE => manager'.mode = "reconnecting"
<1>1. ASSUME NEW g \in ManagerType, g.status[p] \in {"failure", "unknow"}, Finish(g, p, plf, <<>>)
      PROVE  /\ manager' \in ManagerType /\ manager'.cnt = g.cnt /\ mail' = mail
             /\ manager'.mode \in {"null", g.mode}
             /\ g.status[p] = "failure" /\ g.mode # "openreconnecting" => manager'.mode = g.mode
  <2>1. ~Continues(g, p, plf)
    BY <1>1 DEF Continues
  <2>2. /\ manager' \in ManagerType /\ manager'.cnt = g.cnt
        /\ manager'.mode = IF IsOver(g, p, plf) THEN "null" ELSE g.mode
        /\ mail' = mail \o <<>> \o <<>>
    BY <1>1, <2>1, FinishFields
  <2>3. g.status[p] = "failure" /\ g.mode # "openreconnecting" => ~IsOver(g, p, plf)
    BY Zenon DEF IsOver, Failed
  <2> QED
    BY <2>2, <2>3, NoRequest, Typed
<1> DEFINE failed == [manager EXCEPT !.status[p] = "failure"]
           unknow == [failed EXCEPT !.status[p] = "unknow"]
<1>2. failed \in ManagerType /\ failed.cnt = manager.cnt /\ failed.mode = manager.mode
      /\ failed.status[p] = "failure"
  BY StatusSet DEF Status
<1>3. unknow \in ManagerType /\ unknow.cnt = manager.cnt /\ unknow.mode = manager.mode
      /\ unknow.status[p] = "unknow"
  <2>1. failed.status = [manager.status EXCEPT ![p] = "failure"]
    BY Typed DEF ManagerType
  <2>2. unknow = [manager EXCEPT !.status[p] = "unknow"]
    BY Typed, <2>1 DEF ManagerType
  <2> QED
    BY <2>2, StatusSet DEF Status
<1> DEFINE again(m) == [failed EXCEPT !.cnt = @ + 1, !.mode = m]
           begun    == [failed EXCEPT !.mode = "reconnecting"]
<1> HIDE DEF failed, unknow
<1>4. CASE manager.mode = "openreconnecting" /\ armed' = FALSE /\ Finish(failed, p, plf, <<>>)
  BY <1>1, <1>2, <1>4
<1>5. CASE /\ manager.mode = "reconnecting" /\ armed' = Retries(manager)
           /\ Finish(again(IF Retries(manager) THEN failed.mode ELSE "null"), p, plf, <<>>)
  <2> DEFINE m == IF Retries(manager) THEN failed.mode ELSE "null"
  <2>1. m \in Mode /\ m # "openreconnecting"
        /\ m = IF manager.cnt + 1 < RETRY_LIMIT_CNT THEN "reconnecting" ELSE "null"
    BY <1>2, <1>5 DEF Mode, Retries
  <2> HIDE DEF m
  <2>2. /\ again(m) \in ManagerType /\ again(m).cnt = manager.cnt + 1 /\ again(m).mode = m
        /\ again(m).status[p] = "failure"
    <3>1. failed.cnt + 1 = manager.cnt + 1 /\ manager.cnt + 1 \in Nat
      BY <1>2, Typed
    <3>2. again(m) = [failed EXCEPT !.cnt = manager.cnt + 1, !.mode = m]
      BY <3>1
    <3> HIDE DEF again
    <3> QED
      BY <1>2, <2>1, <3>1, <3>2 DEF ManagerType
  <2>3. Finish(again(m), p, plf, <<>>)
    BY <1>5 DEF m
  <2> HIDE DEF again
  <2>4. manager' \in ManagerType /\ manager'.cnt = manager.cnt + 1 /\ mail' = mail
        /\ manager'.mode = m
    BY <1>1, <2>1, <2>2, <2>3
  <2>5. \/ armed' = TRUE /\ (manager.cnt + 1 < RETRY_LIMIT_CNT)
        \/ armed' = FALSE /\ ~(manager.cnt + 1 < RETRY_LIMIT_CNT)
    <3> DEFINE more == manager.cnt + 1 < RETRY_LIMIT_CNT
    <3>1. armed' = more
      BY <1>5, Zenon DEF Retries
    <3>2. more \in BOOLEAN
      BY Typed, RetryAssumption
    <3> HIDE DEF more
    <3>3. (armed' = TRUE /\ more) \/ (armed' = FALSE /\ ~more)
      BY <3>1, <3>2, Zenon
    <3> QED
      BY <3>3 DEF more
  <2>6. manager.mode = "reconnecting"
    BY <1>5
  <2>7. CASE armed' = TRUE /\ (manager.cnt + 1 < RETRY_LIMIT_CNT)
    BY <2>1, <2>4, <2>6, <2>7
  <2>8. CASE armed' = FALSE /\ ~(manager.cnt + 1 < RETRY_LIMIT_CNT)
    BY <2>1, <2>4, <2>6, <2>8
  <2> QED
    BY <2>5, <2>7, <2>8
<1>6. CASE /\ manager.mode = "null" /\ armed' = Begins(p, lost, plf)
           /\ Finish(IF Begins(p, lost, plf) THEN begun ELSE unknow, p, plf, <<>>)
  <2>1. begun \in ManagerType /\ begun.cnt = manager.cnt /\ begun.mode = "reconnecting"
        /\ begun.status[p] = "failure"
    BY <1>2 DEF ManagerType, Mode
  <2> HIDE DEF begun
  <2>2. Begins(p, lost, plf) \in BOOLEAN
    BY Zenon DEF Begins
  <2>3. CASE Begins(p, lost, plf)
    <3>1. armed' = TRUE /\ Finish(begun, p, plf, <<>>)
      BY <1>6, <2>2, <2>3, Zenon
    <3> QED
      BY <1>1, <1>6, <2>1, <3>1
  <2>4. CASE ~Begins(p, lost, plf)
    <3>1. armed' = FALSE /\ Finish(unknow, p, plf, <<>>)
      BY <1>6, <2>2, <2>4, Zenon
    <3> QED
      BY <1>1, <1>3, <1>6, <3>1
  <2> QED
    BY <2>3, <2>4
<1> QED
  BY <1>4, <1>5, <1>6 DEF Closed, failed, unknow

\* One that reports a connection stops the timer, forgets the retries and asks for
\* one profile at most.
LEMMA OpenedFields ==
  ASSUME TypeOK, NEW p \in Profile, Opened(p)
  PROVE  /\ manager' \in ManagerType /\ manager'.cnt = 0
         /\ armed' = FALSE /\ act' \in [Profile -> BOOLEAN]
         /\ mail' \in Seq(Profile) /\ Len(mail') <= Len(mail) + 1
         /\ manager.mode = "null" => mail' = mail
<1> DEFINE plf  == IF p = "A2DP" THEN [act EXCEPT !["A2DP"] = TRUE] ELSE act
           good == [manager EXCEPT !.status[p] = "success"]
           g    == [manager EXCEPT !.status[p] = "success", !.cnt = 0]
           next == g.mode = "reconnecting" /\ plf[Other(p)] /\ g.status[Other(p)] # "success"
           requests == IF next THEN <<Other(p)>> ELSE <<>>
<1>1. plf \in [Profile -> BOOLEAN]
  BY Typed
<1>2. act' = plf /\ armed' = FALSE /\ Finish(g, p, plf, requests)
  BY Zenon DEF Opened
<1>3. good \in ManagerType /\ good.status[p] = "success"
  BY StatusSet DEF Status
<1>4. g = [good EXCEPT !.cnt = 0]
  BY Typed DEF ManagerType
<1>5. g \in ManagerType /\ g.cnt = 0
  BY <1>3, <1>4 DEF ManagerType
<1>6. g.mode = "reconnecting" => ~Continues(g, p, plf)
  BY Zenon DEF Continues
<1>7. ~next => requests = <<>>
  OBVIOUS
<1>8. next => g.mode = "reconnecting"
  OBVIOUS
<1>9. requests = <<Other(p)>> \/ requests = <<>>
  OBVIOUS
<1> DEFINE more == IF Continues(g, p, plf) THEN <<Other(p)>> ELSE <<>>
<1>10. (requests = <<>> /\ more \in {<<>>, <<Other(p)>>}) \/ (more = <<>> /\ requests = <<Other(p)>>)
  BY <1>6, <1>7, <1>8, <1>9
<1>11. manager' \in ManagerType /\ manager'.cnt = g.cnt /\ mail' = mail \o requests \o more
  BY <1>2, <1>5, FinishFields
<1>14. manager.mode = "null" => requests = <<>> /\ more = <<>>
  <2>1. g.mode = manager.mode
    BY <1>4, Typed DEF ManagerType
  <2>2. manager.mode = "null" => g.mode # "openreconnecting" /\ g.mode # "reconnecting"
    BY <2>1
  <2>3. g.mode # "openreconnecting" => ~Continues(g, p, plf)
    BY Zenon DEF Continues
  <2>4. requests = <<>> \/ g.mode = "reconnecting"
    BY <1>7, <1>8
  <2>5. more = <<>> \/ Continues(g, p, plf)
    BY Zenon
  <2> QED
    BY <2>2, <2>3, <2>4, <2>5, Zenon
<1> HIDE DEF requests, more, g, plf
<1>15. manager.mode = "null" => mail' = mail
  BY <1>11, <1>14, NoRequest, Typed
<1>12. mail' = mail \/ mail' = mail \o <<Other(p)>>
  <2>1. mail \o <<Other(p)>> \in Seq(Profile)
    BY Typed, OneRequest, Appending
  <2> QED
    BY <1>10, <1>11, <2>1, NoRequest, Typed
<1>13. mail' \in Seq(Profile) /\ Len(mail') <= Len(mail) + 1
  BY <1>12, OneRequest, Appending, Typed
<1> QED
  BY <1>1, <1>2, <1>5, <1>11, <1>13, <1>15

----------------------------------------------------------------------------
(* The invariant. *)

Channel == {"closed", "opening", "open", "lost"}

LEMMA Num01 == ASSUME NEW b PROVE Num(b) = 0 \/ Num(b) = 1
BY DEF Num

LEMMA ChannelCounts ==
  ASSUME NEW c
  PROVE  NotClosed(c) \in 0..2 /\ Unanswered(c) \in 0..2
BY Num01 DEF NotClosed, Unanswered

LEMMA Counts ==
  ASSUME TypeOK
  PROVE  /\ Pending \in Nat /\ Counted \in Nat /\ Counted < RETRY_LIMIT_CNT
         /\ NotClosed(chan) \in Nat /\ Unanswered(chan) \in Nat
<1>1. /\ Num(due) \in Nat /\ Num(armed) \in Nat
      /\ NotClosed(chan) \in Nat /\ Unanswered(chan) \in Nat
  BY Num01, ChannelCounts
<1>2. Counted \in Nat /\ Counted < RETRY_LIMIT_CNT
  BY Typed, RetryAssumption DEF Counted
<1> QED
  BY <1>1, <1>2, Typed DEF Pending

\* What a step has to leave behind.
LEMMA InvFrom ==
  ASSUME TypeOK, phone' \in Phones, inRange' \in BOOLEAN, act' \in [Profile -> BOOLEAN],
         manager' \in ManagerType, armed' \in BOOLEAN, due' \in BOOLEAN,
         mail' \in Seq(Profile), Len(mail') <= MAILBOX_MAX,
         chan' \in [Profile -> Channel], pages' \in Nat,
         CountInv', PagesInv', TimerForRetries'
  PROVE  IInv'
<1>1. manager'.cnt \in Nat /\ RETRY_LIMIT_CNT \in Nat /\ MAILBOX_MAX \in Nat
  BY RetryAssumption DEF ManagerType
<1>2. Pending' \in Nat
  <2>1. Num(due') \in Nat /\ Num(armed') \in Nat /\ NotClosed(chan') \in Nat
    BY Num01, ChannelCounts
  <2>2. Len(mail') \in Nat
    BY LenProperties
  <2> QED
    BY <2>1, <2>2 DEF Pending
<1>3. manager'.cnt <= RETRY_LIMIT_CNT + MAILBOX_MAX + 1
  BY <1>1, <1>2 DEF CountInv, Limit
<1>4. manager' \in [mode : Mode, cnt : 0..RETRY_LIMIT_CNT + MAILBOX_MAX + 1,
                    status : [Profile -> Status], has_connected : BOOLEAN]
  BY <1>1, <1>3 DEF ManagerType
<1> QED
  BY <1>4 DEF IInv, TypeOK, Channel

LEMMA InvInit == Init => IInv
<1> SUFFICES ASSUME Init PROVE IInv
  OBVIOUS
<1>1. act \in [Profile -> BOOLEAN]
  BY PhoneAssumption DEF Init
<1>2. mail \in Seq(Profile) /\ Len(mail) <= 1
  BY OneChoice DEF Init
<1>3. /\ manager.mode # "reconnecting" /\ manager.cnt = 0
      /\ manager \in [mode : Mode, cnt : 0..RETRY_LIMIT_CNT + MAILBOX_MAX + 1,
                      status : [Profile -> Status], has_connected : BOOLEAN]
  <2> DEFINE m == IF \E p \in Profile : act[p] THEN "openreconnecting" ELSE "null"
  <2>1. m \in Mode /\ m # "reconnecting"
    BY DEF Mode
  <2>2. manager = [mode |-> m, cnt |-> 0, status |-> [p \in Profile |-> "unknow"],
                   has_connected |-> FALSE]
    BY Zenon DEF Init
  <2> HIDE DEF m
  <2> QED
    BY <2>1, <2>2, RetryAssumption DEF Status
<1>4. /\ phone \in Phones /\ inRange \in BOOLEAN /\ armed = FALSE /\ due = FALSE
      /\ chan = [p \in Profile |-> "closed"] /\ pages = 0
  BY Zenon DEF Init
<1>5. TypeOK
  <2>1. Len(mail) <= MAILBOX_MAX
    BY <1>2, LenProperties, RetryAssumption
  <2>2. chan \in [Profile -> {"closed", "opening", "open", "lost"}] /\ pages \in Nat
    BY <1>4
  <2> QED
    BY <1>1, <1>2, <1>3, <1>4, <2>1, <2>2, Zenon DEF TypeOK
<1> QED
  BY <1>3, <1>4, <1>5, RetryAssumption DEF IInv, CountInv, PagesInv, TimerForRetries

LEMMA ExpiresInv == ASSUME IInv, TimerExpires PROVE IInv'
<1>1. TypeOK
  BY DEF IInv
<1>2. Pending' = Pending /\ Counted' = Counted /\ Unanswered(chan') = Unanswered(chan)
  <2>1. Num(due) = 0 /\ Num(armed) = 1 /\ Num(due') = 1 /\ Num(armed') = 0
    BY DEF TimerExpires, Num
  <2>2. UNCHANGED <<manager, mail, chan>>
    BY DEF TimerExpires
  <2> QED
    BY <1>1, <2>1, <2>2, Typed, ChannelCounts DEF Pending, Counted
<1>3. CountInv' /\ PagesInv' /\ TimerForRetries'
  BY <1>2 DEF TimerExpires, IInv, CountInv, PagesInv, TimerForRetries, Limit
<1> QED
  BY <1>1, <1>3, Typed, InvFrom DEF TimerExpires, TypeOK, Channel

LEMMA HandlerInv == ASSUME IInv, TimerHandler PROVE IInv'
<1>1. TypeOK /\ UNCHANGED <<phone, inRange, act, manager, armed, chan, pages>>
  BY DEF IInv, TimerHandler
<1>2. mail' \in Seq(Profile) /\ Len(mail') <= Len(mail) + 1
  <2>1. mail' = mail \o FirstChoice(act)
    BY DEF TimerHandler
  <2> QED
    BY <1>1, <2>1, OneChoice, Appending, Typed, LenProperties
<1>3. Pending' <= Pending /\ Pending' \in Int /\ Counted' = Counted
  <2>1. Num(due) = 1 /\ Num(due') = 0
    BY DEF TimerHandler, Num
  <2>2. Len(mail') \in Nat /\ Len(mail) \in Nat
    BY <1>1, <1>2, LenProperties, Typed
  <2>3. Num(armed') = Num(armed) /\ Num(armed) \in Nat /\ NotClosed(chan') = NotClosed(chan)
    BY <1>1, Num01
  <2>4. NotClosed(chan) \in Nat
    BY ChannelCounts
  <2> QED
    BY <1>1, <1>2, <2>1, <2>2, <2>3, <2>4 DEF Pending, Counted
<1>4. CountInv' /\ PagesInv' /\ TimerForRetries'
  BY <1>1, <1>3, Counts, Typed, RetryAssumption DEF IInv, CountInv, PagesInv, TimerForRetries, Limit
<1>5. Len(mail') <= MAILBOX_MAX
  BY <1>1, <1>2, Typed, LenProperties, RetryAssumption DEF TimerHandler
<1> QED
  BY <1>1, <1>2, <1>4, <1>5, Typed, InvFrom DEF TimerHandler, TypeOK, Channel

LEMMA ChannelOpens ==
  ASSUME NEW c \in [Profile -> Channel], NEW p \in Profile, c[p] = "closed",
         NEW d, d = [c EXCEPT ![p] = "opening"]
  PROVE  /\ d \in [Profile -> Channel]
         /\ NotClosed(d) = NotClosed(c) + 1 /\ Unanswered(d) = Unanswered(c) + 1
<1>1. d \in [Profile -> Channel]
  BY DEF Channel
<1>2. CASE p = "HF"
  <2>1. d["HF"] = "opening" /\ c["HF"] = "closed" /\ d["A2DP"] = c["A2DP"]
    BY <1>2 DEF Profile
  <2> QED
    BY <1>1, <2>1 DEF NotClosed, Unanswered, Num
<1>3. CASE p = "A2DP"
  <2>1. d["A2DP"] = "opening" /\ c["A2DP"] = "closed" /\ d["HF"] = c["HF"]
    BY <1>3 DEF Profile
  <2> QED
    BY <1>1, <2>1 DEF NotClosed, Unanswered, Num
<1> QED
  BY <1>2, <1>3 DEF Profile

LEMMA ChannelCloses ==
  ASSUME NEW c \in [Profile -> Channel], NEW p \in Profile, c[p] # "closed",
         NEW d, d = [c EXCEPT ![p] = "closed"]
  PROVE  /\ d \in [Profile -> Channel]
         /\ NotClosed(d) = NotClosed(c) - 1
         /\ Unanswered(d) <= Unanswered(c) /\ Unanswered(c) <= Unanswered(d) + 1
<1>1. d \in [Profile -> Channel]
  BY DEF Channel
<1>2. CASE p = "HF"
  <2>1. d["HF"] = "closed" /\ c["HF"] # "closed" /\ d["A2DP"] = c["A2DP"]
    BY <1>2 DEF Profile
  <2> QED
    BY <1>1, <2>1 DEF NotClosed, Unanswered, Num
<1>3. CASE p = "A2DP"
  <2>1. d["A2DP"] = "closed" /\ c["A2DP"] # "closed" /\ d["HF"] = c["HF"]
    BY <1>3 DEF Profile
  <2> QED
    BY <1>1, <2>1 DEF NotClosed, Unanswered, Num
<1> QED
  BY <1>2, <1>3 DEF Profile

LEMMA PollInv == ASSUME IInv, MailPoll PROVE IInv'
<1>1. TypeOK /\ UNCHANGED <<phone, inRange, act, manager, armed, due>>
  BY DEF IInv, MailPoll
<1> DEFINE h == Head(mail)
<1>2. h \in Profile /\ mail' \in Seq(Profile) /\ Len(mail') = Len(mail) - 1
  BY <1>1, Typed, HeadTailProperties DEF MailPoll
<1>3. \/ /\ chan[h] = "closed" /\ chan' = [chan EXCEPT ![h] = "opening"]
         /\ pages' = IF manager.mode = "reconnecting" THEN pages + 1 ELSE pages
      \/ UNCHANGED <<chan, pages>>
  BY Zenon DEF MailPoll
<1> HIDE DEF h
<1>4. Len(mail') \in Nat /\ Len(mail') <= MAILBOX_MAX /\ Len(mail) \in Nat
  BY <1>1, <1>2, LenProperties, RetryAssumption DEF TypeOK
<1>5. Num(due') \in Nat /\ Num(armed') \in Nat
  BY Num01
<1>6. CASE UNCHANGED <<chan, pages>>
  <2>1. Pending' <= Pending /\ Pending' \in Int /\ Counted' = Counted
        /\ Unanswered(chan') = Unanswered(chan)
    BY <1>1, <1>2, <1>4, <1>5, <1>6, ChannelCounts DEF Pending, Counted
  <2>2. CountInv' /\ PagesInv' /\ TimerForRetries'
    BY <1>1, <1>6, <2>1, Counts, Typed, RetryAssumption
    DEF IInv, CountInv, PagesInv, TimerForRetries, Limit
  <2> QED
    BY <1>1, <1>2, <1>4, <1>6, <2>2, Typed, InvFrom DEF TypeOK, Channel
<1>7. CASE /\ chan[h] = "closed" /\ chan' = [chan EXCEPT ![h] = "opening"]
           /\ pages' = IF manager.mode = "reconnecting" THEN pages + 1 ELSE pages
  <2>1. /\ chan' \in [Profile -> Channel]
        /\ NotClosed(chan') = NotClosed(chan) + 1 /\ Unanswered(chan') = Unanswered(chan) + 1
    <3>1. chan \in [Profile -> Channel]
      BY <1>1 DEF TypeOK, Channel
    <3> QED
      BY <1>2, <1>7, <3>1, ChannelOpens
  <2>2. Pending' = Pending /\ Counted' = Counted
    <3>1. NotClosed(chan) \in Nat
      BY ChannelCounts
    <3>2. Num(due') = Num(due) /\ Num(armed') = Num(armed)
      BY <1>1
    <3> QED
      BY <1>1, <1>2, <1>4, <1>5, <2>1, <3>1, <3>2 DEF Pending, Counted
  <2>3. pages \in Nat /\ pages' \in Nat
    BY <1>1, <1>7 DEF TypeOK
  <2>4. CountInv' /\ PagesInv' /\ TimerForRetries'
    BY <1>1, <1>7, <2>1, <2>2, <2>3, Counts, Typed, RetryAssumption
    DEF IInv, CountInv, PagesInv, TimerForRetries, Limit
  <2> QED
    BY <1>1, <1>2, <1>4, <2>1, <2>3, <2>4, Typed, InvFrom DEF TypeOK
<1> QED
  BY <1>3, <1>6, <1>7

LEMMA LinkInv == ASSUME IInv, LinkLost \/ ComesBack PROVE IInv'
<1>1. TypeOK /\ UNCHANGED <<phone, act, manager, armed, due, mail, pages>> /\ inRange' \in BOOLEAN
  BY Zenon DEF IInv, LinkLost, ComesBack
<1>2. /\ chan' \in [Profile -> Channel]
      /\ NotClosed(chan') = NotClosed(chan) /\ Unanswered(chan') >= Unanswered(chan)
  <2>1. CASE UNCHANGED chan
    BY <1>1, <2>1, ChannelCounts DEF TypeOK, Channel
  <2>2. CASE LinkLost
    <3>1. PICK paging \in SUBSET {p \in Profile : chan[p] = "opening"} :
            chan' = [p \in Profile |-> IF chan[p] # "closed" /\ p \notin paging
                                         THEN "lost" ELSE chan[p]]
      BY <2>2 DEF LinkLost
    <3>2. \A p \in Profile : /\ chan'[p] \in Channel
                             /\ chan'[p] = "closed" <=> chan[p] = "closed"
                             /\ chan[p] \in {"opening", "lost"} => chan'[p] \in {"opening", "lost"}
      BY <1>1, <3>1 DEF TypeOK, Channel
    <3>3. chan' \in [Profile -> Channel]
      BY <3>1, <3>2
    <3>4. "HF" \in Profile /\ "A2DP" \in Profile
      BY DEF Profile
    <3> QED
      BY <3>2, <3>3, <3>4 DEF NotClosed, Unanswered, Num
  <2> QED
    BY <2>1, <2>2 DEF ComesBack
<1>3. Pending' = Pending /\ Counted' = Counted
  BY <1>1, <1>2 DEF Pending, Counted
<1>4. CountInv' /\ TimerForRetries'
  BY <1>1, <1>3 DEF IInv, CountInv, TimerForRetries, Limit
<1>5. PagesInv'
  <2>1. Counted \in Nat /\ Unanswered(chan) \in Nat /\ Unanswered(chan') \in Nat
    BY <1>1, <1>2, Counts, ChannelCounts DEF TypeOK
  <2>2. pages \in Nat /\ pages' = pages /\ manager' = manager
    BY <1>1 DEF TypeOK
  <2> QED
    BY <1>2, <1>3, <2>1, <2>2 DEF IInv, PagesInv
<1> QED
  BY <1>1, <1>2, <1>4, <1>5, Typed, InvFrom DEF TypeOK

LEMMA OpensInv == ASSUME IInv, NEW p \in Profile, ProfileOpens(p) PROVE IInv'
<1>1. TypeOK /\ UNCHANGED <<phone, due, inRange>> /\ pages' = 0 /\ Opened(p)
      /\ Len(mail) < MAILBOX_MAX /\ chan' = [chan EXCEPT ![p] = "open"]
  BY Zenon DEF IInv, ProfileOpens, Room, ChanBecomes
<1>2. /\ manager' \in ManagerType /\ manager'.cnt = 0
      /\ armed' = FALSE /\ act' \in [Profile -> BOOLEAN]
      /\ mail' \in Seq(Profile) /\ Len(mail') <= Len(mail) + 1
  BY <1>1, OpenedFields
<1>3. Len(mail') <= MAILBOX_MAX
  BY <1>1, <1>2, Typed, LenProperties, RetryAssumption
<1>4. chan' \in [Profile -> Channel]
  BY <1>1 DEF TypeOK, Channel
<1>5. CountInv' /\ PagesInv' /\ TimerForRetries'
  BY <1>1, <1>2, ChannelCounts, RetryAssumption DEF CountInv, PagesInv, TimerForRetries, Counted
<1> QED
  BY <1>1, <1>2, <1>3, <1>4, <1>5, InvFrom DEF TypeOK

LEMMA ClosesInv ==
  ASSUME IInv, NEW p \in Profile, NEW lost \in BOOLEAN, chan[p] # "closed", Closes(p, lost)
  PROVE  IInv'
<1>1. TypeOK /\ UNCHANGED <<phone, due, inRange, act>> /\ Closed(p, lost, act)
      /\ Len(mail) < MAILBOX_MAX /\ chan' = [chan EXCEPT ![p] = "closed"]
      /\ pages' = IF manager'.mode = "reconnecting" THEN pages ELSE 0
  BY Zenon DEF IInv, Closes, Room, ChanBecomes
<1>2. /\ manager' \in ManagerType /\ armed' \in BOOLEAN /\ mail' = mail
      /\ \/ /\ manager.mode = "openreconnecting" /\ manager'.mode # "reconnecting"
            /\ manager'.cnt = manager.cnt /\ armed' = FALSE
         \/ /\ manager.mode = "reconnecting" /\ manager'.cnt = manager.cnt + 1
            /\ IF manager.cnt + 1 < RETRY_LIMIT_CNT
                 THEN armed' = TRUE /\ manager'.mode = "reconnecting"
                 ELSE armed' = FALSE /\ manager'.mode = "null"
         \/ /\ manager.mode = "null" /\ manager'.cnt = manager.cnt
            /\ armed' = TRUE => manager'.mode = "reconnecting"
  BY <1>1, Typed, ClosedFields
<1>3. /\ chan' \in [Profile -> Channel]
      /\ NotClosed(chan') = NotClosed(chan) - 1
      /\ Unanswered(chan) <= Unanswered(chan') + 1 /\ Unanswered(chan') <= Unanswered(chan)
  <2>1. chan \in [Profile -> Channel]
    BY <1>1 DEF TypeOK, Channel
  <2> QED
    BY <1>1, <2>1, ChannelCloses
<1>4. pages \in Nat /\ pages' \in Nat
  BY <1>1 DEF TypeOK
<1>5. PagesInv' /\ TimerForRetries'
  BY <1>1, <1>2, <1>3, <1>4, ChannelCounts, Typed, RetryAssumption
  DEF IInv, PagesInv, TimerForRetries, Counted
<1>6. CountInv'
  <2>1. CASE manager'.cnt < RETRY_LIMIT_CNT
    BY <2>1 DEF CountInv
  <2>2. CASE ~(manager'.cnt < RETRY_LIMIT_CNT)
    <3> DEFINE others == Len(mail) + Num(due) + NotClosed(chan')
    <3>1. Num(due) \in 0..1 /\ Num(armed) \in 0..1 /\ Num(armed') \in 0..1
      BY Num01
    <3>2. /\ others \in Nat /\ others <= MAILBOX_MAX + 1
          /\ Pending' = others + Num(armed') /\ Pending = others + 1 + Num(armed)
      <4>1. UNCHANGED <<due, mail>> /\ Len(mail) \in Nat /\ MAILBOX_MAX \in Nat
        BY <1>1, <1>2, Typed, RetryAssumption
      <4>2. Len(mail) < MAILBOX_MAX
        BY <1>1
      <4>3. NotClosed(chan') \in 0..2 /\ NotClosed(chan) \in 0..2
        BY ChannelCounts
      <4>4. NotClosed(chan') = NotClosed(chan) - 1
        BY <1>3
      <4> QED
        BY <3>1, <4>1, <4>2, <4>3, <4>4 DEF Pending
    <3> HIDE DEF others
    <3>3. armed' = FALSE => Num(armed') = 0
      BY DEF Num
    <3>4. manager.cnt \in Nat /\ RETRY_LIMIT_CNT \in Nat /\ MAILBOX_MAX \in Nat
      BY <1>1, Typed, RetryAssumption
    <3>5. CASE manager.cnt < RETRY_LIMIT_CNT
      <4>1. manager'.cnt = RETRY_LIMIT_CNT /\ armed' = FALSE
        BY <1>2, <2>2, <3>4, <3>5
      <4> QED
        BY <3>2, <3>3, <3>4, <4>1 DEF CountInv, Limit
    <3>6. CASE ~(manager.cnt < RETRY_LIMIT_CNT)
      <4>1. manager.cnt + others + 1 + Num(armed) <= Limit
        BY <3>1, <3>2, <3>4, <3>6 DEF IInv, CountInv, Limit
      <4>2. \/ manager'.cnt = manager.cnt
            \/ manager'.cnt = manager.cnt + 1 /\ armed' = FALSE
        BY <1>2, <2>2, <3>4
      <4> QED
        BY <3>1, <3>2, <3>3, <3>4, <4>1, <4>2 DEF CountInv, Limit
    <3> QED
      BY <3>5, <3>6
  <2> QED
    BY <2>1, <2>2
<1> QED
  BY <1>1, <1>2, <1>3, <1>4, <1>5, <1>6, Typed, InvFrom DEF TypeOK

LEMMA InvStep == IInv /\ [Next]_vars => IInv'
<1> SUFFICES ASSUME IInv, [Next]_vars PROVE IInv'
  OBVIOUS
<1>1. CASE UNCHANGED vars
  BY <1>1 DEF vars, IInv, TypeOK, CountInv, PagesInv, TimerForRetries, Pending, Counted
<1>2. ASSUME NEW p \in Profile, AttemptFails(p) \/ PhoneCloses(p) \/ ProfileLost(p)
      PROVE  IInv'
  <2>1. \E lost \in BOOLEAN : chan[p] # "closed" /\ Closes(p, lost)
    BY <1>2 DEF AttemptFails, PhoneCloses, ProfileLost
  <2> QED
    BY <2>1, ClosesInv
<1> QED
  BY <1>1, <1>2, ExpiresInv, HandlerInv, PollInv, LinkInv, OpensInv, Zenon DEF Next

LEMMA Inductive == Spec => []IInv
BY InvInit, InvStep, PTL DEF Spec

----------------------------------------------------------------------------
\* Every state has its types; with it, that the counter of failed retries goes past
\* its limit at most by the requests that may wait and one.
THEOREM TypeCorrect == Spec => []TypeOK
BY Inductive, PTL DEF IInv

LEMMA PagesFollow == IInv => PagesBounded
<1> SUFFICES ASSUME IInv PROVE PagesBounded
  OBVIOUS
<1>1. TypeOK /\ pages \in Nat /\ RETRY_LIMIT_CNT \in Nat
  BY RetryAssumption DEF IInv, TypeOK
<1>2. Counted + Unanswered(chan) <= RETRY_LIMIT_CNT + 1
  BY <1>1, Counts, ChannelCounts
<1> QED
  BY <1>1, <1>2, Counts DEF IInv, PagesInv, PagesBounded

\* A phone that does not come back is paged at most once more than the limit in one
\* reconnection, however its two profiles fail, connect and are lost.
THEOREM PagesAlwaysBounded == Spec => []PagesBounded
BY Inductive, PagesFollow, PTL

LEMMA AskedIs == Asked = Len(mail) + Num(due) /\ Asked' = Len(mail') + Num(due')
BY DEF Asked, Num

LEMMA NothingNew == ASSUME IInv, [Next]_vars, manager.mode = "null" PROVE Asked' <= Asked
<1>1. TypeOK /\ armed # TRUE /\ mail \in Seq(Profile) /\ Len(mail) \in Nat
  BY Typed DEF IInv, TimerForRetries
<1>2. Num(due) \in Nat /\ Asked = Len(mail) + Num(due) /\ Asked' = Len(mail') + Num(due')
  BY Num01, AskedIs
<1>3. CASE UNCHANGED <<mail, due>>
  BY <1>1, <1>2, <1>3
<1>4. CASE TimerHandler
  <2>1. Num(due) = 1 /\ Num(due') = 0 /\ mail' = mail \o FirstChoice(act)
    BY <1>4 DEF TimerHandler, Num
  <2>2. Len(mail') <= Len(mail) + 1 /\ Len(mail') \in Nat
    BY <1>1, <2>1, OneChoice, Appending, LenProperties
  <2> QED
    BY <1>1, <1>2, <2>1, <2>2
<1>5. CASE MailPoll
  <2>1. mail # <<>> /\ mail' = Tail(mail) /\ due' = due
    BY <1>5 DEF MailPoll
  <2> QED
    BY <1>1, <1>2, <2>1, HeadTailProperties
<1>6. ASSUME NEW p \in Profile, ProfileOpens(p) PROVE UNCHANGED <<mail, due>>
  <2>1. Opened(p) /\ due' = due
    BY <1>6 DEF ProfileOpens
  <2> QED
    BY <1>1, <2>1, OpenedFields
<1>7. ASSUME NEW p \in Profile, NEW lost \in BOOLEAN, Closes(p, lost) PROVE UNCHANGED <<mail, due>>
  <2>1. Closed(p, lost, act) /\ due' = due
    BY <1>7 DEF Closes
  <2> QED
    BY <1>1, <2>1, Typed, ClosedFields
<1>8. ASSUME NEW p \in Profile, AttemptFails(p) \/ PhoneCloses(p) \/ ProfileLost(p)
      PROVE  UNCHANGED <<mail, due>>
  BY <1>7, <1>8 DEF AttemptFails, PhoneCloses, ProfileLost
<1>9. LinkLost \/ ComesBack \/ UNCHANGED vars => UNCHANGED <<mail, due>>
  BY Zenon DEF LinkLost, ComesBack, vars
<1>10. ~TimerExpires
  BY <1>1 DEF TimerExpires
<1> QED
  BY <1>3, <1>4, <1>5, <1>6, <1>8, <1>9, <1>10, Zenon DEF Next

\* Once a reconnection is over, nothing asks for the phone again: neither the timer
\* nor a callback.  What was asked before the end may still be served after it.
THEOREM NothingNewIsAsked == Spec => NothingNewAsked
<1>1. IInv /\ [Next]_vars => [manager.mode = "null" => Asked' <= Asked]_vars
  BY NothingNew
<1> QED
  BY <1>1, Inductive, PTL DEF Spec, NothingNewAsked
=============================================================================
