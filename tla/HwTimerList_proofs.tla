-------------------------- MODULE HwTimerList_proofs --------------------------
(***************************************************************************)
(* The timer list, for any number of timers, any intervals, any lateness   *)
(* of the interrupt and any load delta.                                    *)
(*                                                                         *)
(* That the times stay natural numbers needs what the searches through the *)
(* list return: the place found is the last one whose sum of times is in   *)
(* reach, so what is taken off the timer behind it is at most its time.    *)
(* That the counter is the head's needs the sum of what the hardware timer *)
(* has left and what is over (CounterInv), and that a timer is in the list *)
(* its state names needs to know that nothing is fired unless a callback   *)
(* runs (HandlerInv).                                                      *)
(***************************************************************************)
EXTENDS HwTimerList, ListLemmas

HandlerInv ==
  /\ handler = "callback" <=> running # NoTimer
  /\ handler # "callback" => fired = <<>>

CounterInv ==
  /\ hw.on <=> active # <<>>
  /\ active # <<>> =>
       /\ hw.left <= time[Head(active)] \/ hw.left <= Delta
       /\ hw.left + hw.since + Delta >= time[Head(active)]

IInv == TypeOK /\ ListsMatchStates /\ HandlerInv /\ CounterInv

----------------------------------------------------------------------------
(* Sums of times. *)

Timed == time \in [Timer -> Nat]

\* The sums of the times of the first timers of a list, up to the m-th.
Sums(list, m) ==
  {f \in [0..m -> Nat] : f[0] = 0 /\ \A i \in 1..m : f[i] = f[i - 1] + time[list[i]]}

LEMMA SumsExist ==
  ASSUME Timed, NEW list \in Seq(Timer)
  PROVE  \E f : f \in Sums(list, Len(list))
<1> DEFINE Bad == {m \in 0..Len(list) : Sums(list, m) = {}}
<1>1. Len(list) \in Nat /\ \A i \in 1..Len(list) : time[list[i]] \in Nat
  BY LenProperties, ElementOfSeq DEF Timed
<1>2. Bad = {}
  <2> SUFFICES ASSUME Bad # {} PROVE FALSE
    OBVIOUS
  <2>1. Bad \in SUBSET Nat
    BY <1>1
  <2>2. PICK n \in Bad : \A m \in Bad : n <= m
    BY <2>1, LeastNatural
  <2>3. n \in 0..Len(list) /\ Sums(list, n) = {}
    BY <2>2
  <2>4. n # 0
    <3>1. [i \in 0..0 |-> 0] \in Sums(list, 0)
      BY DEF Sums
    <3> QED
      BY <2>3, <3>1
  <2>5. n - 1 \in 0..Len(list) /\ n \in 1..Len(list) /\ n - 1 \notin Bad
    <3>1. n - 1 \in 0..Len(list) /\ n \in 1..Len(list) /\ ~(n <= n - 1)
      BY <1>1, <2>3, <2>4
    <3> HIDE DEF Bad
    <3> QED
      BY <2>2, <3>1, Zenon
  <2>6. PICK f : f \in Sums(list, n - 1)
    BY <2>5
  <2>7. /\ f \in [0..n - 1 -> Nat] /\ f[0] = 0
        /\ \A i \in 1..n - 1 : f[i] = f[i - 1] + time[list[i]]
    BY <2>6 DEF Sums
  <2> DEFINE g == [i \in 0..n |-> IF i = n THEN f[n - 1] + time[list[n]] ELSE f[i]]
  <2>8. f[n - 1] + time[list[n]] \in Nat
    BY <1>1, <2>5, <2>7
  <2>9. \A i \in 0..n : i # n => i \in 0..n - 1 /\ f[i] \in Nat
    BY <1>1, <2>3, <2>7
  <2>10. g \in [0..n -> Nat]
    BY <2>8, <2>9
  <2>11. g[0] = 0
    BY <1>1, <2>3, <2>4, <2>7
  <2>12. ASSUME NEW i \in 1..n PROVE g[i] = g[i - 1] + time[list[i]]
    <3>1. i \in 0..n /\ i - 1 \in 0..n /\ i - 1 # n
      BY <1>1, <2>3
    <3>2. g[i - 1] = f[i - 1]
      BY <3>1
    <3>3. CASE i = n
      BY <3>1, <3>2, <3>3
    <3>4. CASE i # n
      <4>1. i \in 1..n - 1
        BY <1>1, <2>3, <3>4
      <4>2. g[i] = f[i]
        BY <3>1, <3>4
      <4> QED
        BY <2>7, <3>2, <4>1, <4>2
    <3> QED
      BY <3>3, <3>4
  <2> HIDE DEF g
  <2>13. g \in Sums(list, n)
    BY <2>10, <2>11, <2>12 DEF Sums
  <2> QED
    BY <2>3, <2>13
<1> QED
  BY <1>1, <1>2

LEMMA TimeUpToIs ==
  ASSUME Timed, NEW list \in Seq(Timer)
  PROVE  /\ TimeUpTo(list, 0) = 0
         /\ \A n \in 0..Len(list) : TimeUpTo(list, n) \in Nat
         /\ \A n \in 1..Len(list) :
              TimeUpTo(list, n) = TimeUpTo(list, n - 1) + time[list[n]]
<1> DEFINE IsSum(f) == f = [i \in 0..Len(list) |->
                              IF i = 0 THEN 0 ELSE f[i - 1] + time[list[i]]]
           sum == CHOOSE f : IsSum(f)
<1>1. Len(list) \in Nat
  BY LenProperties
<1>2. PICK g : g \in Sums(list, Len(list))
  BY SumsExist
<1>3. IsSum(g)
  <2>1. /\ g \in [0..Len(list) -> Nat] /\ g[0] = 0
        /\ \A i \in 1..Len(list) : g[i] = g[i - 1] + time[list[i]]
    BY <1>2 DEF Sums
  <2> QED
    BY <1>1, <2>1
<1>4. IsSum(sum)
  BY <1>3, Zenon
<1>5. \A n : TimeUpTo(list, n) = sum[n]
  BY Zenon DEF TimeUpTo
<1> HIDE DEF sum
<1>6. sum[0] = 0 /\ \A n \in 1..Len(list) : sum[n] = sum[n - 1] + time[list[n]]
  BY <1>1, <1>4
<1>7. \A n \in 0..Len(list) : sum[n] \in Nat
  <2> DEFINE Bad == {n \in 0..Len(list) : sum[n] \notin Nat}
  <2> SUFFICES ASSUME Bad # {} PROVE FALSE
    OBVIOUS
  <2>1. Bad \in SUBSET Nat
    BY <1>1
  <2>2. PICK n \in Bad : \A m \in Bad : n <= m
    BY <2>1, LeastNatural
  <2>3. n \in 1..Len(list) /\ n - 1 \in 0..Len(list) /\ n - 1 \notin Bad
    BY <1>1, <1>6, <2>2
  <2>4. sum[n - 1] \in Nat /\ time[list[n]] \in Nat
    BY <2>3, ElementOfSeq DEF Timed
  <2> QED
    BY <1>6, <2>2, <2>3, <2>4
<1> QED
  BY <1>5, <1>6, <1>7

\* The timers due within t ticks: the next one takes longer.
LEMMA DueWithinIs ==
  ASSUME Timed, NEW list \in Seq(Timer), NEW t \in Nat
  PROVE  LET n == DueWithin(list, t) IN
         /\ n \in 0..Len(list) /\ TimeUpTo(list, n) <= t
         /\ n < Len(list) => t - TimeUpTo(list, n) < time[list[n + 1]]
<1> DEFINE N == {n \in 0..Len(list) : TimeUpTo(list, n) <= t}
           n == DueWithin(list, t)
<1>1. Len(list) \in Nat
  BY LenProperties
<1>2. 0 \in N /\ N \in SUBSET (0..Len(list))
  BY <1>1, TimeUpToIs
<1>3. n \in N /\ \A m \in N : m <= n
  BY <1>1, <1>2, LargestNumber DEF DueWithin
<1> HIDE DEF n
<1>4. ASSUME n < Len(list) PROVE t - TimeUpTo(list, n) < time[list[n + 1]]
  <2>1. n + 1 \in 1..Len(list) /\ n + 1 \in 0..Len(list) /\ (n + 1) - 1 = n /\ ~(n + 1 <= n)
    BY <1>1, <1>3, <1>4
  <2>2. TimeUpTo(list, n + 1) = TimeUpTo(list, n) + time[list[n + 1]]
    BY <2>1, TimeUpToIs
  <2>3. ~(TimeUpTo(list, n + 1) <= t)
    BY <1>3, <2>1
  <2>4. TimeUpTo(list, n + 1) \in Nat /\ TimeUpTo(list, n) \in Nat /\ time[list[n + 1]] \in Nat
    BY <1>3, <2>1, TimeUpToIs, ElementOfSeq DEF Timed
  <2> QED
    BY <2>2, <2>3, <2>4
<1> QED
  BY <1>3, <1>4 DEF n

\* The timers before one with t ticks left: the next one takes as long.
LEMMA DueBeforeIs ==
  ASSUME Timed, NEW list \in Seq(Timer), NEW t \in Nat
  PROVE  LET n == DueBefore(list, t) IN
         /\ n \in 0..Len(list) /\ TimeUpTo(list, n) <= t
         /\ n < Len(list) => t - TimeUpTo(list, n) <= time[list[n + 1]]
<1> DEFINE N == {0} \cup {n \in 1..Len(list) : TimeUpTo(list, n) < t}
           n == DueBefore(list, t)
<1>1. Len(list) \in Nat
  BY LenProperties
<1>2. 0 \in N /\ N \in SUBSET (0..Len(list))
  BY <1>1
<1>3. n \in N /\ \A m \in N : m <= n
  BY <1>1, <1>2, LargestNumber DEF DueBefore
<1> HIDE DEF n
<1>4. n \in 0..Len(list) /\ TimeUpTo(list, n) <= t
  <2>1. CASE n = 0
    BY <1>1, <2>1, TimeUpToIs
  <2>2. CASE n # 0
    <3>1. n \in 1..Len(list) /\ TimeUpTo(list, n) < t
      BY <1>3, <2>2
    <3>2. n \in 0..Len(list)
      BY <1>1, <3>1
    <3>3. TimeUpTo(list, n) \in Nat
      BY <3>2, TimeUpToIs
    <3> QED
      BY <3>1, <3>2, <3>3
  <2> QED
    BY <2>1, <2>2
<1>5. ASSUME n < Len(list) PROVE t - TimeUpTo(list, n) <= time[list[n + 1]]
  <2>1. n + 1 \in 1..Len(list) /\ n + 1 \in 0..Len(list) /\ (n + 1) - 1 = n /\ ~(n + 1 <= n)
    BY <1>1, <1>4, <1>5
  <2>2. TimeUpTo(list, n + 1) = TimeUpTo(list, n) + time[list[n + 1]]
    BY <2>1, TimeUpToIs
  <2>3. ~(TimeUpTo(list, n + 1) < t)
    BY <1>3, <2>1
  <2>4. TimeUpTo(list, n + 1) \in Nat /\ TimeUpTo(list, n) \in Nat /\ time[list[n + 1]] \in Nat
    BY <1>4, <2>1, TimeUpToIs, ElementOfSeq DEF Timed
  <2> QED
    BY <2>2, <2>3, <2>4
<1> QED
  BY <1>4, <1>5 DEF n

----------------------------------------------------------------------------
(* The invariant, timer by timer. *)

HwType == [on : BOOLEAN, left : Nat, since : Nat, irq : BOOLEAN]

Places ==
  /\ IsInjective(active) /\ IsInjective(fired) /\ IsInjective(free)
  /\ \A t \in Timer :
       /\ t \in ToSet(active) <=> state[t] = "ACTIVE"
       /\ t \in ToSet(fired) <=> state[t] = "FIRED"
       /\ t \in ToSet(free) \/ t \in popped <=> state[t] = "FREE"
       /\ ~(t \in ToSet(free) /\ t \in popped)
       /\ state[t] = "CALLBACK" => t = running

Parts == TypeOK /\ Places /\ HandlerInv /\ CounterInv

LEMMA InParts == IInv <=> Parts
<1> SUFFICES ASSUME TypeOK PROVE ListsMatchStates <=> Places
  BY DEF IInv, Parts
<1>1. ToSet(active) \subseteq Timer /\ ToSet(fired) \subseteq Timer /\ ToSet(free) \subseteq Timer
  BY ElementsOfList DEF TypeOK
<1>2. popped \subseteq Timer
  BY DEF TypeOK
<1> QED
  BY <1>1, <1>2 DEF ListsMatchStates, InList, Places

LEMMA Typed ==
  ASSUME Parts
  PROVE  /\ Timed /\ hw \in HwType
         /\ active \in Seq(Timer) /\ fired \in Seq(Timer) /\ free \in Seq(Timer)
         /\ IsInjective(active) /\ IsInjective(fired) /\ IsInjective(free)
         /\ ToSet(active) \subseteq Timer /\ ToSet(fired) \subseteq Timer
         /\ ToSet(free) \subseteq Timer
BY ElementsOfList DEF Parts, TypeOK, Timed, HwType, Places

\* Starting the hardware timer.
LEMMA HwStartIs ==
  ASSUME hw \in HwType, NEW load \in Nat, NEW h \in {HwStart(load), HwRestart(load)}
  PROVE  /\ h \in HwType /\ h.on = TRUE /\ h.since = 0
         /\ h.left <= load \/ h.left <= Delta
         /\ h.left + Delta >= load
<1> DEFINE left == IF load > Delta THEN load - Delta ELSE 1
<1>1. Delta \in Nat \ {0}
  BY TickAssumption
<1>2. left \in Nat /\ (left <= load \/ left <= Delta) /\ left + Delta >= load
  BY <1>1
<1>3. HwStart(load) = [hw EXCEPT !.on = TRUE, !.since = 0, !.left = left]
  BY Zenon DEF HwStart
<1> HIDE DEF left
<1>4. /\ HwStart(load) \in HwType /\ HwStart(load).on = TRUE /\ HwStart(load).since = 0
      /\ HwStart(load).left = left
  <2>1. left \in Nat /\ hw.irq \in BOOLEAN
    BY <1>2 DEF HwType
  <2>2. HwStart(load) = [on |-> TRUE, left |-> left, since |-> 0, irq |-> hw.irq]
    BY <1>3 DEF HwType
  <2> QED
    BY <2>1, <2>2 DEF HwType
<1>5. HwRestart(load) = [HwStart(load) EXCEPT !.irq = FALSE]
  BY Zenon DEF HwRestart
<1>6. /\ HwRestart(load) \in HwType /\ HwRestart(load).on = TRUE /\ HwRestart(load).since = 0
      /\ HwRestart(load).left = left
  BY <1>4, <1>5 DEF HwType
<1> QED
  BY <1>1, <1>2, <1>4, <1>6

LEMMA HwStopIs == HwStop \in HwType /\ HwStop.on = FALSE
BY DEF HwStop, HwType

\* The hardware timer as it starts for the head of a list.
LEMMA StartedCounts ==
  ASSUME hw \in HwType, NEW load \in Nat,
         hw' \in {HwStart(load), HwRestart(load)},
         active' # <<>>, time'[Head(active')] = load
  PROVE  CounterInv' /\ hw' \in HwType
<1>1. /\ hw' \in HwType /\ hw'.on = TRUE /\ hw'.since = 0
      /\ hw'.left <= load \/ hw'.left <= Delta
      /\ hw'.left + Delta >= load
  BY HwStartIs
<1>2. hw'.left \in Nat /\ Delta \in Nat
  BY <1>1, TickAssumption DEF HwType
<1> QED
  BY <1>1, <1>2 DEF CounterInv

\* A step that leaves the active list alone.
LEMMA SameCounts ==
  ASSUME Parts, UNCHANGED <<time, active, hw>>
  PROVE  CounterInv'
BY DEF Parts, CounterInv

----------------------------------------------------------------------------
(* The clients. *)

LEMMA AllocPopKeeps == ASSUME Parts, AllocPop PROVE Parts'
<1>1. /\ Tail(free) \in Seq(Timer) /\ IsInjective(Tail(free))
      /\ ToSet(Tail(free)) = ToSet(free) \ {Head(free)} /\ Head(free) \in ToSet(free)
  BY Typed, TailDistinct DEF AllocPop
<1>2. Head(free) \in Timer
  BY <1>1, Typed
<1>3. TypeOK'
  BY <1>1, <1>2 DEF AllocPop, Parts, TypeOK
<1>4. Places'
  BY <1>1, <1>2 DEF AllocPop, Parts, Places
<1> QED
  BY <1>3, <1>4, SameCounts DEF AllocPop, Parts, HandlerInv

LEMMA AllocMarkKeeps == ASSUME Parts, NEW t \in Timer, AllocMark(t) PROVE Parts'
<1>1. state[t] = "FREE" /\ state' \in [Timer -> TimerState]
      /\ state'[t] = "ALLOC" /\ \A u \in Timer \ {t} : state'[u] = state[u]
  BY DEF AllocMark, Parts, Places, TypeOK, TimerState
<1>2. TypeOK'
  BY <1>1 DEF AllocMark, Parts, TypeOK, lists
<1>3. Places'
  BY <1>1 DEF AllocMark, Parts, Places, lists
<1> QED
  BY <1>2, <1>3, SameCounts DEF AllocMark, Parts, HandlerInv, lists

LEMMA FreeKeeps == ASSUME Parts, NEW t \in Timer, Free(t) PROVE Parts'
<1>1. /\ state[t] = "ALLOC" /\ state' \in [Timer -> TimerState]
      /\ state'[t] = "FREE" /\ \A u \in Timer \ {t} : state'[u] = state[u]
  BY DEF Free, Parts, TypeOK, TimerState
<1>2. t \notin ToSet(free) /\ t \notin popped
  BY <1>1 DEF Parts, Places
<1>3. /\ <<t>> \o free \in Seq(Timer) /\ IsInjective(<<t>> \o free)
      /\ ToSet(<<t>> \o free) = ToSet(free) \cup {t}
  BY <1>2, Typed, ConsDistinct
<1>4. TypeOK'
  BY <1>1, <1>3 DEF Free, Parts, TypeOK
<1>5. Places'
  BY <1>1, <1>2, <1>3 DEF Free, Parts, Places
<1> QED
  BY <1>4, <1>5, SameCounts DEF Free, Parts, HandlerInv

LEMMA StopFiredKeeps == ASSUME Parts, NEW t \in Timer, StopFired(t) PROVE Parts'
<1>1. /\ state[t] = "FIRED" /\ state' \in [Timer -> TimerState]
      /\ state'[t] = "ALLOC" /\ \A u \in Timer \ {t} : state'[u] = state[u]
  BY DEF StopFired, Parts, TypeOK, TimerState
<1>2. PICK i \in 1..Len(fired) : fired[i] = t /\ fired' = RemoveAt(fired, i)
  BY DEF StopFired
<1>3. /\ fired' \in Seq(Timer) /\ IsInjective(fired') /\ ToSet(fired') = ToSet(fired) \ {t}
  BY <1>2, Typed, RemoveDistinct, RemoveAtProperties
<1>4. handler = "callback"
  BY <1>2 DEF Parts, HandlerInv
<1>5. TypeOK'
  BY <1>1, <1>3 DEF StopFired, Parts, TypeOK
<1>6. Places'
  BY <1>1, <1>3 DEF StopFired, Parts, Places
<1> QED
  BY <1>4, <1>5, <1>6, SameCounts DEF StopFired, Parts, HandlerInv

LEMMA TrapKeeps == ASSUME Parts, NEW t \in Timer, StopLastTraps(t) PROVE Parts'
BY SameCounts DEF StopLastTraps, Parts, TypeOK, Places, HandlerInv, lists

----------------------------------------------------------------------------
(* Starting a timer. *)

\* A timer that can be started is in no list.
LEMMA StartPlaces ==
  ASSUME Parts, NEW t \in Timer, CanStart(t),
         state' = [state EXCEPT ![t] = "ACTIVE"],
         active' \in Seq(Timer), IsInjective(active'), ToSet(active') = ToSet(active) \cup {t},
         time' \in [Timer -> Nat], hw' \in HwType,
         UNCHANGED <<free, fired, popped, handler, running, fault>>
  PROVE  TypeOK' /\ Places' /\ HandlerInv'
<1>1. /\ state' \in [Timer -> TimerState]
      /\ state'[t] = "ACTIVE" /\ \A u \in Timer \ {t} : state'[u] = state[u]
      /\ state[t] \in {"ALLOC", "CALLBACK"}
  BY DEF Parts, TypeOK, TimerState, CanStart
<1>2. TypeOK'
  BY <1>1 DEF Parts, TypeOK, HwType
<1>3. Places'
  BY <1>1 DEF Parts, Places
<1> QED
  BY <1>2, <1>3 DEF Parts, HandlerInv

LEMMA StartKeeps ==
  ASSUME Parts, NEW t \in Timer, NEW ticks \in Nat, Start(t, ticks)
  PROVE  Parts'
<1>1. t \notin ToSet(active) /\ CanStart(t)
  BY DEF Start, CanStart, Parts, Places
<1>2. /\ state' = [state EXCEPT ![t] = "ACTIVE"]
      /\ UNCHANGED <<free, fired, popped, handler, running, fault>>
  BY DEF Start
<1>3. hw.left \in Nat /\ hw.since \in Nat /\ hw \in HwType
  BY Typed DEF HwType
<1>4. CASE StartAlone(t, ticks)
  <2>1. active' = <<t>> /\ active' \in Seq(Timer) /\ Head(active') = t /\ ToSet(active) = {}
        /\ active' # <<>> /\ Len(active') = 1
    BY <1>4 DEF StartAlone, ToSet
  <2>2. IsInjective(active') /\ ToSet(active') = ToSet(active) \cup {t}
    BY <2>1 DEF IsInjective, ToSet
  <2>3. time' \in [Timer -> Nat] /\ time'[t] = ticks
    BY <1>4, Typed DEF StartAlone, Timed
  <2>4. CounterInv' /\ hw' \in HwType
    BY <1>3, <1>4, <2>1, <2>3, StartedCounts DEF StartAlone
  <2> QED
    BY <1>1, <1>2, <2>1, <2>2, <2>3, <2>4, StartPlaces DEF Parts
<1>5. CASE StartFirst(t, ticks)
  <2>1. /\ active' = <<t>> \o active /\ active # <<>> /\ hw.left > ticks
        /\ time' = [time EXCEPT ![t] = ticks, ![Head(active)] = hw.left - ticks]
        /\ hw' = HwRestart(ticks)
    BY <1>5, Zenon DEF StartFirst
  <2>2. /\ active' \in Seq(Timer) /\ IsInjective(active')
        /\ ToSet(active') = ToSet(active) \cup {t}
        /\ Len(active') = Len(active) + 1 /\ active'[1] = t
    BY <1>1, <2>1, Typed, ConsDistinct
  <2>3. active' # <<>> /\ Head(active') = t
    BY <2>2, Typed, LenProperties, EmptySeq
  <2>4. Head(active) \in Timer /\ Head(active) # t
    BY <1>1, <2>1, Typed, TailDistinct
  <2>5. hw.left - ticks \in Nat
    BY <1>3, <2>1
  <2>6. time' \in [Timer -> Nat] /\ time'[t] = ticks
    BY <2>1, <2>4, <2>5, Typed DEF Timed
  <2>7. CounterInv' /\ hw' \in HwType
    BY <1>3, <2>1, <2>3, <2>6, StartedCounts
  <2> QED
    BY <1>1, <1>2, <2>2, <2>6, <2>7, StartPlaces DEF Parts
<1>6. CASE StartLater(t, ticks)
  <2> DEFINE rest  == Tail(active)
             n     == DueBefore(rest, ticks - hw.left)
             after == ticks - hw.left - TimeUpTo(rest, n)
  <2>1. /\ active # <<>> /\ hw.left <= ticks
        /\ active' = InsertAt(active, n + 2, t)
        /\ time' = [u \in Timer |->
                      IF u = t THEN after
                      ELSE IF n < Len(rest) /\ u = rest[n + 1] THEN time[u] - after
                      ELSE time[u]]
        /\ UNCHANGED hw
    BY <1>6, Zenon DEF StartLater
  <2>2. /\ rest \in Seq(Timer) /\ Len(rest) = Len(active) - 1 /\ Len(active) \in Nat
        /\ \A i \in 1..Len(rest) : rest[i] = active[i + 1]
    BY <2>1, Typed, HeadTailProperties, LenProperties
  <2>3. ticks - hw.left \in Nat
    BY <1>3, <2>1
  <2>4. /\ n \in 0..Len(rest) /\ TimeUpTo(rest, n) <= ticks - hw.left
        /\ n < Len(rest) => (ticks - hw.left) - TimeUpTo(rest, n) <= time[rest[n + 1]]
    BY <2>2, <2>3, Typed, DueBeforeIs
  <2>5. TimeUpTo(rest, n) \in Nat
    BY <2>2, <2>4, Typed, TimeUpToIs
  <2> HIDE DEF rest, n
  <2>6. after \in Nat
    BY <2>3, <2>4, <2>5
  <2>7. ASSUME NEW u \in Timer, n < Len(rest), u = rest[n + 1] PROVE time[u] - after \in Nat
    <3>1. time[u] \in Nat /\ after <= time[u]
      BY <2>4, <2>7, Typed DEF Timed
    <3> QED
      BY <2>6, <3>1
  <2>8. time' \in [Timer -> Nat]
    BY <2>1, <2>6, <2>7, Typed DEF Timed
  <2>9. n + 2 \in 1..Len(active) + 1 /\ 1 \in 1..Len(active) + 1 /\ 1 < n + 2
    BY <2>2, <2>4
  <2>10. /\ active' \in Seq(Timer) /\ IsInjective(active')
         /\ ToSet(active') = ToSet(active) \cup {t}
         /\ Len(active') = Len(active) + 1 /\ active'[1] = active[1]
    BY <1>1, <2>1, <2>9, Typed, InsertDistinct
  <2>11. active' # <<>> /\ Head(active') = Head(active)
    BY <2>1, <2>2, <2>10, Typed, EmptySeq
  <2>12. /\ Head(active) \in Timer /\ Head(active) # t
         /\ n < Len(rest) => Head(active) # rest[n + 1]
    <3>1. Head(active) \in ToSet(active) /\ Head(active) \in Timer
      BY <2>1, Typed, TailDistinct
    <3>2. ASSUME n < Len(rest), active[1] = rest[n + 1] PROVE FALSE
      <4>1. /\ rest[n + 1] = active[n + 2] /\ 1 \in 1..Len(active) /\ n + 2 \in 1..Len(active)
        BY <2>2, <2>4, <3>2
      <4>2. 1 = n + 2
        BY <3>2, <4>1, Typed, ElementsOfList
      <4> QED
        BY <2>9, <4>2
    <3> QED
      BY <1>1, <2>1, <3>1, <3>2
  <2>13. time'[Head(active)] = time[Head(active)]
    BY <2>1, <2>12
  <2>14. CounterInv'
    BY <2>1, <2>11, <2>13 DEF Parts, CounterInv
  <2> QED
    BY <1>1, <1>2, <1>3, <2>1, <2>8, <2>10, <2>11, <2>14, StartPlaces DEF Parts
<1> QED
  BY <1>4, <1>5, <1>6 DEF Start

----------------------------------------------------------------------------
(* Stopping a timer. *)

LEMMA StopPlaces ==
  ASSUME Parts, NEW t \in Timer, state[t] = "ACTIVE",
         state' = [state EXCEPT ![t] = "ALLOC"],
         active' \in Seq(Timer), IsInjective(active'), ToSet(active') = ToSet(active) \ {t},
         time' \in [Timer -> Nat], hw' \in HwType,
         UNCHANGED <<free, fired, popped, handler, running, fault>>
  PROVE  TypeOK' /\ Places' /\ HandlerInv'
<1>1. /\ state' \in [Timer -> TimerState]
      /\ state'[t] = "ALLOC" /\ \A u \in Timer \ {t} : state'[u] = state[u]
  BY DEF Parts, TypeOK, TimerState
<1>2. TypeOK'
  BY <1>1 DEF Parts, TypeOK, HwType
<1>3. Places'
  BY <1>1 DEF Parts, Places
<1> QED
  BY <1>2, <1>3 DEF Parts, HandlerInv

\* Where stopping leaves the list, the times and the hardware timer.
Stopped(t) ==
  /\ active' \in Seq(Timer) /\ IsInjective(active') /\ ToSet(active') = ToSet(active) \ {t}
  /\ time' \in [Timer -> Nat] /\ hw' \in HwType /\ CounterInv'

\* The list behind its head.
LEMMA TailFacts ==
  ASSUME Parts, active # <<>>
  PROVE  /\ Len(active) \in Nat \ {0} /\ Head(active) = active[1] /\ Head(active) \in Timer
         /\ Tail(active) \in Seq(Timer) /\ IsInjective(Tail(active))
         /\ ToSet(Tail(active)) = ToSet(active) \ {Head(active)}
         /\ Len(Tail(active)) = Len(active) - 1
         /\ \A i \in 1..Len(active) - 1 : Tail(active)[i] = active[i + 1]
         /\ \A i \in 1..Len(active) : active[i] \in Timer
         /\ \A i, j \in 1..Len(active) : active[i] = active[j] => i = j
<1>1. active \in Seq(Timer) /\ IsInjective(active)
  BY Typed
<1>2. Len(active) \in Nat \ {0} /\ Head(active) = active[1] /\ Head(active) \in Timer
  BY <1>1, EmptySeq, HeadTailProperties
<1>3. /\ Tail(active) \in Seq(Timer) /\ IsInjective(Tail(active))
      /\ ToSet(Tail(active)) = ToSet(active) \ {Head(active)}
  BY <1>1, TailDistinct
<1>4. /\ Len(Tail(active)) = Len(active) - 1
      /\ \A i \in 1..Len(active) - 1 : Tail(active)[i] = active[i + 1]
  BY <1>1, HeadTailProperties
<1>5. /\ \A i \in 1..Len(active) : active[i] \in Timer
      /\ \A i, j \in 1..Len(active) : active[i] = active[j] => i = j
  BY <1>1, ElementsOfList, ElementOfSeq
<1> QED
  BY <1>2, <1>3, <1>4, <1>5

LEMMA OverrunIs == ASSUME Parts, active # <<>> PROVE Overrun \in Nat
<1>1. hw.since \in Nat /\ time[Head(active)] \in Nat
  BY Typed, TailFacts DEF HwType, Timed
<1> QED
  BY <1>1 DEF Overrun

LEMMA StopHeadStops == ASSUME Parts, NEW t \in Timer, StopHead(t) PROVE Stopped(t)
<1>1. active # <<>> /\ Head(active) = t /\ active' = Tail(active)
  BY DEF StopHead
<1>2. active' \in Seq(Timer) /\ IsInjective(active') /\ ToSet(active') = ToSet(active) \ {t}
  BY <1>1, TailFacts
<1>3. hw.left \in Nat /\ hw \in HwType
  BY Typed DEF HwType
<1>4. CASE Len(active) = 1
  <2>1. hw' = HwStop /\ UNCHANGED time
    BY <1>4 DEF StopHead
  <2>2. active' = <<>>
    BY <1>1, <1>2, <1>4, TailFacts, EmptySeq
  <2>3. hw' \in HwType /\ CounterInv'
    BY <2>1, <2>2, HwStopIs DEF CounterInv
  <2> QED
    BY <1>2, <2>1, <2>3, Typed DEF Stopped, Timed
<1>5. CASE Len(active) # 1
  <2> DEFINE next == active[2]
             load == time[next] + hw.left
  <2>1. /\ time' = [time EXCEPT ![next] = @ + hw.left]
        /\ hw' = HwRestart(load)
    BY <1>5, Zenon DEF StopHead
  <2>2. next \in Timer /\ Len(active') = Len(active) - 1 /\ Len(active) > 1 /\ active'[1] = next
    BY <1>1, <1>5, TailFacts
  <2>3. active' # <<>> /\ Head(active') = next
    BY <1>2, <2>2, TailFacts, <1>1, EmptySeq
  <2>4. load \in Nat
    BY <1>3, <2>2, Typed DEF Timed
  <2>5. time' \in [Timer -> Nat] /\ time'[next] = load
    BY <2>1, <2>2, <2>4, Typed DEF Timed
  <2> HIDE DEF next, load
  <2>6. CounterInv' /\ hw' \in HwType
    BY <1>3, <2>1, <2>3, <2>4, <2>5, StartedCounts
  <2> QED
    BY <1>2, <2>5, <2>6 DEF Stopped
<1> QED
  BY <1>4, <1>5

LEMMA StopExpiredStops == ASSUME Parts, NEW t \in Timer, StopExpiredHead(t) PROVE Stopped(t)
<1> DEFINE rest  == Tail(active)
           due   == DueWithin(rest, Overrun)
           after == Overrun - TimeUpTo(rest, due)
<1>1. /\ Len(active) > 1 /\ Head(active) = t
      /\ active' = rest
      /\ time' = [u \in Timer |->
                    IF \E i \in 1 .. due : u = rest[i] THEN 0
                    ELSE IF due < Len(rest) /\ u = rest[due + 1] THEN time[u] - after
                    ELSE time[u]]
      /\ hw' = HwRestart(time'[rest[1]])
  BY Zenon DEF StopExpiredHead
<1>2. active # <<>>
  BY <1>1
<1>3. /\ rest \in Seq(Timer) /\ IsInjective(rest) /\ ToSet(rest) = ToSet(active) \ {t}
      /\ Len(rest) \in Nat /\ Len(rest) >= 1
  BY <1>1, <1>2, TailFacts
<1>4. Overrun \in Nat
  BY <1>2, OverrunIs
<1>5. /\ due \in 0..Len(rest) /\ TimeUpTo(rest, due) <= Overrun
      /\ due < Len(rest) => Overrun - TimeUpTo(rest, due) < time[rest[due + 1]]
  BY <1>3, <1>4, Typed, DueWithinIs
<1>6. TimeUpTo(rest, due) \in Nat
  BY <1>3, <1>5, Typed, TimeUpToIs
<1> HIDE DEF rest, due
<1>7. after \in Nat
  BY <1>4, <1>5, <1>6
<1>8. ASSUME NEW u \in Timer, due < Len(rest), u = rest[due + 1] PROVE time[u] - after \in Nat
  <2>1. time[u] \in Nat /\ after < time[u]
    BY <1>5, <1>8, Typed DEF Timed
  <2> QED
    BY <1>7, <2>1
<1>9. time' \in [Timer -> Nat]
  BY <1>1, <1>8, Typed DEF Timed
<1>10. rest[1] \in Timer /\ rest # <<>> /\ Head(rest) = rest[1]
  BY <1>3, ElementOfSeq, EmptySeq
<1>11. time'[rest[1]] \in Nat
  BY <1>9, <1>10
<1>12. CounterInv' /\ hw' \in HwType
  BY <1>1, <1>10, <1>11, Typed, StartedCounts
<1> QED
  BY <1>1, <1>3, <1>9, <1>12 DEF Stopped

LEMMA StopInnerStops == ASSUME Parts, NEW t \in Timer, StopInner(t) PROVE Stopped(t)
<1>1. PICK i \in 2..Len(active) - 1 :
        /\ active[i] = t
        /\ active' = RemoveAt(active, i)
        /\ time' = [time EXCEPT ![active[i + 1]] = @ + time[t]]
        /\ UNCHANGED hw
  BY DEF StopInner
<1>2. active \in Seq(Timer) /\ IsInjective(active) /\ Len(active) \in Nat
  BY Typed, LenProperties
<1>3. i \in 1..Len(active) /\ i + 1 \in 1..Len(active) /\ 1 \in 1..Len(active) - 1 /\ active # <<>>
  BY <1>1, <1>2, EmptySeq
<1>4. active' \in Seq(Timer) /\ IsInjective(active') /\ ToSet(active') = ToSet(active) \ {t}
  BY <1>1, <1>2, <1>3, RemoveDistinct, RemoveAtProperties
<1>5. Len(active') = Len(active) - 1 /\ active'[1] = active[1]
  <2>1. /\ Len(RemoveAt(active, i)) = Len(active) - 1
        /\ \A j \in 1..Len(active) - 1 :
             RemoveAt(active, i)[j] = IF j < i THEN active[j] ELSE active[j + 1]
    BY <1>2, <1>3, RemoveAtProperties
  <2> QED
    BY <1>1, <1>3, <2>1
<1>6. active' # <<>> /\ Head(active') = Head(active) /\ Head(active) = active[1]
  BY <1>2, <1>3, <1>4, <1>5, EmptySeq
<1>7. active[i + 1] \in Timer /\ active[1] \in Timer /\ active[i + 1] # active[1]
  <2>1. i + 1 # 1 /\ 1 \in 1..Len(active)
    BY <1>1, <1>2, <1>3
  <2> QED
    BY <1>3, <2>1, TailFacts
<1>8. time' \in [Timer -> Nat] /\ time'[active[1]] = time[active[1]]
  <2>1. time[active[i + 1]] + time[t] \in Nat
    BY <1>7, Typed DEF Timed
  <2> QED
    BY <1>1, <1>7, <2>1, Typed DEF Timed
<1>9. CounterInv'
  BY <1>1, <1>3, <1>6, <1>8 DEF Parts, CounterInv
<1> QED
  BY <1>1, <1>4, <1>8, <1>9, Typed DEF Stopped

LEMMA StopLastStops == ASSUME Parts, NEW t \in Timer, StopLast(t) PROVE Stopped(t)
<1>1. /\ Len(active) > 1 /\ active[Len(active)] = t
      /\ active' = Front(active) /\ UNCHANGED <<time, hw>>
  BY DEF StopLast
<1>2. active \in Seq(Timer) /\ IsInjective(active) /\ Len(active) \in Nat /\ active # <<>>
  BY <1>1, Typed, LenProperties
<1>3. /\ active' \in Seq(Timer) /\ IsInjective(active') /\ ToSet(active') = ToSet(active) \ {t}
      /\ Len(active') = Len(active) - 1 /\ \A j \in 1..Len(active) - 1 : active'[j] = active[j]
  BY <1>1, <1>2, FrontDistinct
<1>4. active' # <<>> /\ Head(active') = Head(active)
  <2>1. 1 \in 1..Len(active) - 1
    BY <1>1, <1>2
  <2> QED
    BY <1>2, <1>3, <2>1, EmptySeq
<1>5. CounterInv'
  BY <1>1, <1>2, <1>4 DEF Parts, CounterInv
<1> QED
  BY <1>1, <1>3, <1>5, Typed DEF Stopped, Timed

LEMMA StopKeeps == ASSUME Parts, NEW t \in Timer, StopActive(t) PROVE Parts'
<1>1. Stopped(t)
  BY StopHeadStops, StopExpiredStops, StopInnerStops, StopLastStops DEF StopActive
<1>2. /\ state[t] = "ACTIVE" /\ state' = [state EXCEPT ![t] = "ALLOC"]
      /\ UNCHANGED <<free, fired, popped, handler, running, fault>>
  BY DEF StopActive
<1>3. TypeOK' /\ Places' /\ HandlerInv'
  BY <1>1, <1>2, StopPlaces DEF Stopped
<1> QED
  BY <1>1, <1>3 DEF Stopped, Parts

----------------------------------------------------------------------------
(* Time and the handler. *)

LEMMA TickKeeps == ASSUME Parts, Tick PROVE Parts'
<1> DEFINE irq  == hw.irq \/ hw.left = 1
           left == IF hw.left > 0 THEN hw.left - 1 ELSE 0
<1>1. hw' = [hw EXCEPT !.since = hw.since + 1, !.left = left, !.irq = irq]
  BY Zenon DEF Tick
<1>2. irq \in BOOLEAN
  OBVIOUS
<1>3. hw \in HwType /\ hw.left \in Nat /\ hw.since \in Nat /\ hw.on \in BOOLEAN
  BY Typed DEF HwType
<1>4. /\ hw' \in HwType /\ hw'.on = hw.on /\ hw'.since = hw.since + 1
      /\ hw'.left = IF hw.left > 0 THEN hw.left - 1 ELSE 0
  <2>1. left \in Nat /\ hw.since + 1 \in Nat
    BY <1>3
  <2> HIDE DEF irq, left
  <2>2. hw' = [on |-> hw.on, left |-> left, since |-> hw.since + 1, irq |-> irq]
    BY <1>1, <1>3 DEF HwType
  <2>3. hw' \in HwType
    BY <1>2, <1>3, <2>1, <2>2 DEF HwType
  <2>4. hw'.on = hw.on /\ hw'.since = hw.since + 1 /\ hw'.left = left
    BY <2>2
  <2> QED
    BY <2>3, <2>4 DEF left
<1> HIDE DEF irq, left
<1>5. UNCHANGED <<state, time, free, active, fired, popped, handler, running, fault>>
  BY DEF Tick, lists
<1>6. CounterInv'
  <2>1. CASE active = <<>>
    BY <1>4, <1>5, <2>1 DEF Parts, CounterInv
  <2>2. CASE active # <<>>
    <3>1. time[Head(active)] \in Nat /\ Delta \in Nat
      BY <2>2, Typed, TailFacts, TickAssumption DEF Timed
    <3>2. /\ hw.left <= time[Head(active)] \/ hw.left <= Delta
          /\ hw.left + hw.since + Delta >= time[Head(active)]
      BY <2>2 DEF Parts, CounterInv
    <3>3. /\ hw'.left <= time[Head(active)] \/ hw'.left <= Delta
          /\ hw'.left + hw'.since + Delta >= time[Head(active)]
      BY <1>3, <1>4, <3>1, <3>2
    <3> QED
      BY <1>4, <1>5, <2>2, <3>3 DEF Parts, CounterInv
  <2> QED
    BY <2>1, <2>2
<1> QED
  BY <1>4, <1>5, <1>6 DEF Parts, TypeOK, Places, HandlerInv, HwType

LEMMA IrqEnterKeeps == ASSUME Parts, IrqEnter PROVE Parts'
<1>1. hw \in HwType
  BY Typed
<1>2. hw' = [hw EXCEPT !.irq = FALSE]
  BY DEF IrqEnter
<1>3. hw' \in HwType /\ hw'.on = hw.on /\ hw'.left = hw.left /\ hw'.since = hw.since
  BY <1>1, <1>2 DEF HwType
<1>4. UNCHANGED <<state, time, free, active, fired, popped, running, fault>>
      /\ handler = "idle" /\ handler' = "entered"
  BY DEF IrqEnter, lists
<1> QED
  BY <1>3, <1>4 DEF Parts, TypeOK, Places, HandlerInv, CounterInv, HwType

LEMMA IrqSpuriousKeeps == ASSUME Parts, IrqSpurious PROVE Parts'
BY SameCounts DEF IrqSpurious, Parts, TypeOK, Places, HandlerInv, lists

\* What the handler finds when it fires: the timers due, and those that stay.
LEMMA FireLists ==
  ASSUME Parts, active # <<>>
  PROVE  LET due  == SubSeq(active, 1, DueNow)
             rest == SubSeq(active, DueNow + 1, Len(active))
             after == Overrun - TimeUpTo(Tail(active), DueNow - 1)
         IN /\ Head(due) \in Timer /\ Head(due) \in ToSet(due) /\ Head(due) = Head(active)
            /\ Tail(due) \in Seq(Timer) /\ IsInjective(Tail(due))
            /\ ToSet(Tail(due)) = ToSet(due) \ {Head(due)}
            /\ rest \in Seq(Timer) /\ IsInjective(rest)
            /\ ToSet(due) \cup ToSet(rest) = ToSet(active) /\ ToSet(due) \cap ToSet(rest) = {}
            /\ rest # <<>> => /\ Head(rest) \in Timer
                              /\ time[Head(rest)] - after \in Nat
<1> DEFINE d     == DueWithin(Tail(active), Overrun)
           due   == SubSeq(active, 1, DueNow)
           rest  == SubSeq(active, DueNow + 1, Len(active))
           after == Overrun - TimeUpTo(Tail(active), DueNow - 1)
<1>1. /\ active \in Seq(Timer) /\ IsInjective(active) /\ Len(active) \in Nat \ {0}
      /\ Tail(active) \in Seq(Timer) /\ Len(Tail(active)) = Len(active) - 1
      /\ \A i \in 1..Len(active) - 1 : Tail(active)[i] = active[i + 1]
      /\ Head(active) = active[1] /\ Overrun \in Nat
  BY Typed, TailFacts, OverrunIs
<1>2. /\ d \in 0..Len(Tail(active)) /\ TimeUpTo(Tail(active), d) <= Overrun
      /\ d < Len(Tail(active)) =>
           Overrun - TimeUpTo(Tail(active), d) < time[Tail(active)[d + 1]]
  BY <1>1, Typed, DueWithinIs
<1>3. TimeUpTo(Tail(active), d) \in Nat
  BY <1>1, <1>2, Typed, TimeUpToIs
<1>4. DueNow = 1 + d
  BY DEF DueNow
<1> HIDE DEF d
<1>5. DueNow \in 1..Len(active) /\ DueNow \in 0..Len(active) /\ DueNow - 1 = d
  BY <1>1, <1>2, <1>4
<1>6. /\ due \in Seq(Timer) /\ rest \in Seq(Timer) /\ IsInjective(due) /\ IsInjective(rest)
      /\ Len(due) = DueNow /\ Len(rest) = Len(active) - DueNow
      /\ \A i \in 1..DueNow : due[i] = active[i]
      /\ \A i \in 1..Len(active) - DueNow : rest[i] = active[DueNow + i]
      /\ ToSet(due) \cup ToSet(rest) = ToSet(active) /\ ToSet(due) \cap ToSet(rest) = {}
  BY <1>1, <1>5, SplitDistinct
<1> HIDE DEF due, rest
<1>7. due # <<>> /\ Head(due) = active[1]
  <2>1. due # <<>>
    BY <1>5, <1>6, EmptySeq
  <2>2. Head(due) = due[1] /\ 1 \in 1..DueNow
    BY <1>1, <1>5, <1>6, <2>1
  <2> QED
    BY <1>6, <2>1, <2>2
<1>8. /\ Tail(due) \in Seq(Timer) /\ IsInjective(Tail(due))
      /\ ToSet(Tail(due)) = ToSet(due) \ {Head(due)} /\ Head(due) \in ToSet(due)
      /\ Head(due) \in Timer
  BY <1>6, <1>7, TailDistinct, HeadTailProperties
<1>9. ASSUME rest # <<>> PROVE Head(rest) \in Timer /\ time[Head(rest)] - after \in Nat
  <2>1. Len(rest) \in Nat \ {0} /\ Head(rest) = rest[1] /\ Head(rest) \in Timer
    BY <1>6, <1>9, EmptySeq, HeadTailProperties
  <2>2. /\ d < Len(Tail(active)) /\ d + 1 \in 1..Len(active) - 1
        /\ 1 \in 1..Len(active) - DueNow /\ DueNow + 1 = (d + 1) + 1
    <3>1. Len(rest) = Len(active) - (1 + d) /\ Len(Tail(active)) = Len(active) - 1
          /\ d \in Nat /\ Len(active) \in Nat
      BY <1>1, <1>2, <1>4, <1>6
    <3>2. 1 + d < Len(active)
      BY <2>1, <3>1
    <3>3. DueNow + 1 = (d + 1) + 1
      BY <1>4, <3>1
    <3>4. 1 \in 1..Len(active) - DueNow
      BY <1>4, <3>1, <3>2
    <3>5. d < Len(Tail(active)) /\ d + 1 \in 1..Len(active) - 1
      BY <3>1, <3>2
    <3> QED
      BY <3>3, <3>4, <3>5
  <2>3. Head(rest) = Tail(active)[d + 1]
    BY <1>1, <1>6, <2>1, <2>2
  <2>4. after = Overrun - TimeUpTo(Tail(active), d)
    BY <1>5
  <2>5. after < time[Head(rest)] /\ time[Head(rest)] \in Nat
    BY <1>2, <2>1, <2>2, <2>3, <2>4, Typed DEF Timed
  <2>6. after \in Nat
    BY <1>1, <1>2, <1>3, <2>4
  <2> HIDE DEF after
  <2> QED
    BY <2>1, <2>5, <2>6
<1> QED
  BY <1>1, <1>6, <1>7, <1>8, <1>9 DEF due, rest

LEMMA IrqFireKeeps ==
  ASSUME Parts, IrqFire
  PROVE  /\ Parts' /\ running = NoTimer /\ running' \in Timer
         /\ state[running'] = "ACTIVE" /\ state'[running'] = "CALLBACK"
         /\ \A t \in Timer \ {running'} :
              \/ state'[t] = state[t]
              \/ state[t] = "ACTIVE" /\ state'[t] = "FIRED"
<1> DEFINE due   == SubSeq(active, 1, DueNow)
           rest  == SubSeq(active, DueNow + 1, Len(active))
           after == Overrun - TimeUpTo(Tail(active), DueNow - 1)
<1>1. /\ handler = "entered" /\ handler' = "callback" /\ active # <<>>
      /\ UNCHANGED <<free, popped, fault>>
      /\ active' = rest /\ fired' = Tail(due) /\ running' = Head(due)
      /\ state' = [t \in Timer |-> IF t = Head(due) THEN "CALLBACK"
                                   ELSE IF t \in ToSet(due) THEN "FIRED"
                                   ELSE state[t]]
      /\ time' = IF rest = <<>> THEN time
                 ELSE [time EXCEPT ![Head(rest)] = @ - after]
      /\ hw' = IF rest = <<>> THEN HwStop ELSE HwStart(time[Head(rest)] - after)
  BY Zenon DEF IrqFire, Early, Rearm
<1>2. /\ Head(due) \in Timer /\ Head(due) \in ToSet(due)
      /\ Tail(due) \in Seq(Timer) /\ IsInjective(Tail(due))
      /\ ToSet(Tail(due)) = ToSet(due) \ {Head(due)}
      /\ rest \in Seq(Timer) /\ IsInjective(rest)
      /\ ToSet(due) \cup ToSet(rest) = ToSet(active) /\ ToSet(due) \cap ToSet(rest) = {}
      /\ rest # <<>> => /\ Head(rest) \in Timer
                        /\ time[Head(rest)] - after \in Nat
  BY <1>1, FireLists
<1> HIDE DEF due, rest, after
<1>3. fired = <<>> /\ running = NoTimer /\ ToSet(fired) = {}
  <2>1. fired = <<>> /\ running = NoTimer
    BY <1>1 DEF Parts, TypeOK, HandlerInv
  <2> QED
    BY <2>1 DEF ToSet
<1>4. \A t \in Timer : /\ state[t] \in TimerState
                       /\ state[t] # "FIRED" /\ state[t] # "CALLBACK"
                       /\ t \in ToSet(active) <=> state[t] = "ACTIVE"
  BY <1>3, TimerAssumption DEF Parts, TypeOK, Places
<1>5. /\ state' \in [Timer -> TimerState]
      /\ state'[Head(due)] = "CALLBACK"
      /\ \A t \in Timer : t \in ToSet(due) /\ t # Head(due) => state'[t] = "FIRED"
      /\ \A t \in Timer : t \notin ToSet(due) => state'[t] = state[t]
  BY <1>1, <1>2, <1>4 DEF TimerState
<1>6. CounterInv' /\ hw' \in HwType /\ time' \in [Timer -> Nat]
  <2>1. CASE rest = <<>>
    BY <1>1, <2>1, HwStopIs, Typed DEF CounterInv, Timed
  <2>2. CASE rest # <<>>
    <3> DEFINE load == time[Head(rest)] - after
    <3>1. hw' = HwStart(load) /\ time' = [time EXCEPT ![Head(rest)] = load] /\ load \in Nat
      BY <1>1, <1>2, <2>2
    <3> HIDE DEF load
    <3>2. time' \in [Timer -> Nat] /\ time'[Head(rest)] = load
      BY <1>2, <2>2, <3>1, Typed DEF Timed
    <3> QED
      BY <1>1, <2>2, <3>1, <3>2, Typed, StartedCounts
  <2> QED
    BY <2>1, <2>2
<1>7. TypeOK'
  BY <1>1, <1>2, <1>5, <1>6 DEF Parts, TypeOK, HwType
<1>8. Places'
  BY <1>1, <1>2, <1>4, <1>5 DEF Parts, Places
<1>9. HandlerInv'
  BY <1>1, <1>2, TimerAssumption DEF HandlerInv
<1>10. ToSet(due) \subseteq ToSet(active)
  BY <1>2
<1> QED
  BY <1>1, <1>2, <1>3, <1>4, <1>5, <1>6, <1>7, <1>8, <1>9, <1>10 DEF Parts

LEMMA CallbackReturnKeeps ==
  ASSUME Parts, CallbackReturn
  PROVE  /\ Parts' /\ running \in Timer
         /\ \/ running' = NoTimer /\ state' = AfterCallback
            \/ /\ running' \in Timer /\ state[running'] = "FIRED"
               /\ state' = [AfterCallback EXCEPT ![running'] = "CALLBACK"]
<1>1. /\ handler = "callback" /\ UNCHANGED <<time, free, active, popped, hw, fault>>
  BY DEF CallbackReturn
<1>2. running \in Timer
  BY <1>1 DEF Parts, HandlerInv, TypeOK
<1>3. /\ AfterCallback \in [Timer -> TimerState]
      /\ \A t \in Timer : t # running => AfterCallback[t] = state[t]
      /\ AfterCallback[running] = IF state[running] = "CALLBACK" THEN "ALLOC" ELSE state[running]
  BY <1>2 DEF AfterCallback, Parts, TypeOK, TimerState
<1> HIDE DEF AfterCallback
<1>4. CounterInv'
  BY <1>1, SameCounts
<1>5. CASE fired = <<>>
  <2>1. state' = AfterCallback /\ handler' = "idle" /\ running' = NoTimer /\ fired' = fired
    BY <1>5 DEF CallbackReturn
  <2>2. TypeOK'
    BY <1>1, <1>3, <2>1 DEF Parts, TypeOK
  <2>3. Places'
    BY <1>1, <1>2, <1>3, <2>1 DEF Parts, Places
  <2>4. HandlerInv'
    BY <1>5, <2>1 DEF HandlerInv
  <2> QED
    BY <1>2, <1>4, <2>1, <2>2, <2>3, <2>4 DEF Parts
<1>6. CASE fired # <<>>
  <2>1. /\ state' = [AfterCallback EXCEPT ![Head(fired)] = "CALLBACK"]
        /\ running' = Head(fired) /\ fired' = Tail(fired) /\ handler' = handler
    BY <1>6 DEF CallbackReturn
  <2>2. /\ Tail(fired) \in Seq(Timer) /\ IsInjective(Tail(fired))
        /\ ToSet(Tail(fired)) = ToSet(fired) \ {Head(fired)} /\ Head(fired) \in ToSet(fired)
    BY <1>6, Typed, TailDistinct
  <2>3. Head(fired) \in Timer /\ state[Head(fired)] = "FIRED"
    BY <2>2, Typed DEF Parts, Places
  <2>4. /\ state' \in [Timer -> TimerState] /\ state'[Head(fired)] = "CALLBACK"
        /\ \A t \in Timer : t # Head(fired) => state'[t] = AfterCallback[t]
    BY <1>3, <2>1, <2>3 DEF TimerState
  <2>5. TypeOK'
    BY <1>1, <2>1, <2>2, <2>3, <2>4 DEF Parts, TypeOK
  <2>6. Places'
    <3>1. /\ IsInjective(active') /\ IsInjective(fired') /\ IsInjective(free')
      BY <1>1, <2>1, <2>2 DEF Parts, Places
    <3>2. ASSUME NEW t \in Timer
          PROVE  /\ t \in ToSet(active') <=> state'[t] = "ACTIVE"
                 /\ t \in ToSet(fired') <=> state'[t] = "FIRED"
                 /\ t \in ToSet(free') \/ t \in popped' <=> state'[t] = "FREE"
                 /\ ~(t \in ToSet(free') /\ t \in popped')
                 /\ state'[t] = "CALLBACK" => t = running'
      BY <1>1, <1>2, <1>3, <2>1, <2>2, <2>3, <2>4 DEF Parts, Places
    <3> QED
      BY <3>1, <3>2 DEF Places
  <2>7. HandlerInv'
    BY <1>1, <2>1, <2>3, TimerAssumption DEF HandlerInv
  <2> QED
    BY <1>2, <1>4, <2>1, <2>3, <2>5, <2>6, <2>7 DEF Parts
<1> QED
  BY <1>5, <1>6

----------------------------------------------------------------------------
(* The invariant. *)

LEMMA InitParts == Init => Parts
<1> SUFFICES ASSUME Init PROVE Parts
  OBVIOUS
<1>1. /\ state = [t \in Timer |-> "FREE"] /\ time = [t \in Timer |-> 0]
      /\ active = <<>> /\ fired = <<>> /\ popped = {} /\ free \in SetToSeqs(Timer)
      /\ hw = [on |-> FALSE, left |-> 0, since |-> 0, irq |-> FALSE]
      /\ handler = "idle" /\ running = NoTimer /\ fault = FALSE
  BY Zenon DEF Init
<1>2. IsFiniteSet(Timer)
  BY TimerAssumption
<1>3. free \in Seq(Timer) /\ IsInjective(free) /\ ToSet(free) = Timer
  BY <1>1, <1>2, ListOfAll, Zenon
<1>4. ToSet(active) = {} /\ ToSet(fired) = {} /\ IsInjective(active) /\ IsInjective(fired)
  BY <1>1 DEF ToSet, IsInjective
<1>5. TypeOK
  <2>1. active \in Seq(Timer) /\ fired \in Seq(Timer)
    BY <1>1, EmptySeq
  <2>2. state \in [Timer -> TimerState] /\ time \in [Timer -> Nat] /\ hw \in HwType
    BY <1>1 DEF TimerState, HwType
  <2> QED
    BY <1>1, <1>3, <2>1, <2>2 DEF TypeOK, HwType
<1>6. Places
  BY <1>1, <1>3, <1>4 DEF Places
<1>7. HandlerInv /\ CounterInv
  BY <1>1 DEF HandlerInv, CounterInv
<1> QED
  BY <1>5, <1>6, <1>7 DEF Parts

LEMMA NextParts == Parts /\ [Next]_vars => Parts'
<1> SUFFICES ASSUME Parts, [Next]_vars PROVE Parts'
  OBVIOUS
<1>1. CASE Client
  <2>1. \A ticks \in Delta..MaxTicks : ticks \in Nat
    BY TickAssumption
  <2>2. ASSUME NEW t \in Timer, NEW ticks \in Delta..MaxTicks, Start(t, ticks) PROVE Parts'
    BY <2>1, <2>2, StartKeeps
  <2> QED
    BY <1>1, <2>2, AllocPopKeeps, AllocMarkKeeps, FreeKeeps, StopKeeps, TrapKeeps,
       StopFiredKeeps, Zenon
    DEF Client
<1>2. CASE Tick
  BY <1>2, TickKeeps
<1>3. CASE Handler
  BY <1>3, IrqEnterKeeps, IrqSpuriousKeeps, IrqFireKeeps, CallbackReturnKeeps, Zenon
  DEF Handler
<1>4. CASE UNCHANGED vars
  BY <1>4 DEF vars, lists, Parts, TypeOK, Places, HandlerInv, CounterInv
<1> QED
  BY <1>1, <1>2, <1>3, <1>4, Zenon DEF Next

LEMMA AlwaysParts == Spec => []Parts
BY InitParts, NextParts, PTL DEF Spec

\* Every variable keeps its type: no step takes more from a timer's time, or from
\* the counter, than there is.
THEOREM TypeCorrect == Spec => []TypeOK
<1>1. Parts => TypeOK
  BY DEF Parts
<1> QED
  BY <1>1, AlwaysParts, PTL

\* A timer is in the list its state names, once, and in no other, wherever the
\* two steps of hwtimer_alloc, starts, stops, the interrupt and the callbacks fall.
THEOREM ListsAlwaysMatch == Spec => []ListsMatchStates
<1>1. Parts => ListsMatchStates
  BY InParts DEF IInv
<1> QED
  BY <1>1, AlwaysParts, PTL

\* The ASSERTs of hwtimer_start and hwtimer_stop: the hardware timer runs exactly
\* while there is an active timer, and its counter is the head's.
THEOREM CounterAlwaysHeads == Spec => []CounterIsHeads
<1>1. Parts => CounterIsHeads
  <2> SUFFICES ASSUME Parts PROVE CounterIsHeads
    OBVIOUS
  <2>1. hw.left \in Nat /\ hw.since \in Nat
    BY DEF Parts, TypeOK
  <2> QED
    BY <2>1, TickAssumption DEF Parts, CounterInv, CounterIsHeads
<1> QED
  BY <1>1, AlwaysParts, PTL

----------------------------------------------------------------------------
(* The list implements TimerService. *)

\* What the clients see of a timer's state.
Seen(s) ==
  CASE s = "FREE"                -> "free"
    [] s = "ALLOC"               -> "stopped"
    [] s \in {"ACTIVE", "FIRED"} -> "armed"
    [] OTHER                     -> "calling"

Phase == [t \in Timer |-> Seen(state[t])]

LEMMA SeenIs ==
  /\ Seen("FREE") = "free" /\ Seen("ALLOC") = "stopped"
  /\ Seen("ACTIVE") = "armed" /\ Seen("FIRED") = "armed" /\ Seen("CALLBACK") = "calling"
  /\ \A s \in TimerState : Seen(s) = "calling" => s = "CALLBACK"
BY DEF Seen, TimerState

\* A step that changes the state of one timer.
LEMMA OneChanges ==
  ASSUME state \in [Timer -> TimerState], NEW t \in Timer, NEW s \in TimerState,
         state' = [state EXCEPT ![t] = s]
  PROVE  Phase' = [Phase EXCEPT ![t] = Seen(s)] /\ Phase[t] = Seen(state[t])
BY DEF Phase

LEMMA ClientServes ==
  ASSUME Parts, Client
  PROVE  \/ Phase' = Phase /\ running' = running
         \/ \E t \in Timer : /\ running' = running
                             /\ \/ Service!Take(t) \/ Service!Give(t)
                                \/ Service!Arm(t) \/ Service!Disarm(t)
<1>1. state \in [Timer -> TimerState]
  BY DEF Parts, TypeOK
<1>2. AllocPop => Phase' = Phase /\ running' = running
  BY DEF AllocPop, Phase
<1>3. ASSUME NEW t \in Timer, AllocMark(t) PROVE Service!Take(t) /\ running' = running
  <2>1. /\ state[t] = "FREE" /\ state' = [state EXCEPT ![t] = "ALLOC"]
        /\ running' = running /\ "ALLOC" \in TimerState
    BY <1>3 DEF AllocMark, Parts, Places, TimerState
  <2>2. Phase[t] = "free" /\ Phase' = [Phase EXCEPT ![t] = "stopped"]
    BY <1>1, <2>1, OneChanges, SeenIs
  <2> QED
    BY <2>1, <2>2, Zenon DEF Service!Take, Phase, Seen
<1>4. ASSUME NEW t \in Timer, Free(t) PROVE Service!Give(t) /\ running' = running
  <2>1. /\ state[t] = "ALLOC" /\ state' = [state EXCEPT ![t] = "FREE"]
        /\ running' = running /\ "FREE" \in TimerState
    BY <1>4 DEF Free, TimerState
  <2>2. Phase[t] = "stopped" /\ Phase' = [Phase EXCEPT ![t] = "free"]
    BY <1>1, <2>1, OneChanges, SeenIs
  <2> QED
    BY <2>1, <2>2, Zenon DEF Service!Give, Phase, Seen
<1>5. ASSUME NEW t \in Timer, NEW ticks \in Delta..MaxTicks, Start(t, ticks)
      PROVE  Service!Arm(t) /\ running' = running
  <2>1. /\ state[t] \in {"ALLOC", "CALLBACK"} /\ state' = [state EXCEPT ![t] = "ACTIVE"]
        /\ running' = running /\ "ACTIVE" \in TimerState
    BY <1>5 DEF Start, CanStart, TimerState
  <2>2. Phase[t] \in {"stopped", "calling"} /\ Phase' = [Phase EXCEPT ![t] = "armed"]
    BY <1>1, <2>1, OneChanges, SeenIs
  <2> QED
    BY <2>1, <2>2, Zenon DEF Service!Arm, Phase, Seen
<1>6. ASSUME NEW t \in Timer, StopActive(t) \/ StopFired(t)
      PROVE  Service!Disarm(t) /\ running' = running
  <2>1. /\ state[t] \in {"ACTIVE", "FIRED"} /\ state' = [state EXCEPT ![t] = "ALLOC"]
        /\ running' = running
    BY <1>6, Zenon DEF StopActive, StopFired
  <2>2. Phase[t] = "armed" /\ Phase' = [Phase EXCEPT ![t] = "stopped"]
    BY <1>1, <2>1, OneChanges, SeenIs DEF TimerState
  <2> QED
    BY <2>1, <2>2, Zenon DEF Service!Disarm, Phase, Seen
<1>7. ASSUME NEW t \in Timer, StopLastTraps(t) PROVE Phase' = Phase /\ running' = running
  BY <1>7 DEF StopLastTraps, Phase
<1> QED
  BY <1>2, <1>3, <1>4, <1>5, <1>6, <1>7, Zenon DEF Client

LEMMA FireCalls == ASSUME Parts, IrqFire PROVE \E t \in Timer : Service!Call(t)
<1>1. PICK t \in Timer :
        /\ running = NoTimer /\ running' = t
        /\ state[t] = "ACTIVE" /\ state'[t] = "CALLBACK"
        /\ \A u \in Timer \ {t} : \/ state'[u] = state[u]
                                  \/ state[u] = "ACTIVE" /\ state'[u] = "FIRED"
  BY IrqFireKeeps
<1>2. Phase[t] = "armed"
  BY <1>1, SeenIs DEF Phase
<1>3. Phase' = [Phase EXCEPT ![t] = "calling"]
  <2>1. \A u \in Timer \ {t} : Seen(state'[u]) = Seen(state[u])
    BY <1>1, SeenIs
  <2> QED
    BY <1>1, <2>1, SeenIs DEF Phase
<1>4. Service!Call(t)
  BY <1>1, <1>2, <1>3, Zenon DEF Service!Call, Phase, Seen
<1> QED
  BY <1>4

LEMMA ReturnServes ==
  ASSUME Parts, CallbackReturn
  PROVE  Service!Return \/ \E t \in Timer : Service!Switch(t)
<1> DEFINE Back == [t \in Timer |-> IF t = running /\ Phase[t] = "calling"
                                    THEN "stopped" ELSE Phase[t]]
<1>1. /\ Parts' /\ running \in Timer
      /\ \/ running' = NoTimer /\ state' = AfterCallback
         \/ /\ running' \in Timer /\ state[running'] = "FIRED"
            /\ state' = [AfterCallback EXCEPT ![running'] = "CALLBACK"]
  BY CallbackReturnKeeps
<1>2. running # NoTimer
  BY <1>1, TimerAssumption
<1>3. state \in [Timer -> TimerState]
  BY DEF Parts, TypeOK
<1>4. Back = [t \in Timer |-> Seen(AfterCallback[t])]
  <2>1. ASSUME NEW t \in Timer PROVE Back[t] = Seen(AfterCallback[t])
    <3>1. Phase[t] = Seen(state[t]) /\ state[t] \in TimerState
      BY <1>3 DEF Phase
    <3>2. AfterCallback[t] = IF t = running /\ state[t] = "CALLBACK" THEN "ALLOC" ELSE state[t]
      BY <1>1, <1>3 DEF AfterCallback
    <3> QED
      BY <3>1, <3>2, SeenIs
  <2> QED
    BY <2>1
<1>5. Back = Service!Returned
  BY Zenon DEF Service!Returned, Phase, Seen
<1>6. AfterCallback \in [Timer -> TimerState]
  BY <1>3 DEF AfterCallback, TimerState
<1>7. running' = NoTimer /\ state' = AfterCallback => Service!Return
  <2> SUFFICES ASSUME running' = NoTimer, state' = AfterCallback PROVE Service!Return
    OBVIOUS
  <2> HIDE DEF Back
  <2>1. Phase' = Back
    BY <1>4 DEF Phase
  <2> QED
    BY <1>2, <1>5, <2>1, Zenon DEF Service!Return, Phase, Seen
<1>8. ASSUME NEW t \in Timer, running' = t, state[t] = "FIRED",
             state' = [AfterCallback EXCEPT ![t] = "CALLBACK"]
      PROVE  Service!Switch(t)
  <2>1. Back[t] = "armed"
    BY <1>8, SeenIs DEF Phase
  <2> HIDE DEF Back
  <2>2. Phase' = [Back EXCEPT ![t] = "calling"]
    BY <1>4, <1>6, <1>8, SeenIs DEF Phase
  <2>3. running' = t
    BY <1>8
  <2> QED
    BY <1>2, <1>5, <2>1, <2>2, <2>3, Zenon DEF Service!Switch, Phase, Seen
<1> QED
  BY <1>1, <1>7, <1>8, Zenon

LEMMA ServiceStep == Parts /\ [Next]_vars => [Service!Next]_(Service!vars)
<1> SUFFICES ASSUME Parts, [Next]_vars PROVE [Service!Next]_(Service!vars)
  OBVIOUS
<1>1. Phase' = Phase /\ running' = running => UNCHANGED Service!vars
  BY Zenon DEF Service!vars, Phase, Seen
<1>2. CASE Client
  BY <1>1, <1>2, ClientServes, Zenon DEF Service!Next
<1>3. IrqFire \/ CallbackReturn => Service!Next
  BY FireCalls, ReturnServes, Zenon DEF Service!Next
<1>4. Tick \/ IrqEnter \/ IrqSpurious \/ UNCHANGED vars => Phase' = Phase /\ running' = running
  BY DEF Tick, IrqEnter, IrqSpurious, vars, Phase
<1> QED
  BY <1>1, <1>2, <1>3, <1>4, Zenon DEF Next, Handler

\* The list keeps what hwtimer_list.h promises its clients: a timer calls back
\* only after it was started and unless it was stopped, and callbacks do not
\* overlap, wherever the clients' calls, the interrupt and the ticks fall.
THEOREM TimersAreAService == Spec => ServiceSpec
<1>1. Init => Service!Init
  <2> SUFFICES ASSUME Init PROVE Service!Init
    OBVIOUS
  <2>1. Phase = [t \in Timer |-> "free"]
    BY SeenIs DEF Init, Phase
  <2> QED
    BY <2>1, Zenon DEF Init, Service!Init, Phase, Seen
<1> QED
  BY <1>1, ServiceStep, AlwaysParts, PTL DEF Spec, ServiceSpec, Service!Spec
=============================================================================
