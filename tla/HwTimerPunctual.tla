-------------------------- MODULE HwTimerPunctual --------------------------
(***************************************************************************)
(* When the timers of HwTimerList fire.  Two history variables follow each *)
(* active timer:                                                           *)
(*   soonest  the ticks left until it may fire: the hardware timer is      *)
(*            loaded Delta ticks short each time it is started for the     *)
(*            list, and a timer started while the head is overdue is       *)
(*            queued as if it had been started at the head's expiry;       *)
(*   latest   the ticks left until it is due: stopping an overdue head     *)
(*            gives the timers that are due with it one more expiry to     *)
(*            wait for, and the hardware's least load of one tick may be   *)
(*            more than the head had left.                                 *)
(* Both stop counting down at Floor, below every value that matters.       *)
(***************************************************************************)
EXTENDS HwTimerList

VARIABLES latest, soonest

timedVars == <<vars, latest, soonest>>

Floor == -(MaxLate + 2 * Delta + 1)
Down(n, k) == Max({n - k, Floor})

\* Every active timer loses k ticks.
Charge(hist, k) == [t \in Timer |-> IF state[t] = "ACTIVE" THEN Down(hist[t], k) ELSE 0]

\* A history for the timers that are active after the step.
Kept(hist) == [t \in Timer |-> IF state'[t] = "ACTIVE" THEN hist[t] ELSE 0]

TimedInit ==
  /\ Init
  /\ latest = [t \in Timer |-> 0] /\ soonest = [t \in Timer |-> 0]

TimedStart(t, ticks) ==
  LET late  == IF active = <<>> THEN 0 ELSE Overrun
      rearm == active # <<>> /\ hw.left > ticks
  IN /\ Start(t, ticks)
     /\ latest' = [latest EXCEPT ![t] = ticks]
     /\ soonest' = [Charge(soonest, IF rearm THEN Delta ELSE 0)
                      EXCEPT ![t] = ticks - late - Delta]

\* What the list adds to the wait of the others when head t is stopped.
Rounding(t) == Max({0, hw.left + hw.since - time[t]})
Prolonged(t) ==
  [u \in Timer |-> IF hw.left > 0 THEN latest[u] + Rounding(t) ELSE Max({0, latest[u]})]

\* Only stopping the head restarts the hardware timer.
TimedStop(t) ==
  /\ StopActive(t)
  /\ latest' = Kept(IF Head(active) = t THEN Prolonged(t) ELSE latest)
  /\ soonest' = Kept(Charge(soonest, IF Head(active) = t THEN Delta ELSE 0))

TimedTick ==
  /\ Tick
  /\ latest' = Charge(latest, 1)
  /\ soonest' = Charge(soonest, 1)

TimedFire ==
  /\ IrqFire
  /\ latest' = Kept(latest)
  /\ soonest' = Kept(Charge(soonest, Delta))

Untimed ==
  /\ \/ AllocPop \/ IrqEnter \/ IrqSpurious \/ CallbackReturn
     \/ \E t \in Timer : AllocMark(t) \/ Free(t) \/ StopLastTraps(t) \/ StopFired(t)
  /\ UNCHANGED <<latest, soonest>>

TimedNext ==
  /\ ~fault
  /\ \/ \E t \in Timer : \/ \E ticks \in Delta .. MaxTicks : TimedStart(t, ticks)
                         \/ TimedStop(t)
     \/ TimedTick \/ TimedFire \/ Untimed

TimedSpec == TimedInit /\ [][TimedNext]_timedVars

----------------------------------------------------------------------------
(* A timer never fires before the interval asked for is over, except for one
   tick of the hardware's load, one per restart of the hardware timer since,
   and the time the head was overdue when it was started. *)
NeverEarly ==
  [][\A t \in Timer :
       state[t] = "ACTIVE" /\ state'[t] \in {"FIRED", "CALLBACK"} => soonest[t] <= 0
    ]_timedVars

(* No timer is still waiting when it is overdue by more than the interrupt
   was held off and one tick, the one by which a head is loaded short. *)
NeverLate == \A t \in Timer : state[t] = "ACTIVE" => latest[t] >= -(MaxLate + Delta)
=============================================================================
