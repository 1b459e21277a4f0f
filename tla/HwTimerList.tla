---------------------------- MODULE HwTimerList ----------------------------
(***************************************************************************)
(* Software timers multiplexed on one hardware timer:                      *)
(* utils/hwtimer_list/hwtimer_list.c over platform/hal/hal_timer.c.        *)
(*                                                                         *)
(* The active timers form a list in which each timer keeps the time that   *)
(* is left after the one before it; the hardware timer runs for the head   *)
(* and is loaded HAL_TIMER_LOAD_DELTA ticks short.  When it expires its    *)
(* interrupt moves the head, and every follower that is due too, to the    *)
(* fired list and calls them back one by one with interrupts enabled.      *)
(*                                                                         *)
(* Every operation is one critical section (int_lock), and may be called   *)
(* by a thread, by the running callback or by an interrupt that preempts   *)
(* the handler: the key GPIO's interrupt keeps the default, highest,       *)
(* priority and restarts the debounce timer.  hwtimer_alloc is two steps:  *)
(* it marks the timer it took off the free list after int_unlock.          *)
(***************************************************************************)
EXTENDS Integers, Sequences, FiniteSets, SequencesExt

CONSTANTS
  Timer,      \* hwtimer_list.timer
  NoTimer,    \* NULL
  MaxTicks,   \* bound: the longest interval asked for
  MaxLate,    \* bound: how long an expired timer's interrupt can be held off
  Delta       \* HAL_TIMER_LOAD_DELTA

ASSUME TimerAssumption == IsFiniteSet(Timer) /\ NoTimer \notin Timer
ASSUME TickAssumption == MaxTicks \in Nat \ {0} /\ MaxLate \in Nat /\ Delta \in Nat \ {0}

TimerState == {"FREE", "ALLOC", "ACTIVE", "FIRED", "CALLBACK"}

VARIABLES
  state,      \* enum HWTIMER_STATE_T of each timer
  time,       \* the time a timer has left after the one before it
  free, active, fired,   \* the three lists
  popped,     \* timers hwtimer_alloc took off the free list and did not mark yet
  hw,         \* the hardware timer: enabled, counter, time since start, interrupt
  handler,    \* where hwtimer_handler is
  running,    \* the timer whose callback runs
  fault       \* the processor trapped on a write through NULL

lists == <<free, active, fired>>
vars  == <<state, time, free, active, fired, popped, hw, handler, running, fault>>

TypeOK ==
  /\ state \in [Timer -> TimerState]
  /\ time \in [Timer -> Nat]
  /\ free \in Seq(Timer) /\ active \in Seq(Timer) /\ fired \in Seq(Timer)
  /\ popped \subseteq Timer
  /\ hw \in [on : BOOLEAN, left : Nat, since : Nat, irq : BOOLEAN]
  /\ handler \in {"idle", "entered", "callback"}
  /\ running \in Timer \cup {NoTimer}
  /\ fault \in BOOLEAN

----------------------------------------------------------------------------
(* The hardware timer, hal_timer.c. *)

\* hal_timer_start: an interrupt that is already pending stays pending.
HwStart(load) ==
  [hw EXCEPT !.on = TRUE, !.since = 0,
             !.left = IF load > Delta THEN load - Delta ELSE 1]

\* hal_timer_stop; the counter and the start time are not read until the
\* next start.
HwStop == [on |-> FALSE, left |-> 0, since |-> 0, irq |-> FALSE]

\* hal_timer_stop, then hal_timer_start.
HwRestart(load) == [HwStart(load) EXCEPT !.irq = FALSE]

----------------------------------------------------------------------------
(* Delta lists. *)

\* The sum of the times of the first n timers of a list.
TimeUpTo(list, n) ==
  LET sum[i \in 0 .. Len(list)] == IF i = 0 THEN 0 ELSE sum[i - 1] + time[list[i]]
  IN  sum[n]

\* How many timers of a list are due after t ticks, times of 0 included.
DueWithin(list, t) ==
  Max({n \in 0 .. Len(list) : TimeUpTo(list, n) <= t})

\* (mutant) a timer goes behind those that expire one tick later
DueBeforeOffByOne(list, t) ==
  Max({0} \cup {n \in 1 .. Len(list) : TimeUpTo(list, n) <= t + 1})

\* How many timers of a list come before one with t ticks left: a timer goes
\* in front of those with the same expiry.
DueBefore(list, t) ==
  Max({0} \cup {n \in 1 .. Len(list) : TimeUpTo(list, n) < t})

\* The time by which the head is overdue.
Overrun ==
  LET head == time[Head(active)]
  IN  IF hw.since > head THEN hw.since - head ELSE 0

----------------------------------------------------------------------------
\* hwtimer_init; the timers are interchangeable.
Init ==
  /\ state = [t \in Timer |-> "FREE"]
  /\ time = [t \in Timer |-> 0]
  /\ free \in SetToSeqs(Timer)
  /\ active = <<>> /\ fired = <<>>
  /\ popped = {}
  /\ hw = [on |-> FALSE, left |-> 0, since |-> 0, irq |-> FALSE]
  /\ handler = "idle" /\ running = NoTimer
  /\ fault = FALSE

\* hwtimer_alloc up to int_unlock; with an empty free list it returns NULL.
AllocPop ==
  /\ free # <<>>
  /\ popped' = popped \cup {Head(free)}
  /\ free' = Tail(free)
  /\ UNCHANGED <<state, time, active, fired, hw, handler, running, fault>>

\* The rest of hwtimer_alloc.
AllocMark(t) ==
  /\ t \in popped
  /\ popped' = popped \ {t}
  /\ state' = [state EXCEPT ![t] = "ALLOC"]
  /\ UNCHANGED <<time, lists, hw, handler, running, fault>>

\* hwtimer_free; in any other state it returns E_HWTIMER_INVAL_ST.
Free(t) ==
  /\ state[t] = "ALLOC"
  /\ state' = [state EXCEPT ![t] = "FREE"]
  /\ free' = <<t>> \o free
  /\ UNCHANGED <<time, active, fired, popped, hw, handler, running, fault>>

\* (mutant) one may be started from any allocated state
CanStartAlways(t) == state[t] # "FREE"

CanStart(t) == state[t] \in {"ALLOC", "CALLBACK"}

\* hwtimer_start, hwtimer_update_then_start: nothing is active.
StartAlone(t, ticks) ==
  /\ active = <<>>
  /\ active' = <<t>>
  /\ time' = [time EXCEPT ![t] = ticks]
  /\ hw' = HwStart(ticks)

\* (mutant) the hardware timer keeps running for the old head
StartFirstNoRestart(t, ticks) ==
  /\ active # <<>>
  /\ hw.left > ticks
  /\ active' = <<t>> \o active
  /\ time' = [time EXCEPT ![t] = ticks, ![Head(active)] = hw.left - ticks]
  /\ UNCHANGED hw

\* The timer expires before the head.
StartFirst(t, ticks) ==
  /\ active # <<>>
  /\ hw.left > ticks
  /\ active' = <<t>> \o active
  /\ time' = [time EXCEPT ![t] = ticks, ![Head(active)] = hw.left - ticks]
  /\ hw' = HwRestart(ticks)

\* (mutant) the follower keeps its time when a timer is inserted before it
StartLaterKeepsFollower(t, ticks) ==
  /\ active # <<>>
  /\ hw.left <= ticks
  /\ LET rest == Tail(active)
         n    == DueBefore(rest, ticks - hw.left)
     IN  /\ active' = InsertAt(active, n + 2, t)
         /\ time' = [time EXCEPT ![t] = ticks - hw.left - TimeUpTo(rest, n)]
  /\ UNCHANGED hw

\* The timer goes behind the head: ticks are counted from the head's expiry.
StartLater(t, ticks) ==
  /\ active # <<>>
  /\ hw.left <= ticks
  /\ LET rest  == Tail(active)
         n     == DueBefore(rest, ticks - hw.left)
         after == ticks - hw.left - TimeUpTo(rest, n)
     IN  /\ active' = InsertAt(active, n + 2, t)
         /\ time' = [u \in Timer |->
                       IF u = t THEN after
                       ELSE IF n < Len(rest) /\ u = rest[n + 1] THEN time[u] - after
                       ELSE time[u]]
  /\ UNCHANGED hw

Start(t, ticks) ==
  /\ CanStart(t)
  /\ state' = [state EXCEPT ![t] = "ACTIVE"]
  /\ \/ StartAlone(t, ticks)
     \/ StartFirst(t, ticks)
     \/ StartLater(t, ticks)
  /\ UNCHANGED <<free, fired, popped, handler, running, fault>>

\* hwtimer_stop of the head, not expired: its rest goes to the follower.
StopHead(t) ==
  /\ active # <<>> /\ Head(active) = t
  /\ hw.left > 0 \/ Len(active) = 1
  /\ active' = Tail(active)
  /\ IF Len(active) = 1
     THEN hw' = HwStop /\ UNCHANGED time
     ELSE LET next == active[2]
          IN  /\ time' = [time EXCEPT ![next] = @ + hw.left]
              /\ hw' = HwRestart(time[next] + hw.left)

\* (mutant) the time the head is overdue is not taken off its followers
StopExpiredHeadForgetsOverrun(t) ==
  /\ Len(active) > 1 /\ Head(active) = t
  /\ hw.left = 0
  /\ active' = Tail(active)
  /\ hw' = HwRestart(time[active[2]])
  /\ UNCHANGED time

\* hwtimer_stop of an expired head: the followers that are due too get 0 and
\* the first that is not pays for the rest.
StopExpiredHead(t) ==
  /\ Len(active) > 1 /\ Head(active) = t
  /\ hw.left = 0
  /\ LET rest  == Tail(active)
         due   == DueWithin(rest, Overrun)
         after == Overrun - TimeUpTo(rest, due)
     IN  /\ active' = rest
         /\ time' = [u \in Timer |->
                       IF \E i \in 1 .. due : u = rest[i] THEN 0
                       ELSE IF due < Len(rest) /\ u = rest[due + 1] THEN time[u] - after
                       ELSE time[u]]
         /\ hw' = HwRestart(time'[rest[1]])

\* (mutant) the time of the stopped timer is lost
StopInnerLosesTime(t) ==
  \E i \in 2 .. Len(active) - 1 :
    /\ active[i] = t
    /\ active' = RemoveAt(active, i)
    /\ UNCHANGED <<time, hw>>

\* hwtimer_stop in the middle of the list: the follower takes over the time.
StopInner(t) ==
  \E i \in 2 .. Len(active) - 1 :
    /\ active[i] = t
    /\ active' = RemoveAt(active, i)
    /\ time' = [time EXCEPT ![active[i + 1]] = @ + time[t]]
    /\ UNCHANGED hw

\* hwtimer_stop of the last of several: the code adds the time to
\* next->next->time although next->next is NULL, a write to ROM at address 8,
\* which is dropped or traps.
StopLast(t) ==
  /\ Len(active) > 1 /\ active[Len(active)] = t
  /\ active' = Front(active)
  /\ UNCHANGED <<time, hw>>

StopActive(t) ==
  /\ state[t] = "ACTIVE"
  /\ StopHead(t) \/ StopExpiredHead(t) \/ StopInner(t) \/ StopLast(t)
  /\ state' = [state EXCEPT ![t] = "ALLOC"]
  /\ UNCHANGED <<free, fired, popped, handler, running, fault>>

StopLastTraps(t) ==
  /\ state[t] = "ACTIVE"
  /\ Len(active) > 1 /\ active[Len(active)] = t
  /\ fault' = TRUE
  /\ UNCHANGED <<state, time, lists, popped, hw, handler, running>>

\* hwtimer_stop of a timer whose callback is still to come.  A timer in its
\* callback is not stopped (E_HWTIMER_IN_CALLBACK), a stopped one stays so.
StopFired(t) ==
  /\ state[t] = "FIRED"
  /\ \E i \in 1 .. Len(fired) : fired[i] = t /\ fired' = RemoveAt(fired, i)
  /\ state' = [state EXCEPT ![t] = "ALLOC"]
  /\ UNCHANGED <<time, free, active, popped, hw, handler, running, fault>>

----------------------------------------------------------------------------
\* Time passes; the counter of the enabled timer stops at 0 (one shot).
Tick ==
  /\ hw.on
  /\ active # <<>> => hw.since < time[Head(active)] + MaxLate
  /\ hw' = [hw EXCEPT !.since = @ + 1,
                      !.left = IF @ > 0 THEN @ - 1 ELSE 0,
                      !.irq = @ \/ hw.left = 1]
  /\ UNCHANGED <<state, time, lists, popped, handler, running, fault>>

\* hal_timer2_irq_handler, up to int_lock: the interrupt is cleared first.
IrqEnter ==
  /\ handler = "idle" /\ hw.irq
  /\ handler' = "entered"
  /\ hw' = [hw EXCEPT !.irq = FALSE]
  /\ UNCHANGED <<state, time, lists, popped, running, fault>>

\* A preempting interrupt removed the timer or put another one at the head.
Early == active # <<>> => time[Head(active)] > hw.since + Delta

IrqSpurious ==
  /\ handler = "entered" /\ Early
  /\ handler' = "idle"
  /\ UNCHANGED <<state, time, lists, popped, hw, running, fault>>

\* The head and the followers that are due.
DueNow == 1 + DueWithin(Tail(active), Overrun)

\* (mutant) the handler returns without starting the hardware timer again
RearmForgotten(rest, after) == HwStop

\* The handler restarts the hardware timer for the timers that stay active.
Rearm(rest, after) ==
  IF rest = <<>> THEN HwStop ELSE HwStart(time[Head(rest)] - after)

\* hwtimer_handler up to the first callback.
IrqFire ==
  /\ handler = "entered" /\ ~Early
  /\ LET due   == SubSeq(active, 1, DueNow)
         rest  == SubSeq(active, DueNow + 1, Len(active))
         after == Overrun - TimeUpTo(Tail(active), DueNow - 1)
     IN  /\ active' = rest
         /\ fired' = Tail(due)
         /\ running' = Head(due)
         /\ state' = [t \in Timer |-> IF t = Head(due) THEN "CALLBACK"
                                      ELSE IF t \in ToSet(due) THEN "FIRED"
                                      ELSE state[t]]
         /\ time' = IF rest = <<>> THEN time
                    ELSE [time EXCEPT ![Head(rest)] = @ - after]
         /\ hw' = Rearm(rest, after)
  /\ handler' = "callback"
  /\ UNCHANGED <<free, popped, fault>>

\* (mutant) the state is reset although the callback restarted the timer
AfterCallbackAlways == [state EXCEPT ![running] = "ALLOC"]

\* The timer is idle again unless its callback restarted it.
AfterCallback ==
  [state EXCEPT ![running] = IF @ = "CALLBACK" THEN "ALLOC" ELSE @]

\* A callback returns and the next fired timer, if any, is called back.
CallbackReturn ==
  /\ handler = "callback"
  /\ IF fired = <<>>
     THEN /\ state' = AfterCallback
          /\ handler' = "idle" /\ running' = NoTimer
          /\ UNCHANGED fired
     ELSE /\ state' = [AfterCallback EXCEPT ![Head(fired)] = "CALLBACK"]
          /\ running' = Head(fired)
          /\ fired' = Tail(fired)
          /\ UNCHANGED handler
  /\ UNCHANGED <<time, free, active, popped, hw, fault>>

Client ==
  \/ AllocPop
  \/ \E t \in Timer : \/ AllocMark(t)
                      \/ Free(t)
                      \/ \E ticks \in Delta .. MaxTicks : Start(t, ticks)
                      \/ StopActive(t) \/ StopLastTraps(t) \/ StopFired(t)

Handler == IrqEnter \/ IrqSpurious \/ IrqFire \/ CallbackReturn

Next == ~fault /\ (Client \/ Tick \/ Handler)

Spec == Init /\ [][Next]_vars

(* Time passes, callbacks return and the handler gets the processor.  The
   interrupt is taken, and the handler finds its timer, unless a client's stop
   or start revokes it: strong fairness says that a client does not hit that
   window again and again for ever.  Nothing else is assumed of the clients. *)
FairSpec ==
  /\ Spec
  /\ WF_vars(~fault /\ Tick)
  /\ WF_vars(~fault /\ (IrqSpurious \/ CallbackReturn))
  /\ SF_vars(~fault /\ IrqEnter)
  /\ SF_vars(~fault /\ IrqFire)

----------------------------------------------------------------------------
InList(list, s) ==
  /\ IsInjective(list)
  /\ ToSet(list) = {t \in Timer : state[t] = s}

(* A timer is in the list its state names, once, and in no other, whichever
   of alloc, free, start, stop and the handler's steps overlap. *)
ListsMatchStates ==
  /\ InList(active, "ACTIVE")
  /\ InList(fired, "FIRED")
  /\ IsInjective(free) /\ ToSet(free) \cap popped = {}
  /\ ToSet(free) \cup popped = {t \in Timer : state[t] = "FREE"}
  /\ \A t \in Timer : state[t] = "CALLBACK" => t = running

(* The ASSERTs of hwtimer_start and hwtimer_stop: the counter belongs to the
   head of the active list.  With them the ASSERTs of hwtimer_handler hold: an
   interrupt that finds no active timer finds the counter stopped. *)
CounterIsHeads ==
  /\ hw.on <=> active # <<>>
  /\ active # <<>> =>
       /\ hw.left <= time[Head(active)] \/ hw.left <= Delta
       /\ hw.left = 0 => hw.since + Delta >= time[Head(active)]

(* An active timer is called back or stopped in the end, whatever the other
   clients keep starting and stopping. *)
ActiveEnds ==
  \A t \in Timer : state[t] = "ACTIVE" ~> state[t] # "ACTIVE" \/ fault

(* The ASSERT of hwtimer_stop says that stopping an active timer succeeds;
   it does not trap. *)
NoTrap == ~fault

(* What the list promises its clients, see TimerService: FIRED is still armed
   for them, as hwtimer_stop cancels the callback. *)
Service == INSTANCE TimerService WITH
  phase <- [t \in Timer |-> CASE state[t] = "FREE"                -> "free"
                              [] state[t] = "ALLOC"               -> "stopped"
                              [] state[t] \in {"ACTIVE", "FIRED"} -> "armed"
                              [] OTHER                            -> "calling"],
  current <- running

ServiceSpec == Service!Spec
=============================================================================
