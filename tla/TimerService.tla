---------------------------- MODULE TimerService ----------------------------
(***************************************************************************)
(* What hwtimer_list.h promises its clients, without lists, ticks and      *)
(* interrupts: a timer calls back only after it was started and unless it  *)
(* was stopped, callbacks do not overlap, and a callback may restart its   *)
(* own timer, which then calls back again.                                 *)
(***************************************************************************)
CONSTANTS Timer, NoTimer

VARIABLES
  phase,      \* free, stopped, armed or calling
  current     \* the timer whose callback runs

vars == <<phase, current>>

Init == phase = [t \in Timer |-> "free"] /\ current = NoTimer

Take(t) ==
  /\ phase[t] = "free"
  /\ phase' = [phase EXCEPT ![t] = "stopped"]
  /\ UNCHANGED current

Give(t) ==
  /\ phase[t] = "stopped"
  /\ phase' = [phase EXCEPT ![t] = "free"]
  /\ UNCHANGED current

Arm(t) ==
  /\ phase[t] \in {"stopped", "calling"}
  /\ phase' = [phase EXCEPT ![t] = "armed"]
  /\ UNCHANGED current

Disarm(t) ==
  /\ phase[t] = "armed"
  /\ phase' = [phase EXCEPT ![t] = "stopped"]
  /\ UNCHANGED current

Call(t) ==
  /\ current = NoTimer
  /\ phase[t] = "armed"
  /\ phase' = [phase EXCEPT ![t] = "calling"]
  /\ current' = t

\* What the end of the current callback leaves: a restarted timer stays armed.
Returned ==
  [t \in Timer |-> IF t = current /\ phase[t] = "calling" THEN "stopped" ELSE phase[t]]

Return ==
  /\ current # NoTimer
  /\ phase' = Returned
  /\ current' = NoTimer

\* One callback ends and the next begins.
Switch(t) ==
  /\ current # NoTimer
  /\ Returned[t] = "armed"
  /\ phase' = [Returned EXCEPT ![t] = "calling"]
  /\ current' = t

Next ==
  \/ \E t \in Timer : Take(t) \/ Give(t) \/ Arm(t) \/ Disarm(t) \/ Call(t) \/ Switch(t)
  \/ Return

Spec == Init /\ [][Next]_vars
=============================================================================
