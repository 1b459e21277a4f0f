--------------------------- MODULE MCHwTimerList ---------------------------
(* Three timers, so that a list has a head, an inner and a last timer. *)
EXTENDS HwTimerList, TLC

Symmetry == Permutations(Timer)
=============================================================================
