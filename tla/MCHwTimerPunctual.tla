------------------------- MODULE MCHwTimerPunctual -------------------------
(* HwTimerPunctual for TLC: as in MCHwTimerList. *)
EXTENDS HwTimerPunctual, TLC

Symmetry == Permutations(Timer)
=============================================================================
