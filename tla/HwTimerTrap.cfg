SPECIFICATION Spec
CONSTANTS
  Timer = {t1, t2, t3}
  NoTimer = NoTimer
  MaxTicks = 3
  MaxLate = 1
  Delta = 1
INVARIANTS
  NoTrap
SYMMETRY Symmetry
CHECK_DEADLOCK FALSE
