SPECIFICATION TimedSpec
CONSTANTS
  Timer = {t1, t2, t3}
  NoTimer = NoTimer
  MaxTicks = 2
  MaxLate = 1
  Delta = 1
INVARIANTS
  NeverLate
PROPERTIES
  NeverEarly
SYMMETRY Symmetry
CHECK_DEADLOCK FALSE
