SPECIFICATION FairSpec
CONSTANTS
  Timer = {t1, t2, t3}
  NoTimer = NoTimer
  MaxTicks = 2
  MaxLate = 1
  Delta = 1
INVARIANTS
  TypeOK
  ListsMatchStates
  CounterIsHeads
PROPERTIES
  ActiveEnds
  ServiceSpec
CHECK_DEADLOCK FALSE
