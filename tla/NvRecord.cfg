SPECIFICATION FairSpec
CONSTANTS
  Device = {d1, d2, d3}
  DDB_RECORD_NUM = 2
  Mode = {sink, source}
  DefaultMode = sink
  NoEnv = none
  Erased = erased
  Damaged = damaged
INVARIANTS
  TypeOK
  SavedUnlessDirty
PROPERTIES
  StoreSpec
  SavedInTheEnd
