SPECIFICATION Spec
CONSTANTS
  Qty = 4
  BootUser = 2
  NoFreq = NoFreq
  AppUser <- MCAppUser
  Ask <- MCAsk
INVARIANTS
  TypeOK
  Covered
  FastClockHasPll
  PllPoweredByUsers
  PllDisabledIfCapable
CHECK_DEADLOCK FALSE
