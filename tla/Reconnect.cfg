SPECIFICATION FairSpec
CONSTANTS
  RETRY_LIMIT_CNT = 15
  MAILBOX_MAX = 3
  Phones <- MCPhones
  Records <- MCRecords
INVARIANTS
  TypeOK
  PagesBounded
PROPERTIES
  NothingNewAsked
  RetriesGoOn
  OpeningEnds
