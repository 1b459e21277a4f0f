SPECIFICATION FairSpec
CONSTANTS
  RETRY_LIMIT_CNT = 15
  MAILBOX_MAX = 3
  Phones <- CallPhones
  Records <- NewRecords
PROPERTY
  ReconnectEnds
