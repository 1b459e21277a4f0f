SPECIFICATION FairSpec
CONSTANTS
  SBC_QUEUE_SIZE = 2
  CACHE_OK = 2
  TIMEROUT_CNT = 1
  Packets <- MCPackets
INVARIANTS
  TypeOK
  DecoderOwnsQueue
  SpeakerFed
PROPERTIES
  FillsOtherHalf
  FifoSpec
  PutReturns
  MusicGoesOn
  PlayerReturns
