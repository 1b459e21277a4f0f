SPECIFICATION FairSpec
CONSTANTS
  NoPrompt = none
  Prompt = {ring, warn, other}
  RingPrompt = ring
  OtherPrompt = other
  Warnings = {warn}
  MaxWarnings = 2
  MAX_AUDIO_BUF_LIST = 3
  Backlog = 3
  Environments <- MCApart
CHECK_DEADLOCK FALSE
INVARIANTS
  OneStream
  QueueIsHeard
  CurrentIsHeard
  MusicHeard
  VoiceHeard
PROPERTIES
  MusicReturns
