SPECIFICATION Spec
CONSTANTS
  NoPrompt = none
  Prompt = {ring, warn}
  RingPrompt = ring
  OtherPrompt = warn
  Warnings = {warn}
  MaxWarnings = 2
  MAX_AUDIO_BUF_LIST = 3
  Backlog = 2
  Environments <- MCTogether
CHECK_DEADLOCK FALSE
INVARIANTS
  TypeOK
  DevicesKnown
  StreamInFront
  EndWillClose
