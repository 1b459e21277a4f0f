SPECIFICATION Spec
CONSTANTS
  NoPrompt = none
  Prompt = {ring, warn}
  RingPrompt = ring
  OtherPrompt = warn
  Warnings = {warn}
  MaxWarnings = 4
  MAX_AUDIO_BUF_LIST = 5
  Backlog = 2
  Environments <- MCPromptsAndAudio
CHECK_DEADLOCK FALSE
INVARIANTS
  NoInvalidDevice
