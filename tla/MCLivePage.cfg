SPECIFICATION FairSpec
CONSTANTS
  MaxVoices = 3
  MaxRenewals = 3
  MaxRetries = 2
  MaxQuota = 1
  MaxRejections = 2
  Faults = {}
CHECK_DEADLOCK FALSE
INVARIANTS
  MutedIffPaused
  OneVoice
  EndedOnce
PROPERTIES
  ComesBack
