SPECIFICATION FairSpec
CONSTANTS
  MaxTurns = 2
  MaxVoice = 1
  MaxUtterances = 1
  MaxUpsets = 1
  Faults = {}
CHECK_DEADLOCK FALSE
INVARIANTS
  TurnsCountOnce
  FloorHeld
  QuestionBeforeAnswer
  NobodyCutOff
PROPERTIES
  NobodyWaitsForever
