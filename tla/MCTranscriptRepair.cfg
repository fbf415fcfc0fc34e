CONSTANTS
    Words <- MCWords
    Openings <- MCOpenings
    Blank = ""
    MaxSaid = 2
    MaxResumes = 2
    MaxAnchors = 1
    MaxAudits = 1
    Faults = {}
SPECIFICATION Spec
CHECK_DEADLOCK FALSE
INVARIANTS
  RepairIsSound
PROPERTIES
  NothingWrittenOver
