SPECIFICATION Spec
CONSTANTS
  People = {p1, p2}
  Clients = {acme}
  Consultants = {c1}
  MaxInterviews = 2
  MaxRound = 2
  MaxSaves = 2
  MaxPatches = 1
  ArchiveMost = 2
  Overlaps = {}
  Faults = {"garbled", "aborts", "dies"}
  None = None
SYMMETRY SymPeople
CHECK_DEADLOCK FALSE
INVARIANTS
  InvitedCanSignIn
  AnswersKept
  ServedRightly
  ErasedIsGone
PROPERTIES
  FinishedStands
