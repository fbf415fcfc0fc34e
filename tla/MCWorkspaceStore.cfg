CONSTANTS
  a = a
  b = b
  k1 = k1
  k2 = k2
  e1 = e1
  e2 = e2
  e3 = e3
  j1 = j1
  None = None
  Tabs = {a, b}
  Keys = {k1}
  Edits = {e1, e2}
  Jobs = {j1}
  By <- OneEach
  On <- OneDocument
  MaxFlights = 2
  Troubles = {"fail", "refuse", "remove", "leave", "rehydrate", "garbled"}
  MaxTroubles = 2
SPECIFICATION Spec
CHECK_DEADLOCK FALSE
INVARIANTS
  VersionsNameValues
  SavesReplaceWhatWasRead
