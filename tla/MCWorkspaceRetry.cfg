CONSTANTS
  a = a
  b = b
  k1 = k1
  k2 = k2
  e1 = e1
  e2 = e2
  e3 = e3
  j1 = j1
  None = None
  Tabs = {a, b}
  Keys = {k1, k2}
  Edits = {e1, e2}
  Jobs = {}
  By <- OneEach
  On <- OwnDocuments
  MaxFlights = 2
  Troubles = {"fail", "refuse"}
  MaxTroubles = 3
SPECIFICATION FairSpec
CHECK_DEADLOCK FALSE
INVARIANTS
  NoEditLost
PROPERTIES
  EditsReachTheServer
