CONSTANTS
  s1 = s1
  s2 = s2
  s3 = s3
  Users = {u1}
  Sessions = {s1, s2}
  Closes = {c1, c2}
  Calls = {k1}
  None = None
  HoldOf <- MCHoldOf
  CallTokens = 2
  Reports <- MCReports
  MonthlyLimit = 4
  DailyLimit = 3
  MaxConcurrent = 2
  OpenWindow = 1
  MaxSession = 2
  SweepAge = 2
  Month = 3
  Day = 2
  MaxTime = 3
SYMMETRY Symmetric
SPECIFICATION Spec
CHECK_DEADLOCK FALSE
INVARIANTS
  SessionsAddUp
  LiveTokenIsCharged
  ReservationsWithinCap
PROPERTIES
  KeepsAccount
  CapsSeeSpending
