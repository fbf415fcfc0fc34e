CONSTANTS
  Checkouts = {k1, k2}
  Plans = {sprint, scale}
  Trial = trial
  LimitOf <- MCLimitOf
  TrialDays = 2
  MaxTime = 3
  MaxChanges = 1
  Faults = {}
  None = None
SYMMETRY Sym
SPECIFICATION Spec
CHECK_DEADLOCK FALSE
INVARIANTS
  SettlesOnStripe
  GateFollowsPayment
  PortalReachesIt
