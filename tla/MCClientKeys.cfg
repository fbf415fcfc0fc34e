CONSTANTS
  Clients = {c1, c2}
  Names = {n1, n2}
  Vendors = {"google"}
  Adapters = {"gv", "av", "g1", "g2", "a1"}
  VendorOf <- MCVendorOf
  ByokAdapters <- MCByokAdapters
  Chains <- MCChains
  Configured = {"gv", "av"}
  Links = {l1, l2}
  Calls = {k1}
  MaxAttempts = 2
  Faults = {}
  None = None
SYMMETRY SymAll
SPECIFICATION Spec
CHECK_DEADLOCK FALSE
INVARIANTS
  FirmPaysOnlyUnderGrant
  NoKeyMisused
PROPERTIES
  KeysFollowRename
