CONSTANTS
  Codes = {k1, k2}
  Adopted = {k1}
  Names = {"acme", "longname"}
  Norms = {"acme", "longname", "longn"}
  NormOf <- MCNormOf
  LegacyOf <- MCLegacyOf
  Owners = {o1}
  Consultants = {c1}
  Stale = {}
  Most = 1
  None = None
SPECIFICATION Spec
CHECK_DEADLOCK FALSE
INVARIANTS
  ScopeHolds
PROPERTIES
  IdentityMovesWhole
  ConsultantsWriteTheirOwn
