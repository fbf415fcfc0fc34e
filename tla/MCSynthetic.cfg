CONSTANTS
  Pages = {p1, p2}
  Chunking = {p1}
  Names = {c1, c2}
  c1 = c1
  c2 = c2
  Norm <- MCNorm
  SynCode <- MCSynCode
  Catalogs <- MCCatalogs
  Legacy = TRUE
  MaxRuns = 2
  MaxWork = 2
  MaxFailures = 1
  Overlaps = {}
  None = None
SPECIFICATION Spec
SYMMETRY Symmetry
CHECK_DEADLOCK FALSE
INVARIANTS
  RecordsAgree
  RealWorkSurvives
  WholeStory
