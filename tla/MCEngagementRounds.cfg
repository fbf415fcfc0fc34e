CONSTANTS
  Dims <- MCDims
  Weight <- MCWeight
  Roles <- MCRoles
  Names <- MCNames
  People <- MCPeople
  Claims <- MCClaims
  Scores <- MCScores
  Sittings <- MCSittings
  Plan <- MCPlan
  Unnamed = Unnamed
  Absent = Absent
  MaxRound = 3
SPECIFICATION RoundsSpec
CHECK_DEADLOCK FALSE
INVARIANTS
  ScoresHold
  NothingMisattributed
PROPERTIES
  CardFollowsAnswers
