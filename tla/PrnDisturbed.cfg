SPECIFICATION Spec
CONSTANTS
  PRNs = {p1, p2}
  Requests = {q1, q2}
  PrnAmounts = {1}
  Credit = 2
  NumberBases = {1, 2}
  SuffixAttempts = 1
  MaxEvents = 5
  Disturbances = {"failure", "race", "lag"}
SYMMETRY Symmetry
INVARIANTS
  CatchUpReachesLedger
  WatermarkNamesOwnEvent
PROPERTIES
  HistoryOnlyGrows
  HonoursContract
CHECK_DEADLOCK FALSE
