SPECIFICATION Spec
CONSTANTS
  PRNs = {p1}
  Requests = {q1, q2}
  PrnAmounts = {1}
  Credit = 2
  NumberBases = {1, 2}
  SuffixAttempts = 1
  MaxEvents = 5
  Disturbances = {"race"}
SYMMETRY Symmetry
INVARIANT
  BalanceMovedOnce
CHECK_DEADLOCK FALSE
