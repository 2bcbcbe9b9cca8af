SPECIFICATION Spec
CONSTANTS
  PRNs = {p1, p2}
  Requests = {q1, q2}
  PrnAmounts = {1, 2}
  Credit = 2
  NumberBases = {1, 2}
  SuffixAttempts = 2
  MaxEvents = 8
  Disturbances = {"regulator"}
SYMMETRY Symmetry
INVARIANTS
  BalanceMatchesPrns
  
CHECK_DEADLOCK FALSE
