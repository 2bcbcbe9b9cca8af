SPECIFICATION Spec
CONSTANTS
  Writers = {w1, w2}
  Replicas = {r1}
  CreditTotals = {1, 2}
  PrnAmounts = {1}
  MaxEvents = 3
SYMMETRY WriterSymmetry
INVARIANTS
  TypeOK
  DecidedAtHead
  DeltaAgainstRunningTotal
PROPERTIES
  ImplementsAccount
  HonoursContract
