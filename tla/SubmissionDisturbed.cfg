SPECIFICATION Spec
CONSTANTS
  Logs = {l1, l2}
  EmptyLogs = {}
  Runs = {r1, r2}
  MaxReceive = 2
  NoPrior = NoPrior
  Undefined = Undefined
  Disturbances = {"failure", "sendFailure", "crash", "timeout", "duplicate", "expiry", "report"}
SYMMETRY Symmetry
PROPERTIES
  SubmittedOnFreshBaseline
  SettledStaysSettled
  HonoursContract
CHECK_DEADLOCK FALSE
