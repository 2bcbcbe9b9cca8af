SPECIFICATION Spec
CONSTANTS
  Periods = {1}
  MaxSubmissions = 2
  Logs = {l1, l2}
  NoLog = NoLog
  Requests = {q1}
  MaxReports = 2
  MaxVersion = 6
  Disturbances = {"crash"}
SYMMETRY Symmetry
INVARIANTS
  ReadersAgree
PROPERTIES
  EveryReportFlagged
  PublicDateStands
  HonoursContract
CHECK_DEADLOCK FALSE
