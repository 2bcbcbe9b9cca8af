SPECIFICATION Spec
CONSTANTS
  Periods = {1}
  MaxSubmissions = 2
  Logs = {l1}
  NoLog = NoLog
  Requests = {q1, q2}
  MaxReports = 2
  MaxVersion = 6
  Disturbances = {"slowCreate", "unsubmitDuringUpload", "crash"}
SYMMETRY Symmetry
INVARIANTS
  LaterSubmissionRestsOnEarlier
PROPERTIES
  RequirementStands
  SubmittedWhileFresh
CHECK_DEADLOCK FALSE
