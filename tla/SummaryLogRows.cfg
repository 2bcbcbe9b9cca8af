SPECIFICATION Spec
CONSTANTS
  NONE = NONE
  ORS_VALIDATION_DISABLED = ORS_VALIDATION_DISABLED
  l1 = l1
  l2 = l2
  s1 = s1
  Logs = {l1, l2}
  Contents <- MCContents
  Accreditations <- MCAccreditations
  SiteContexts <- MCSiteContexts
  Months = {1, 2, 3, 4}
  ReportMonths = {1}
  MaxContexts = 1
  MaxReports = 1
  MaxReceive = 2
  Disturbances = {"crash"}
SYMMETRY Symmetry
CHECK_DEADLOCK FALSE
INVARIANTS
  HeadIsLatestUpload
  CreditReconciles
  RowsNeverRemoved
  BackfillMirrorsLive
PROPERTIES
  PreviewPredictsCredit
  HonoursContract
