SPECIFICATION Spec
CONSTANTS
  PrnIds = {1, 2, 3}
  ExcludedPrns = {2}
  Dates = {1, 2}
  PrnQueries <- MCPrnQueries
  Limits = {0, 1, 2}
  LogIds = {1, 2, 3, 4}
  LogEntries <- MCLogEntries
  LogQueries <- MCLogQueries
  SearchLimit = 2
  FileOf <- MCFileOf
  Disturbances = {"skew"}
  ItemIds = {1, 2, 3}
  Keys = {1, 2, 3}
  Searches <- MCSearches
  PageSizes = {1, 2}
  MaxChanges = 2
  Templates <- MCTemplates
  SectionNames = {"A", "B", "C"}
  MetaNames = {"M"}
  Placeholders <- MCPlaceholders
  RowIdHeader = "id"
  RequiredHeaders = {"id"}
  Tables = {"A", "B"}
  RejectedValues = {"bad"}
  MaxEmptyRows = 2
  MaxEmptyColumns = 2
  MaxRowsPerSheet = 4
  MaxColumnsPerSheet = 5
  MaxWorksheets = 2
  MaxRows = 5
INVARIANTS
  ListingsShowWhatIsThere
  WorkbookReadAsLaidOut
  SubmittedRowsAreTheValidated
PROPERTIES
  PagesTellTheLog
  HonoursContract
CHECK_DEADLOCK FALSE
