SPECIFICATION FairSpec
CONSTANTS
  i1 = i1
  i2 = i2
  f1 = f1
  f2 = f2
  f3 = f3
  s1 = s1
  s2 = s2
  Imports = {i1, i2}
  Files = {f1, f2, f3}
  Upload <- MCUpload
  Sites = {s1, s2}
  Content <- MCContent
  NoSite = NoSite
  Executions = {e1, e2}
  MaxReceive = 2
  MaxRecords = 4
  MaxDisturbed = 2
  Disturbances = {"fault", "sendFailure", "crash", "timeout", "duplicate", "expiry"}
INVARIANTS
  StatusTellsWhatWasApplied
  RegistrationMapsOneFile

  
CHECK_DEADLOCK FALSE
