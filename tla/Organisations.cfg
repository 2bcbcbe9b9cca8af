SPECIFICATION Spec
CONSTANTS
  a1 = a1
  a2 = a2
  Regs = {r1, r2}
  Accs = {a1, a2}
  NoAcc = NoAcc
  Key <- MCKey
  SubmissionTime <- MCSubmissionTime
  Tenants = {t1, t2}
  NotLinked = NotLinked
  u1 = u1
  u2 = u2
  Users = {u1, u2}
  Submitter = u1
  Contact <- MCContact
  Sites = {s1}
  EditedFields = {"validTo"}
  Requests = {q1, q2}
  MaxVersion = 4
  MaxHistory = 4
  MaxLag = 0
  Disturbances = {}
SYMMETRY Symmetry
INVARIANTS
  ConsistentUnlessCorrected
  MigrationNeverRefused
PROPERTIES
  RequestsChangeTheirOwn
  HonoursContract
CHECK_DEADLOCK FALSE
