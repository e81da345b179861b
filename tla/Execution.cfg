SPECIFICATION ExecutionSpec
CONSTANTS
  k1 = k1
  c1 = c1
  c2 = c2
  d1 = d1
  d2 = d2
  tess = tess
  eli = eli
  agm = agm
  root = root
  dev = dev
  own = own
  None = None
  Cycles = {k1}
  Cases = {c1, c2}
  Defects = {d1, d2}
  Users = {tess, eli, agm, root, dev, own}
  Admins = {root}
  SMs = {}
  DeptHeads = {}
  QALeads = {eli}
  Executives = {agm}
  AGMs = {agm}
  Engineers = {tess}
  QAStaff = {tess, eli, agm}
  AppOwners = {own}
  Reporters = {tess, eli, own}
  Developers = {dev}
  Readers = {tess}
  Results = {"Pass", "Fail", "Retest Passed"}
  MaxVersion = 2
  MaxRuns = 2
INVARIANTS RegisterIsSound ExecutionPagesAgree
PROPERTIES DefectsGovernRetest RecordsStand AttemptAsAnnounced
CHECK_DEADLOCK FALSE
