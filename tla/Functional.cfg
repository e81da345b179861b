\* One request with a checklist of two and two test cycles, people of different
\* roles. Ana raises requests and is also an SM and a department head.
SPECIFICATION FunctionalSpec
CONSTANTS
  r1 = r1  r2 = r2  y1 = y1  y2 = y2
  ana = ana  dev = dev  lea = lea  eng = eng  agm = agm  root = root  None = None
  Elsewhere = Elsewhere
  Requests = {r1}
  Requester <- OfAna
  Items = {"build", "data"}
  Mandatory = {"build"}
  FullTesting = {r1}
  Cycles = {y1, y2}
  Users = {ana, dev, lea, eng, agm, root}
  Admins = {root}
  SMs = {ana, dev}
  DeptHeads = {ana, dev}
  QALeads = {lea}
  Executives = {agm}
  Engineers = {eng}
  QAStaff = {lea, eng, agm}
INVARIANTS ApprovalsHold DeclarationsVerified WaitingIsExplained RequestPageAgrees
SYMMETRY CycleSymmetry
CHECK_DEADLOCK FALSE
