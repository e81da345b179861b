\* One request of either kind, two suppressions, a checklist of one. Ana raises
\* requests and is also an SM and a department head; Eng tests and analyses.
SPECIFICATION ReviewsSpec
CONSTANTS
  r1 = r1  p1 = p1  p2 = p2
  ana = ana  dev = dev  lea = lea  eng = eng  agm = agm  root = root  None = None
  Elsewhere = Elsewhere
  Requests = {r1}
  Requester <- OfAna
  Items = {"repo"}
  Mandatory = {"repo"}
  Suppressions = {p1, p2}
  Users = {ana, dev, lea, eng, agm, root}
  Admins = {root}
  SMs = {ana, dev}
  DeptHeads = {ana, dev}
  QALeads = {lea}
  Executives = {agm}
  Engineers = {eng}
  Analysts = {eng}
  QAStaff = {lea, eng, agm}
INVARIANTS RecordsAreSound ApprovalsHold ClosedIsClean ReviewPagesAgree
ACTION_CONSTRAINT Instance
SYMMETRY SuppressionSymmetry
CHECK_DEADLOCK FALSE
