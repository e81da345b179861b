\* One request and its certificates, through the API: linked late, twice or never, and
\* confirmed by hand; or through the pages. A QA Lead who also tests, two executives
\* (one of them also a tester) and an admin.
SPECIFICATION InstanceSpec
CONSTANTS
  r1 = r1  c1 = c1  c2 = c2  ana = ana  lea = lea
  chief = chief  agm = agm  root = root  None = None  Elsewhere = Elsewhere
  Requester <- OfAna
  Items = {}
  Mandatory = {}
  FullTesting = {}
  Cycles = {}
  Texts = {"asDrafted", "asCorrected"}
  Certs = {c1, c2}
  Users = {ana, lea, chief, agm, root}
  Admins = {root}
  SMs = {}
  DeptHeads = {}
  AppOwners = {lea}
  QALeads = {lea}
  Executives = {chief, agm}
  Engineers = {lea, chief}
  QAStaff = {lea, chief, agm}
  Requests = {r1}
  Subjects = {r1}
INVARIANTS IssuedRightly CertificatePageAgrees PagesKeepInStep
PROPERTY SignOffSpec
CHECK_DEADLOCK FALSE
