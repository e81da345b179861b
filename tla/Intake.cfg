\* Two requests compete for two names; one kind of linked request, one admin who
\* does everything (nobody to delegate to).
SPECIFICATION FairSpec
CONSTANTS
  g1 = g1  g2 = g2  a1 = a1  a2 = a2  a3 = a3  n1 = n1  n2 = n2
  ana = ana  bob = bob  cem = cem  root = root  None = None
  Gateways = {g1, g2}
  Apps = {a1, a2}
  Names = {n1, n2}
  Types = {"FUNCTIONAL"}
  Copies = {1, 2}
  FunctionalType = "FUNCTIONAL"
  NamedTypes = {}
  Users = {root}
  Admins = {root}
  AppOwners = {}
  SMs = {}
  Owner <- SameOwner
ACTION_CONSTRAINT Quiet
INVARIANTS NobodyIsStranded ChildrenExactlyWhenRaised NamesAgree
PROPERTIES DecisionsBind SubmittedIsAnswered
CHECK_DEADLOCK FALSE
