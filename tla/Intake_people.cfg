\* One request with both kinds of linked request; a requester, an approver without
\* admin rights and an admin, so that delegation and four eyes matter.
SPECIFICATION Spec
CONSTANTS
  g1 = g1  g2 = g2  a1 = a1  a2 = a2  a3 = a3  n1 = n1  n2 = n2
  ana = ana  bob = bob  cem = cem  root = root  None = None
  Gateways = {g1}
  Apps = {a1, a2, a3}
  Names = {n1, n2}
  Types = {"FUNCTIONAL", "SAST"}
  Copies = {1, 2}
  FunctionalType = "FUNCTIONAL"
  NamedTypes = {"SAST"}
  Users = {ana, bob, root}
  Admins = {root}
  AppOwners = {bob}
  SMs = {bob}
  Owner <- OneOwner
SYMMETRY NameSymmetry
INVARIANTS DelegationMatchesStage GatewayPageAgrees
PROPERTY ImplementsLifecycle
CHECK_DEADLOCK FALSE
