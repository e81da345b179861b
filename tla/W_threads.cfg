\* Two threads on one request and two name rows, and on three requests that are being
\* raised; liveness, so no symmetry.
SPECIFICATION SerialSpec
CONSTANTS
  g1 = g1  g2 = g2  g3 = g3  a1 = a1  a2 = a2  n1 = n1  n2 = n2
  ana = ana  root = root  w1 = w1  w2 = w2  None = None
  Gateways = {g1, g2, g3}
  Apps = {a1, a2}
  Names = {n1, n2}
  Types = {"FUNCTIONAL", "SAST"}
  Copies = {1, 2}
  FunctionalType = "FUNCTIONAL"
  NamedTypes = {}
  Users = {ana, root}
  Admins = {root}
  AppOwners = {}
  SMs = {}
  Workers = {w1, w2}
  Owner <- OwnedByAna
INVARIANT RowLocksSuffice
PROPERTIES EveryRequestEnds CommitsAreSerial
ACTION_CONSTRAINT Started
CHECK_DEADLOCK FALSE
