SPECIFICATION RepositorySpec
CONSTANTS
  c1 = c1
  c2 = c2
  eve = eve
  eli = eli
  root = root
  p1 = p1
  p2 = p2
  a1 = a1
  Cases = {c1, c2}
  Users = {eve, eli, root}
  Admins = {root}
  SMs = {}
  DeptHeads = {}
  QALeads = {eli}
  Executives = {}
  Engineers = {eve, eli}
  QAStaff = {}
  None = None
  Readers = {eve}
  MaxMajor = 2
  MaxMinor = 1
  Projects = {p1, p2}
  Applications = {a1}
  Viewers = {eve, eli}
  Home = p1
INVARIANTS ReservedFormIsFresh PagesAgree ProjectsAreSound
PROPERTIES StatusDialogDoesWhatItSays ApprovedByAThird VersionsStand
CHECK_DEADLOCK FALSE
