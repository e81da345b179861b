\* One person in one tab, who has no department yet, signs out and signs in again; one
\* list the pages read and save, and two requests in flight.
SPECIFICATION ClientSpec
CONSTANTS
  ana = ana  rows = rows  me = me  q1 = q1  q2 = q2  None = None
  Users = {ana}
  FirstTimers = {ana}
  Paths = {rows}
  Me = me
  Calls = {q1, q2}
  MaxVersion = 2
INVARIANTS CacheIsSound ReadsSeeOwnSaves
PROPERTY ComesToRest
CHECK_DEADLOCK FALSE
