------------------------------ MODULE Projects ------------------------------
(***************************************************************************)
(* Test projects (routers/test_projects.py): one for each application, its *)
(* owner, whether new work may be done in it, the request of an engineer   *)
(* that a QA Lead decides, and the archive. Names, departments, defaults,  *)
(* members and view grants of a project decide nothing of this.            *)
(***************************************************************************)
EXTENDS Staff

CONSTANTS Projects, Applications

VARIABLES
  application,  \* application_master_id, or None
  owner,        \* owner_id; None as long as there is no such project
  active,       \* is_active
  archived,     \* is_archived
  request       \* pending_is_active and who asked for it, or None

projectVars == <<application, owner, active, archived, request>>

ASSUME ProjectsAssumption == None \notin Applications

Asked == [active : BOOLEAN, by : Users]

Created(p) == owner[p] # None
Live(p)    == Created(p) /\ ~archived[p]

\* _MANAGE_ROLES: the executives are not among them.
MayManageProjects(u) == HasRole(u, Engineers \cup QALeads)
MayReviewProjects(u) == HasRole(u, LeadGroup)

\* can_manage_project
ManagesProject(u, p) == HasRole(u, LeadGroup) \/ owner[p] = u

\* _require_no_active_project_for_application: an inactive project still has it.
ApplicationFree(a, p) ==
  a = None \/ \A q \in Projects \ {p} : Live(q) => application[q] # a

ProjectsInit ==
  /\ application = [p \in Projects |-> None]
  /\ owner = [p \in Projects |-> None]
  /\ active = [p \in Projects |-> FALSE]
  /\ archived = [p \in Projects |-> FALSE]
  /\ request = [p \in Projects |-> None]

----------------------------------------------------------------------------
\* Without an owner in the form the creator is the owner.
CreateProject(p, u, a, o) ==
  /\ MayManageProjects(u) /\ ~Created(p) /\ ApplicationFree(a, p)
  /\ application' = [application EXCEPT ![p] = a]
  /\ owner' = [owner EXCEPT ![p] = IF o = None THEN u ELSE o]
  /\ active' = [active EXCEPT ![p] = TRUE]
  /\ UNCHANGED <<archived, request>>

\* The details; whether it is archived is not asked. No owner means: the old one.
CanUpdateProject(p, u, a) ==
  /\ Created(p) /\ MayManageProjects(u) /\ ManagesProject(u, p)
  /\ a = application[p] \/ ApplicationFree(a, p)

UpdateProject(p, u, a, o) ==
  /\ CanUpdateProject(p, u, a)
  /\ application' = [application EXCEPT ![p] = a]
  /\ owner' = [owner EXCEPT ![p] = IF o = None THEN @ ELSE o]
  /\ UNCHANGED <<active, archived, request>>

\* is_active as it is to be now, and no request any more.
Settled(p, b) ==
  /\ active' = [active EXCEPT ![p] = b]
  /\ request' = [request EXCEPT ![p] = None]
  /\ UNCHANGED <<application, owner, archived>>

\* (Operators named Bug... are not part of the specification: each one is what
\* the definition after it would be with a mistake in the code.)
BugToggles(p, u, b) ==
  Created(p) /\ MayManageProjects(u) /\ MayReviewProjects(u) /\ Settled(p, ~active[p])

\* PATCH of is_active: what it is already settles any request; what it is not takes
\* effect for a lead, and becomes a request of an engineer. (Of an archived project too.)
Settles(p, u, b) == b = active[p] \/ MayReviewProjects(u)

CanSetActive(p, u, b) ==
  /\ Created(p) /\ MayManageProjects(u)
  /\ ~Settles(p, u, b) /\ request[p] # None => request[p].active # b

SetActive(p, u, b) ==
  /\ CanSetActive(p, u, b)
  /\ IF Settles(p, u, b) THEN Settled(p, b)
     ELSE /\ request' = [request EXCEPT ![p] = [active |-> b, by |-> u]]
          /\ UNCHANGED <<application, owner, active, archived>>

\* review_project_activation
CanReviewActivation(p, u) == Created(p) /\ MayReviewProjects(u) /\ request[p] # None

ReviewActivation(p, u, approve) ==
  /\ CanReviewActivation(p, u)
  /\ Settled(p, IF approve THEN request[p].active ELSE active[p])

CanArchiveProject(p, u) == Live(p) /\ MayReviewProjects(u)

ArchiveProject(p, u) ==
  /\ CanArchiveProject(p, u)
  /\ archived' = [archived EXCEPT ![p] = TRUE]
  /\ active' = [active EXCEPT ![p] = FALSE]
  /\ request' = [request EXCEPT ![p] = None]
  /\ UNCHANGED <<application, owner>>

BugTakesItBack(p, u) == archived[p] /\ MayReviewProjects(u)

CanUnarchiveProject(p, u) ==
  archived[p] /\ MayReviewProjects(u) /\ ApplicationFree(application[p], p)

UnarchiveProject(p, u) ==
  /\ CanUnarchiveProject(p, u)
  /\ archived' = [archived EXCEPT ![p] = FALSE]
  /\ UNCHANGED <<application, owner, active, request>>

ProjectStep(p, u) ==
  \/ \E a \in Applications \cup {None}, o \in Users \cup {None} :
       CreateProject(p, u, a, o) \/ UpdateProject(p, u, a, o)
  \/ \E b \in BOOLEAN : SetActive(p, u, b) \/ ReviewActivation(p, u, b)
  \/ ArchiveProject(p, u) \/ UnarchiveProject(p, u)

ProjectsSpec == ProjectsInit /\ [][\E p \in Projects, u \in Users : ProjectStep(p, u)]_projectVars

----------------------------------------------------------------------------
\* Type invariant: a project that was never created has nothing set.
PTypeOK ==
  /\ application \in [Projects -> Applications \cup {None}]
  /\ owner \in [Projects -> Users \cup {None}]
  /\ active \in [Projects -> BOOLEAN]
  /\ archived \in [Projects -> BOOLEAN]
  /\ request \in [Projects -> Asked \cup {None}]
  /\ \A p \in Projects : ~Created(p) => ~active[p] /\ ~archived[p] /\ request[p] = None

\* An application has at most one project that is not archived, after any sequence of
\* creations, edits, archives and returns from the archive, in which the application
\* went to another project meanwhile (unarchive_test_project, "closes the gap").
OneLiveProject ==
  \A p, q \in Projects : Live(p) /\ Live(q) /\ application[p] = application[q] /\ p # q =>
    application[p] = None

\* A pending request always asks for a change, whatever leads switched or archived
\* since: approving it is never empty. (So what a "stale" PATCH of is_active clears,
\* test_projects.py:392, never is a stale request: it is one somebody waits for.)
RequestIsAChange == \A p \in Projects : request[p] # None => request[p].active # active[p]

\* The projects are sound: typed, one live one for an application, and no request
\* that asks for what is so already.
ProjectsAreSound == PTypeOK /\ OneLiveProject /\ RequestIsAChange

=============================================================================
