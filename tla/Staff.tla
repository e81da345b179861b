------------------------------- MODULE Staff -------------------------------
(***************************************************************************)
(* Who may call a handler: the role checks of deps.py and models.User that *)
(* the request workflows share. SMs and DeptHeads are the ones mapped to   *)
(* the department of the requests of the model (require_same_department).  *)
(***************************************************************************)
EXTENDS Naturals

CONSTANTS
  Users,
  Admins,       \* ADMIN: passes every role check
  SMs, DeptHeads,
  QALeads,      \* QA_LEAD
  Executives,   \* CHIEF_MANAGER_QA, AGM_QA
  Engineers,    \* QA_ENGINEER
  QAStaff,      \* mapped to the COE - Quality Assurance department
  None

ASSUME StaffAssumption ==
  /\ UNION {Admins, SMs, DeptHeads, QALeads, Executives, Engineers, QAStaff} \subseteq Users
  /\ None \notin Users

HasRole(u, roles) == u \in Admins \cup roles
InQA(u) == u \in Admins \cup QAStaff

\* "Executive bypass": an executive may do whatever a QA Lead may.
LeadGroup == QALeads \cup Executives

\* Nobody decides on what they raised, however many roles they have.
NotRequester(u, requester) == u \in Admins \/ u # requester

=============================================================================
