----------------------------- MODULE Functional -----------------------------
(***************************************************************************)
(* The Functional Testing Request (routers/functional.py) from the raise   *)
(* that creates it to QA Completed: the two business approvals, readiness  *)
(* verification with its checklist, planning, design, execution and the    *)
(* defect loop; with the test cycles linked to it                          *)
(* (routers/test_execution.py), whose blocking and resuming moves the      *)
(* request. Clearance.tla takes a request from QA Completed to Closed.     *)
(*                                                                         *)
(* Every handler reads, checks and commits in one step.                    *)
(***************************************************************************)
EXTENDS Staff

CONSTANTS
  Requests,
  Requester,    \* requester_id of a request
  Items,        \* rows of the readiness checklist of a request
  Mandatory,    \* those an administrator made mandatory
  FullTesting,  \* requests whose gateway asks for "Functional Testing" itself
  Cycles,
  Elsewhere     \* a SAST, DAST or Performance request a cycle may belong to

ASSUME FunctionalAssumption ==
  /\ Requester \in [Requests -> Users]
  /\ Mandatory \subseteq Items
  /\ FullTesting \subseteq Requests
  /\ None \notin Requests \cup {Elsewhere}
  /\ Elsewhere \notin Requests

VARIABLES
  fstatus,      \* qap_functional_requests.status
  reapproval,   \* needs_dept_head_reapproval
  headId,       \* department_head_id: who decided last
  testers,      \* assigned_tester_ids
  declared,     \* checklist items with requester_checked
  verified,     \* checklist items with is_complete
  delegate,     \* the ACTIVE delegation's assigned_to_id
  nameStatus,   \* application_master_status of the gateway
  cycleStatus,  \* qap_test_cycles.status
  cycleLink,    \* the request of its qap_test_cycle_child_links row
  owed,         \* history: a re-approval was demanded and not given since
  byHand        \* history: WAITING_FOR_FIX was entered by mark_waiting_for_fix

testing == <<headId, testers, declared, verified, delegate, nameStatus>>
cycles  == <<cycleStatus, cycleLink>>
functionalVars == <<fstatus, reapproval, owed, byHand, testing, cycles>>

----------------------------------------------------------------------------
Submitting == {"DRAFT", "SM_APPROVAL_PENDING", "RETURNED_BY_SM", "SM_REJECTED",
               "DEPARTMENT_HEAD_APPROVAL_PENDING", "RETURNED_BY_DEPARTMENT_HEAD",
               "DEPARTMENT_HEAD_REJECTED"}
Executing == {"EXECUTION_IN_PROGRESS", "DEFECT_RAISED", "WAITING_FOR_FIX", "RETESTING"}
Finished == {"QA_COMPLETED", "QA_SIGNOFF_PENDING", "REQUESTER_VERIFICATION", "CLOSED"}
Ready == {"QA_ACTIVITY_INITIATED", "PLANNING", "TESTER_ASSIGNED", "TEST_DESIGN"}
           \cup Executing \cup Finished
HeadApproved == {"QA_LEAD_ASSIGNED", "READINESS_VERIFICATION", "RETURNED_BY_QA_LEAD"} \cup Ready
FunctionalStatus == {"ABSENT"} \cup Submitting \cup HeadApproved

WithRequester == {"DRAFT", "RETURNED_BY_SM", "SM_REJECTED",
                  "RETURNED_BY_DEPARTMENT_HEAD", "RETURNED_BY_QA_LEAD"}

TesterReassignable == {"PLANNING", "TESTER_ASSIGNED", "TEST_DESIGN"} \cup Executing

\* A gateway without a name in the master passes both approval guards, as an
\* APPROVED name does.
NameStatus == {"PENDING", "APPROVED", "REJECTED"}

CycleStatus == {"ABSENT", "Draft", "Ready", "In Progress", "Blocked", "Completed"}

\* (Operators named Bug... are not part of the specification: each one is what
\* the definition after it would be with a mistake in the code.)
BugLocked == {"Completed"}

Locked == {"Blocked", "Completed"}

\* _it_qa_user: a QA Engineer (or an admin) mapped to the department.
Assignable == {u \in QAStaff : HasRole(u, Engineers)}

FTypeOK ==
  /\ fstatus     \in [Requests -> FunctionalStatus]
  /\ reapproval  \in [Requests -> BOOLEAN]
  /\ headId      \in [Requests -> Users \cup {None}]
  /\ testers     \in [Requests -> SUBSET Assignable]
  /\ declared    \in [Requests -> SUBSET Items]
  /\ verified    \in [Requests -> SUBSET Items]
  /\ delegate    \in [Requests -> Users \cup {None}]
  /\ nameStatus  \in [Requests -> NameStatus]
  /\ cycleStatus \in [Cycles -> CycleStatus]
  /\ cycleLink   \in [Cycles -> Requests \cup {Elsewhere, None}]
  /\ owed        \in [Requests -> BOOLEAN]
  /\ byHand      \in [Requests -> BOOLEAN]

LinkedCycles(r) == {y \in Cycles : cycleLink[y] = r}

----------------------------------------------------------------------------
\* What a raise accepts: every mandatory item ticked, if the gateway asks for
\* "Functional Testing"; the other kinds of this bucket are not gated.
Declarable(r) == {D \in SUBSET Items : r \in FullTesting => Mandatory \subseteq D}

\* Absent requests, and drafts from before the gateway raised its requests.
FunctionalInit ==
  /\ fstatus     \in [Requests -> {"ABSENT", "DRAFT"}]
  /\ declared    \in {D \in [Requests -> SUBSET Items] :
                        \A r \in Requests : D[r] \in IF fstatus[r] = "ABSENT" THEN {{}}
                                                                        ELSE Declarable(r)}
  /\ nameStatus  \in [Requests -> NameStatus]
  /\ reapproval  = [r \in Requests |-> FALSE]
  /\ headId      = [r \in Requests |-> None]
  /\ testers     = [r \in Requests |-> {}]
  /\ verified    = [r \in Requests |-> {}]
  /\ delegate    = [r \in Requests |-> None]
  /\ cycleStatus = [y \in Cycles |-> "ABSENT"]
  /\ cycleLink   = [y \in Cycles |-> None]
  /\ owed        = [r \in Requests |-> FALSE]
  /\ byHand      = [r \in Requests |-> FALSE]

\* A handler is its condition (Can...), which passes the role checks and the 4xx
\* answers, and what it then does. Most move the request to a status s.
Moves(r, s) ==
  /\ fstatus' = [fstatus EXCEPT ![r] = s]
  /\ byHand' = [byHand EXCEPT ![r] = FALSE]

OnlyMoves(r, s) == Moves(r, s) /\ UNCHANGED <<reapproval, owed, testing, cycles>>

OwnedBy(r, u) == u \in Admins \cup {Requester[r]}
AtSM(r) == IF nameStatus[r] = "REJECTED" THEN "SM_REJECTED" ELSE "SM_APPROVAL_PENDING"

----------------------------------------------------------------------------
(* Intake and the two business approvals. *)

\* _sync_linked_child_requests creates it and _raise_child_to_sm submits it.
Raise(r) ==
  /\ fstatus[r] = "ABSENT" /\ Moves(r, AtSM(r))
  /\ \E D \in Declarable(r) : declared' = [declared EXCEPT ![r] = D]
  /\ UNCHANGED <<reapproval, owed, headId, testers, verified, delegate, nameStatus, cycles>>

CanSubmit(r, u) == OwnedBy(r, u) /\ fstatus[r] = "DRAFT"
Submit(r, u) == CanSubmit(r, u) /\ OnlyMoves(r, AtSM(r))

BugStraightToQA(r) == "READINESS_VERIFICATION"

PastReadinessReturn(r) ==
  IF reapproval[r] THEN "DEPARTMENT_HEAD_APPROVAL_PENDING" ELSE "READINESS_VERIFICATION"

\* Where a request goes when its requester sends it back in.
ReturnsTo(r) ==
  CASE fstatus[r] \in {"RETURNED_BY_SM", "SM_REJECTED"} -> AtSM(r)
    [] fstatus[r] = "RETURNED_BY_DEPARTMENT_HEAD"       -> "DEPARTMENT_HEAD_APPROVAL_PENDING"
    [] fstatus[r] = "RETURNED_BY_QA_LEAD"               -> PastReadinessReturn(r)
    [] OTHER -> fstatus[r]

CanResubmit(r, u) ==
  OwnedBy(r, u) /\ delegate[r] = None /\ fstatus[r] \in WithRequester \ {"DRAFT"}

Resubmit(r, u) ==
  /\ CanResubmit(r, u)
  /\ Moves(r, ReturnsTo(r))
  /\ reapproval' = [reapproval EXCEPT ![r] = @ /\ fstatus[r] # "RETURNED_BY_QA_LEAD"]
  /\ UNCHANGED <<owed, testing, cycles>>

\* The decisions an approver may take, by the status they lead to.
SMVerdicts(r) ==
  {"RETURNED_BY_SM", "SM_REJECTED"}
    \cup {s \in {"DEPARTMENT_HEAD_APPROVAL_PENDING"} : nameStatus[r] = "APPROVED"}

CanSMDecide(r, u) ==
  HasRole(u, SMs) /\ NotRequester(u, Requester[r]) /\ fstatus[r] = "SM_APPROVAL_PENDING"

SMDecision(r, u) == CanSMDecide(r, u) /\ \E s \in SMVerdicts(r) : OnlyMoves(r, s)

HeadVerdicts(r) ==
  {"RETURNED_BY_DEPARTMENT_HEAD", "DEPARTMENT_HEAD_REJECTED"}
    \cup {s \in {"QA_LEAD_ASSIGNED"} : nameStatus[r] = "APPROVED"}

CanHeadDecide(r, u) ==
  /\ HasRole(u, DeptHeads) /\ NotRequester(u, Requester[r])
  /\ fstatus[r] = "DEPARTMENT_HEAD_APPROVAL_PENDING"

DepartmentHeadDecision(r, u) ==
  /\ CanHeadDecide(r, u)
  /\ \E s \in HeadVerdicts(r) : /\ Moves(r, s)
                               /\ owed' = [owed EXCEPT ![r] = @ /\ s # "QA_LEAD_ASSIGNED"]
  /\ headId' = [headId EXCEPT ![r] = u]
  /\ UNCHANGED <<reapproval, testers, declared, verified, delegate, nameStatus, cycles>>

----------------------------------------------------------------------------
(* The requester's corrections. *)

InHandsOf(r) == IF delegate[r] = None THEN Requester[r] ELSE delegate[r]

CanEditDetails(r, u) ==
  \/ u \in Admins /\ fstatus[r] \in WithRequester \cup
                        {"SM_APPROVAL_PENDING", "DEPARTMENT_HEAD_APPROVAL_PENDING"}
  \/ u = InHandsOf(r) /\ fstatus[r] \in WithRequester
  \/ u \in SMs /\ fstatus[r] = "SM_APPROVAL_PENDING"
  \/ u \in DeptHeads /\ fstatus[r] = "DEPARTMENT_HEAD_APPROVAL_PENDING"

\* update_functional: of the fields it may change, the declaration matters here,
\* and the application name, which only an admin may change.
UpdateFunctional(r, u) ==
  /\ CanEditDetails(r, u)
  /\ \E D \in SUBSET Items : declared' = [declared EXCEPT ![r] = D]
  /\ \/ UNCHANGED nameStatus
     \/ /\ u \in Admins
        /\ \E n \in {"PENDING", "APPROVED"} : nameStatus' = [nameStatus EXCEPT ![r] = n]
  /\ UNCHANGED <<fstatus, reapproval, owed, byHand, headId, testers, verified, delegate, cycles>>

\* assign_child_for_input, and return_ or recall_child_delegation.
CanDelegate(r, u) == OwnedBy(r, u) /\ fstatus[r] \in WithRequester /\ delegate[r] = None

Delegate(r, u) ==
  /\ CanDelegate(r, u)
  /\ \E v \in Users \ {Requester[r]} : delegate' = [delegate EXCEPT ![r] = v]
  /\ UNCHANGED <<fstatus, reapproval, owed, byHand, headId, testers, declared, verified,
                 nameStatus, cycles>>

CanEndDelegation(r, u) == delegate[r] # None /\ (OwnedBy(r, u) \/ u = delegate[r])

EndDelegation(r, u) ==
  /\ CanEndDelegation(r, u)
  /\ delegate' = [delegate EXCEPT ![r] = None]
  /\ UNCHANGED <<fstatus, reapproval, owed, byHand, headId, testers, declared, verified,
                 nameStatus, cycles>>

\* The application name is decided, or proposed again, by Intake. A rejection
\* rejects the request if it waits for its SM.
NameDecided(r) ==
  /\ \/ nameStatus[r] = "PENDING"  /\ nameStatus' = [nameStatus EXCEPT ![r] = "APPROVED"]
     \/ nameStatus[r] = "PENDING"  /\ nameStatus' = [nameStatus EXCEPT ![r] = "REJECTED"]
     \/ nameStatus[r] = "REJECTED" /\ nameStatus' = [nameStatus EXCEPT ![r] = "PENDING"]
  /\ fstatus' = [fstatus EXCEPT ![r] =
       IF nameStatus'[r] = "REJECTED" /\ @ = "SM_APPROVAL_PENDING" THEN "SM_REJECTED" ELSE @]
  /\ UNCHANGED <<reapproval, owed, byHand, headId, testers, declared, verified, delegate, cycles>>

----------------------------------------------------------------------------
(* Readiness and planning. *)

CanStartReadiness(r, u) == HasRole(u, LeadGroup) /\ fstatus[r] = "QA_LEAD_ASSIGNED"

StartReadinessVerification(r, u) ==
  CanStartReadiness(r, u) /\ OnlyMoves(r, "READINESS_VERIFICATION")

\* A QA Lead ticks only what the requester declared, but unticks anything.
CanVerify(r, u) == HasRole(u, LeadGroup) /\ fstatus[r] = "READINESS_VERIFICATION"

UpdateChecklistItem(r, u) ==
  /\ CanVerify(r, u)
  /\ \/ \E i \in declared[r] : verified' = [verified EXCEPT ![r] = @ \cup {i}]
     \/ \E i \in Items : verified' = [verified EXCEPT ![r] = @ \ {i}]
  /\ UNCHANGED <<fstatus, reapproval, owed, byHand, headId, testers, declared, delegate,
                 nameStatus, cycles>>

BugMandatoryOnly(r) == Mandatory \subseteq verified[r]

\* Its `pending` list is empty.
ChecklistPasses(r) == declared[r] \subseteq verified[r]

ReadinessDecision(r, u) ==
  /\ CanVerify(r, u)
  /\ \/ ChecklistPasses(r) /\ OnlyMoves(r, "QA_ACTIVITY_INITIATED")
     \/ /\ Moves(r, "RETURNED_BY_QA_LEAD")
        /\ \E b \in BOOLEAN : /\ reapproval' = [reapproval EXCEPT ![r] = b]
                              /\ owed' = [owed EXCEPT ![r] = @ \/ b]
        /\ UNCHANGED <<testing, cycles>>

CanPlan(r, u) == HasRole(u, LeadGroup) /\ fstatus[r] = "QA_ACTIVITY_INITIATED"
BeginPlanning(r, u) == CanPlan(r, u) /\ OnlyMoves(r, "PLANNING")

CanAssignTester(r, u) ==
  /\ HasRole(u, LeadGroup \cup Engineers)
  /\ \/ fstatus[r] = "PLANNING" /\ (HasRole(u, LeadGroup) \/ u \in testers[r])
     \/ /\ fstatus[r] \in TesterReassignable \ {"PLANNING"}
        /\ u \in Admins \cup testers[r] \cup QALeads \cup (QAStaff \cap Executives)

TesterTeams == (SUBSET Assignable) \ {{}}

AssignTester(r, u) ==
  /\ CanAssignTester(r, u)
  /\ \E T \in TesterTeams : testers' = [testers EXCEPT ![r] = T]
  /\ fstatus' = [fstatus EXCEPT ![r] = IF @ = "PLANNING" THEN "TESTER_ASSIGNED" ELSE @]
  /\ UNCHANGED <<reapproval, owed, byHand, headId, declared, verified, delegate, nameStatus, cycles>>

----------------------------------------------------------------------------
(* Design, execution and the defect loop. *)

IsTester(r, u) == u \in Admins \cup testers[r]

\* An engineer on a request he tests, at one of the statuses From.
Works(r, u, From) == HasRole(u, Engineers) /\ IsTester(r, u) /\ fstatus[r] \in From

\* The same for the handlers that QA Leads may call as well.
WorksOrLeads(r, u, From) ==
  HasRole(u, QALeads \cup Engineers) /\ IsTester(r, u) /\ fstatus[r] \in From

CanDesign(r, u) == Works(r, u, {"TESTER_ASSIGNED"})
StartTestDesign(r, u) == CanDesign(r, u) /\ OnlyMoves(r, "TEST_DESIGN")

\* link_test_cycle is off, or selects an In Progress cycle: one already linked to
\* r, or, if r has none, one that nobody has. (Whether the cycle's project is
\* active and is r's application only narrows the choice.)
EligibleCycles(r) ==
  {y \in Cycles : cycleStatus[y] = "In Progress" /\ cycleLink[y] = None /\ LinkedCycles(r) = {}}

CanExecute(r, u) == WorksOrLeads(r, u, {"TEST_DESIGN"})

StartExecution(r, u) ==
  /\ CanExecute(r, u)
  /\ Moves(r, "EXECUTION_IN_PROGRESS")
  /\ \/ UNCHANGED cycleLink
     \/ \E y \in EligibleCycles(r) : cycleLink' = [cycleLink EXCEPT ![y] = r]
  /\ UNCHANGED <<reapproval, owed, testing, cycleStatus>>

\* The manual loop, for a request without a linked cycle.
CanRaiseDefect(r, u) == Works(r, u, {"EXECUTION_IN_PROGRESS"}) /\ LinkedCycles(r) = {}
RaiseDefect(r, u) == CanRaiseDefect(r, u) /\ OnlyMoves(r, "DEFECT_RAISED")

CanWait(r, u) == Works(r, u, {"DEFECT_RAISED"})

MarkWaitingForFix(r, u) ==
  /\ CanWait(r, u)
  /\ fstatus' = [fstatus EXCEPT ![r] = "WAITING_FOR_FIX"]
  /\ byHand'  = [byHand EXCEPT ![r] = TRUE]
  /\ UNCHANGED <<reapproval, owed, testing, cycles>>

CanRetest(r, u) == WorksOrLeads(r, u, {"WAITING_FOR_FIX"})
StartRetesting(r, u) == CanRetest(r, u) /\ OnlyMoves(r, "RETESTING")

CyclesDone(r) == \A y \in LinkedCycles(r) : cycleStatus[y] = "Completed"

CanComplete(r, u) == Works(r, u, {"EXECUTION_IN_PROGRESS", "RETESTING"}) /\ CyclesDone(r)
CompleteQA(r, u) == CanComplete(r, u) /\ OnlyMoves(r, "QA_COMPLETED")

UnlinkTestCycle(r, u) ==
  /\ HasRole(u, QALeads \cup Engineers) /\ IsTester(r, u)
  /\ \E y \in LinkedCycles(r) : /\ cycleStatus[y] \notin Locked
                                /\ cycleLink' = [cycleLink EXCEPT ![y] = None]
  /\ UNCHANGED <<fstatus, reapproval, owed, byHand, testing, cycleStatus>>

----------------------------------------------------------------------------
(* The cycle's side: what update_cycle, create, unlink and delete do to the  *)
(* status of a cycle and to its link. When a cycle may complete is decided   *)
(* by its executions and defects, which are not modelled here.               *)

Transitions(s) == CASE s = "Draft"       -> {"Ready"}
                    [] s = "Ready"       -> {"In Progress"}
                    [] s = "In Progress" -> {"Blocked", "Completed"}
                    [] s = "Blocked"     -> {"In Progress"}
                    [] OTHER             -> {}

Linkable == {r \in Requests : fstatus[r] # "ABSENT"} \cup {Elsewhere, None}

CreateCycle(y) ==
  /\ cycleStatus[y] = "ABSENT"
  /\ cycleStatus' = [cycleStatus EXCEPT ![y] = "Draft"]
  /\ \E l \in Linkable : cycleLink' = [cycleLink EXCEPT ![y] = l]
  /\ UNCHANGED <<fstatus, reapproval, owed, byHand, testing>>

\* Another cycle of r is still Blocked (`still_blocked`).
OtherBlocked(r, y) == \E z \in LinkedCycles(r) \ {y} : cycleStatus[z] = "Blocked"

\* _sync_linked_functional_request_status: cycle y, linked to l, goes to status s.
Synced(y, l, s) ==
  [r \in Requests |->
     IF r # l \/ s = cycleStatus[y] THEN fstatus[r]
     ELSE CASE s = "Blocked" /\ fstatus[r] = "EXECUTION_IN_PROGRESS" -> "WAITING_FOR_FIX"
            [] /\ cycleStatus[y] = "Blocked" /\ fstatus[r] = "WAITING_FOR_FIX"
               /\ ~OtherBlocked(r, y) -> "EXECUTION_IN_PROGRESS"
            [] OTHER -> fstatus[r]]

\* One PATCH may move the cycle on and change its link, which is changed first.
\* A Blocked cycle can only be resumed; a Completed one can still be linked.
UpdateCycle(y, s, l) ==
  /\ cycleStatus[y] # "ABSENT" /\ l \in Linkable
  /\ s \in {cycleStatus[y]} \cup Transitions(cycleStatus[y])
  /\ cycleStatus[y] = "Blocked" => l = cycleLink[y]
  /\ cycleStatus' = [cycleStatus EXCEPT ![y] = s]
  /\ cycleLink'   = [cycleLink EXCEPT ![y] = l]
  /\ fstatus' = Synced(y, l, s)
  /\ byHand'  = [r \in Requests |-> byHand[r] /\ fstatus'[r] = "WAITING_FOR_FIX"]
  /\ UNCHANGED <<reapproval, owed, testing>>

UnlinkCycleRequest(y) ==
  /\ cycleStatus[y] \notin {"ABSENT"} \cup Locked /\ cycleLink[y] # None
  /\ cycleLink' = [cycleLink EXCEPT ![y] = None]
  /\ UNCHANGED <<fstatus, reapproval, owed, byHand, testing, cycleStatus>>

\* Its link goes with it.
DeleteCycle(y) ==
  /\ cycleStatus[y] \notin {"ABSENT"} \cup Locked
  /\ cycleStatus' = [cycleStatus EXCEPT ![y] = "ABSENT"]
  /\ cycleLink'   = [cycleLink EXCEPT ![y] = None]
  /\ UNCHANGED <<fstatus, reapproval, owed, byHand, testing>>

----------------------------------------------------------------------------
RequestStep(r, u) ==
  \/ Submit(r, u) \/ Resubmit(r, u) \/ SMDecision(r, u) \/ DepartmentHeadDecision(r, u)
  \/ UpdateFunctional(r, u) \/ Delegate(r, u) \/ EndDelegation(r, u)
  \/ StartReadinessVerification(r, u) \/ UpdateChecklistItem(r, u)
  \/ ReadinessDecision(r, u) \/ BeginPlanning(r, u) \/ AssignTester(r, u)
  \/ StartTestDesign(r, u) \/ StartExecution(r, u) \/ RaiseDefect(r, u)
  \/ MarkWaitingForFix(r, u) \/ StartRetesting(r, u) \/ CompleteQA(r, u)
  \/ UnlinkTestCycle(r, u)

CycleStep(y) ==
  \/ CreateCycle(y) \/ UnlinkCycleRequest(y) \/ DeleteCycle(y)
  \/ \E s \in CycleStatus, l \in Linkable : UpdateCycle(y, s, l)

FunctionalNext ==
  \/ \E r \in Requests : Raise(r) \/ NameDecided(r)
  \/ \E r \in Requests, u \in Users : RequestStep(r, u)
  \/ \E y \in Cycles : CycleStep(y)

FunctionalSpec == FunctionalInit /\ [][FunctionalNext]_functionalVars

----------------------------------------------------------------------------
\* A request gets to QA work only through a department head who is not its
\* requester (require_not_requester), whatever returns and hats lie between.
WorkWasApproved ==
  \A r \in Requests :
    fstatus[r] \in HeadApproved =>
      headId[r] # None /\ (headId[r] \in Admins \/ headId[r] # Requester[r])

\* A QA Lead who returns a request and demands the department head's approval
\* gets it: the request is not in QA's hands again before that approval, through
\* however many returns and corrections (needs_dept_head_reapproval).
ReapprovalHonoured ==
  \A r \in Requests : owed[r] =>
    /\ fstatus[r] \in {"RETURNED_BY_QA_LEAD", "DEPARTMENT_HEAD_APPROVAL_PENDING",
                       "RETURNED_BY_DEPARTMENT_HEAD", "DEPARTMENT_HEAD_REJECTED"}
    /\ fstatus[r] = "RETURNED_BY_QA_LEAD" => reapproval[r]

\* Approvals hold, the first one and those demanded again, along every way back.
ApprovalsHold == WorkWasApproved /\ ReapprovalHonoured

\* Past readiness verification, everything the requester declared ready has been
\* verified by QA, and neither side of that can still be changed.
DeclarationsVerified ==
  \A r \in Requests : fstatus[r] \in Ready => declared[r] \subseteq verified[r]

\* A request that waits because a test cycle was blocked always has a blocked
\* cycle: there is a resume that takes it out of WAITING_FOR_FIX, whichever of
\* its cycles were blocked, resumed, linked, unlinked or deleted in between.
WaitingIsExplained ==
  \A r \in Requests :
    fstatus[r] = "WAITING_FOR_FIX" /\ ~byHand[r] =>
      \E y \in LinkedCycles(r) : cycleStatus[y] = "Blocked"

=============================================================================
