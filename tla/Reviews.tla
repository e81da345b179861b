------------------------------ MODULE Reviews ------------------------------
(***************************************************************************)
(* What the SAST, DAST and Performance Testing requests have in common     *)
(* (routers/sast_dast.py, routers/performance.py): intake, the two         *)
(* business approvals, delegation and the readiness verification that      *)
(* lets a request through to its work, which Security and Performance add. *)
(*                                                                         *)
(* The two kinds name the same stages differently; they are called here:   *)
(*   LEAD_ASSIGNED     SECURITY_LEAD_ASSIGNED     ENGINEER_ASSIGNED        *)
(*   READINESS         SECURITY_READINESS         READINESS                *)
(*   RETURNED_BY_LEAD  RETURNED_BY_SECURITY_LEAD  RETURNED_BY_ENGINEER     *)
(***************************************************************************)
EXTENDS Staff

CONSTANTS
  Requests,
  Requester,  \* requester_id of a request
  Items,      \* rows of the readiness checklist
  Mandatory,
  Analysts    \* SECURITY_ANALYST

ASSUME ReviewsAssumption ==
  /\ Requester \in [Requests -> Users]
  /\ Mandatory \subseteq Items
  /\ Analysts \subseteq Users
  /\ None \notin Requests

VARIABLES
  kind,         \* the table of the request
  status,
  reapproval,   \* needs_dept_head_reapproval
  headId,       \* history: who decided last as department head
  assignees,    \* security_analyst_id, or assigned_tester_ids
  declared,     \* checklist items with requester_checked
  verified,     \* checklist items with is_complete
  delegate,     \* the ACTIVE delegation's assigned_to_id
  nameStatus,   \* application_master_status of the gateway
  owed,         \* history: a re-approval was demanded and not given since
  scan,         \* whether the latest imported scan result shows findings
  supStatus, supLink, supRaiser,   \* qap_suppression_requests
  supOwed       \* history: its re-approval was demanded and not given since

people  == <<kind, headId, assignees, declared, verified, delegate, nameStatus>>
scans   == <<scan, supStatus, supLink, supRaiser, supOwed>>
reviewVars == <<status, reapproval, owed, people, scans>>

----------------------------------------------------------------------------
WithRequester == {"DRAFT", "RETURNED_BY_SM", "SM_REJECTED",
                  "RETURNED_BY_DEPARTMENT_HEAD", "RETURNED_BY_LEAD"}

AtApproval == {"SM_APPROVAL_PENDING", "DEPARTMENT_HEAD_APPROVAL_PENDING"}

NotYetAtQA == {"ABSENT", "DEPARTMENT_HEAD_REJECTED"} \cup WithRequester \cup AtApproval

Front == NotYetAtQA \cup {"LEAD_ASSIGNED", "READINESS"}

\* The states that a request is in once its approvals and its readiness are done.
SecurityStatus == {"PLANNING", "CONFIGURATION", "SCANNING", "REMEDIATION", "WAITING_FOR_FIX",
                   "RESCAN", "SECURITY_COMPLETE", "REPORT_READY", "CLOSED"}
PerformanceStatus == {"FEASIBILITY", "PLANNING", "ENVIRONMENT_SETUP", "SCRIPT_DEVELOPMENT",
                      "BASELINE", "LOAD_TEST_EXECUTION", "RESULT_ANALYSIS", "DEFECT_FIX_RETEST",
                      "REPORT", "SIGNOFF_PENDING", "REQUESTER_VERIFICATION", "CLOSED"}

IsSecurity(r) == kind[r] = "SECURITY"
Work(r) == IF IsSecurity(r) THEN SecurityStatus ELSE PerformanceStatus

\* A declaration the gateway lets a request be raised with.
Declarable == {D \in SUBSET Items : Mandatory \subseteq D}

\* Absent requests, and drafts from before the gateway raised its requests.
ReviewsInit ==
  /\ kind       \in [Requests -> {"SECURITY", "PERFORMANCE"}]
  /\ status     \in [Requests -> {"ABSENT", "DRAFT"}]
  /\ declared   \in [Requests -> SUBSET Items]
  /\ \A r \in Requests : status[r] = "ABSENT" => declared[r] = {}
  /\ nameStatus \in [Requests -> {"PENDING", "APPROVED", "REJECTED"}]
  /\ reapproval = [r \in Requests |-> FALSE]
  /\ owed       = [r \in Requests |-> FALSE]
  /\ headId     = [r \in Requests |-> None]
  /\ assignees  = [r \in Requests |-> {}]
  /\ verified   = [r \in Requests |-> {}]
  /\ delegate   = [r \in Requests |-> None]

RTypeOK ==
  /\ kind \in [Requests -> {"SECURITY", "PERFORMANCE"}]
  /\ status \in [Requests -> Front \cup SecurityStatus \cup PerformanceStatus]
  /\ \A r \in Requests : status[r] \in Front \cup Work(r)
  /\ reapproval \in [Requests -> BOOLEAN] /\ owed \in [Requests -> BOOLEAN]
  /\ headId \in [Requests -> Users \cup {None}] /\ delegate \in [Requests -> Users \cup {None}]
  /\ assignees \in [Requests -> SUBSET Users]
  /\ declared \in [Requests -> SUBSET Items] /\ verified \in [Requests -> SUBSET Items]
  /\ nameStatus \in [Requests -> {"PENDING", "APPROVED", "REJECTED"}]

\* A handler is its condition (Can...), which passes the role checks and the 4xx
\* answers, and what it then does. Most move the request to a status s.
Moves(r, s) == status' = [status EXCEPT ![r] = s]
OnlyMoves(r, s) == Moves(r, s) /\ UNCHANGED <<reapproval, owed, people, scans>>

OwnedBy(r, u) == u \in Admins \cup {Requester[r]}
InHandsOf(r) == IF delegate[r] = None THEN Requester[r] ELSE delegate[r]
AtSM(r) == IF nameStatus[r] = "REJECTED" THEN "SM_REJECTED" ELSE "SM_APPROVAL_PENDING"

\* _require_checklist_ready, which Performance has no counterpart of.
ChecklistReady(r) == IsSecurity(r) => Mandatory \subseteq declared[r]

----------------------------------------------------------------------------
(* Intake and the two business approvals. *)

Raise(r) ==
  /\ status[r] = "ABSENT" /\ Moves(r, AtSM(r))
  /\ \E D \in Declarable : declared' = [declared EXCEPT ![r] = D]
  /\ UNCHANGED <<reapproval, owed, kind, headId, assignees, verified, delegate, nameStatus, scans>>

CanSubmit(r, u) == OwnedBy(r, u) /\ status[r] = "DRAFT" /\ ChecklistReady(r)
Submit(r, u) == CanSubmit(r, u) /\ OnlyMoves(r, AtSM(r))

ReturnsTo(r) ==
  CASE status[r] \in {"RETURNED_BY_SM", "SM_REJECTED"} -> AtSM(r)
    [] status[r] = "RETURNED_BY_DEPARTMENT_HEAD"       -> "DEPARTMENT_HEAD_APPROVAL_PENDING"
    [] status[r] = "RETURNED_BY_LEAD" /\ reapproval[r] -> "DEPARTMENT_HEAD_APPROVAL_PENDING"
    [] OTHER                                           -> "READINESS"

CanResubmit(r, u) ==
  /\ OwnedBy(r, u) /\ delegate[r] = None /\ status[r] \in WithRequester \ {"DRAFT"}
  /\ status[r] \in {"RETURNED_BY_SM", "SM_REJECTED"} => ChecklistReady(r)

Resubmit(r, u) ==
  /\ CanResubmit(r, u)
  /\ Moves(r, ReturnsTo(r))
  /\ reapproval' = [reapproval EXCEPT ![r] = @ /\ status[r] # "RETURNED_BY_LEAD"]
  /\ UNCHANGED <<owed, people, scans>>

\* The decisions an approver may take, by the status they lead to.
SMVerdicts(r) ==
  {"RETURNED_BY_SM", "SM_REJECTED"}
    \cup {s \in {"DEPARTMENT_HEAD_APPROVAL_PENDING"} : nameStatus[r] = "APPROVED"}

CanSMDecide(r, u) ==
  HasRole(u, SMs) /\ NotRequester(u, Requester[r]) /\ status[r] = "SM_APPROVAL_PENDING"

SMDecision(r, u) == CanSMDecide(r, u) /\ \E s \in SMVerdicts(r) : OnlyMoves(r, s)

HeadVerdicts(r) ==
  {"RETURNED_BY_DEPARTMENT_HEAD", "DEPARTMENT_HEAD_REJECTED"}
    \cup {s \in {"LEAD_ASSIGNED"} : nameStatus[r] = "APPROVED"}

CanHeadDecide(r, u) ==
  /\ HasRole(u, DeptHeads) /\ NotRequester(u, Requester[r])
  /\ status[r] = "DEPARTMENT_HEAD_APPROVAL_PENDING"

\* An approval clears the analyst of a security request.
DepartmentHeadDecision(r, u) ==
  /\ CanHeadDecide(r, u)
  /\ \E s \in HeadVerdicts(r) :
       /\ Moves(r, s)
       /\ owed' = [owed EXCEPT ![r] = @ /\ s # "LEAD_ASSIGNED"]
       /\ assignees' = [assignees EXCEPT ![r] =
                          IF IsSecurity(r) /\ s = "LEAD_ASSIGNED" THEN {} ELSE @]
  /\ headId' = [headId EXCEPT ![r] = u]
  /\ UNCHANGED <<reapproval, kind, declared, verified, delegate, nameStatus, scans>>

----------------------------------------------------------------------------
(* Corrections, delegation, and the name decided by Intake. *)

CanEditDetails(r, u) ==
  \/ u \in Admins /\ status[r] \in WithRequester \cup AtApproval
  \/ u = InHandsOf(r) /\ status[r] \in WithRequester
  \/ u \in SMs /\ status[r] = "SM_APPROVAL_PENDING"
  \/ u \in DeptHeads /\ status[r] = "DEPARTMENT_HEAD_APPROVAL_PENDING"

\* update_sast, update_dast, update_performance: here, the declaration.
UpdateDetails(r, u) ==
  /\ CanEditDetails(r, u)
  /\ \E D \in SUBSET Items : declared' = [declared EXCEPT ![r] = D]
  /\ UNCHANGED <<status, reapproval, owed, kind, headId, assignees, verified, delegate,
                 nameStatus, scans>>

Delegable(r) == WithRequester \cup (IF IsSecurity(r) THEN {"WAITING_FOR_FIX"} ELSE {})

CanDelegate(r, u) == OwnedBy(r, u) /\ status[r] \in Delegable(r) /\ delegate[r] = None

Delegate(r, u) ==
  /\ CanDelegate(r, u)
  /\ \E v \in Users \ {Requester[r]} : delegate' = [delegate EXCEPT ![r] = v]
  /\ UNCHANGED <<status, reapproval, owed, kind, headId, assignees, declared, verified,
                 nameStatus, scans>>

CanEndDelegation(r, u) == delegate[r] # None /\ (OwnedBy(r, u) \/ u = delegate[r])

EndDelegation(r, u) ==
  /\ CanEndDelegation(r, u)
  /\ delegate' = [delegate EXCEPT ![r] = None]
  /\ UNCHANGED <<status, reapproval, owed, kind, headId, assignees, declared, verified,
                 nameStatus, scans>>

\* The name is decided by Intake (a rejection rejects what waits for its SM), proposed
\* again, or, by an administrator through the gateway's Functional request, another one.
NameDecided(r) ==
  /\ \/ nameStatus[r] = "PENDING" /\ nameStatus' = [nameStatus EXCEPT ![r] = "REJECTED"]
     \/ \E n \in {"PENDING", "APPROVED"} \ {nameStatus[r]} :
          nameStatus' = [nameStatus EXCEPT ![r] = n]
  /\ status' = [status EXCEPT ![r] =
       IF nameStatus'[r] = "REJECTED" /\ @ = "SM_APPROVAL_PENDING" THEN "SM_REJECTED" ELSE @]
  /\ UNCHANGED <<reapproval, owed, kind, headId, assignees, declared, verified, delegate, scans>>

----------------------------------------------------------------------------
(* Readiness. *)

CanStartReadiness(r, u) == HasRole(u, LeadGroup) /\ status[r] = "LEAD_ASSIGNED"
StartReadiness(r, u) == CanStartReadiness(r, u) /\ OnlyMoves(r, "READINESS")

CanVerify(r, u) == HasRole(u, LeadGroup) /\ status[r] = "READINESS"

UpdateChecklistItem(r, u) ==
  /\ CanVerify(r, u)
  /\ \E i \in Items : \/ i \in declared[r] /\ verified' = [verified EXCEPT ![r] = @ \cup {i}]
                      \/ verified' = [verified EXCEPT ![r] = @ \ {i}]
  /\ UNCHANGED <<status, reapproval, owed, kind, headId, assignees, declared, delegate,
                 nameStatus, scans>>

ReadinessDecision(r, u) ==
  /\ CanVerify(r, u)
  /\ \/ /\ declared[r] \subseteq verified[r]
        /\ OnlyMoves(r, IF IsSecurity(r) THEN "PLANNING" ELSE "FEASIBILITY")
     \/ /\ Moves(r, "RETURNED_BY_LEAD")
        /\ \E b \in BOOLEAN : /\ reapproval' = [reapproval EXCEPT ![r] = b]
                              /\ owed' = [owed EXCEPT ![r] = @ \/ b]
        /\ UNCHANGED <<people, scans>>

FrontStep(r, u) ==
  \/ Submit(r, u) \/ Resubmit(r, u) \/ SMDecision(r, u) \/ DepartmentHeadDecision(r, u)
  \/ UpdateDetails(r, u) \/ Delegate(r, u) \/ EndDelegation(r, u)
  \/ StartReadiness(r, u) \/ UpdateChecklistItem(r, u) \/ ReadinessDecision(r, u)

\* A request gets to the work of its kind, scans or load tests, only through a
\* department head who is not its requester, and after a QA Lead's demand for a
\* new approval only through that one, whatever returns lie between.
WorkWasApproved ==
  \A r \in Requests :
    status[r] \notin NotYetAtQA =>
      /\ headId[r] # None /\ (headId[r] \in Admins \/ headId[r] # Requester[r])
      /\ ~owed[r]

=============================================================================
