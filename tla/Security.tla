------------------------------ MODULE Security ------------------------------
(***************************************************************************)
(* The work of a SAST or DAST request (routers/sast_dast.py): the loop of  *)
(* scan, validation, fix and rescan, and the suppression requests          *)
(* (routers/suppression.py) that its requester raises against the findings *)
(* and that keep it from being reported on and closed.                     *)
(*                                                                         *)
(* A scan result is imported from Fortify SSC; of its counts, whether any  *)
(* view shows a finding matters. An import that fails changes nothing.     *)
(***************************************************************************)
EXTENDS Reviews

CONSTANTS
  Suppressions,
  Elsewhere     \* another request of the same requester, in its scan window

ASSUME SecurityAssumption == Elsewhere \notin Requests /\ None # Elsewhere

Returned == {"RETURNED_BY_SM", "RETURNED_BY_DEPARTMENT_HEAD", "RETURNED_BY_SECURITY_TEAM"}
OpenSuppression == {"Draft", "SECURITY_TEAM_VERIFICATION"} \cup AtApproval \cup Returned
SuppressionStatus == {"ABSENT", "Done", "Rejected"} \cup OpenSuppression

SecurityInit ==
  /\ scan      = [r \in Requests |-> "None"]
  /\ supStatus = [p \in Suppressions |-> "ABSENT"]
  /\ supLink   = [p \in Suppressions |-> None]
  /\ supRaiser = [p \in Suppressions |-> None]
  /\ supOwed   = [p \in Suppressions |-> FALSE]

Of(r) == {p \in Suppressions : supLink[p] = r}

\* _pending_suppression_ids is empty.
NonePending(r) == \A p \in Of(r) : supStatus[p] \notin OpenSuppression

----------------------------------------------------------------------------
(* The analyst. *)

AnalystReassignable == SecurityStatus \ {"PLANNING", "REPORT_READY", "CLOSED"}

CanAssignAnalyst(r, u) ==
  /\ IsSecurity(r) /\ HasRole(u, LeadGroup \cup Analysts)
  /\ \/ status[r] = "PLANNING" /\ HasRole(u, LeadGroup)
     \/ /\ status[r] \in AnalystReassignable
        /\ u \in Admins \cup assignees[r] \cup QALeads \cup (QAStaff \cap Executives)

AssignableAnalysts == {v \in QAStaff : HasRole(v, Analysts)}

AssignSecurityAnalyst(r, u) ==
  /\ CanAssignAnalyst(r, u)
  /\ \E v \in AssignableAnalysts : assignees' = [assignees EXCEPT ![r] = {v}]
  /\ status' = [status EXCEPT ![r] = IF @ = "PLANNING" THEN "CONFIGURATION" ELSE @]
  /\ UNCHANGED <<reapproval, owed, kind, headId, declared, verified, delegate, nameStatus, scans>>

\* require_roles and _require_assigned_security_analyst
IsAnalyst(r, u) == IsSecurity(r) /\ HasRole(u, Analysts) /\ u \in Admins \cup assignees[r]

\* The analyst of a request, at one of the statuses From.
Analyses(r, u, From) == IsAnalyst(r, u) /\ status[r] \in From

Only(r, s) == Moves(r, s) /\ UNCHANGED <<reapproval, owed, people>>

----------------------------------------------------------------------------
(* The loop of scan, validation, fix and rescan. *)

Imports(r) ==
  /\ \E result \in {"Clean", "Dirty"} : scan' = [scan EXCEPT ![r] = result]
  /\ UNCHANGED <<supStatus, supLink, supRaiser, supOwed>>

StartScan(r, u)  == Analyses(r, u, {"CONFIGURATION"}) /\ Only(r, "SCANNING") /\ Imports(r)
RescanScan(r, u) == Analyses(r, u, {"RESCAN"}) /\ Only(r, "SCANNING") /\ Imports(r)

\* _auto_close_if_clean: three commits, so a crash may leave the first ones alone;
\* a pending suppression stops it after the first.
AutoCloses(r) ==
  IF NonePending(r) THEN {"SECURITY_COMPLETE", "REPORT_READY", "CLOSED"}
  ELSE {"SECURITY_COMPLETE"}

\* The endpoint hands open findings to the requester, in a commit of its own.
ValidateFindings(r, u) ==
  /\ Analyses(r, u, {"SCANNING"})
  /\ \E s \in IF scan[r] = "Clean" THEN AutoCloses(r) ELSE {"REMEDIATION", "WAITING_FOR_FIX"} :
       Only(r, s)
  /\ UNCHANGED scans

\* Left in place for requests of an earlier model; no page calls it.
MarkScanComplete(r, u) ==
  /\ Analyses(r, u, {"SCANNING", "REMEDIATION", "RESCAN"}) /\ scan[r] = "Clean"
  /\ \E s \in AutoCloses(r) : Only(r, s)
  /\ UNCHANGED scans

CanAssignToRequester(r, u) == Analyses(r, u, {"REMEDIATION"}) /\ scan[r] = "Dirty"

AssignToRequester(r, u) ==
  CanAssignToRequester(r, u) /\ Only(r, "WAITING_FOR_FIX") /\ UNCHANGED scans

\* By the delegate too, whose delegation it closes.
CanMarkFixed(r, u) ==
  u \in Admins \cup {InHandsOf(r)} /\ status[r] = "WAITING_FOR_FIX" /\ NonePending(r)

MarkFixed(r, u) ==
  /\ CanMarkFixed(r, u)
  /\ Moves(r, "RESCAN")
  /\ delegate' = [delegate EXCEPT ![r] = None]
  /\ UNCHANGED <<reapproval, owed, kind, headId, assignees, declared, verified, nameStatus,
                 scan, supStatus, supLink, supRaiser, supOwed>>

\* (Operators named Bug... are not part of the specification: each one is what
\* the definition after it would be with a mistake in the code.)
BugOpenSuppressions(r, u) == Analyses(r, u, {"SECURITY_COMPLETE"}) /\ scan[r] # "Dirty"

CanReport(r, u) ==
  Analyses(r, u, {"SECURITY_COMPLETE"}) /\ scan[r] # "Dirty" /\ NonePending(r)

MarkReportReady(r, u) == CanReport(r, u) /\ Only(r, "REPORT_READY") /\ UNCHANGED scans

CanClose(r, u) == Analyses(r, u, {"REPORT_READY"}) /\ scan[r] # "Dirty"
CloseRequest(r, u) == CanClose(r, u) /\ Only(r, "CLOSED") /\ UNCHANGED scans

----------------------------------------------------------------------------
(* Suppression requests. *)

InScanWindow(r) == status[r] \in {"SCANNING", "REMEDIATION", "WAITING_FOR_FIX", "RESCAN"}

\* _require_linked_request, _require_requester_of_linked and
\* _require_no_existing_pending_suppression: u may have p point at request l.
MayLink(p, l, u) ==
  \/ l = Elsewhere
  \/ /\ l \in Requests /\ IsSecurity(l) /\ InScanWindow(l) /\ OwnedBy(l, u)
     /\ \A q \in Of(l) \ {p} : supStatus[q] \in {"ABSENT", "Rejected"}

Raisers == Admins \cup {Requester[r] : r \in Requests}

CanCreateSuppression(p, u) == supStatus[p] = "ABSENT" /\ u \in Raisers

CreateSuppression(p, u) ==
  /\ CanCreateSuppression(p, u)
  /\ \E l \in Requests \cup {Elsewhere} :
       MayLink(p, l, u) /\ supLink' = [supLink EXCEPT ![p] = l]
  /\ supStatus' = [supStatus EXCEPT ![p] = "Draft"]
  /\ supRaiser' = [supRaiser EXCEPT ![p] = u]
  /\ UNCHANGED <<status, reapproval, owed, people, scan, supOwed>>

IsRaiserAt(p, u, From) == u \in Admins \cup {supRaiser[p]} /\ supStatus[p] \in From

BugLinksBlindly(p, u) ==
  /\ IsRaiserAt(p, u, OpenSuppression)
  /\ \E l \in Requests : InScanWindow(l) /\ OwnedBy(l, u) /\ supLink' = [supLink EXCEPT ![p] = l]
  /\ UNCHANGED <<status, reapproval, owed, people, scan, supStatus, supRaiser, supOwed>>

\* relink_suppression, and update_suppression of a draft.
Relink(p, u) ==
  /\ IsRaiserAt(p, u, OpenSuppression)
  /\ \E l \in Requests \cup {Elsewhere} :
       MayLink(p, l, u) /\ supLink' = [supLink EXCEPT ![p] = l]
  /\ UNCHANGED <<status, reapproval, owed, people, scan, supStatus, supRaiser, supOwed>>

SupMoves(p, s) ==
  /\ supStatus' = [supStatus EXCEPT ![p] = s]
  /\ UNCHANGED <<status, reapproval, owed, people, scan, supLink, supRaiser>>

SupOnlyMoves(p, s) == SupMoves(p, s) /\ UNCHANGED supOwed

SubmitSuppression(p, u) ==
  IsRaiserAt(p, u, {"Draft"}) /\ SupOnlyMoves(p, "SM_APPROVAL_PENDING")

BugStraightToTeam(p) == "SECURITY_TEAM_VERIFICATION"

SuppressionReturnsTo(p) ==
  CASE supStatus[p] = "RETURNED_BY_SM"              -> "SM_APPROVAL_PENDING"
    [] supStatus[p] = "RETURNED_BY_DEPARTMENT_HEAD" -> "DEPARTMENT_HEAD_APPROVAL_PENDING"
    [] OTHER                                        -> "SECURITY_TEAM_VERIFICATION"

ResubmitSuppression(p, u) ==
  IsRaiserAt(p, u, Returned) /\ SupOnlyMoves(p, SuppressionReturnsTo(p))

CanDecideAsSM(p, u) ==
  HasRole(u, SMs) /\ NotRequester(u, supRaiser[p]) /\ supStatus[p] = "SM_APPROVAL_PENDING"

SuppressionSMVerdicts == {"DEPARTMENT_HEAD_APPROVAL_PENDING", "RETURNED_BY_SM", "Rejected"}

SuppressionSMDecision(p, u) ==
  CanDecideAsSM(p, u) /\ \E s \in SuppressionSMVerdicts : SupOnlyMoves(p, s)

CanDecideAsHead(p, u) ==
  /\ HasRole(u, DeptHeads) /\ NotRequester(u, supRaiser[p])
  /\ supStatus[p] = "DEPARTMENT_HEAD_APPROVAL_PENDING"

SuppressionHeadVerdicts ==
  {"SECURITY_TEAM_VERIFICATION", "RETURNED_BY_DEPARTMENT_HEAD", "Rejected"}

SuppressionDeptHeadDecision(p, u) ==
  /\ CanDecideAsHead(p, u)
  /\ \E s \in SuppressionHeadVerdicts :
       /\ SupMoves(p, s)
       /\ supOwed' = [supOwed EXCEPT ![p] = @ /\ s # "SECURITY_TEAM_VERIFICATION"]

CanDecideAsTeam(p, u) == HasRole(u, Analysts) /\ supStatus[p] = "SECURITY_TEAM_VERIFICATION"

\* The return to the department head is the demand for a new approval.
TeamVerdicts == {"Done", "Rejected", "RETURNED_BY_SECURITY_TEAM", "RETURNED_BY_DEPARTMENT_HEAD"}

SecurityTeamDecision(p, u) ==
  /\ CanDecideAsTeam(p, u)
  /\ \E s \in TeamVerdicts :
       /\ SupMoves(p, s)
       /\ supOwed' = [supOwed EXCEPT ![p] = @ \/ s = "RETURNED_BY_DEPARTMENT_HEAD"]

----------------------------------------------------------------------------
SecurityStep(r, u) ==
  \/ AssignSecurityAnalyst(r, u) \/ StartScan(r, u) \/ RescanScan(r, u)
  \/ ValidateFindings(r, u) \/ MarkScanComplete(r, u) \/ AssignToRequester(r, u)
  \/ MarkFixed(r, u) \/ MarkReportReady(r, u) \/ CloseRequest(r, u)

SuppressionStep(p, u) ==
  \/ CreateSuppression(p, u) \/ Relink(p, u) \/ SubmitSuppression(p, u)
  \/ ResubmitSuppression(p, u) \/ SuppressionSMDecision(p, u)
  \/ SuppressionDeptHeadDecision(p, u) \/ SecurityTeamDecision(p, u)

\* A security request is reported on, and closed, on a latest scan without a
\* finding, and with no suppression of it undecided: not by a scan of before the
\* fix, and however suppressions are raised and relinked meanwhile.
ClosedIsClean ==
  \A r \in Requests : IsSecurity(r) /\ status[r] \in {"REPORT_READY", "CLOSED"} =>
    scan[r] = "Clean" /\ NonePending(r)

\* One decision at a time on the findings of a request: of the suppressions that
\* point at it, by creation or relinking, at most one is not rejected.
OneSuppression ==
  \A r \in Requests : \A p, q \in Of(r) :
    supStatus[p] # "Rejected" /\ supStatus[q] # "Rejected" => p = q

\* A suppression the security team sent back for the department head's approval
\* does not reach the team again, and is not accepted, before that approval.
SuppressionReapproved ==
  \A p \in Suppressions :
    supOwed[p] => supStatus[p] \in {"RETURNED_BY_DEPARTMENT_HEAD", "Rejected",
                                    "DEPARTMENT_HEAD_APPROVAL_PENDING"}

\* Rows are sound: typed, and one open suppression for the findings of a request.
RecordsAreSound == RTypeOK /\ OneSuppression

\* Approvals hold, of requests and of suppressions, the first and those demanded again.
ApprovalsHold == WorkWasApproved /\ SuppressionReapproved

=============================================================================
