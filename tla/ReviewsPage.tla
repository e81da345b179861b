---------------------------- MODULE ReviewsPage ----------------------------
(* What the pages of SAST, DAST, Suppression and Performance Testing requests   *)
(* (SAST.tsx, DAST.tsx, SecurityScan.tsx, Suppression.tsx, Performance.tsx)     *)
(* offer to whom, by rules of their own over the request they have loaded,      *)
(* beside the handlers that the offers call. SAST and DAST share every rule.    *)
EXTENDS ReviewRequests

InputEditor(r, u) ==
  u \in Admins \/ u = delegate[r] \/ (u = Requester[r] /\ delegate[r] = None)

IsSelfApproval(requester, u) == u = requester /\ u \notin Admins

IsAssignedQALead(u)   == HasRole(u, LeadGroup)
IsQADepartmentHead(u) == u \in Admins \/ (u \in Executives /\ InQA(u))
IsAssignedAnalyst(r, u) == IsSecurity(r) /\ (u \in Admins \/ (u \in Analysts /\ u \in assignees[r]))
IsAssignedTester(r, u)  == ~IsSecurity(r) /\ (u \in Admins \/ (u \in Engineers /\ u \in assignees[r]))

\* pendingSelfDeclare: Performance does not stop a submission for it.
PendingSelfDeclare(r) == Mandatory \ declared[r]
SubmitBlocked(r) == IsSecurity(r) /\ PendingSelfDeclare(r) # {}

ShowsSubmit(r, u) == OwnedBy(r, u) /\ status[r] = "DRAFT" /\ ~SubmitBlocked(r)

BugWhileDelegated(r, u) ==
  /\ OwnedBy(r, u) /\ status[r] \in WithRequester \ {"DRAFT"}
  /\ status[r] \in {"RETURNED_BY_SM", "SM_REJECTED"} => ~SubmitBlocked(r)

ShowsResubmit(r, u) ==
  /\ OwnedBy(r, u) /\ delegate[r] = None /\ status[r] \in WithRequester \ {"DRAFT"}
  /\ status[r] \in {"RETURNED_BY_SM", "SM_REJECTED"} => ~SubmitBlocked(r)

ShowsSMDecision(r, u) ==
  HasRole(u, SMs) /\ status[r] = "SM_APPROVAL_PENDING" /\ ~IsSelfApproval(Requester[r], u)

ShowsDepartmentHeadDecision(r, u) ==
  /\ HasRole(u, DeptHeads) /\ status[r] = "DEPARTMENT_HEAD_APPROVAL_PENDING"
  /\ ~IsSelfApproval(Requester[r], u)

SignBlocked(r) == nameStatus[r] # "APPROVED" \/ PendingSelfDeclare(r) # {}

\* The decisions the panel offers, by the status they lead to.
DecisionButtons(r, u) ==
  LET signed(s) == IF SignBlocked(r) THEN {} ELSE {s} IN
  CASE ShowsSMDecision(r, u) ->
         {"RETURNED_BY_SM", "SM_REJECTED"} \cup signed("DEPARTMENT_HEAD_APPROVAL_PENDING")
    [] ShowsDepartmentHeadDecision(r, u) ->
         {"RETURNED_BY_DEPARTMENT_HEAD", "DEPARTMENT_HEAD_REJECTED"} \cup signed("LEAD_ASSIGNED")
    [] OTHER -> {}

\* canManageDocuments: with Performance's last window, at the requester's verdict.
ShowsUpload(r, u) ==
  \/ u \in Admins
  \/ status[r] \in WithRequester \cup {"REQUESTER_VERIFICATION"} /\ InputEditor(r, u)
  \/ ShowsSMDecision(r, u) \/ ShowsDepartmentHeadDecision(r, u)

ShowsEditDetails(r, u) ==
  \/ u \in Admins
  \/ InputEditor(r, u) /\ status[r] \in WithRequester
  \/ u \in SMs /\ status[r] = "SM_APPROVAL_PENDING"
  \/ u \in DeptHeads /\ status[r] = "DEPARTMENT_HEAD_APPROVAL_PENDING"

\* The form: the declaration saved with the details.
DeclarationChoices(r, u) == IF ShowsEditDetails(r, u) THEN SUBSET Items ELSE {}

\* canManageEvidenceModal: the uploads inside the form, for whom it opens.
ShowsFormUpload(r, u) ==
  /\ ShowsEditDetails(r, u)
  /\ CASE status[r] = "SM_APPROVAL_PENDING" -> HasRole(u, SMs)
       [] status[r] = "DEPARTMENT_HEAD_APPROVAL_PENDING" -> HasRole(u, DeptHeads)
       [] OTHER -> InputEditor(r, u)

ShowsStartReadiness(r, u) == IsAssignedQALead(u) /\ status[r] = "LEAD_ASSIGNED"
ShowsReadinessDecision(r, u) == IsAssignedQALead(u) /\ status[r] = "READINESS"

\* The dialog after "Readiness Failed": both answers send the request back.
ReadinessFailedAnswers(r, u) == IF ShowsReadinessDecision(r, u) THEN BOOLEAN ELSE {}

ShowsChecklistBox(r, u, i) == ShowsReadinessDecision(r, u) /\ i \in declared[r] \cup verified[r]

----------------------------------------------------------------------------
(* SAST and DAST. *)

ShowsAssignAnalyst(r, u) ==
  /\ IsSecurity(r) /\ status[r] \in AnalystReassignable \cup {"PLANNING"}
  /\ IF status[r] = "PLANNING" THEN IsAssignedQALead(u)
     ELSE IsAssignedAnalyst(r, u) \/ IsQADepartmentHead(u) \/ u \in QALeads

\* The picker and its button: somebody new, unless it is the first assignment.
AnalystChoices(r, u) ==
  IF ~ShowsAssignAnalyst(r, u) THEN {}
  ELSE {v \in QAStaff \cap Analysts : status[r] = "PLANNING" \/ v \notin assignees[r]}

ShowsStartScan(r, u) == IsAssignedAnalyst(r, u) /\ status[r] = "CONFIGURATION"

\* SecurityScanResults: shown with the imported results only.
OnFindingsTab(r, s) == IsSecurity(r) /\ scan[r] # "None" /\ status[r] = s

ShowsValidateFindings(r, u)   == OnFindingsTab(r, "SCANNING") /\ IsAssignedAnalyst(r, u)
ShowsAssignToRequester(r, u)  == OnFindingsTab(r, "REMEDIATION") /\ IsAssignedAnalyst(r, u)
ShowsRescan(r, u)             == OnFindingsTab(r, "RESCAN") /\ IsAssignedAnalyst(r, u)

HasOpenSuppression(r) == \E p \in Of(r) : supStatus[p] \in OpenSuppression
HasDoneSuppression(r) == \E p \in Of(r) : supStatus[p] = "Done"

\* canInitiateSuppression: the literal requester, also of a delegated request.
ShowsInitiateSuppression(r, u) ==
  /\ OnFindingsTab(r, "WAITING_FOR_FIX") /\ OwnedBy(r, u)
  /\ ~HasOpenSuppression(r) /\ ~HasDoneSuppression(r)

\* LinkSuppressionModal: the open ones of one's own that point elsewhere.
LinkCandidates(r, u) ==
  IF ~ShowsInitiateSuppression(r, u) THEN {}
  ELSE {p \in Suppressions : /\ supStatus[p] \in OpenSuppression /\ supLink[p] # r
                             /\ u \in Admins \cup {supRaiser[p]}}

ShowsMarkFixed(r, u) ==
  OnFindingsTab(r, "WAITING_FOR_FIX") /\ InputEditor(r, u) /\ ~HasOpenSuppression(r)

\* Offered with a suppression open as well, where the server refuses.
ShowsMarkReportReady(r, u) == IsAssignedAnalyst(r, u) /\ status[r] = "SECURITY_COMPLETE"
ShowsCloseRequest(r, u)    == IsAssignedAnalyst(r, u) /\ status[r] = "REPORT_READY"

----------------------------------------------------------------------------
(* Suppression requests. *)

IsRaiser(p, u) == supStatus[p] # "ABSENT" /\ u \in Admins \cup {supRaiser[p]}

ShowsSuppressionSubmit(p, u)   == IsRaiser(p, u) /\ supStatus[p] = "Draft"
ShowsSuppressionResubmit(p, u) == IsRaiser(p, u) /\ supStatus[p] \in Returned

\* The decisions of its three panels, by the status they lead to; the security
\* team's return asks whether the department head is to approve again.
SuppressionButtons(p, u) ==
  CASE /\ supStatus[p] = "SM_APPROVAL_PENDING" /\ HasRole(u, SMs)
       /\ ~IsSelfApproval(supRaiser[p], u) ->
         {"DEPARTMENT_HEAD_APPROVAL_PENDING", "RETURNED_BY_SM", "Rejected"}
    [] /\ supStatus[p] = "DEPARTMENT_HEAD_APPROVAL_PENDING" /\ HasRole(u, DeptHeads)
       /\ ~IsSelfApproval(supRaiser[p], u) ->
         {"SECURITY_TEAM_VERIFICATION", "RETURNED_BY_DEPARTMENT_HEAD", "Rejected"}
    [] supStatus[p] = "SECURITY_TEAM_VERIFICATION" /\ HasRole(u, Analysts) ->
         {"Done", "Rejected", "RETURNED_BY_SECURITY_TEAM", "RETURNED_BY_DEPARTMENT_HEAD"}
    [] OTHER -> {}

ShowsSuppressionUpload(p, u) ==
  CASE supStatus[p] \in Returned \cup {"Draft"} -> IsRaiser(p, u)
    [] supStatus[p] \in AtApproval -> u \in Admins \/ SuppressionButtons(p, u) # {}
    [] OTHER -> u \in Admins

----------------------------------------------------------------------------
(* Performance Testing. *)

ShowsAssignTesters(r, u) ==
  /\ ~IsSecurity(r) /\ status[r] \in TestersReassignable \cup {"PLANNING"}
  /\ IF status[r] = "PLANNING" THEN IsAssignedQALead(u) \/ IsAssignedTester(r, u)
     ELSE IsAssignedTester(r, u) \/ IsQADepartmentHead(u) \/ u \in QALeads

TeamChoices(r, u) ==
  IF ~ShowsAssignTesters(r, u) THEN {}
  ELSE {T \in (SUBSET (QAStaff \cap Engineers)) \ {{}} : status[r] = "PLANNING" \/ T # assignees[r]}

\* The buttons of the phases, by the phase and the status they lead to.
PhaseButtons(r, u) ==
  IF IsSecurity(r) THEN {}
  ELSE {s \in PerformanceStatus :
          \/ IsAssignedQALead(u) /\ <<status[r], s>> \in LeadPhases
          \/ (IsAssignedQALead(u) \/ IsAssignedTester(r, u)) /\ <<status[r], s>> \in OwnerPhases}

ShowsRequesterDecision(r, u) == OwnedBy(r, u) /\ status[r] = "REQUESTER_VERIFICATION"

----------------------------------------------------------------------------
(* The columns "Pending With". *)

\* SAST_DAST_PENDING_WITH
SecurityPendingWith(r) ==
  CASE status[r] \in WithRequester \cup {"WAITING_FOR_FIX"} -> {Requester[r]}
    [] status[r] = "SM_APPROVAL_PENDING"                    -> SMs
    [] status[r] = "DEPARTMENT_HEAD_APPROVAL_PENDING"       -> DeptHeads
    [] status[r] \in {"LEAD_ASSIGNED", "READINESS", "PLANNING"} -> QALeads
    [] status[r] \in SecurityStatus \ {"PLANNING", "WAITING_FOR_FIX", "CLOSED"} -> Analysts
    [] OTHER -> {}

\* PERFORMANCE_PENDING_WITH
PerformancePendingWith(r) ==
  CASE status[r] \in WithRequester \cup {"DEFECT_FIX_RETEST", "REQUESTER_VERIFICATION"} -> {Requester[r]}
    [] status[r] = "SM_APPROVAL_PENDING"              -> SMs
    [] status[r] = "DEPARTMENT_HEAD_APPROVAL_PENDING" -> DeptHeads
    [] status[r] \in {"ENVIRONMENT_SETUP", "SCRIPT_DEVELOPMENT", "BASELINE",
                      "LOAD_TEST_EXECUTION"}          -> Engineers
    [] status[r] \in {"LEAD_ASSIGNED", "READINESS", "FEASIBILITY", "PLANNING",
                      "RESULT_ANALYSIS", "REPORT", "SIGNOFF_PENDING"} -> QALeads
    [] OTHER -> {}

PendingWith(r) == IF IsSecurity(r) THEN SecurityPendingWith(r) ELSE PerformancePendingWith(r)

\* SUPPRESSION_PENDING_WITH
SuppressionPendingWith(p) ==
  CASE supStatus[p] \in Returned \cup {"Draft"}              -> {supRaiser[p]}
    [] supStatus[p] = "SM_APPROVAL_PENDING"                  -> SMs
    [] supStatus[p] = "DEPARTMENT_HEAD_APPROVAL_PENDING"     -> DeptHeads
    [] supStatus[p] = "SECURITY_TEAM_VERIFICATION"           -> Analysts
    [] OTHER -> {}

----------------------------------------------------------------------------
(* The list "Pending Approvals" (pending_approvals.py), for these requests and  *)
(* for suppressions.                                                            *)

PendingItem(r, u) ==
  \/ /\ NotRequester(u, Requester[r])
     /\ \/ HasRole(u, SMs) /\ status[r] = "SM_APPROVAL_PENDING"
        \/ HasRole(u, DeptHeads) /\ status[r] = "DEPARTMENT_HEAD_APPROVAL_PENDING"
  \/ HasRole(u, LeadGroup) /\ status[r] \in {"LEAD_ASSIGNED", "READINESS"}

PendingSuppression(p, u) ==
  \/ /\ NotRequester(u, supRaiser[p])
     /\ \/ HasRole(u, SMs) /\ supStatus[p] = "SM_APPROVAL_PENDING"
        \/ HasRole(u, DeptHeads) /\ supStatus[p] = "DEPARTMENT_HEAD_APPROVAL_PENDING"
  \/ HasRole(u, Analysts) /\ supStatus[p] = "SECURITY_TEAM_VERIFICATION"

----------------------------------------------------------------------------
(* The server's rules for uploads, which no handler above needs. *)

\* _can_upload_documents of sast_dast.py and performance.py
MayUpload(r, u) ==
  \/ u \in Admins
  \/ status[r] \in WithRequester \cup {"REQUESTER_VERIFICATION"} /\ u = InHandsOf(r)
  \/ status[r] = "SM_APPROVAL_PENDING" /\ u \in SMs
  \/ status[r] = "DEPARTMENT_HEAD_APPROVAL_PENDING" /\ u \in DeptHeads

MayUploadToSuppression(p, u) ==
  \/ u \in Admins
  \/ supStatus[p] \in Returned \cup {"Draft"} /\ u = supRaiser[p]
  \/ supStatus[p] = "SM_APPROVAL_PENDING" /\ u \in SMs
  \/ supStatus[p] = "DEPARTMENT_HEAD_APPROVAL_PENDING" /\ u \in DeptHeads

----------------------------------------------------------------------------
FrontOffered(r, u) ==
  /\ ShowsSubmit(r, u)   => CanSubmit(r, u)
  /\ ShowsResubmit(r, u) => CanResubmit(r, u)
  /\ \A s \in DecisionButtons(r, u) :
       \/ CanSMDecide(r, u) /\ s \in SMVerdicts(r)
       \/ CanHeadDecide(r, u) /\ s \in HeadVerdicts(r)
  /\ u \notin Admins => \A D \in DeclarationChoices(r, u) :
                          CanEditDetails(r, u) /\ D \in SUBSET Items
  /\ ShowsUpload(r, u) \/ ShowsFormUpload(r, u) => MayUpload(r, u)
  /\ ShowsStartReadiness(r, u) => CanStartReadiness(r, u)
  /\ \A i \in Items : ShowsChecklistBox(r, u, i) =>
       CanVerify(r, u) /\ i \in declared[r] \cup verified[r]
  /\ ReadinessFailedAnswers(r, u) # {} => CanVerify(r, u)

WorkOffered(r, u) ==
  /\ \A v \in AnalystChoices(r, u) : CanAssignAnalyst(r, u) /\ v \in AssignableAnalysts
  /\ ShowsStartScan(r, u)         => Analyses(r, u, {"CONFIGURATION"})
  /\ ShowsValidateFindings(r, u)  => Analyses(r, u, {"SCANNING"})
  /\ ShowsAssignToRequester(r, u) => CanAssignToRequester(r, u)
  /\ ShowsRescan(r, u)            => Analyses(r, u, {"RESCAN"})
  /\ ShowsMarkFixed(r, u)         => CanMarkFixed(r, u)
  /\ ShowsMarkReportReady(r, u) /\ NonePending(r) => CanReport(r, u)
  /\ ShowsCloseRequest(r, u)      => CanClose(r, u)
  /\ \A T \in TeamChoices(r, u) : CanAssignTesters(r, u) /\ T \in Teams
  /\ \A s \in PhaseButtons(r, u) : CanLead(r, u, s) \/ CanExecute(r, u, s)
  /\ ShowsRequesterDecision(r, u) => CanDecideResult(r, u)

SuppressionOffered(p, u) ==
  /\ ShowsSuppressionSubmit(p, u)   => IsRaiserAt(p, u, {"Draft"})
  /\ ShowsSuppressionResubmit(p, u) => IsRaiserAt(p, u, Returned)
  /\ \A s \in SuppressionButtons(p, u) :
       \/ CanDecideAsSM(p, u) /\ s \in SuppressionSMVerdicts
       \/ CanDecideAsHead(p, u) /\ s \in SuppressionHeadVerdicts
       \/ CanDecideAsTeam(p, u) /\ s \in TeamVerdicts
  /\ ShowsSuppressionUpload(p, u) => MayUploadToSuppression(p, u)
  /\ \A r \in Requests :
       /\ p \in LinkCandidates(r, u) => IsRaiserAt(p, u, OpenSuppression) /\ MayLink(p, r, u)
       /\ ShowsInitiateSuppression(r, u) /\ supStatus[p] = "ABSENT" =>
            CanCreateSuppression(p, u) /\ MayLink(p, r, u)

\* Whatever these pages offer somebody on a fresh copy, the server does for them, with
\* every choice the page leaves, through returns, delegations, reassignments and the
\* loop of scans and suppressions. Known exceptions, not claimed here: Edit Details
\* for an admin, and Mark Report Ready while a suppression is open.
ReviewOffersAreAccepted ==
  /\ \A r \in Requests, u \in Users : FrontOffered(r, u) /\ WorkOffered(r, u)
  /\ \A p \in Suppressions, u \in Users : SuppressionOffered(p, u)

----------------------------------------------------------------------------
\* The buttons that take a request on.
TakesOn(r, u) ==
  \/ ShowsSubmit(r, u) \/ ShowsResubmit(r, u) \/ DecisionButtons(r, u) # {}
  \/ InputEditor(r, u) /\ SubmitBlocked(r) /\ status[r] \in WithRequester
  \/ delegate[r] # None /\ OwnedBy(r, u)
  \/ ShowsStartReadiness(r, u) \/ ReadinessFailedAnswers(r, u) # {}
  \/ AnalystChoices(r, u) # {} \/ ShowsStartScan(r, u) \/ ShowsValidateFindings(r, u)
  \/ ShowsAssignToRequester(r, u) \/ ShowsRescan(r, u) \/ ShowsMarkFixed(r, u)
  \/ ShowsMarkReportReady(r, u) \/ ShowsCloseRequest(r, u)
  \/ status[r] = "PLANNING" /\ TeamChoices(r, u) # {}
  \/ PhaseButtons(r, u) # {} \/ ShowsRequesterDecision(r, u)

\* The people the lists say a request is pending with include one whom its page lets
\* take it on: a request is never shown as waiting for a group in which nobody can act.
\* Not claimed where the column names who fixes the defects, or while an open
\* suppression, which has a column of its own, holds the requester up.
ReviewPendingWithActs ==
  /\ \A r \in Requests :
       PendingWith(r) # {} /\ status[r] # "DEFECT_FIX_RETEST" /\ ~HasOpenSuppression(r)
       => \E u \in PendingWith(r) : TakesOn(r, u)
  /\ \A p \in Suppressions : SuppressionPendingWith(p) # {} =>
       \E u \in SuppressionPendingWith(p) :
         \/ ShowsSuppressionSubmit(p, u) \/ ShowsSuppressionResubmit(p, u)
         \/ SuppressionButtons(p, u) # {}

\* The list "Pending Approvals" names a request or a suppression to exactly those who
\* may decide on it now, and its page has the buttons for them (pending_approvals.py:29):
\* nobody is asked to approve what they raised, whatever roles they have.
ReviewPendingListIsExact ==
  /\ \A r \in Requests, u \in Users :
       /\ PendingItem(r, u) <=>
            \/ CanSMDecide(r, u) \/ CanHeadDecide(r, u)
            \/ CanStartReadiness(r, u) \/ CanVerify(r, u)
       /\ PendingItem(r, u) =>
            \/ DecisionButtons(r, u) # {} \/ ShowsStartReadiness(r, u)
            \/ ReadinessFailedAnswers(r, u) # {}
  /\ \A p \in Suppressions, u \in Users :
       /\ PendingSuppression(p, u) <=>
            CanDecideAsSM(p, u) \/ CanDecideAsHead(p, u) \/ CanDecideAsTeam(p, u)
       /\ PendingSuppression(p, u) <=> SuppressionButtons(p, u) # {}

\* The four pages, their lists and the list of pending approvals agree with the server.
ReviewPagesAgree ==
  ReviewOffersAreAccepted /\ ReviewPendingWithActs /\ ReviewPendingListIsExact

=============================================================================
