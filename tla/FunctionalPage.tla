--------------------------- MODULE FunctionalPage ---------------------------
(* What the page of a Functional Testing Request (Functional.tsx with           *)
(* ChildRequestDelegation.tsx) shows to whom, beside the handlers of Functional *)
(* that its buttons call. The page works the offers out of the request it has   *)
(* loaded, with rules of its own; these are the rules, for a fresh copy.        *)
EXTENDS Functional, Sequences

IsActiveDelegate(r, u) == u = delegate[r]

\* requesterInputEditor
InputEditor(r, u) ==
  u \in Admins \/ IsActiveDelegate(r, u) \/ (u = Requester[r] /\ delegate[r] = None)

\* isAssignedTester, isAssignedQALead, isSelfApproval
IsAssignedTester(r, u) == u \in Admins \/ (u \in Engineers /\ u \in testers[r])
IsAssignedQALead(u) == HasRole(u, LeadGroup)
IsSelfApproval(r, u) == u = Requester[r] /\ u \notin Admins

BugOwnReturns(r, u) == OwnedBy(r, u) /\ fstatus[r] \in WithRequester \ {"DRAFT"}

ShowsSubmit(r, u) == OwnedBy(r, u) /\ fstatus[r] = "DRAFT"

ShowsResubmit(r, u) ==
  OwnedBy(r, u) /\ delegate[r] = None /\ fstatus[r] \in WithRequester \ {"DRAFT"}

\* pendingSelfDeclare
PendingSelfDeclare(r) == Mandatory \ declared[r]

\* applicationNameBlocking and the undeclared items: Return and Reject stay.
SignBlocked(r) == nameStatus[r] # "APPROVED" \/ PendingSelfDeclare(r) # {}

ShowsSMDecision(r, u) ==
  HasRole(u, SMs) /\ fstatus[r] = "SM_APPROVAL_PENDING" /\ ~IsSelfApproval(r, u)

ShowsDepartmentHeadDecision(r, u) ==
  /\ HasRole(u, DeptHeads) /\ fstatus[r] = "DEPARTMENT_HEAD_APPROVAL_PENDING"
  /\ ~IsSelfApproval(r, u)

\* The decisions the panel offers, by the status they lead to.
DecisionButtons(r, u) ==
  LET signed(s) == IF SignBlocked(r) THEN {} ELSE {s} IN
  CASE ShowsSMDecision(r, u) ->
         {"RETURNED_BY_SM", "SM_REJECTED"} \cup signed("DEPARTMENT_HEAD_APPROVAL_PENDING")
    [] ShowsDepartmentHeadDecision(r, u) ->
         {"RETURNED_BY_DEPARTMENT_HEAD", "DEPARTMENT_HEAD_REJECTED"}
           \cup signed("QA_LEAD_ASSIGNED")
    [] OTHER -> {}

\* evidenceOwner and canManageDocuments
ShowsUpload(r, u) ==
  \/ u \in Admins
  \/ fstatus[r] \in WithRequester \cup {"REQUESTER_VERIFICATION"} /\ InputEditor(r, u)
  \/ ShowsSMDecision(r, u)
  \/ ShowsDepartmentHeadDecision(r, u)

\* canVerifyChecklist: a box can be ticked if the item is declared.
ShowsChecklistBox(r, u, i) ==
  /\ IsAssignedQALead(u) /\ fstatus[r] = "READINESS_VERIFICATION"
  /\ i \in declared[r] \cup verified[r]

ShowsStartReadiness(r, u)    == IsAssignedQALead(u) /\ fstatus[r] = "QA_LEAD_ASSIGNED"
ShowsReadinessDecision(r, u) == IsAssignedQALead(u) /\ fstatus[r] = "READINESS_VERIFICATION"

\* The dialog after "Readiness Failed": both of its answers, and closing it, send the
\* request back.
ReadinessFailedAnswers(r, u) == IF ShowsReadinessDecision(r, u) THEN BOOLEAN ELSE {}

ShowsBeginPlanning(r, u)     == IsAssignedQALead(u) /\ fstatus[r] = "QA_ACTIVITY_INITIATED"

IsQADepartmentHead(u) == u \in Admins \/ (u \in Executives /\ InQA(u))

ShowsAssignTester(r, u) ==
  /\ fstatus[r] \in TesterReassignable
  /\ IF fstatus[r] = "PLANNING" THEN IsAssignedQALead(u) \/ IsAssignedTester(r, u)
     ELSE IsAssignedTester(r, u) \/ IsQADepartmentHead(u) \/ u \in QALeads

\* The picker and its button: a team, and a new one unless it is the first.
TeamChoices(r, u) ==
  IF ~ShowsAssignTester(r, u) THEN {}
  ELSE {T \in (SUBSET {v \in QAStaff : v \in Engineers}) \ {{}} :
          fstatus[r] = "PLANNING" \/ T # testers[r]}

ShowsStartTestDesign(r, u) == IsAssignedTester(r, u) /\ fstatus[r] = "TESTER_ASSIGNED"
ShowsStartExecution(r, u)  == IsAssignedTester(r, u) /\ fstatus[r] = "TEST_DESIGN"

\* StartExecutionModal: a linked cycle is kept; without one the cycles that
\* eligible_test_cycles lists can be chosen, or none.
CycleChoices(r, u) ==
  CASE ~ShowsStartExecution(r, u) -> {}
    [] ShowsStartExecution(r, u) /\ LinkedCycles(r) # {} -> {None}
    [] OTHER -> {None} \cup {y \in Cycles : cycleStatus[y] = "In Progress" /\ cycleLink[y] = None}

ShowsRaiseDefect(r, u) ==
  /\ IsAssignedTester(r, u) /\ fstatus[r] = "EXECUTION_IN_PROGRESS"
  /\ LinkedCycles(r) = {}

ShowsMarkWaitingForFix(r, u) == IsAssignedTester(r, u) /\ fstatus[r] = "DEFECT_RAISED"
ShowsStartRetest(r, u)       == IsAssignedTester(r, u) /\ fstatus[r] = "WAITING_FOR_FIX"

OpenLinkedCycles(r) == {y \in LinkedCycles(r) : cycleStatus[y] # "Completed"}

ShowsCompleteQA(r, u) ==
  /\ IsAssignedTester(r, u) /\ fstatus[r] \in {"EXECUTION_IN_PROGRESS", "RETESTING"}
  /\ OpenLinkedCycles(r) = {}

\* canRequestSignoff: what its form and its call do is in SignOff and Clearance.
ShowsRequestSignoff(r, u) ==
  /\ IsAssignedTester(r, u) \/ IsAssignedQALead(u)
  /\ InQA(u) /\ fstatus[r] = "QA_COMPLETED"

\* canEditDetails: FunctionalFormModal.
ShowsEditDetails(r, u) ==
  \/ u \in Admins
  \/ InputEditor(r, u) /\ fstatus[r] \in WithRequester
  \/ u \in SMs /\ fstatus[r] = "SM_APPROVAL_PENDING"
  \/ u \in DeptHeads /\ fstatus[r] = "DEPARTMENT_HEAD_APPROVAL_PENDING"

\* FunctionalFormModal: the declaration it saves.
DeclarationChoices(r, u) == IF ShowsEditDetails(r, u) THEN SUBSET Items ELSE {}

\* ChildRequestDelegation
ShowsDelegate(r, u) == OwnedBy(r, u) /\ delegate[r] = None /\ fstatus[r] \in WithRequester
DelegationChoices(r, u) == IF ShowsDelegate(r, u) THEN Users \ {Requester[r]} ELSE {}
ShowsReturn(r, u)   == delegate[r] # None /\ IsActiveDelegate(r, u)
ShowsRecall(r, u)   == delegate[r] # None /\ OwnedBy(r, u)

\* The buttons of the panel that take the request, or its delegation, on: without one
\* it says that no actions are available.
TakesOn(r, u) ==
  \/ ShowsSubmit(r, u) \/ ShowsResubmit(r, u) \/ ShowsRecall(r, u)
  \/ DecisionButtons(r, u) # {} \/ ReadinessFailedAnswers(r, u) # {}
  \/ ShowsStartReadiness(r, u) \/ ShowsBeginPlanning(r, u)
  \/ fstatus[r] = "PLANNING" /\ ShowsAssignTester(r, u)
  \/ ShowsStartTestDesign(r, u) \/ ShowsStartExecution(r, u)
  \/ ShowsRaiseDefect(r, u) \/ ShowsMarkWaitingForFix(r, u) \/ ShowsStartRetest(r, u)
  \/ ShowsCompleteQA(r, u) \/ ShowsRequestSignoff(r, u)

----------------------------------------------------------------------------
(* What the pages say of a request. *)

\* QA_PENDING_WITH: the column "Pending With", as the people it means.
PendingWith(r) ==
  CASE fstatus[r] \in WithRequester \cup {"DEFECT_RAISED", "WAITING_FOR_FIX",
                                          "REQUESTER_VERIFICATION"} -> {Requester[r]}
    [] fstatus[r] = "SM_APPROVAL_PENDING" -> SMs
    [] fstatus[r] = "DEPARTMENT_HEAD_APPROVAL_PENDING" -> DeptHeads
    [] fstatus[r] \in {"QA_LEAD_ASSIGNED", "READINESS_VERIFICATION", "QA_ACTIVITY_INITIATED",
                       "PLANNING", "QA_COMPLETED", "QA_SIGNOFF_PENDING"} -> QALeads
    [] fstatus[r] \in {"TESTER_ASSIGNED", "TEST_DESIGN", "EXECUTION_IN_PROGRESS",
                       "RETESTING"} -> Engineers
    [] OTHER -> {}

Stages == <<"Draft", "SM Approval", "Dept. Head Approval", "QA Activity", "Clearance", "Closed">>

\* lifecycleStageIndex, counted from 1
LifecycleStageIndex(s) ==
  CASE s \in {"DRAFT", "ABSENT"} -> 1
    [] s \in {"SM_APPROVAL_PENDING", "RETURNED_BY_SM"} -> 2
    [] s \in {"DEPARTMENT_HEAD_APPROVAL_PENDING", "RETURNED_BY_DEPARTMENT_HEAD"} -> 3
    [] s \in {"QA_LEAD_ASSIGNED", "READINESS_VERIFICATION", "RETURNED_BY_QA_LEAD",
              "QA_COMPLETED"} \cup (Ready \ Finished) -> 4
    [] s \in {"QA_SIGNOFF_PENDING", "REQUESTER_VERIFICATION"} -> 5
    [] OTHER -> 6

\* LifecyclePreview: the stages it paints as reached. A return shows a stage
\* "Requester Action" after the stage that returned; a rejection ends the row.
Painted(s) ==
  CASE s \in {"RETURNED_BY_SM", "SM_REJECTED"} -> SubSeq(Stages, 1, 2)
    [] s = "RETURNED_BY_DEPARTMENT_HEAD"       -> SubSeq(Stages, 1, 3)
    [] s = "RETURNED_BY_QA_LEAD"               -> SubSeq(Stages, 1, 4)
    [] s = "DEPARTMENT_HEAD_REJECTED"          ->
           <<"Draft", "SM Approval", "Dept. Head Approval", "Closed">>
    [] OTHER -> SubSeq(Stages, 1, LifecycleStageIndex(s))

PaintedStages(r) == LET p == Painted(fstatus[r]) IN {p[i] : i \in DOMAIN p}

----------------------------------------------------------------------------
(* The list "Pending Approvals" (pending_approvals.py), for these requests. *)

\* _sm_dept_head_items
AtDecision(r, u) ==
  /\ NotRequester(u, Requester[r])
  /\ \/ HasRole(u, SMs) /\ fstatus[r] = "SM_APPROVAL_PENDING"
     \/ HasRole(u, DeptHeads) /\ fstatus[r] = "DEPARTMENT_HEAD_APPROVAL_PENDING"

\* _readiness_items
AtReadiness(r, u) ==
  HasRole(u, LeadGroup) /\ fstatus[r] \in {"QA_LEAD_ASSIGNED", "READINESS_VERIFICATION"}

PendingApprovals(u) == {r \in Requests : AtDecision(r, u) \/ AtReadiness(r, u)}

\* The notice after login, from a count of its own.
PendingApprovalsNotice(u) == PendingApprovals(u) # {}

----------------------------------------------------------------------------
(* The server's rule for uploads, which no handler of Functional needs. *)

\* _can_upload_documents
MayUpload(r, u) ==
  \/ u \in Admins
  \/ /\ fstatus[r] \in WithRequester \cup {"REQUESTER_VERIFICATION"}
     /\ IsActiveDelegate(r, u) \/ (u = Requester[r] /\ delegate[r] = None)
  \/ fstatus[r] = "SM_APPROVAL_PENDING" /\ HasRole(u, SMs)
  \/ fstatus[r] = "DEPARTMENT_HEAD_APPROVAL_PENDING" /\ HasRole(u, DeptHeads)

----------------------------------------------------------------------------
CorrectionOffered(r, u) ==
  /\ ShowsSubmit(r, u)   => CanSubmit(r, u)
  /\ ShowsResubmit(r, u) => CanResubmit(r, u)
  /\ ShowsReturn(r, u) \/ ShowsRecall(r, u) => CanEndDelegation(r, u)
  /\ \A v \in DelegationChoices(r, u) : CanDelegate(r, u) /\ v \in Users \ {Requester[r]}
  /\ u \notin Admins => \A D \in DeclarationChoices(r, u) :
                         CanEditDetails(r, u) /\ D \in SUBSET Items
  /\ ShowsUpload(r, u) => MayUpload(r, u)

QAWorkOffered(r, u) ==
  /\ ShowsStartReadiness(r, u) => CanStartReadiness(r, u)
  /\ \A i \in Items : ShowsChecklistBox(r, u, i) =>
       CanVerify(r, u) /\ (i \notin verified[r] => i \in declared[r])
  /\ ReadinessFailedAnswers(r, u) # {} => CanVerify(r, u)
  /\ ShowsBeginPlanning(r, u)   => CanPlan(r, u)
  /\ \A T \in TeamChoices(r, u) : CanAssignTester(r, u) /\ T \in TesterTeams
  /\ ShowsStartTestDesign(r, u) => CanDesign(r, u)
  /\ \A y \in CycleChoices(r, u) : CanExecute(r, u) /\ y \in EligibleCycles(r) \cup {None}
  /\ ShowsRaiseDefect(r, u)       => CanRaiseDefect(r, u)
  /\ ShowsMarkWaitingForFix(r, u) => CanWait(r, u)
  /\ ShowsStartRetest(r, u)       => CanRetest(r, u)
  /\ ShowsCompleteQA(r, u)        => CanComplete(r, u)

\* Whatever the page offers somebody on a fresh copy of a request, the server does
\* for them, with every choice the page leaves: the condition of the handler behind
\* it holds. The two sets of rules, in two languages, agree in every state of approvals, returns, delegations, names,
\* testers and cycles. Known exceptions, not claimed here: Edit Details for an
\* admin, and Unlink.
OffersAreAccepted ==
  \A r \in Requests, u \in Users :
    /\ \A s \in DecisionButtons(r, u) :
         \/ CanSMDecide(r, u) /\ s \in SMVerdicts(r)
         \/ CanHeadDecide(r, u) /\ s \in HeadVerdicts(r)
    /\ CorrectionOffered(r, u)
    /\ QAWorkOffered(r, u)

\* The people the list says a request is pending with include one whom the page lets
\* take it on, in every state where a request waits for a click of theirs: neither in
\* the defect loop, where the column names who fixes, nor while a linked cycle is open.
PendingWithActs ==
  \A r \in Requests :
    /\ PendingWith(r) # {} /\ OpenLinkedCycles(r) = {}
    /\ fstatus[r] \notin {"DEFECT_RAISED", "WAITING_FOR_FIX"}
    => \E u \in PendingWith(r) : TakesOn(r, u)

\* "This list can never show something the viewer isn't actually allowed to act on,
\* and can never hide something they are" (pending_approvals.py:29): a request is in
\* somebody's list exactly while a decision of it is theirs, whatever returns,
\* delegations and renames it went through, and the page it leads to has the button.
PendingListIsExact ==
  \A u \in Users :
    /\ \A r \in Requests :
         /\ r \in PendingApprovals(u) <=>
              \/ CanSMDecide(r, u) \/ CanHeadDecide(r, u)
              \/ CanStartReadiness(r, u) \/ CanVerify(r, u)
         /\ r \in PendingApprovals(u) =>
              \/ DecisionButtons(r, u) # {} \/ ShowsStartReadiness(r, u)
              \/ ReadinessFailedAnswers(r, u) # {}
    /\ PendingApprovalsNotice(u) => \E r \in Requests : TakesOn(r, u)

\* The stepper paints "QA Activity" exactly for requests a department head let through
\* to QA, and not for those sent back to that approval (Functional.tsx:623, "Do not
\* paint QA Activity and Sign-off as completed when the request never entered those").
StepperTellsTruth ==
  \A r \in Requests :
    /\ "QA Activity" \in PaintedStages(r) => headId[r] # None /\ ~(owed[r] /\ fstatus[r] \in Submitting)
    /\ fstatus[r] \in Ready => "QA Activity" \in PaintedStages(r)
    /\ "Closed" \in PaintedStages(r) <=> fstatus[r] \in {"CLOSED", "DEPARTMENT_HEAD_REJECTED"}

\* The page, the list and the list of pending approvals agree with the server on every
\* request: what is offered is accepted, who is named can act, and what is painted
\* as done was done.
RequestPageAgrees ==
  OffersAreAccepted /\ PendingWithActs /\ PendingListIsExact /\ StepperTellsTruth

=============================================================================
