--------------------------- MODULE Reviews_proofs ---------------------------
(***************************************************************************)
(* What holds of SAST, DAST and Performance requests and of suppressions   *)
(* for any number of them and any people, however their handlers           *)
(* alternate.                                                              *)
(***************************************************************************)
EXTENDS ReviewsPage, TLAPS

\* Suppressions are typed; an absent one points nowhere and owes nothing.
SuppressionsOK ==
  /\ supStatus \in [Suppressions -> SuppressionStatus]
  /\ supLink   \in [Suppressions -> Requests \cup {Elsewhere, None}]
  /\ supRaiser \in [Suppressions -> Users \cup {None}]
  /\ supOwed   \in [Suppressions -> BOOLEAN]
  /\ scan      \in [Requests -> {"None", "Clean", "Dirty"}]
  /\ \A p \in Suppressions : supStatus[p] = "ABSENT" => supLink[p] = None /\ ~supOwed[p]

HeadOK(r) == headId[r] # None /\ (headId[r] \in Admins \/ headId[r] # Requester[r])

\* The inductive form of WorkWasApproved: what a lead sent back is approved as
\* well, and says whether a new approval is owed.
Approved ==
  \A r \in Requests :
    /\ status[r] \notin NotYetAtQA => HeadOK(r) /\ ~owed[r]
    /\ status[r] = "RETURNED_BY_LEAD" => HeadOK(r) /\ (owed[r] => reapproval[r])

\* The inductive form of ClosedIsClean: the last scan of what is complete is clean.
CleanFromComplete ==
  /\ \A r \in Requests :
       IsSecurity(r) /\ status[r] \in {"SECURITY_COMPLETE", "REPORT_READY", "CLOSED"} =>
         scan[r] = "Clean"
  /\ ClosedIsClean


\* Intake, approvals, readiness and the work of Performance do not touch scans.
LEMMA ScansKept ==
  ASSUME NEW r \in Requests,
         Raise(r) \/ NameDecided(r) \/ \E u \in Users : FrontStep(r, u) \/ PerformanceStep(r, u)
  PROVE  UNCHANGED <<scan, supStatus, supLink, supRaiser, supOwed>>
<1> USE DEF scans, OnlyMoves
<1>1. CASE Raise(r) BY <1>1 DEF Raise
<1>2. CASE NameDecided(r) BY <1>2 DEF NameDecided
<1>3. ASSUME NEW u \in Users, FrontStep(r, u) PROVE UNCHANGED scans
  BY <1>3 DEF FrontStep, Submit, Resubmit, SMDecision, DepartmentHeadDecision, UpdateDetails,
     Delegate, EndDelegation, StartReadiness, UpdateChecklistItem, ReadinessDecision
<1>4. ASSUME NEW u \in Users, PerformanceStep(r, u) PROVE UNCHANGED scans
  BY <1>4 DEF PerformanceStep, LeadCompletes, OwnerCompletes, CompletePlanning,
     RequesterDecision
<1> QED BY <1>1, <1>2, <1>3, <1>4

\* The loop of scans does not touch suppressions.
LEMMA SuppressionsKept ==
  ASSUME NEW r \in Requests, NEW u \in Users, SecurityStep(r, u)
  PROVE  UNCHANGED <<supStatus, supLink, supRaiser, supOwed>>
  BY DEF SecurityStep, AssignSecurityAnalyst, StartScan, RescanScan, ValidateFindings,
     MarkScanComplete, AssignToRequester, MarkFixed, MarkReportReady, CloseRequest, Imports,
         scans

\* Suppressions do not touch requests.
LEMMA RequestsKept ==
  ASSUME NEW p \in Suppressions, NEW u \in Users, SuppressionStep(p, u)
  PROVE  UNCHANGED <<status, reapproval, owed, kind, headId, assignees, declared, verified,
                     delegate, nameStatus, scan>>
  BY DEF SuppressionStep, CreateSuppression, Relink, SubmitSuppression, ResubmitSuppression,
     SuppressionSMDecision, SuppressionDeptHeadDecision, SecurityTeamDecision, SupOnlyMoves,
     SupMoves, people

\* Every handler keeps the types of the requests.
LEMMA RTypeKeeps ==
  ASSUME RTypeOK, [RequestsNext]_reviewVars
  PROVE  RTypeOK'
<1> USE StaffAssumption, ReviewsAssumption DEF RTypeOK, Front, NotYetAtQA, AtApproval,
    WithRequester, SecurityStatus, PerformanceStatus, Work, IsSecurity
<1>1. CASE UNCHANGED reviewVars
  BY <1>1 DEF reviewVars, people, scans
<1>2. ASSUME NEW r \in Requests, Raise(r) PROVE RTypeOK'
  BY <1>2 DEF Raise, Moves, AtSM, Declarable
<1>3. ASSUME NEW r \in Requests, NameDecided(r) PROVE RTypeOK'
  BY <1>3 DEF NameDecided
<1>4. ASSUME NEW r \in Requests, NEW u \in Users, FrontStep(r, u) PROVE RTypeOK'
  <2> USE DEF OnlyMoves, Moves, AtSM, people
  <2>1. CASE Submit(r, u) BY <2>1 DEF Submit, CanSubmit
  <2>2. CASE Resubmit(r, u) BY <2>2 DEF Resubmit, CanResubmit, ReturnsTo
  <2>3. CASE SMDecision(r, u) BY <2>3 DEF SMDecision, CanSMDecide, SMVerdicts
  <2>4. CASE DepartmentHeadDecision(r, u)
    <3>1. PICK s \in HeadVerdicts(r) :
            /\ Moves(r, s)
            /\ owed' = [owed EXCEPT ![r] = @ /\ s # "LEAD_ASSIGNED"]
            /\ assignees' = [assignees EXCEPT ![r] =
                               IF IsSecurity(r) /\ s = "LEAD_ASSIGNED" THEN {} ELSE @]
      BY <2>4 DEF DepartmentHeadDecision
    <3>2. /\ headId' = [headId EXCEPT ![r] = u]
          /\ UNCHANGED <<reapproval, kind, declared, verified, delegate, nameStatus, scans>>
      BY <2>4 DEF DepartmentHeadDecision
    <3>3. assignees' \in [Requests -> SUBSET Users] BY <3>1
    <3>4. owed' \in [Requests -> BOOLEAN] BY <3>1
    <3>5. s \in Front BY <3>1 DEF HeadVerdicts
    <3>6. status' = [status EXCEPT ![r] = s] BY <3>1
    <3>7. status' \in [Requests -> Front \cup SecurityStatus \cup PerformanceStatus]
      BY <3>5, <3>6
    <3>8. \A q \in Requests : status'[q] \in Front \cup Work(q)' BY <3>2, <3>5, <3>6
    <3> QED BY <3>2, <3>3, <3>4, <3>7, <3>8
  <2>5. CASE UpdateDetails(r, u) BY <2>5 DEF UpdateDetails
  <2>6. CASE Delegate(r, u) BY <2>6 DEF Delegate
  <2>7. CASE EndDelegation(r, u) BY <2>7 DEF EndDelegation
  <2>8. CASE StartReadiness(r, u) BY <2>8 DEF StartReadiness, CanStartReadiness
  <2>9. CASE UpdateChecklistItem(r, u) BY <2>9 DEF UpdateChecklistItem
  <2>10. CASE ReadinessDecision(r, u) BY <2>10 DEF ReadinessDecision, CanVerify
  <2> QED BY <1>4, <2>1, <2>2, <2>3, <2>4, <2>5, <2>6, <2>7, <2>8, <2>9, <2>10 DEF FrontStep
<1>5. ASSUME NEW r \in Requests, NEW u \in Users, SecurityStep(r, u) PROVE RTypeOK'
  <2> USE DEF Analyses, IsAnalyst, Only, Moves, people
  <2>1. CASE AssignSecurityAnalyst(r, u) BY <2>1 DEF AssignSecurityAnalyst, CanAssignAnalyst, AssignableAnalysts,
      AnalystReassignable
  <2>2. CASE StartScan(r, u) BY <2>2 DEF StartScan
  <2>3. CASE RescanScan(r, u) BY <2>3 DEF RescanScan
  <2>4. CASE ValidateFindings(r, u) BY <2>4 DEF ValidateFindings, AutoCloses
  <2>5. CASE MarkScanComplete(r, u) BY <2>5 DEF MarkScanComplete, AutoCloses
  <2>6. CASE AssignToRequester(r, u) BY <2>6 DEF AssignToRequester, CanAssignToRequester
  <2>7. CASE MarkFixed(r, u) BY <2>7 DEF MarkFixed, CanMarkFixed
  <2>8. CASE MarkReportReady(r, u) BY <2>8 DEF MarkReportReady, CanReport
  <2>9. CASE CloseRequest(r, u) BY <2>9 DEF CloseRequest, CanClose
  <2> QED BY <1>5, <2>1, <2>2, <2>3, <2>4, <2>5, <2>6, <2>7, <2>8, <2>9 DEF SecurityStep
<1>6. ASSUME NEW r \in Requests, NEW u \in Users, PerformanceStep(r, u) PROVE RTypeOK'
  <2> USE DEF OnlyMoves, Moves, people
  <2>1. CASE LeadCompletes(r, u) BY <2>1 DEF LeadCompletes, CanLead, LeadPhases
  <2>2. CASE OwnerCompletes(r, u) BY <2>2 DEF OwnerCompletes, CanExecute, OwnerPhases
  <2>3. CASE CompletePlanning(r, u) BY <2>3 DEF CompletePlanning, CanAssignTesters, Teams, Testers,
      TestersReassignable
  <2>4. CASE RequesterDecision(r, u) BY <2>4 DEF RequesterDecision, CanDecideResult
  <2> QED BY <1>6, <2>1, <2>2, <2>3, <2>4 DEF PerformanceStep
<1>7. ASSUME NEW p \in Suppressions, NEW u \in Users, SuppressionStep(p, u) PROVE RTypeOK'
  BY <1>7, RequestsKept
<1> QED BY <1>1, <1>2, <1>3, <1>4, <1>5, <1>6, <1>7 DEF RequestsNext

\* Every handler keeps the types of the suppressions.
LEMMA SuppressionsKeep ==
  ASSUME SuppressionsOK, [RequestsNext]_reviewVars
  PROVE  SuppressionsOK'
<1> USE StaffAssumption, ReviewsAssumption DEF SuppressionsOK, SuppressionStatus,
    OpenSuppression, Returned, AtApproval
<1>1. CASE UNCHANGED reviewVars
  BY <1>1 DEF reviewVars, people, scans
<1>2. ASSUME NEW r \in Requests, Raise(r) PROVE SuppressionsOK'
  BY <1>2, ScansKept
<1>3. ASSUME NEW r \in Requests, NameDecided(r) PROVE SuppressionsOK'
  BY <1>3, ScansKept
<1>4. ASSUME NEW r \in Requests, NEW u \in Users, FrontStep(r, u) PROVE SuppressionsOK'
  BY <1>4, ScansKept
<1>5. ASSUME NEW r \in Requests, NEW u \in Users, SecurityStep(r, u) PROVE SuppressionsOK'
  <2> USE DEF Analyses, Only, scans, people
  <2>1. CASE AssignSecurityAnalyst(r, u) BY <2>1 DEF AssignSecurityAnalyst, CanAssignAnalyst, AssignableAnalysts
  <2>2. CASE StartScan(r, u) BY <2>2 DEF StartScan, Imports
  <2>3. CASE RescanScan(r, u) BY <2>3 DEF RescanScan, Imports
  <2>4. CASE ValidateFindings(r, u) BY <2>4 DEF ValidateFindings
  <2>5. CASE MarkScanComplete(r, u) BY <2>5 DEF MarkScanComplete
  <2>6. CASE AssignToRequester(r, u) BY <2>6 DEF AssignToRequester, CanAssignToRequester
  <2>7. CASE MarkFixed(r, u) BY <2>7 DEF MarkFixed, CanMarkFixed
  <2>8. CASE MarkReportReady(r, u) BY <2>8 DEF MarkReportReady, CanReport
  <2>9. CASE CloseRequest(r, u) BY <2>9 DEF CloseRequest, CanClose
  <2> QED BY <1>5, <2>1, <2>2, <2>3, <2>4, <2>5, <2>6, <2>7, <2>8, <2>9 DEF SecurityStep
<1>6. ASSUME NEW r \in Requests, NEW u \in Users, PerformanceStep(r, u) PROVE SuppressionsOK'
  BY <1>6, ScansKept
<1>7. ASSUME NEW p \in Suppressions, NEW u \in Users, SuppressionStep(p,
    u) PROVE SuppressionsOK'
  <2> USE DEF SupOnlyMoves, SupMoves, IsRaiserAt, people
  <2>1. CASE CreateSuppression(p, u) BY <2>1 DEF CreateSuppression, CanCreateSuppression, MayLink
  <2>2. CASE Relink(p, u) BY <2>2 DEF Relink, MayLink
  <2>3. CASE SubmitSuppression(p, u) BY <2>3 DEF SubmitSuppression
  <2>4. CASE ResubmitSuppression(p, u) BY <2>4 DEF ResubmitSuppression, SuppressionReturnsTo
  <2>5. CASE SuppressionSMDecision(p, u) BY <2>5 DEF SuppressionSMDecision, CanDecideAsSM, SuppressionSMVerdicts
  <2>6. CASE SuppressionDeptHeadDecision(p, u) BY <2>6 DEF SuppressionDeptHeadDecision, CanDecideAsHead, SuppressionHeadVerdicts
  <2>7. CASE SecurityTeamDecision(p, u) BY <2>7 DEF SecurityTeamDecision, CanDecideAsTeam, TeamVerdicts
  <2> QED BY <1>7, <2>1, <2>2, <2>3, <2>4, <2>5, <2>6, <2>7 DEF SuppressionStep
<1> QED BY <1>1, <1>2, <1>3, <1>4, <1>5, <1>6, <1>7 DEF RequestsNext

\* Every handler keeps Approved.
LEMMA ApprovedKeeps ==
  ASSUME RTypeOK, Approved, [RequestsNext]_reviewVars
  PROVE  Approved'
<1> USE StaffAssumption, ReviewsAssumption DEF Approved, HeadOK, RTypeOK, NotYetAtQA,
    AtApproval, WithRequester
<1>1. CASE UNCHANGED reviewVars
  BY <1>1 DEF reviewVars, people, scans
<1>2. ASSUME NEW r \in Requests, Raise(r) PROVE Approved'
  BY <1>2 DEF Raise, Moves, AtSM
<1>3. ASSUME NEW r \in Requests, NameDecided(r) PROVE Approved'
  BY <1>3 DEF NameDecided
<1>4. ASSUME NEW r \in Requests, NEW u \in Users, FrontStep(r, u) PROVE Approved'
  <2> USE DEF OnlyMoves, Moves, AtSM, people
  <2>1. CASE Submit(r, u) BY <2>1 DEF Submit, CanSubmit
  <2>2. CASE Resubmit(r, u) BY <2>2 DEF Resubmit, CanResubmit, ReturnsTo
  <2>3. CASE SMDecision(r, u) BY <2>3 DEF SMDecision, CanSMDecide, SMVerdicts
  <2>4. CASE DepartmentHeadDecision(r, u) BY <2>4 DEF DepartmentHeadDecision, CanHeadDecide, HeadVerdicts, NotRequester
  <2>5. CASE UpdateDetails(r, u) BY <2>5 DEF UpdateDetails
  <2>6. CASE Delegate(r, u) BY <2>6 DEF Delegate
  <2>7. CASE EndDelegation(r, u) BY <2>7 DEF EndDelegation
  <2>8. CASE StartReadiness(r, u) BY <2>8 DEF StartReadiness, CanStartReadiness
  <2>9. CASE UpdateChecklistItem(r, u) BY <2>9 DEF UpdateChecklistItem
  <2>10. CASE ReadinessDecision(r, u) BY <2>10 DEF ReadinessDecision, CanVerify
  <2> QED BY <1>4, <2>1, <2>2, <2>3, <2>4, <2>5, <2>6, <2>7, <2>8, <2>9, <2>10 DEF FrontStep
<1>5. ASSUME NEW r \in Requests, NEW u \in Users, SecurityStep(r, u) PROVE Approved'
  <2> USE DEF Analyses, Only, Moves, people
  <2>1. CASE AssignSecurityAnalyst(r, u) BY <2>1 DEF AssignSecurityAnalyst, CanAssignAnalyst, AssignableAnalysts
  <2>2. CASE StartScan(r, u) BY <2>2 DEF StartScan
  <2>3. CASE RescanScan(r, u) BY <2>3 DEF RescanScan
  <2>4. CASE ValidateFindings(r, u) BY <2>4 DEF ValidateFindings, AutoCloses
  <2>5. CASE MarkScanComplete(r, u) BY <2>5 DEF MarkScanComplete, AutoCloses
  <2>6. CASE AssignToRequester(r, u) BY <2>6 DEF AssignToRequester, CanAssignToRequester
  <2>7. CASE MarkFixed(r, u) BY <2>7 DEF MarkFixed, CanMarkFixed
  <2>8. CASE MarkReportReady(r, u) BY <2>8 DEF MarkReportReady, CanReport
  <2>9. CASE CloseRequest(r, u) BY <2>9 DEF CloseRequest, CanClose
  <2> QED BY <1>5, <2>1, <2>2, <2>3, <2>4, <2>5, <2>6, <2>7, <2>8, <2>9 DEF SecurityStep
<1>6. ASSUME NEW r \in Requests, NEW u \in Users, PerformanceStep(r, u) PROVE Approved'
  <2> USE DEF OnlyMoves, Moves, people
  <2>1. CASE LeadCompletes(r, u) BY <2>1 DEF LeadCompletes, CanLead, LeadPhases
  <2>2. CASE OwnerCompletes(r, u) BY <2>2 DEF OwnerCompletes, CanExecute, OwnerPhases
  <2>3. CASE CompletePlanning(r, u) BY <2>3 DEF CompletePlanning, CanAssignTesters, Teams, Testers
  <2>4. CASE RequesterDecision(r, u) BY <2>4 DEF RequesterDecision, CanDecideResult
  <2> QED BY <1>6, <2>1, <2>2, <2>3, <2>4 DEF PerformanceStep
<1>7. ASSUME NEW p \in Suppressions, NEW u \in Users, SuppressionStep(p, u) PROVE Approved'
  BY <1>7, RequestsKept
<1> QED BY <1>1, <1>2, <1>3, <1>4, <1>5, <1>6, <1>7 DEF RequestsNext

\* Every handler keeps SuppressionReapproved.
LEMMA ReapprovedKeeps ==
  ASSUME SuppressionsOK, SuppressionReapproved, [RequestsNext]_reviewVars
  PROVE  SuppressionReapproved'
<1> USE StaffAssumption DEF SuppressionReapproved, SuppressionsOK
<1>1. CASE UNCHANGED reviewVars
  BY <1>1 DEF reviewVars, people, scans
<1>2. ASSUME NEW r \in Requests, Raise(r) PROVE SuppressionReapproved'
  BY <1>2, ScansKept
<1>3. ASSUME NEW r \in Requests, NameDecided(r) PROVE SuppressionReapproved'
  BY <1>3, ScansKept
<1>4. ASSUME NEW r \in Requests, NEW u \in Users, FrontStep(r, u) PROVE SuppressionReapproved'
  BY <1>4, ScansKept
<1>5. ASSUME NEW r \in Requests, NEW u \in Users, SecurityStep(r,
    u) PROVE SuppressionReapproved'
  BY <1>5, SuppressionsKept
<1>6. ASSUME NEW r \in Requests, NEW u \in Users, PerformanceStep(r,
    u) PROVE SuppressionReapproved'
  BY <1>6, ScansKept
<1>7. ASSUME NEW p \in Suppressions, NEW u \in Users, SuppressionStep(p,
    u) PROVE SuppressionReapproved'
  <2> USE DEF SupOnlyMoves, SupMoves, IsRaiserAt, people
  <2>1. CASE CreateSuppression(p, u) BY <2>1 DEF CreateSuppression, CanCreateSuppression
  <2>2. CASE Relink(p, u) BY <2>2 DEF Relink
  <2>3. CASE SubmitSuppression(p, u) BY <2>3 DEF SubmitSuppression
  <2>4. CASE ResubmitSuppression(p, u) BY <2>4 DEF ResubmitSuppression, SuppressionReturnsTo,
      Returned
  <2>5. CASE SuppressionSMDecision(p, u) BY <2>5 DEF SuppressionSMDecision, CanDecideAsSM, SuppressionSMVerdicts
  <2>6. CASE SuppressionDeptHeadDecision(p, u) BY <2>6 DEF SuppressionDeptHeadDecision, CanDecideAsHead, SuppressionHeadVerdicts
  <2>7. CASE SecurityTeamDecision(p, u) BY <2>7 DEF SecurityTeamDecision, CanDecideAsTeam, TeamVerdicts
  <2> QED BY <1>7, <2>1, <2>2, <2>3, <2>4, <2>5, <2>6, <2>7 DEF SuppressionStep
<1> QED BY <1>1, <1>2, <1>3, <1>4, <1>5, <1>6, <1>7 DEF RequestsNext

\* Every handler keeps OneSuppression: whoever points a suppression at a request
\* finds no other one that is not rejected.
LEMMA OneKeeps ==
  ASSUME SuppressionsOK, OneSuppression, [RequestsNext]_reviewVars
  PROVE  OneSuppression'
<1> USE ReviewsAssumption, SecurityAssumption DEF OneSuppression, SuppressionsOK, Of
<1>1. CASE UNCHANGED reviewVars
  BY <1>1 DEF reviewVars, people, scans
<1>2. ASSUME NEW r \in Requests, Raise(r) PROVE OneSuppression'
  BY <1>2, ScansKept
<1>3. ASSUME NEW r \in Requests, NameDecided(r) PROVE OneSuppression'
  BY <1>3, ScansKept
<1>4. ASSUME NEW r \in Requests, NEW u \in Users, FrontStep(r, u) PROVE OneSuppression'
  BY <1>4, ScansKept
<1>5. ASSUME NEW r \in Requests, NEW u \in Users, SecurityStep(r, u) PROVE OneSuppression'
  BY <1>5, SuppressionsKept
<1>6. ASSUME NEW r \in Requests, NEW u \in Users, PerformanceStep(r, u) PROVE OneSuppression'
  BY <1>6, ScansKept
<1>7. ASSUME NEW p \in Suppressions, NEW u \in Users, SuppressionStep(p,
    u) PROVE OneSuppression'
  <2> USE DEF SupOnlyMoves, SupMoves, IsRaiserAt, people
  <2>1. CASE CreateSuppression(p, u) BY <2>1 DEF CreateSuppression, CanCreateSuppression, MayLink
  <2>2. CASE Relink(p, u) BY <2>2 DEF Relink, MayLink, OpenSuppression
  <2>3. CASE SubmitSuppression(p, u) BY <2>3 DEF SubmitSuppression
  <2>4. CASE ResubmitSuppression(p, u) BY <2>4 DEF ResubmitSuppression, SuppressionReturnsTo,
      Returned
  <2>5. CASE SuppressionSMDecision(p, u) BY <2>5 DEF SuppressionSMDecision, CanDecideAsSM, SuppressionSMVerdicts
  <2>6. CASE SuppressionDeptHeadDecision(p, u) BY <2>6 DEF SuppressionDeptHeadDecision, CanDecideAsHead, SuppressionHeadVerdicts
  <2>7. CASE SecurityTeamDecision(p, u) BY <2>7 DEF SecurityTeamDecision, CanDecideAsTeam, TeamVerdicts
  <2> QED BY <1>7, <2>1, <2>2, <2>3, <2>4, <2>5, <2>6, <2>7 DEF SuppressionStep
<1> QED BY <1>1, <1>2, <1>3, <1>4, <1>5, <1>6, <1>7 DEF RequestsNext

\* Every handler keeps CleanFromComplete: a suppression can only be pointed at a
\* request in its scan window, and a decided one is not opened again.
LEMMA CleanKeeps ==
  ASSUME RTypeOK, SuppressionsOK, CleanFromComplete, [RequestsNext]_reviewVars
  PROVE  CleanFromComplete'
<1> USE ReviewsAssumption, SecurityAssumption DEF CleanFromComplete, ClosedIsClean,
    NonePending, Of, IsSecurity, RTypeOK, SuppressionsOK
<1>1. CASE UNCHANGED reviewVars
  BY <1>1 DEF reviewVars, people, scans
<1>2. ASSUME NEW r \in Requests, Raise(r) PROVE CleanFromComplete'
  BY <1>2 DEF Raise, Moves, AtSM, scans
<1>3. ASSUME NEW r \in Requests, NameDecided(r) PROVE CleanFromComplete'
  BY <1>3 DEF NameDecided, scans
<1>4. ASSUME NEW r \in Requests, NEW u \in Users, FrontStep(r, u) PROVE CleanFromComplete'
  <2> USE DEF OnlyMoves, Moves, AtSM, people, scans
  <2>1. CASE Submit(r, u) BY <2>1 DEF Submit, CanSubmit
  <2>2. CASE Resubmit(r, u) BY <2>2 DEF Resubmit, CanResubmit, ReturnsTo
  <2>3. CASE SMDecision(r, u) BY <2>3 DEF SMDecision, CanSMDecide, SMVerdicts
  <2>4. CASE DepartmentHeadDecision(r, u) BY <2>4 DEF DepartmentHeadDecision, CanHeadDecide, HeadVerdicts
  <2>5. CASE UpdateDetails(r, u) BY <2>5 DEF UpdateDetails
  <2>6. CASE Delegate(r, u) BY <2>6 DEF Delegate
  <2>7. CASE EndDelegation(r, u) BY <2>7 DEF EndDelegation
  <2>8. CASE StartReadiness(r, u) BY <2>8 DEF StartReadiness, CanStartReadiness
  <2>9. CASE UpdateChecklistItem(r, u) BY <2>9 DEF UpdateChecklistItem
  <2>10. CASE ReadinessDecision(r, u) BY <2>10 DEF ReadinessDecision, CanVerify
  <2> QED BY <1>4, <2>1, <2>2, <2>3, <2>4, <2>5, <2>6, <2>7, <2>8, <2>9, <2>10 DEF FrontStep
<1>5. ASSUME NEW r \in Requests, NEW u \in Users, SecurityStep(r, u) PROVE CleanFromComplete'
  <2> USE DEF Analyses, Only, Moves, people, scans
  <2>1. CASE AssignSecurityAnalyst(r, u) BY <2>1 DEF AssignSecurityAnalyst, CanAssignAnalyst, AssignableAnalysts
  <2>2. CASE StartScan(r, u) BY <2>2 DEF StartScan, Imports
  <2>3. CASE RescanScan(r, u) BY <2>3 DEF RescanScan, Imports
  <2>4. CASE ValidateFindings(r, u) BY <2>4 DEF ValidateFindings, AutoCloses
  <2>5. CASE MarkScanComplete(r, u) BY <2>5 DEF MarkScanComplete, AutoCloses
  <2>6. CASE AssignToRequester(r, u) BY <2>6 DEF AssignToRequester, CanAssignToRequester
  <2>7. CASE MarkFixed(r, u) BY <2>7 DEF MarkFixed, CanMarkFixed
  <2>8. CASE MarkReportReady(r, u) BY <2>8 DEF MarkReportReady, CanReport
  <2>9. CASE CloseRequest(r, u) BY <2>9 DEF CloseRequest, CanClose
  <2> QED BY <1>5, <2>1, <2>2, <2>3, <2>4, <2>5, <2>6, <2>7, <2>8, <2>9 DEF SecurityStep
<1>6. ASSUME NEW r \in Requests, NEW u \in Users, PerformanceStep(r, u) PROVE CleanFromComplete'
  <2> USE DEF OnlyMoves, Moves, people, scans
  <2>1. CASE LeadCompletes(r, u) BY <2>1 DEF LeadCompletes, CanLead, LeadPhases
  <2>2. CASE OwnerCompletes(r, u) BY <2>2 DEF OwnerCompletes, CanExecute, OwnerPhases
  <2>3. CASE CompletePlanning(r, u) BY <2>3 DEF CompletePlanning, CanAssignTesters, Teams, Testers
  <2>4. CASE RequesterDecision(r, u) BY <2>4 DEF RequesterDecision, CanDecideResult
  <2> QED BY <1>6, <2>1, <2>2, <2>3, <2>4 DEF PerformanceStep
<1>7. ASSUME NEW p \in Suppressions, NEW u \in Users, SuppressionStep(p,
    u) PROVE CleanFromComplete'
  <2> USE DEF SupOnlyMoves, SupMoves, IsRaiserAt, people, OpenSuppression, AtApproval, Returned
  <2>1. CASE CreateSuppression(p, u) BY <2>1 DEF CreateSuppression, CanCreateSuppression, MayLink, InScanWindow
  <2>2. CASE Relink(p, u) BY <2>2 DEF Relink, MayLink, InScanWindow
  <2>3. CASE SubmitSuppression(p, u) BY <2>3 DEF SubmitSuppression
  <2>4. CASE ResubmitSuppression(p, u) BY <2>4 DEF ResubmitSuppression, SuppressionReturnsTo
  <2>5. CASE SuppressionSMDecision(p, u) BY <2>5 DEF SuppressionSMDecision, CanDecideAsSM, SuppressionSMVerdicts
  <2>6. CASE SuppressionDeptHeadDecision(p, u) BY <2>6 DEF SuppressionDeptHeadDecision, CanDecideAsHead, SuppressionHeadVerdicts
  <2>7. CASE SecurityTeamDecision(p, u) BY <2>7 DEF SecurityTeamDecision, CanDecideAsTeam, TeamVerdicts
  <2> QED BY <1>7, <2>1, <2>2, <2>3, <2>4, <2>5, <2>6, <2>7 DEF SuppressionStep
<1> QED BY <1>1, <1>2, <1>3, <1>4, <1>5, <1>6, <1>7 DEF RequestsNext

-----------------------------------------------------------------------------
ReviewInv ==
  /\ RTypeOK /\ SuppressionsOK /\ Approved /\ SuppressionReapproved
  /\ OneSuppression /\ CleanFromComplete

LEMMA ReviewsAlways == ReviewsSpec => []ReviewInv
<1>1. RequestsInit => ReviewInv
  <2> SUFFICES ASSUME RequestsInit PROVE ReviewInv
    OBVIOUS
  <2> USE DEF RequestsInit, ReviewsInit, SecurityInit
  <2>1. RTypeOK BY DEF RTypeOK, Front, NotYetAtQA, WithRequester
  <2>2. SuppressionsOK BY DEF SuppressionsOK, SuppressionStatus
  <2>3. Approved BY DEF Approved, NotYetAtQA, WithRequester
  <2>4. SuppressionReapproved BY DEF SuppressionReapproved
  <2>5. OneSuppression BY ReviewsAssumption DEF OneSuppression, Of
  <2>6. CleanFromComplete BY DEF CleanFromComplete, ClosedIsClean
  <2> QED BY <2>1, <2>2, <2>3, <2>4, <2>5, <2>6 DEF ReviewInv
<1>2. ReviewInv /\ [RequestsNext]_reviewVars => ReviewInv'
  BY RTypeKeeps, SuppressionsKeep, ApprovedKeeps, ReapprovedKeeps, OneKeeps,
      CleanKeeps DEF ReviewInv
<1> QED BY <1>1, <1>2, PTL DEF ReviewsSpec

\* Rows keep their types, and the findings of a request have one suppression that
\* is not rejected, whatever is raised, linked and decided (suppression.py).
THEOREM RecordsAlwaysSound == ReviewsSpec => []RecordsAreSound
<1>1. ReviewInv => RecordsAreSound
  BY DEF ReviewInv, RecordsAreSound
<1> QED BY <1>1, ReviewsAlways, PTL

\* No request reaches its work, and no suppression the security team, without the
\* department head's approval, nor without the one demanded again.
THEOREM ReviewApprovalsAlwaysHold == ReviewsSpec => []ApprovalsHold
<1>1. ReviewInv => ApprovalsHold
  BY DEF ReviewInv, ApprovalsHold, Approved, HeadOK, WorkWasApproved
<1> QED BY <1>1, ReviewsAlways, PTL

\* A security request is reported on and closed over a clean scan and over no open
\* suppression (_pending_suppression_ids).
THEOREM ClosedIsAlwaysClean == ReviewsSpec => []ClosedIsClean
<1>1. ReviewInv => ClosedIsClean
  BY DEF ReviewInv, CleanFromComplete
<1> QED BY <1>1, ReviewsAlways, PTL

-----------------------------------------------------------------------------
(* The pages. *)

\* Where a request is tells who it has been assigned to and what its last scan said:
\* analysts and testers are chosen from the QA department and never taken away but by
\* the approval that sends a security request to be planned anew.
PlaceOf(r) ==
  /\ IsSecurity(r) =>
       /\ assignees[r] \subseteq AssignableAnalysts
       /\ status[r] \in SecurityStatus \ {"PLANNING"} => assignees[r] # {}
       /\ status[r] \in SecurityStatus \ {"PLANNING", "CONFIGURATION"} => scan[r] # "None"
       /\ status[r] \in {"REMEDIATION", "WAITING_FOR_FIX"} => scan[r] = "Dirty"
  /\ ~IsSecurity(r) =>
       /\ assignees[r] \subseteq Testers
       /\ status[r] \in PerformanceStatus \ {"FEASIBILITY", "PLANNING"} => assignees[r] # {}

\* Whoever raised a suppression may raise one.
RaisersOK == \A p \in Suppressions : supStatus[p] # "ABSENT" => supRaiser[p] \in Raisers

Placed == RaisersOK /\ \A r \in Requests : PlaceOf(r)

LEMMA FrontPlaces ==
  ASSUME RTypeOK, SuppressionsOK, NEW r \in Requests, PlaceOf(r),
         NEW u \in Users, Raise(r) \/ NameDecided(r) \/ FrontStep(r, u)
  PROVE  PlaceOf(r)'
<1> USE DEF PlaceOf, RTypeOK, OnlyMoves, Moves, AtSM, people, scans, IsSecurity, SecurityStatus,
        PerformanceStatus, WithRequester
<1>1. CASE Raise(r) BY <1>1 DEF Raise
<1>2. CASE NameDecided(r) BY <1>2 DEF NameDecided
<1>3. CASE Submit(r, u) BY <1>3 DEF Submit
<1>4. CASE Resubmit(r, u) BY <1>4 DEF Resubmit, ReturnsTo
<1>5. CASE SMDecision(r, u) BY <1>5 DEF SMDecision, SMVerdicts
<1>6. CASE DepartmentHeadDecision(r, u) BY <1>6 DEF DepartmentHeadDecision, HeadVerdicts
<1>7. CASE UpdateDetails(r, u) BY <1>7 DEF UpdateDetails
<1>8. CASE Delegate(r, u) BY <1>8 DEF Delegate
<1>9. CASE EndDelegation(r, u) BY <1>9 DEF EndDelegation
<1>10. CASE StartReadiness(r, u) BY <1>10 DEF StartReadiness
<1>11. CASE UpdateChecklistItem(r, u) BY <1>11 DEF UpdateChecklistItem
<1>12. CASE ReadinessDecision(r, u) BY <1>12 DEF ReadinessDecision
<1> QED
  BY <1>1, <1>2, <1>3, <1>4, <1>5, <1>6, <1>7, <1>8, <1>9, <1>10, <1>11, <1>12 DEF FrontStep

LEMMA SecurityPlaces ==
  ASSUME RTypeOK, SuppressionsOK, NEW r \in Requests, PlaceOf(r),
         NEW u \in Users, SecurityStep(r, u)
  PROVE  PlaceOf(r)'
<1> USE DEF PlaceOf, RTypeOK, SuppressionsOK, Only, Moves, people, scans, IsSecurity, SecurityStatus,
        PerformanceStatus, Analyses, IsAnalyst
<1>1. CASE AssignSecurityAnalyst(r, u)
  BY <1>1 DEF AssignSecurityAnalyst, CanAssignAnalyst, AnalystReassignable
<1>2. CASE StartScan(r, u) BY <1>2 DEF StartScan, Imports
<1>3. CASE RescanScan(r, u) BY <1>3 DEF RescanScan, Imports
<1>4. CASE ValidateFindings(r, u) BY <1>4 DEF ValidateFindings, AutoCloses
<1>5. CASE MarkScanComplete(r, u) BY <1>5 DEF MarkScanComplete, AutoCloses
<1>6. CASE AssignToRequester(r, u) BY <1>6 DEF AssignToRequester, CanAssignToRequester
<1>7. CASE MarkFixed(r, u) BY <1>7 DEF MarkFixed, CanMarkFixed, Front, NotYetAtQA, WithRequester,
                               AtApproval, Work
<1>8. CASE MarkReportReady(r, u) BY <1>8 DEF MarkReportReady, CanReport
<1>9. CASE CloseRequest(r, u) BY <1>9 DEF CloseRequest, CanClose
<1> QED
  BY <1>1, <1>2, <1>3, <1>4, <1>5, <1>6, <1>7, <1>8, <1>9 DEF SecurityStep

LEMMA PerformancePlaces ==
  ASSUME RTypeOK, NEW r \in Requests, PlaceOf(r), NEW u \in Users, PerformanceStep(r, u)
  PROVE  PlaceOf(r)'
<1> USE DEF PlaceOf, RTypeOK, OnlyMoves, Moves, people, scans, IsSecurity, PerformanceStatus
<1>1. CASE LeadCompletes(r, u) BY <1>1 DEF LeadCompletes, CanLead, LeadPhases
<1>2. CASE OwnerCompletes(r, u) BY <1>2 DEF OwnerCompletes, CanExecute, OwnerPhases
<1>3. CASE CompletePlanning(r, u)
  BY <1>3 DEF CompletePlanning, CanAssignTesters, TestersReassignable, Teams
<1>4. CASE RequesterDecision(r, u) BY <1>4 DEF RequesterDecision, CanDecideResult
<1> QED BY <1>1, <1>2, <1>3, <1>4 DEF PerformanceStep

\* A handler of one request leaves the others where they are.
LEMMA OthersStay ==
  ASSUME RTypeOK, SuppressionsOK, NEW r \in Requests, NEW q \in Requests \ {r}, NEW u \in Users,
         Raise(r) \/ NameDecided(r) \/ FrontStep(r, u) \/ SecurityStep(r, u) \/ PerformanceStep(r, u)
  PROVE  /\ kind'[q] = kind[q] /\ status'[q] = status[q]
         /\ assignees'[q] = assignees[q] /\ scan'[q] = scan[q]
<1> USE DEF RTypeOK, SuppressionsOK, OnlyMoves, Moves, Only, people, scans
<1>1. CASE Raise(r) BY <1>1 DEF Raise
<1>2. CASE NameDecided(r) BY <1>2 DEF NameDecided
<1>3. CASE FrontStep(r, u)
  BY <1>3 DEF FrontStep, Submit, Resubmit, SMDecision, DepartmentHeadDecision, UpdateDetails,
     Delegate, EndDelegation, StartReadiness, UpdateChecklistItem, ReadinessDecision
<1>4. CASE SecurityStep(r, u)
  BY <1>4 DEF SecurityStep, AssignSecurityAnalyst, StartScan, RescanScan, ValidateFindings,
     MarkScanComplete, AssignToRequester, MarkFixed, MarkReportReady, CloseRequest, Imports
<1>5. CASE PerformanceStep(r, u)
  BY <1>5 DEF PerformanceStep, LeadCompletes, OwnerCompletes, CompletePlanning, RequesterDecision
<1> QED BY <1>1, <1>2, <1>3, <1>4, <1>5

LEMMA RaisersKeep ==
  ASSUME SuppressionsOK, RaisersOK, [RequestsNext]_reviewVars
  PROVE  RaisersOK'
<1> USE DEF RaisersOK, SuppressionsOK, Raisers
<1>1. CASE UNCHANGED reviewVars
  BY <1>1 DEF reviewVars, people, scans
<1>2. ASSUME NEW r \in Requests, Raise(r) \/ NameDecided(r) PROVE RaisersOK'
  BY <1>2, ScansKept
<1>3. ASSUME NEW r \in Requests, NEW u \in Users,
             FrontStep(r, u) \/ SecurityStep(r, u) \/ PerformanceStep(r, u)
      PROVE  RaisersOK'
  BY <1>3, ScansKept, SuppressionsKept
<1>4. ASSUME NEW p \in Suppressions, NEW u \in Users, SuppressionStep(p, u) PROVE RaisersOK'
  <2> USE DEF SupOnlyMoves, SupMoves, IsRaiserAt
  <2>1. CASE CreateSuppression(p, u) BY <2>1 DEF CreateSuppression, CanCreateSuppression
  <2>2. CASE Relink(p, u) BY <2>2 DEF Relink
  <2>3. CASE SubmitSuppression(p, u) BY <2>3 DEF SubmitSuppression
  <2>4. CASE ResubmitSuppression(p, u) BY <2>4 DEF ResubmitSuppression, Returned
  <2>5. CASE SuppressionSMDecision(p, u) BY <2>5 DEF SuppressionSMDecision, CanDecideAsSM
  <2>6. CASE SuppressionDeptHeadDecision(p, u)
    BY <2>6 DEF SuppressionDeptHeadDecision, CanDecideAsHead
  <2>7. CASE SecurityTeamDecision(p, u) BY <2>7 DEF SecurityTeamDecision, CanDecideAsTeam
  <2> QED BY <1>4, <2>1, <2>2, <2>3, <2>4, <2>5, <2>6, <2>7 DEF SuppressionStep
<1> QED BY <1>1, <1>2, <1>3, <1>4 DEF RequestsNext

LEMMA PlacesKeep ==
  ASSUME RTypeOK, SuppressionsOK, Placed, [RequestsNext]_reviewVars
  PROVE  Placed'
<1>1. RaisersOK' BY RaisersKeep DEF Placed
<1>2. ASSUME NEW q \in Requests PROVE PlaceOf(q)'
  <2> USE DEF Placed
  <2>1. CASE UNCHANGED <<kind, status, assignees, scan>> BY <2>1 DEF PlaceOf, IsSecurity
  <2>2. CASE UNCHANGED reviewVars BY <2>1, <2>2 DEF reviewVars, people, scans
  <2>3. ASSUME NEW p \in Suppressions, NEW u \in Users, SuppressionStep(p, u) PROVE PlaceOf(q)'
    BY <2>1, <2>3, RequestsKept
  <2>4. ASSUME NEW r \in Requests, NEW u \in Users,
               \/ Raise(r) \/ NameDecided(r) \/ FrontStep(r, u) \/ SecurityStep(r, u)
               \/ PerformanceStep(r, u)
        PROVE  PlaceOf(q)'
    <3>1. CASE q = r BY <2>4, <3>1, FrontPlaces, SecurityPlaces, PerformancePlaces
    <3>2. CASE q # r BY <2>4, <3>2, OthersStay DEF PlaceOf, IsSecurity
    <3> QED BY <3>1, <3>2
  <2>5. ASSUME NEW r \in Requests, Raise(r) \/ NameDecided(r) PROVE PlaceOf(q)'
    BY <2>4, <2>5, ReviewsAssumption
  <2> QED BY <2>2, <2>3, <2>4, <2>5 DEF RequestsNext
<1> QED BY <1>1, <1>2 DEF Placed


\* What the front of the pages offers, the front handlers accept.
LEMMA FrontAccepted ==
  ASSUME NEW r \in Requests, NEW u \in Users
  PROVE  FrontOffered(r, u)
<1>1. ShowsSubmit(r, u) => CanSubmit(r, u)
  BY DEF ShowsSubmit, CanSubmit, SubmitBlocked, PendingSelfDeclare, ChecklistReady
<1>2. ShowsResubmit(r, u) => CanResubmit(r, u)
  BY DEF ShowsResubmit, CanResubmit, SubmitBlocked, PendingSelfDeclare, ChecklistReady
<1>3. ASSUME NEW s \in DecisionButtons(r, u)
      PROVE  \/ CanSMDecide(r, u) /\ s \in SMVerdicts(r)
             \/ CanHeadDecide(r, u) /\ s \in HeadVerdicts(r)
  <2> USE <1>3 DEF DecisionButtons, SignBlocked, IsSelfApproval, NotRequester, HasRole,
                   ShowsSMDecision, ShowsDepartmentHeadDecision
  <2>1. CASE ShowsSMDecision(r, u)
    BY <2>1 DEF CanSMDecide, SMVerdicts
  <2>2. CASE ShowsDepartmentHeadDecision(r, u) /\ ~ShowsSMDecision(r, u)
    BY <2>2 DEF CanHeadDecide, HeadVerdicts
  <2> QED BY <2>1, <2>2
<1>4. u \notin Admins => \A D \in DeclarationChoices(r, u) :
                           CanEditDetails(r, u) /\ D \in SUBSET Items
  BY StaffAssumption DEF DeclarationChoices, ShowsEditDetails, InputEditor, CanEditDetails, InHandsOf
<1>5. ShowsUpload(r, u) \/ ShowsFormUpload(r, u) => MayUpload(r, u)
  <2> USE StaffAssumption DEF MayUpload, InputEditor, InHandsOf, HasRole
  <2>1. ShowsUpload(r, u) => MayUpload(r, u)
    BY DEF ShowsUpload, ShowsSMDecision, ShowsDepartmentHeadDecision
  <2>2. ShowsFormUpload(r, u) => MayUpload(r, u)
    BY DEF ShowsFormUpload, ShowsEditDetails, WithRequester
  <2> QED BY <2>1, <2>2
<1>6. ShowsStartReadiness(r, u) => CanStartReadiness(r, u)
  BY DEF ShowsStartReadiness, CanStartReadiness, IsAssignedQALead
<1>7. ShowsReadinessDecision(r, u) => CanVerify(r, u)
  BY DEF ShowsReadinessDecision, CanVerify, IsAssignedQALead
<1> QED
  BY <1>1, <1>2, <1>3, <1>4, <1>5, <1>6, <1>7
  DEF FrontOffered, ShowsChecklistBox, ReadinessFailedAnswers

\* What the pages offer those who do the work, its handlers accept: the findings a page
\* speaks of are those of the last scan.
LEMMA WorkAccepted ==
  ASSUME RTypeOK, SuppressionsOK, CleanFromComplete, NEW r \in Requests, PlaceOf(r), NEW u \in Users
  PROVE  WorkOffered(r, u)
<1>1. IsAssignedAnalyst(r, u) => IsAnalyst(r, u)
  BY DEF IsAssignedAnalyst, IsAnalyst, HasRole
<1>2. ASSUME NEW v \in AnalystChoices(r, u)
      PROVE  CanAssignAnalyst(r, u) /\ v \in AssignableAnalysts
  <2>1. ShowsAssignAnalyst(r, u) /\ v \in QAStaff \cap Analysts
    BY <1>2 DEF AnalystChoices
  <2>2. CanAssignAnalyst(r, u)
    BY <2>1 DEF ShowsAssignAnalyst, CanAssignAnalyst, AnalystReassignable, IsAssignedQALead,
       IsAssignedAnalyst, IsQADepartmentHead, HasRole, LeadGroup, InQA
  <2> QED BY <2>1, <2>2 DEF AssignableAnalysts, HasRole
<1>3. ShowsStartScan(r, u) => Analyses(r, u, {"CONFIGURATION"})
  BY <1>1 DEF ShowsStartScan, Analyses
<1>4. ShowsValidateFindings(r, u) => Analyses(r, u, {"SCANNING"})
  BY <1>1 DEF ShowsValidateFindings, OnFindingsTab, Analyses
<1>5. ShowsAssignToRequester(r, u) => CanAssignToRequester(r, u)
  BY <1>1 DEF ShowsAssignToRequester, OnFindingsTab, CanAssignToRequester, Analyses, PlaceOf
<1>6. ShowsRescan(r, u) => Analyses(r, u, {"RESCAN"})
  BY <1>1 DEF ShowsRescan, OnFindingsTab, Analyses
<1>7. ShowsMarkFixed(r, u) => CanMarkFixed(r, u)
  BY StaffAssumption DEF ShowsMarkFixed, OnFindingsTab, CanMarkFixed, InputEditor, InHandsOf, HasOpenSuppression,
     NonePending
<1>8. ShowsMarkReportReady(r, u) /\ NonePending(r) => CanReport(r, u)
  BY <1>1 DEF ShowsMarkReportReady, CanReport, Analyses, CleanFromComplete, IsAnalyst
<1>9. ShowsCloseRequest(r, u) => CanClose(r, u)
  BY <1>1 DEF ShowsCloseRequest, CanClose, Analyses, CleanFromComplete, IsAnalyst
<1>10. ASSUME NEW T \in TeamChoices(r, u)
       PROVE  CanAssignTesters(r, u) /\ T \in Teams
  <2>1. ShowsAssignTesters(r, u) /\ T \in (SUBSET (QAStaff \cap Engineers)) \ {{}}
    BY <1>10 DEF TeamChoices
  <2>2. CanAssignTesters(r, u)
    BY <2>1 DEF ShowsAssignTesters, CanAssignTesters, TestersReassignable, IsAssignedQALead,
       IsAssignedTester, IsQADepartmentHead, HasRole, LeadGroup, InQA
  <2> QED BY <2>1, <2>2 DEF Teams, Testers, HasRole
<1>11. \A s \in PhaseButtons(r, u) : CanLead(r, u, s) \/ CanExecute(r, u, s)
  BY DEF PhaseButtons, CanLead, CanExecute, IsAssignedQALead, IsAssignedTester, IsExecutionOwner,
     HasRole
<1>12. ShowsRequesterDecision(r, u) => CanDecideResult(r, u)
  BY DEF ShowsRequesterDecision, CanDecideResult, RTypeOK, Front, NotYetAtQA, WithRequester,
     AtApproval, Work, SecurityStatus
<1> QED
  BY <1>2, <1>3, <1>4, <1>5, <1>6, <1>7, <1>8, <1>9, <1>10, <1>11, <1>12 DEF WorkOffered

\* What the pages offer about a suppression is accepted: a link is offered only where
\* nothing open and nothing done points.
LEMMA SuppressionAccepted ==
  ASSUME SuppressionsOK, NEW p \in Suppressions, NEW u \in Users
  PROVE  SuppressionOffered(p, u)
<1>1. ShowsSuppressionSubmit(p, u) => IsRaiserAt(p, u, {"Draft"})
  BY DEF ShowsSuppressionSubmit, IsRaiser, IsRaiserAt
<1>2. ShowsSuppressionResubmit(p, u) => IsRaiserAt(p, u, Returned)
  BY DEF ShowsSuppressionResubmit, IsRaiser, IsRaiserAt
<1>3. ASSUME NEW s \in SuppressionButtons(p, u)
      PROVE  \/ CanDecideAsSM(p, u) /\ s \in SuppressionSMVerdicts
             \/ CanDecideAsHead(p, u) /\ s \in SuppressionHeadVerdicts
             \/ CanDecideAsTeam(p, u) /\ s \in TeamVerdicts
  <2> USE <1>3 DEF SuppressionButtons, IsSelfApproval, NotRequester
  <2>1. CASE supStatus[p] = "SM_APPROVAL_PENDING"
    BY <2>1 DEF CanDecideAsSM, SuppressionSMVerdicts
  <2>2. CASE supStatus[p] = "DEPARTMENT_HEAD_APPROVAL_PENDING"
    BY <2>2 DEF CanDecideAsHead, SuppressionHeadVerdicts
  <2>3. CASE supStatus[p] = "SECURITY_TEAM_VERIFICATION"
    BY <2>3 DEF CanDecideAsTeam, TeamVerdicts
  <2> QED BY <2>1, <2>2, <2>3
<1>4. ShowsSuppressionUpload(p, u) => MayUploadToSuppression(p, u)
  BY DEF ShowsSuppressionUpload, MayUploadToSuppression, IsRaiser, SuppressionButtons, HasRole,
     AtApproval, Returned
<1>5. ASSUME NEW r \in Requests, ShowsInitiateSuppression(r, u)
      PROVE  MayLink(p, r, u) /\ u \in Raisers
  <2>1. \A q \in Of(r) : supStatus[q] \in {"ABSENT", "Rejected"}
    BY <1>5 DEF ShowsInitiateSuppression, HasOpenSuppression, HasDoneSuppression, SuppressionsOK,
       SuppressionStatus, Of
  <2> QED
    BY <1>5, <2>1 DEF ShowsInitiateSuppression, OnFindingsTab, MayLink, InScanWindow, Raisers, OwnedBy
<1>6. ASSUME NEW r \in Requests, p \in LinkCandidates(r, u)
      PROVE  IsRaiserAt(p, u, OpenSuppression) /\ ShowsInitiateSuppression(r, u)
  BY <1>6 DEF LinkCandidates, IsRaiserAt
<1> QED
  BY <1>1, <1>2, <1>3, <1>4, <1>5, <1>6 DEF SuppressionOffered, CanCreateSuppression

\* There are people for every part: an SM and a department head who decide on what each
\* requester and each admin raises, a QA Lead, analysts and testers in the QA
\* department. An admin put there is both, for one can be made the analyst or the tester
\* of a request without the role, and the lists name only who has it.
Staffed ==
  /\ \A v \in Raisers : \E u \in SMs : NotRequester(u, v)
  /\ \A v \in Raisers : \E u \in DeptHeads : NotRequester(u, v)
  /\ QALeads # {} /\ QAStaff \cap Analysts # {} /\ QAStaff \cap Engineers # {}
  /\ Admins \cap QAStaff \subseteq Analysts \cap Engineers

\* At each stage the two kinds share, somebody it is pending with has a button for it.
LEMMA FrontActs ==
  ASSUME Staffed, RTypeOK, NEW r \in Requests,
         status[r] \in Front \ {"ABSENT", "DEPARTMENT_HEAD_REJECTED"}
  PROVE  \E u \in PendingWith(r) : TakesOn(r, u)
<1> USE DEF PendingWith, SecurityPendingWith, PerformancePendingWith, WithRequester, IsSecurity,
        SecurityStatus
<1>1. CASE status[r] \in WithRequester
  <2>1. PendingWith(r) = {Requester[r]}
    BY <1>1
  <2>2. \/ ShowsSubmit(r, Requester[r]) \/ ShowsResubmit(r, Requester[r])
        \/ InputEditor(r, Requester[r]) /\ SubmitBlocked(r)
        \/ delegate[r] # None /\ OwnedBy(r, Requester[r])
    BY <1>1 DEF ShowsSubmit, ShowsResubmit, OwnedBy, InputEditor
  <2> QED BY <1>1, <2>1, <2>2 DEF TakesOn
<1>2. CASE status[r] = "SM_APPROVAL_PENDING"
  <2>1. PICK u \in SMs : NotRequester(u, Requester[r])
    BY DEF Staffed, Raisers
  <2>2. PendingWith(r) = SMs
    BY <1>2
  <2>3. ShowsSMDecision(r, u)
    BY <1>2, <2>1 DEF ShowsSMDecision, HasRole, IsSelfApproval, NotRequester
  <2> QED BY <2>1, <2>2, <2>3 DEF TakesOn, DecisionButtons
<1>3. CASE status[r] = "DEPARTMENT_HEAD_APPROVAL_PENDING"
  <2>1. PICK u \in DeptHeads : NotRequester(u, Requester[r])
    BY DEF Staffed, Raisers
  <2>2. PendingWith(r) = DeptHeads
    BY <1>3
  <2>3. ShowsDepartmentHeadDecision(r, u) /\ ~ShowsSMDecision(r, u)
    BY <1>3, <2>1 DEF ShowsSMDecision, ShowsDepartmentHeadDecision, HasRole, IsSelfApproval,
       NotRequester
  <2> QED BY <2>1, <2>2, <2>3 DEF TakesOn, DecisionButtons
<1>4. CASE status[r] \in {"LEAD_ASSIGNED", "READINESS"}
  <2>1. PICK u \in QALeads : TRUE
    BY DEF Staffed
  <2>2. PendingWith(r) = QALeads
    BY <1>4
  <2>3. ShowsStartReadiness(r, u) \/ ReadinessFailedAnswers(r, u) # {}
    BY <1>4, <2>1 DEF ShowsStartReadiness, ReadinessFailedAnswers, ShowsReadinessDecision,
       IsAssignedQALead, HasRole, LeadGroup
  <2> QED BY <2>1, <2>2, <2>3 DEF TakesOn
<1> QED BY <1>1, <1>2, <1>3, <1>4 DEF Front, NotYetAtQA, AtApproval

\* While a security request is worked on, its analyst can take it on, or its requester
\* when the fix is awaited.
LEMMA SecurityActs ==
  ASSUME Staffed, RTypeOK, NEW r \in Requests, PlaceOf(r), IsSecurity(r),
         status[r] \in SecurityStatus \ {"CLOSED"}, ~HasOpenSuppression(r)
  PROVE  \E u \in PendingWith(r) : TakesOn(r, u)
<1> USE DEF PendingWith, SecurityPendingWith, WithRequester
<1>1. CASE status[r] = "PLANNING"
  <2>1. PICK u \in QALeads : TRUE
    BY DEF Staffed
  <2>2. PendingWith(r) = QALeads
    BY <1>1
  <2>3. ShowsAssignAnalyst(r, u)
    BY <1>1, <2>1 DEF ShowsAssignAnalyst, IsAssignedQALead, HasRole, LeadGroup
  <2>4. AnalystChoices(r, u) # {}
    BY <1>1, <2>3 DEF AnalystChoices, Staffed
  <2> QED BY <2>1, <2>2, <2>4 DEF TakesOn
<1>2. CASE status[r] = "WAITING_FOR_FIX"
  <2>1. PendingWith(r) = {Requester[r]}
    BY <1>2
  <2>2. \/ ShowsMarkFixed(r, Requester[r])
        \/ delegate[r] # None /\ OwnedBy(r, Requester[r])
    BY <1>2 DEF ShowsMarkFixed, OnFindingsTab, InputEditor, OwnedBy, PlaceOf
  <2> QED BY <2>1, <2>2 DEF TakesOn
<1>3. CASE status[r] \in SecurityStatus \ {"PLANNING", "WAITING_FOR_FIX", "CLOSED"}
  <2>1. PICK u : u \in assignees[r]
    BY <1>3 DEF PlaceOf
  <2>2. u \in Analysts
    BY <2>1 DEF PlaceOf, AssignableAnalysts, HasRole, Staffed
  <2>3. PendingWith(r) = Analysts
    BY <1>3 DEF SecurityStatus
  <2>4. IsAssignedAnalyst(r, u)
    BY <2>1, <2>2 DEF IsAssignedAnalyst
  <2>5. \/ ShowsStartScan(r, u) \/ ShowsValidateFindings(r, u) \/ ShowsAssignToRequester(r, u)
        \/ ShowsRescan(r, u) \/ ShowsMarkReportReady(r, u) \/ ShowsCloseRequest(r, u)
    BY <1>3, <2>4 DEF SecurityStatus, ShowsStartScan, ShowsValidateFindings, ShowsAssignToRequester,
       ShowsRescan, ShowsMarkReportReady, ShowsCloseRequest, OnFindingsTab, PlaceOf
  <2> QED BY <2>2, <2>3, <2>5 DEF TakesOn
<1> QED BY <1>1, <1>2, <1>3

\* While a performance request is worked on, a lead, one of its testers or its requester
\* can take it on, but for the fix of a defect, which has no button.
LEMMA PerformanceActs ==
  ASSUME Staffed, RTypeOK, NEW r \in Requests, PlaceOf(r), ~IsSecurity(r),
         status[r] \in PerformanceStatus \ {"CLOSED", "DEFECT_FIX_RETEST"}
  PROVE  \E u \in PendingWith(r) : TakesOn(r, u)
<1> USE DEF PendingWith, PerformancePendingWith, WithRequester
<1>1. CASE status[r] \in {"FEASIBILITY", "RESULT_ANALYSIS", "REPORT", "SIGNOFF_PENDING"}
  <2>1. PICK u \in QALeads : TRUE
    BY DEF Staffed
  <2>2. PendingWith(r) = QALeads
    BY <1>1
  <2>3. IsAssignedQALead(u)
    BY <2>1 DEF IsAssignedQALead, HasRole, LeadGroup
  <2>4. PhaseButtons(r, u) # {}
    BY <1>1, <2>3 DEF PhaseButtons, LeadPhases, PerformanceStatus
  <2> QED BY <2>1, <2>2, <2>4 DEF TakesOn
<1>2. CASE status[r] = "PLANNING"
  <2>1. PICK u \in QALeads : TRUE
    BY DEF Staffed
  <2>2. PICK v \in QAStaff \cap Engineers : TRUE
    BY DEF Staffed
  <2>3. PendingWith(r) = QALeads
    BY <1>2
  <2>4. ShowsAssignTesters(r, u)
    BY <1>2, <2>1 DEF ShowsAssignTesters, IsAssignedQALead, HasRole, LeadGroup
  <2>5. {v} \in TeamChoices(r, u)
    BY <1>2, <2>2, <2>4 DEF TeamChoices
  <2> QED BY <1>2, <2>1, <2>3, <2>5 DEF TakesOn
<1>3. CASE status[r] \in {"ENVIRONMENT_SETUP", "SCRIPT_DEVELOPMENT", "BASELINE",
                          "LOAD_TEST_EXECUTION"}
  <2>1. PICK u : u \in assignees[r]
    BY <1>3 DEF PlaceOf, PerformanceStatus
  <2>2. u \in Engineers
    BY <2>1 DEF PlaceOf, Testers, HasRole, Staffed
  <2>3. PendingWith(r) = Engineers
    BY <1>3
  <2>4. IsAssignedTester(r, u)
    BY <2>1, <2>2 DEF IsAssignedTester
  <2>5. PhaseButtons(r, u) # {}
    BY <1>3, <2>4 DEF PhaseButtons, OwnerPhases, PerformanceStatus
  <2> QED BY <2>2, <2>3, <2>5 DEF TakesOn
<1>4. CASE status[r] = "REQUESTER_VERIFICATION"
  <2>1. PendingWith(r) = {Requester[r]}
    BY <1>4
  <2>2. ShowsRequesterDecision(r, Requester[r])
    BY <1>4 DEF ShowsRequesterDecision, OwnedBy
  <2> QED BY <2>1, <2>2 DEF TakesOn
<1> QED BY <1>1, <1>2, <1>3, <1>4 DEF PerformanceStatus

\* And of a suppression, its raiser or one who decides on it.
LEMMA SuppressionActs ==
  ASSUME Staffed, SuppressionsOK, RaisersOK, NEW p \in Suppressions,
         SuppressionPendingWith(p) # {}
  PROVE  \E u \in SuppressionPendingWith(p) :
           \/ ShowsSuppressionSubmit(p, u) \/ ShowsSuppressionResubmit(p, u)
           \/ SuppressionButtons(p, u) # {}
<1> USE DEF SuppressionPendingWith, Returned
<1>1. CASE supStatus[p] \in Returned \cup {"Draft"}
  BY <1>1 DEF ShowsSuppressionSubmit, ShowsSuppressionResubmit, IsRaiser
<1>2. CASE supStatus[p] = "SM_APPROVAL_PENDING"
  <2>1. PICK u \in SMs : NotRequester(u, supRaiser[p])
    BY <1>2 DEF Staffed, RaisersOK
  <2>2. SuppressionButtons(p, u) # {}
    BY <1>2, <2>1 DEF SuppressionButtons, HasRole, IsSelfApproval, NotRequester
  <2> QED BY <1>2, <2>1, <2>2
<1>3. CASE supStatus[p] = "DEPARTMENT_HEAD_APPROVAL_PENDING"
  <2>1. PICK u \in DeptHeads : NotRequester(u, supRaiser[p])
    BY <1>3 DEF Staffed, RaisersOK
  <2>2. SuppressionButtons(p, u) # {}
    BY <1>3, <2>1 DEF SuppressionButtons, HasRole, IsSelfApproval, NotRequester
  <2> QED BY <1>3, <2>1, <2>2
<1>4. CASE supStatus[p] = "SECURITY_TEAM_VERIFICATION"
  <2>1. PICK u \in Analysts : TRUE
    BY DEF Staffed
  <2>2. SuppressionButtons(p, u) # {}
    BY <1>4, <2>1 DEF SuppressionButtons, HasRole
  <2> QED BY <1>4, <2>1, <2>2
<1> QED BY <1>1, <1>2, <1>3, <1>4

LEMMA PendingWithAct ==
  ASSUME Staffed, RTypeOK, SuppressionsOK, Placed
  PROVE  ReviewPendingWithActs
<1>1. ASSUME NEW r \in Requests, PendingWith(r) # {}, status[r] # "DEFECT_FIX_RETEST",
             ~HasOpenSuppression(r)
      PROVE  \E u \in PendingWith(r) : TakesOn(r, u)
  <2>1. status[r] \notin {"ABSENT", "DEPARTMENT_HEAD_REJECTED", "CLOSED"}
    BY <1>1 DEF PendingWith, SecurityPendingWith, PerformancePendingWith, WithRequester, IsSecurity,
       SecurityStatus
  <2>2. status[r] \in Front \cup Work(r)
    BY DEF RTypeOK
  <2>3. CASE status[r] \in Front
    BY <2>1, <2>3, FrontActs
  <2>4. CASE status[r] \in Work(r) /\ IsSecurity(r)
    BY <1>1, <2>1, <2>4, SecurityActs DEF Work, Placed
  <2>5. CASE status[r] \in Work(r) /\ ~IsSecurity(r)
    BY <1>1, <2>1, <2>5, PerformanceActs DEF Work, Placed
  <2> QED BY <2>2, <2>3, <2>4, <2>5
<1> QED BY <1>1, SuppressionActs DEF ReviewPendingWithActs, Placed

\* The list of pending approvals is the union of the conditions of the decisions.
LEMMA PendingListExact == ReviewPendingListIsExact
<1>1. ASSUME NEW r \in Requests, NEW u \in Users
      PROVE  /\ PendingItem(r, u) <=>
                  \/ CanSMDecide(r, u) \/ CanHeadDecide(r, u)
                  \/ CanStartReadiness(r, u) \/ CanVerify(r, u)
             /\ PendingItem(r, u) =>
                  \/ DecisionButtons(r, u) # {} \/ ShowsStartReadiness(r, u)
                  \/ ReadinessFailedAnswers(r, u) # {}
  <2>1. PendingItem(r, u) <=>
          \/ CanSMDecide(r, u) \/ CanHeadDecide(r, u)
          \/ CanStartReadiness(r, u) \/ CanVerify(r, u)
    BY DEF PendingItem, CanSMDecide, CanHeadDecide, CanStartReadiness, CanVerify
  <2>2. CanSMDecide(r, u) => DecisionButtons(r, u) # {}
    BY DEF CanSMDecide, DecisionButtons, ShowsSMDecision, IsSelfApproval, NotRequester
  <2>3. CanHeadDecide(r, u) => DecisionButtons(r, u) # {}
    BY DEF CanHeadDecide, DecisionButtons, ShowsSMDecision, ShowsDepartmentHeadDecision,
       IsSelfApproval, NotRequester
  <2>4. CanStartReadiness(r, u) => ShowsStartReadiness(r, u)
    BY DEF CanStartReadiness, ShowsStartReadiness, IsAssignedQALead
  <2>5. CanVerify(r, u) => ReadinessFailedAnswers(r, u) # {}
    BY DEF CanVerify, ReadinessFailedAnswers, ShowsReadinessDecision, IsAssignedQALead
  <2> QED BY <2>1, <2>2, <2>3, <2>4, <2>5
<1>2. ASSUME NEW p \in Suppressions, NEW u \in Users
      PROVE  /\ PendingSuppression(p, u) <=>
                  CanDecideAsSM(p, u) \/ CanDecideAsHead(p, u) \/ CanDecideAsTeam(p, u)
             /\ PendingSuppression(p, u) <=> SuppressionButtons(p, u) # {}
  <2>1. PendingSuppression(p, u) <=>
          CanDecideAsSM(p, u) \/ CanDecideAsHead(p, u) \/ CanDecideAsTeam(p, u)
    BY DEF PendingSuppression, CanDecideAsSM, CanDecideAsHead, CanDecideAsTeam
  <2>2. PendingSuppression(p, u) <=> SuppressionButtons(p, u) # {}
    BY DEF PendingSuppression, SuppressionButtons, IsSelfApproval, NotRequester
  <2> QED BY <2>1, <2>2
<1> QED BY <1>1, <1>2 DEF ReviewPendingListIsExact

\* Where every part has its people, the pages of SAST, DAST, Suppression and Performance
\* requests agree with the server in every state: what is offered is accepted, one of
\* those a request is said to be pending with can take it on, and the list of pending
\* approvals is exact (pending_approvals.py:29).
THEOREM ReviewPagesAlwaysAgree ==
  ASSUME Staffed
  PROVE  ReviewsSpec => []ReviewPagesAgree
<1>1. RequestsInit => Placed
  BY DEF RequestsInit, ReviewsInit, SecurityInit, Placed, RaisersOK, PlaceOf, SecurityStatus,
     PerformanceStatus, Front
<1>2. ReviewInv /\ Placed /\ [RequestsNext]_reviewVars => Placed'
  BY PlacesKeep DEF ReviewInv
<1>3. ReviewsSpec => []Placed
  BY <1>1, <1>2, ReviewsAlways, PTL DEF ReviewsSpec
<1>4. ReviewInv /\ Placed => ReviewPagesAgree
  BY FrontAccepted, WorkAccepted, SuppressionAccepted, PendingWithAct, PendingListExact
  DEF ReviewInv, Placed, ReviewPagesAgree, ReviewOffersAreAccepted
<1> QED BY <1>3, <1>4, ReviewsAlways, PTL

=============================================================================
