-------------------------- MODULE Clearance_proofs --------------------------
(***************************************************************************)
(* What holds of every Functional Testing Request, for any requests,       *)
(* people, roles, checklists and test cycles; and of its clearance: the    *)
(* API implements the certificate's own specification, the pages use a     *)
(* part of the API, and through the pages a request and its certificate    *)
(* stay in step.                                                           *)
(***************************************************************************)
EXTENDS ClearancePage, ClearanceChannels, SequenceTheorems, TLAPS

------------------------------------------------------------------------------
(* The requests (Functional). *)

\* Every step is one of these.
LEMMA FunctionalSteps ==
  ASSUME [FunctionalNext]_functionalVars
  PROVE  \/ UNCHANGED functionalVars
         \/ \E r \in Requests : Raise(r)
         \/ \E r \in Requests : NameDecided(r)
         \/ \E r \in Requests, u \in Users : Submit(r, u)
         \/ \E r \in Requests, u \in Users : Resubmit(r, u)
         \/ \E r \in Requests, u \in Users : SMDecision(r, u)
         \/ \E r \in Requests, u \in Users : DepartmentHeadDecision(r, u)
         \/ \E r \in Requests, u \in Users : UpdateFunctional(r, u)
         \/ \E r \in Requests, u \in Users : Delegate(r, u)
         \/ \E r \in Requests, u \in Users : EndDelegation(r, u)
         \/ \E r \in Requests, u \in Users : StartReadinessVerification(r, u)
         \/ \E r \in Requests, u \in Users : UpdateChecklistItem(r, u)
         \/ \E r \in Requests, u \in Users : ReadinessDecision(r, u)
         \/ \E r \in Requests, u \in Users : BeginPlanning(r, u)
         \/ \E r \in Requests, u \in Users : AssignTester(r, u)
         \/ \E r \in Requests, u \in Users : StartTestDesign(r, u)
         \/ \E r \in Requests, u \in Users : StartExecution(r, u)
         \/ \E r \in Requests, u \in Users : RaiseDefect(r, u)
         \/ \E r \in Requests, u \in Users : MarkWaitingForFix(r, u)
         \/ \E r \in Requests, u \in Users : StartRetesting(r, u)
         \/ \E r \in Requests, u \in Users : CompleteQA(r, u)
         \/ \E r \in Requests, u \in Users : UnlinkTestCycle(r, u)
         \/ \E y \in Cycles : CreateCycle(y)
         \/ \E y \in Cycles : UnlinkCycleRequest(y)
         \/ \E y \in Cycles : DeleteCycle(y)
         \/ \E y \in Cycles, s \in CycleStatus, l \in Linkable : UpdateCycle(y, s, l)
  BY DEF FunctionalNext, RequestStep, CycleStep

----------------------------------------------------------------------------
(* Types. *)

\* A handler that does no more than move a request keeps the type.
LEMMA OnlyMovesType ==
  ASSUME FTypeOK, NEW r \in Requests, NEW s \in FunctionalStatus, OnlyMoves(r, s)
  PROVE  FTypeOK'
  BY DEF OnlyMoves, Moves, FTypeOK, testing, cycles

\* So does one that moves it and changes more, of what it changes.
LEMMA MovesType ==
  ASSUME FTypeOK, NEW r \in Requests, NEW s \in FunctionalStatus, Moves(r, s)
  PROVE  fstatus' \in [Requests -> FunctionalStatus] /\ byHand' \in [Requests -> BOOLEAN]
  BY DEF Moves, FTypeOK

\* The statuses, by name.
LEMMA Statuses ==
  /\ Submitting \subseteq FunctionalStatus /\ HeadApproved \subseteq FunctionalStatus
  /\ Ready \subseteq HeadApproved /\ Executing \subseteq Ready /\ Finished \subseteq Ready
  BY DEF Submitting, HeadApproved, FunctionalStatus, Ready, Executing, Finished

\* What a synchronisation leaves are statuses.
LEMMA SyncedType ==
  ASSUME FTypeOK, NEW y, NEW l, NEW s PROVE Synced(y, l, s) \in [Requests -> FunctionalStatus]
  BY DEF FTypeOK, Synced, FunctionalStatus, HeadApproved, Ready, Executing

\* One step keeps the type.
LEMMA FTypeStep == ASSUME FTypeOK, [FunctionalNext]_functionalVars PROVE FTypeOK'
<1> USE FunctionalAssumption, StaffAssumption, Statuses
<1>1. CASE UNCHANGED functionalVars
  BY <1>1 DEF functionalVars, testing, cycles, FTypeOK
<1>2. ASSUME NEW r \in Requests, Raise(r) PROVE FTypeOK'
  <2>1. AtSM(r) \in FunctionalStatus
    BY DEF AtSM, Submitting, FunctionalStatus
  <2>2. fstatus' \in [Requests -> FunctionalStatus] /\ byHand' \in [Requests -> BOOLEAN]
    BY <1>2, <2>1, MovesType DEF Raise
  <2>3. declared' \in [Requests -> SUBSET Items]
    BY <1>2 DEF Raise, Declarable, FTypeOK
  <2> QED
    BY <1>2, <2>2, <2>3 DEF Raise, FTypeOK, cycles
<1>3. ASSUME NEW r \in Requests, NameDecided(r) PROVE FTypeOK'
  <2>1. nameStatus' \in [Requests -> NameStatus]
    BY <1>3 DEF NameDecided, NameStatus, FTypeOK
  <2>2. fstatus' \in [Requests -> FunctionalStatus]
    BY <1>3 DEF NameDecided, FTypeOK, Submitting, FunctionalStatus
  <2> QED
    BY <1>3, <2>1, <2>2 DEF NameDecided, FTypeOK, cycles
<1>4. ASSUME NEW r \in Requests, NEW u \in Users, Submit(r, u) PROVE FTypeOK'
  <2>1. AtSM(r) \in FunctionalStatus
    BY DEF AtSM, Submitting, FunctionalStatus
  <2> QED
    BY <1>4, <2>1, OnlyMovesType DEF Submit
<1>5. ASSUME NEW r \in Requests, NEW u \in Users, Resubmit(r, u) PROVE FTypeOK'
  <2>1. ReturnsTo(r) \in FunctionalStatus
    BY DEF ReturnsTo, PastReadinessReturn, AtSM, FTypeOK, Submitting, HeadApproved,
           FunctionalStatus
  <2>2. fstatus' \in [Requests -> FunctionalStatus] /\ byHand' \in [Requests -> BOOLEAN]
    BY <1>5, <2>1, MovesType DEF Resubmit
  <2> QED
    BY <1>5, <2>2 DEF Resubmit, FTypeOK, testing, cycles
<1>6. ASSUME NEW r \in Requests, NEW u \in Users, SMDecision(r, u) PROVE FTypeOK'
  BY <1>6, OnlyMovesType DEF SMDecision, SMVerdicts, Submitting, FunctionalStatus
<1>7. ASSUME NEW r \in Requests, NEW u \in Users, DepartmentHeadDecision(r, u) PROVE FTypeOK'
  <2>1. fstatus' \in [Requests -> FunctionalStatus] /\ byHand' \in [Requests -> BOOLEAN]
    BY <1>7, MovesType DEF DepartmentHeadDecision, HeadVerdicts, Submitting, HeadApproved,
                           FunctionalStatus
  <2> QED
    BY <1>7, <2>1 DEF DepartmentHeadDecision, HeadVerdicts, FTypeOK, cycles
<1>8. ASSUME NEW r \in Requests, NEW u \in Users, UpdateFunctional(r, u) PROVE FTypeOK'
  BY <1>8 DEF UpdateFunctional, NameStatus, FTypeOK, cycles
<1>9. ASSUME NEW r \in Requests, NEW u \in Users, Delegate(r, u) PROVE FTypeOK'
  BY <1>9 DEF Delegate, FTypeOK, cycles
<1>10. ASSUME NEW r \in Requests, NEW u \in Users, EndDelegation(r, u) PROVE FTypeOK'
  BY <1>10 DEF EndDelegation, FTypeOK, cycles
<1>11. ASSUME NEW r \in Requests, NEW u \in Users, StartReadinessVerification(r, u) PROVE FTypeOK'
  BY <1>11, OnlyMovesType DEF StartReadinessVerification, HeadApproved, FunctionalStatus
<1>12. ASSUME NEW r \in Requests, NEW u \in Users, UpdateChecklistItem(r, u) PROVE FTypeOK'
  BY <1>12 DEF UpdateChecklistItem, FTypeOK, cycles
<1>13. ASSUME NEW r \in Requests, NEW u \in Users, ReadinessDecision(r, u) PROVE FTypeOK'
  <2>1. CASE OnlyMoves(r, "QA_ACTIVITY_INITIATED")
    BY <2>1, OnlyMovesType DEF Ready, HeadApproved, FunctionalStatus
  <2>2. ASSUME NEW b \in BOOLEAN, Moves(r, "RETURNED_BY_QA_LEAD"),
               reapproval' = [reapproval EXCEPT ![r] = b],
               owed' = [owed EXCEPT ![r] = @ \/ b], UNCHANGED <<testing, cycles>>
        PROVE  FTypeOK'
    <3>1. fstatus' \in [Requests -> FunctionalStatus] /\ byHand' \in [Requests -> BOOLEAN]
      BY <2>2, MovesType DEF HeadApproved, FunctionalStatus
    <3> QED
      BY <2>2, <3>1 DEF FTypeOK, testing, cycles
  <2> QED
    BY <1>13, <2>1, <2>2 DEF ReadinessDecision
<1>14. ASSUME NEW r \in Requests, NEW u \in Users, BeginPlanning(r, u) PROVE FTypeOK'
  BY <1>14, OnlyMovesType DEF BeginPlanning, Ready, HeadApproved, FunctionalStatus
<1>15. ASSUME NEW r \in Requests, NEW u \in Users, AssignTester(r, u) PROVE FTypeOK'
  <2>1. fstatus' \in [Requests -> FunctionalStatus]
    BY <1>15 DEF AssignTester, FTypeOK, Ready, HeadApproved, FunctionalStatus
  <2> QED
    BY <1>15, <2>1 DEF AssignTester, TesterTeams, FTypeOK, cycles
<1>16. ASSUME NEW r \in Requests, NEW u \in Users, StartTestDesign(r, u) PROVE FTypeOK'
  BY <1>16, OnlyMovesType DEF StartTestDesign, Ready, HeadApproved, FunctionalStatus
<1>17. ASSUME NEW r \in Requests, NEW u \in Users, StartExecution(r, u) PROVE FTypeOK'
  <2>1. fstatus' \in [Requests -> FunctionalStatus] /\ byHand' \in [Requests -> BOOLEAN]
    BY <1>17, MovesType DEF StartExecution, EligibleCycles, Executing, Ready, HeadApproved,
                            FunctionalStatus
  <2> QED
    BY <1>17, <2>1 DEF StartExecution, EligibleCycles, FTypeOK, testing
<1>18. ASSUME NEW r \in Requests, NEW u \in Users, RaiseDefect(r, u) PROVE FTypeOK'
  BY <1>18, OnlyMovesType DEF RaiseDefect, Executing, Ready, HeadApproved, FunctionalStatus
<1>19. ASSUME NEW r \in Requests, NEW u \in Users, MarkWaitingForFix(r, u) PROVE FTypeOK'
  BY <1>19 DEF MarkWaitingForFix, Executing, Ready, HeadApproved, FunctionalStatus, FTypeOK,
               testing, cycles
<1>20. ASSUME NEW r \in Requests, NEW u \in Users, StartRetesting(r, u) PROVE FTypeOK'
  BY <1>20, OnlyMovesType DEF StartRetesting, Executing, Ready, HeadApproved, FunctionalStatus
<1>21. ASSUME NEW r \in Requests, NEW u \in Users, CompleteQA(r, u) PROVE FTypeOK'
  BY <1>21, OnlyMovesType DEF CompleteQA, Finished, Ready, HeadApproved, FunctionalStatus
<1>22. ASSUME NEW r \in Requests, NEW u \in Users, UnlinkTestCycle(r, u) PROVE FTypeOK'
  BY <1>22 DEF UnlinkTestCycle, FTypeOK, testing
<1>23. ASSUME NEW y \in Cycles, CreateCycle(y) PROVE FTypeOK'
  BY <1>23 DEF CreateCycle, Linkable, CycleStatus, FTypeOK, testing
<1>24. ASSUME NEW y \in Cycles, UnlinkCycleRequest(y) PROVE FTypeOK'
  BY <1>24 DEF UnlinkCycleRequest, FTypeOK, testing
<1>25. ASSUME NEW y \in Cycles, DeleteCycle(y) PROVE FTypeOK'
  BY <1>25 DEF DeleteCycle, CycleStatus, FTypeOK, testing
<1>26. ASSUME NEW y \in Cycles, NEW s \in CycleStatus, NEW l \in Linkable, UpdateCycle(y, s, l)
       PROVE  FTypeOK'
  <2>1. fstatus' \in [Requests -> FunctionalStatus]
    BY <1>26, SyncedType DEF UpdateCycle
  <2> QED
    BY <1>26, <2>1 DEF UpdateCycle, Linkable, FTypeOK, testing
<1> QED
  BY FunctionalSteps, <1>1, <1>2, <1>3, <1>4, <1>5, <1>6, <1>7, <1>8, <1>9, <1>10, <1>11, <1>12,
     <1>13, <1>14, <1>15, <1>16, <1>17, <1>18, <1>19, <1>20, <1>21, <1>22, <1>23, <1>24, <1>25, <1>26

\* Every initial state has its type.
LEMMA FTypeInit == FunctionalInit => FTypeOK
  BY FunctionalAssumption DEF FunctionalInit, FTypeOK, Declarable, FunctionalStatus,
                              Submitting, NameStatus, CycleStatus

\* Every reachable state has its type.
THEOREM FTypeCorrect == FunctionalSpec => []FTypeOK
  BY FTypeInit, FTypeStep, PTL DEF FunctionalSpec

----------------------------------------------------------------------------
(* The way of a request to QA work: who approved it, the re-approval it     *)
(* owes and the checklist. The three are one invariant, request by request, *)
(* and inductive as they stand: every step that changes headId, reapproval  *)
(* or the checklist is taken at a status at which they may change.          *)

FlowOf(q) ==
  /\ fstatus[q] \in HeadApproved =>
       headId[q] # None /\ (headId[q] \in Admins \/ headId[q] # Requester[q])
  /\ owed[q] =>
       /\ fstatus[q] \in {"RETURNED_BY_QA_LEAD", "DEPARTMENT_HEAD_APPROVAL_PENDING",
                          "RETURNED_BY_DEPARTMENT_HEAD", "DEPARTMENT_HEAD_REJECTED"}
       /\ fstatus[q] = "RETURNED_BY_QA_LEAD" => reapproval[q]
  /\ fstatus[q] \in Ready => declared[q] \subseteq verified[q]

LEMMA FlowIs == (\A q \in Requests : FlowOf(q)) <=>
                WorkWasApproved /\ ReapprovalHonoured /\ DeclarationsVerified
  BY DEF FlowOf, WorkWasApproved, ReapprovalHonoured, DeclarationsVerified

\* It holds of absent requests and drafts.
LEMMA FlowInit == FunctionalInit => \A q \in Requests : FlowOf(q)
  BY DEF FunctionalInit, FlowOf, HeadApproved, Ready, Executing, Finished

\* One step keeps it of every request.
LEMMA FlowStep ==
  ASSUME FTypeOK, [FunctionalNext]_functionalVars, NEW q \in Requests, FlowOf(q) PROVE FlowOf(q)'
<1> USE StaffAssumption DEF FTypeOK, FlowOf, HeadApproved, Ready, Executing, Finished
<1>1. CASE UNCHANGED functionalVars
  BY <1>1 DEF functionalVars, testing, cycles
<1>2. ASSUME NEW r \in Requests, Raise(r) PROVE FlowOf(q)'
  BY <1>2 DEF Raise, Moves, AtSM, cycles
<1>3. ASSUME NEW r \in Requests, NameDecided(r) PROVE FlowOf(q)'
  BY <1>3 DEF NameDecided, cycles
<1>4. ASSUME NEW r \in Requests, NEW u \in Users, Submit(r, u) PROVE FlowOf(q)'
  BY <1>4 DEF Submit, CanSubmit, OnlyMoves, Moves, AtSM, testing, cycles
<1>5. ASSUME NEW r \in Requests, NEW u \in Users, Resubmit(r, u) PROVE FlowOf(q)'
  BY <1>5 DEF Resubmit, CanResubmit, Moves, ReturnsTo, PastReadinessReturn, AtSM,
              WithRequester, testing, cycles
<1>6. ASSUME NEW r \in Requests, NEW u \in Users, SMDecision(r, u) PROVE FlowOf(q)'
  BY <1>6 DEF SMDecision, SMVerdicts, CanSMDecide, OnlyMoves, Moves, testing, cycles
<1>7. ASSUME NEW r \in Requests, NEW u \in Users, DepartmentHeadDecision(r, u) PROVE FlowOf(q)'
  BY <1>7 DEF DepartmentHeadDecision, HeadVerdicts, CanHeadDecide, Moves, cycles, NotRequester
<1>8. ASSUME NEW r \in Requests, NEW u \in Users, UpdateFunctional(r, u) PROVE FlowOf(q)'
  BY <1>8 DEF UpdateFunctional, CanEditDetails, WithRequester, InHandsOf, cycles
<1>9. ASSUME NEW r \in Requests, NEW u \in Users, Delegate(r, u) PROVE FlowOf(q)'
  BY <1>9 DEF Delegate, CanDelegate, cycles
<1>10. ASSUME NEW r \in Requests, NEW u \in Users, EndDelegation(r, u) PROVE FlowOf(q)'
  BY <1>10 DEF EndDelegation, cycles
<1>11. ASSUME NEW r \in Requests, NEW u \in Users, StartReadinessVerification(r, u) PROVE FlowOf(q)'
  BY <1>11 DEF StartReadinessVerification, CanStartReadiness, OnlyMoves, Moves, testing, cycles
<1>12. ASSUME NEW r \in Requests, NEW u \in Users, UpdateChecklistItem(r, u) PROVE FlowOf(q)'
  BY <1>12 DEF UpdateChecklistItem, CanVerify, cycles
<1>13. ASSUME NEW r \in Requests, NEW u \in Users, ReadinessDecision(r, u) PROVE FlowOf(q)'
  BY <1>13 DEF ReadinessDecision, CanVerify, OnlyMoves, Moves, ChecklistPasses, testing, cycles
<1>14. ASSUME NEW r \in Requests, NEW u \in Users, BeginPlanning(r, u) PROVE FlowOf(q)'
  BY <1>14 DEF BeginPlanning, CanPlan, OnlyMoves, Moves, testing, cycles
<1>15. ASSUME NEW r \in Requests, NEW u \in Users, AssignTester(r, u) PROVE FlowOf(q)'
  BY <1>15 DEF AssignTester, CanAssignTester, cycles
<1>16. ASSUME NEW r \in Requests, NEW u \in Users, StartTestDesign(r, u) PROVE FlowOf(q)'
  BY <1>16 DEF StartTestDesign, Works, CanDesign, OnlyMoves, Moves, testing, cycles
<1>17. ASSUME NEW r \in Requests, NEW u \in Users, StartExecution(r, u) PROVE FlowOf(q)'
  BY <1>17 DEF StartExecution, EligibleCycles, WorksOrLeads, CanExecute, Moves, testing
<1>18. ASSUME NEW r \in Requests, NEW u \in Users, RaiseDefect(r, u) PROVE FlowOf(q)'
  BY <1>18 DEF RaiseDefect, Works, CanRaiseDefect, OnlyMoves, Moves, testing, cycles
<1>19. ASSUME NEW r \in Requests, NEW u \in Users, MarkWaitingForFix(r, u) PROVE FlowOf(q)'
  BY <1>19 DEF MarkWaitingForFix, Works, CanWait, testing, cycles
<1>20. ASSUME NEW r \in Requests, NEW u \in Users, StartRetesting(r, u) PROVE FlowOf(q)'
  BY <1>20 DEF StartRetesting, WorksOrLeads, CanRetest, OnlyMoves, Moves, testing, cycles
<1>21. ASSUME NEW r \in Requests, NEW u \in Users, CompleteQA(r, u) PROVE FlowOf(q)'
  BY <1>21 DEF CompleteQA, Works, CanComplete, OnlyMoves, Moves, testing, cycles
<1>22. ASSUME NEW r \in Requests, NEW u \in Users, UnlinkTestCycle(r, u) PROVE FlowOf(q)'
  BY <1>22 DEF UnlinkTestCycle, testing
<1>23. ASSUME NEW y \in Cycles, CreateCycle(y) PROVE FlowOf(q)'
  BY <1>23 DEF CreateCycle, testing
<1>24. ASSUME NEW y \in Cycles, UnlinkCycleRequest(y) PROVE FlowOf(q)'
  BY <1>24 DEF UnlinkCycleRequest, testing
<1>25. ASSUME NEW y \in Cycles, DeleteCycle(y) PROVE FlowOf(q)'
  BY <1>25 DEF DeleteCycle, testing
<1>26. ASSUME NEW y \in Cycles, NEW s \in CycleStatus, NEW l \in Linkable, UpdateCycle(y, s, l)
       PROVE  FlowOf(q)'
  BY <1>26 DEF UpdateCycle, Synced, testing
<1> QED
  BY FunctionalSteps, <1>1, <1>2, <1>3, <1>4, <1>5, <1>6, <1>7, <1>8, <1>9, <1>10, <1>11, <1>12,
     <1>13, <1>14, <1>15, <1>16, <1>17, <1>18, <1>19, <1>20, <1>21, <1>22, <1>23, <1>24, <1>25, <1>26

LEMMA FlowAlways == FunctionalSpec => [](\A q \in Requests : FlowOf(q))
<1>1. FTypeOK /\ (\A q \in Requests : FlowOf(q)) /\ [FunctionalNext]_functionalVars
      => (\A q \in Requests : FlowOf(q))'
  BY FlowStep
<1> QED
  BY <1>1, FlowInit, FTypeCorrect, PTL DEF FunctionalSpec

\* No request is in QA's hands without the approval of a department head who is
\* not its requester.
THEOREM ApprovedWork == FunctionalSpec => []WorkWasApproved
  BY FlowAlways, FlowIs, PTL

\* A re-approval the QA Lead demanded comes before QA works on the request again.
THEOREM ReapprovalAlways == FunctionalSpec => []ReapprovalHonoured
  BY FlowAlways, FlowIs, PTL

\* Approvals hold, for any requests and people, along every way back.
THEOREM ApprovalsAlwaysHold == FunctionalSpec => []ApprovalsHold
  BY ApprovedWork, ReapprovalAlways, PTL DEF ApprovalsHold

\* Whatever was declared ready is verified once readiness has passed.
THEOREM DeclarationsAlways == FunctionalSpec => []DeclarationsVerified
  BY FlowAlways, FlowIs, PTL

----------------------------------------------------------------------------
(* Waiting for a blocked cycle. *)

WaitOf(q) == fstatus[q] = "WAITING_FOR_FIX" /\ ~byHand[q] =>
               \E y \in Cycles : cycleLink[y] = q /\ cycleStatus[y] = "Blocked"

LEMMA WaitIs == (\A q \in Requests : WaitOf(q)) <=> WaitingIsExplained
  BY DEF WaitOf, WaitingIsExplained, LinkedCycles

\* One step keeps it of every request. Only UpdateCycle both blocks and releases:
\* when it resumes the cycle that explained q, another one is still blocked, or q
\* does not wait any more.
LEMMA WaitStep ==
  ASSUME FTypeOK, [FunctionalNext]_functionalVars, NEW q \in Requests, WaitOf(q) PROVE WaitOf(q)'
<1> USE FunctionalAssumption DEF FTypeOK, WaitOf, LinkedCycles
<1>1. CASE UNCHANGED functionalVars
  BY <1>1 DEF functionalVars, testing, cycles
<1>2. ASSUME NEW r \in Requests, Raise(r) PROVE WaitOf(q)'
  BY <1>2 DEF Raise, Moves, AtSM, cycles
<1>3. ASSUME NEW r \in Requests, NameDecided(r) PROVE WaitOf(q)'
  BY <1>3 DEF NameDecided, cycles
<1>4. ASSUME NEW r \in Requests, NEW u \in Users, Submit(r, u) PROVE WaitOf(q)'
  BY <1>4 DEF Submit, OnlyMoves, Moves, AtSM, cycles
<1>5. ASSUME NEW r \in Requests, NEW u \in Users, Resubmit(r, u) PROVE WaitOf(q)'
  BY <1>5 DEF Resubmit, CanResubmit, Moves, ReturnsTo, PastReadinessReturn, AtSM,
              WithRequester, cycles
<1>6. ASSUME NEW r \in Requests, NEW u \in Users, SMDecision(r, u) PROVE WaitOf(q)'
  BY <1>6 DEF SMDecision, SMVerdicts, OnlyMoves, Moves, cycles
<1>7. ASSUME NEW r \in Requests, NEW u \in Users, DepartmentHeadDecision(r, u) PROVE WaitOf(q)'
  BY <1>7 DEF DepartmentHeadDecision, HeadVerdicts, Moves, cycles
<1>8. ASSUME NEW r \in Requests, NEW u \in Users, UpdateFunctional(r, u) PROVE WaitOf(q)'
  BY <1>8 DEF UpdateFunctional, cycles
<1>9. ASSUME NEW r \in Requests, NEW u \in Users, Delegate(r, u) PROVE WaitOf(q)'
  BY <1>9 DEF Delegate, cycles
<1>10. ASSUME NEW r \in Requests, NEW u \in Users, EndDelegation(r, u) PROVE WaitOf(q)'
  BY <1>10 DEF EndDelegation, cycles
<1>11. ASSUME NEW r \in Requests, NEW u \in Users, StartReadinessVerification(r, u) PROVE WaitOf(q)'
  BY <1>11 DEF StartReadinessVerification, OnlyMoves, Moves, cycles
<1>12. ASSUME NEW r \in Requests, NEW u \in Users, UpdateChecklistItem(r, u) PROVE WaitOf(q)'
  BY <1>12 DEF UpdateChecklistItem, cycles
<1>13. ASSUME NEW r \in Requests, NEW u \in Users, ReadinessDecision(r, u) PROVE WaitOf(q)'
  BY <1>13 DEF ReadinessDecision, OnlyMoves, Moves, cycles
<1>14. ASSUME NEW r \in Requests, NEW u \in Users, BeginPlanning(r, u) PROVE WaitOf(q)'
  BY <1>14 DEF BeginPlanning, OnlyMoves, Moves, cycles
<1>15. ASSUME NEW r \in Requests, NEW u \in Users, AssignTester(r, u) PROVE WaitOf(q)'
  BY <1>15 DEF AssignTester, cycles
<1>16. ASSUME NEW r \in Requests, NEW u \in Users, StartTestDesign(r, u) PROVE WaitOf(q)'
  BY <1>16 DEF StartTestDesign, OnlyMoves, Moves, cycles
<1>17. ASSUME NEW r \in Requests, NEW u \in Users, StartExecution(r, u) PROVE WaitOf(q)'
  BY <1>17 DEF StartExecution, EligibleCycles, Moves
<1>18. ASSUME NEW r \in Requests, NEW u \in Users, RaiseDefect(r, u) PROVE WaitOf(q)'
  BY <1>18 DEF RaiseDefect, OnlyMoves, Moves, cycles
<1>19. ASSUME NEW r \in Requests, NEW u \in Users, MarkWaitingForFix(r, u) PROVE WaitOf(q)'
  BY <1>19 DEF MarkWaitingForFix, cycles
<1>20. ASSUME NEW r \in Requests, NEW u \in Users, StartRetesting(r, u) PROVE WaitOf(q)'
  BY <1>20 DEF StartRetesting, OnlyMoves, Moves, cycles
<1>21. ASSUME NEW r \in Requests, NEW u \in Users, CompleteQA(r, u) PROVE WaitOf(q)'
  BY <1>21 DEF CompleteQA, OnlyMoves, Moves, cycles
<1>22. ASSUME NEW r \in Requests, NEW u \in Users, UnlinkTestCycle(r, u) PROVE WaitOf(q)'
  BY <1>22 DEF UnlinkTestCycle, Locked, testing
<1>23. ASSUME NEW y \in Cycles, CreateCycle(y) PROVE WaitOf(q)'
  BY <1>23 DEF CreateCycle
<1>24. ASSUME NEW y \in Cycles, UnlinkCycleRequest(y) PROVE WaitOf(q)'
  BY <1>24 DEF UnlinkCycleRequest, Locked
<1>25. ASSUME NEW y \in Cycles, DeleteCycle(y) PROVE WaitOf(q)'
  BY <1>25 DEF DeleteCycle, Locked
<1>26. ASSUME NEW y \in Cycles, NEW s \in CycleStatus, NEW l \in Linkable, UpdateCycle(y, s, l),
              fstatus'[q] = "WAITING_FOR_FIX", ~byHand'[q]
       PROVE  \E z \in Cycles : cycleLink'[z] = q /\ cycleStatus'[z] = "Blocked"
  <2>1. CASE fstatus[q] # "WAITING_FOR_FIX"
    <3>1. q = l /\ s = "Blocked"
      BY <1>26, <2>1 DEF UpdateCycle, Synced
    <3> QED
      BY <1>26, <3>1 DEF UpdateCycle
  <2>2. CASE fstatus[q] = "WAITING_FOR_FIX"
    <3>1. PICK z \in Cycles : cycleLink[z] = q /\ cycleStatus[z] = "Blocked"
      BY <1>26, <2>2 DEF UpdateCycle
    <3>2. CASE z # y
      BY <1>26, <3>1, <3>2 DEF UpdateCycle
    <3>3. CASE z = y /\ s = "Blocked"
      BY <1>26, <3>1, <3>3 DEF UpdateCycle
    <3>4. CASE z = y /\ s # "Blocked"
      <4>1. OtherBlocked(q, y)
        BY <1>26, <2>2, <3>1, <3>4 DEF UpdateCycle, Synced
      <4>2. PICK x \in Cycles \ {y} : cycleLink[x] = q /\ cycleStatus[x] = "Blocked"
        BY <4>1 DEF OtherBlocked
      <4> QED
        BY <1>26, <4>2 DEF UpdateCycle
    <3> QED
      BY <3>2, <3>3, <3>4
  <2> QED
    BY <2>1, <2>2
<1> QED
  BY FunctionalSteps, <1>1, <1>2, <1>3, <1>4, <1>5, <1>6, <1>7, <1>8, <1>9, <1>10, <1>11, <1>12,
     <1>13, <1>14, <1>15, <1>16, <1>17, <1>18, <1>19, <1>20, <1>21, <1>22, <1>23, <1>24, <1>25, <1>26

\* A request that waits because of a cycle has a blocked cycle: with any number of
\* cycles, linked, blocked, resumed and deleted in any order.
THEOREM WaitingAlwaysExplained == FunctionalSpec => []WaitingIsExplained
<1>1. FunctionalInit => \A q \in Requests : WaitOf(q)
  BY DEF FunctionalInit, WaitOf
<1>2. FTypeOK /\ (\A q \in Requests : WaitOf(q)) /\ [FunctionalNext]_functionalVars
      => (\A q \in Requests : WaitOf(q))'
  BY WaitStep
<1> QED
  BY <1>1, <1>2, WaitIs, FTypeCorrect, PTL DEF FunctionalSpec

----------------------------------------------------------------------------
(* The page of a request, with the list of pending approvals.               *)

\* The approver's panel and its handlers have the same conditions.
LEMMA DecisionsAccepted ==
  ASSUME NEW r \in Requests, NEW u \in Users
  PROVE  /\ \A s \in DecisionButtons(r, u) : \/ CanSMDecide(r, u) /\ s \in SMVerdicts(r)
                                             \/ CanHeadDecide(r, u) /\ s \in HeadVerdicts(r)
         /\ DecisionButtons(r, u) # {} <=> CanSMDecide(r, u) \/ CanHeadDecide(r, u)
<1> USE DEF DecisionButtons, ShowsSMDecision, ShowsDepartmentHeadDecision, IsSelfApproval,
            CanSMDecide, CanHeadDecide, HasRole, NotRequester
<1>1. CASE ShowsSMDecision(r, u)
  BY <1>1 DEF SMVerdicts, SignBlocked
<1>2. CASE ShowsDepartmentHeadDecision(r, u)
  BY <1>2 DEF HeadVerdicts, SignBlocked
<1>3. CASE ~ShowsSMDecision(r, u) /\ ~ShowsDepartmentHeadDecision(r, u)
  BY <1>3
<1> QED
  BY <1>1, <1>2, <1>3

\* So have the requester's panel, his form and the upload of documents.
LEMMA CorrectionsAccepted ==
  ASSUME NEW r \in Requests, NEW u \in Users PROVE CorrectionOffered(r, u)
<1>1. u # None
  BY StaffAssumption
<1>2. /\ ShowsSubmit(r, u)   => CanSubmit(r, u)
      /\ ShowsResubmit(r, u) => CanResubmit(r, u)
      /\ ShowsReturn(r, u) \/ ShowsRecall(r, u) => CanEndDelegation(r, u)
  BY DEF ShowsSubmit, CanSubmit, ShowsResubmit, CanResubmit, ShowsReturn, ShowsRecall,
         IsActiveDelegate, CanEndDelegation
<1>3. \A v \in DelegationChoices(r, u) : CanDelegate(r, u) /\ v \in Users \ {Requester[r]}
  BY DEF DelegationChoices, ShowsDelegate, CanDelegate
<1>4. u \notin Admins =>
        \A D \in DeclarationChoices(r, u) : CanEditDetails(r, u) /\ D \in SUBSET Items
  BY <1>1 DEF DeclarationChoices, ShowsEditDetails, InputEditor, IsActiveDelegate,
              CanEditDetails, InHandsOf
<1>5. ShowsUpload(r, u) => MayUpload(r, u)
  BY DEF ShowsUpload, MayUpload, InputEditor, ShowsSMDecision, ShowsDepartmentHeadDecision
<1> QED
  BY <1>2, <1>3, <1>4, <1>5 DEF CorrectionOffered

\* So have the panels of QA Leads and testers.
LEMMA QAWorkAccepted ==
  ASSUME NEW r \in Requests, NEW u \in Users PROVE QAWorkOffered(r, u)
<1> USE DEF IsAssignedQALead, IsAssignedTester, HasRole, LeadGroup, IsTester, Works, WorksOrLeads
<1>1. /\ ShowsStartReadiness(r, u) => CanStartReadiness(r, u)
      /\ \A i \in Items : ShowsChecklistBox(r, u, i) =>
           CanVerify(r, u) /\ (i \notin verified[r] => i \in declared[r])
      /\ ReadinessFailedAnswers(r, u) # {} => CanVerify(r, u)
      /\ ShowsBeginPlanning(r, u) => CanPlan(r, u)
  BY DEF ShowsStartReadiness, CanStartReadiness, ShowsChecklistBox, CanVerify,
         ReadinessFailedAnswers, ShowsReadinessDecision, ShowsBeginPlanning, CanPlan
<1>2. \A T \in TeamChoices(r, u) : CanAssignTester(r, u) /\ T \in TesterTeams
  <2> SUFFICES ASSUME NEW T \in TeamChoices(r, u) PROVE CanAssignTester(r, u) /\ T \in TesterTeams
    OBVIOUS
  <2>1. ShowsAssignTester(r, u) /\ T \in (SUBSET {v \in QAStaff : v \in Engineers}) \ {{}}
    BY DEF TeamChoices
  <2>2. T \in TesterTeams
    BY <2>1 DEF TesterTeams, Assignable
  <2>3. CanAssignTester(r, u)
    BY <2>1 DEF ShowsAssignTester, CanAssignTester, IsQADepartmentHead, InQA
  <2> QED
    BY <2>2, <2>3
<1>3. ShowsStartTestDesign(r, u) => CanDesign(r, u)
  BY DEF ShowsStartTestDesign, CanDesign
<1>4. \A y \in CycleChoices(r, u) : CanExecute(r, u) /\ y \in EligibleCycles(r) \cup {None}
  BY DEF CycleChoices, ShowsStartExecution, CanExecute, EligibleCycles
<1>5. /\ ShowsRaiseDefect(r, u)       => CanRaiseDefect(r, u)
      /\ ShowsMarkWaitingForFix(r, u) => CanWait(r, u)
      /\ ShowsStartRetest(r, u)       => CanRetest(r, u)
  BY DEF ShowsRaiseDefect, CanRaiseDefect, ShowsMarkWaitingForFix, CanWait, ShowsStartRetest,
         CanRetest
<1>6. ShowsCompleteQA(r, u) => CanComplete(r, u)
  BY DEF ShowsCompleteQA, OpenLinkedCycles, CanComplete, CyclesDone
<1> QED
  BY <1>1, <1>2, <1>3, <1>4, <1>5, <1>6 DEF QAWorkOffered

\* Whatever the page offers is accepted: in every state, reachable or not.
THEOREM OffersAlwaysAccepted == FunctionalSpec => []OffersAreAccepted
<1>1. OffersAreAccepted
  BY DecisionsAccepted, CorrectionsAccepted, QAWorkAccepted DEF OffersAreAccepted
<1> QED
  BY <1>1, PTL

\* The list of pending approvals is exact, in every state as well.
THEOREM PendingListAlwaysExact == FunctionalSpec => []PendingListIsExact
<1>1. ASSUME NEW u \in Users, NEW r \in Requests
      PROVE  /\ r \in PendingApprovals(u) <=>
                  \/ CanSMDecide(r, u) \/ CanHeadDecide(r, u)
                  \/ CanStartReadiness(r, u) \/ CanVerify(r, u)
             /\ r \in PendingApprovals(u) =>
                  \/ DecisionButtons(r, u) # {} \/ ShowsStartReadiness(r, u)
                  \/ ReadinessFailedAnswers(r, u) # {}
  <2>1. r \in PendingApprovals(u) <=> AtDecision(r, u) \/ AtReadiness(r, u)
    BY DEF PendingApprovals
  <2>2. AtDecision(r, u) <=> CanSMDecide(r, u) \/ CanHeadDecide(r, u)
    BY DEF AtDecision, CanSMDecide, CanHeadDecide
  <2>3. AtReadiness(r, u) <=> CanStartReadiness(r, u) \/ CanVerify(r, u)
    BY DEF AtReadiness, CanStartReadiness, CanVerify
  <2>4. CanStartReadiness(r, u) => ShowsStartReadiness(r, u)
    BY DEF CanStartReadiness, ShowsStartReadiness, IsAssignedQALead
  <2>5. CanVerify(r, u) => ReadinessFailedAnswers(r, u) # {}
    BY DEF CanVerify, ReadinessFailedAnswers, ShowsReadinessDecision, IsAssignedQALead
  <2> QED
    BY <2>1, <2>2, <2>3, <2>4, <2>5, DecisionsAccepted
<1>2. ASSUME NEW u \in Users, PendingApprovalsNotice(u) PROVE \E r \in Requests : TakesOn(r, u)
  <2>1. PICK r \in Requests : r \in PendingApprovals(u)
    BY <1>2 DEF PendingApprovalsNotice, PendingApprovals
  <2> QED
    BY <1>1, <2>1 DEF TakesOn
<1>3. PendingListIsExact
  BY <1>1, <1>2 DEF PendingListIsExact
<1> QED
  BY <1>3, PTL

\* The stages of a row of the stepper.
RowOf(p) == {p[i] : i \in DOMAIN p}

LEMMA TheStages ==
  /\ Stages[1] = "Draft" /\ Stages[2] = "SM Approval" /\ Stages[3] = "Dept. Head Approval"
  /\ Stages[4] = "QA Activity" /\ Stages[5] = "Clearance" /\ Stages[6] = "Closed"
  BY DEF Stages

\* The first n of six.
LEMMA RowOfSix ==
  ASSUME NEW T, NEW s \in Seq(T), Len(s) = 6, NEW n \in 1..6
  PROVE  DOMAIN SubSeq(s, 1, n) = 1..n /\ \A i \in 1..n : SubSeq(s, 1, n)[i] = s[i]
<1>1. SubSeq(s, 1, n) \in Seq(T)
  OBVIOUS
<1>2. Len(SubSeq(s, 1, n)) = n
  OBVIOUS
<1>3. \A i \in 1..n : SubSeq(s, 1, n)[i] = s[i]
  OBVIOUS
<1>4. DOMAIN SubSeq(s, 1, n) = 1..n
  BY <1>1, <1>2
<1> QED
  BY <1>3, <1>4

\* What a row of n stages holds.
LEMMA RowHolds ==
  ASSUME NEW n \in 1..6
  PROVE  /\ "QA Activity" \in RowOf(SubSeq(Stages, 1, n)) <=> n >= 4
         /\ "Closed" \in RowOf(SubSeq(Stages, 1, n)) <=> n = 6
<1> DEFINE p == SubSeq(Stages, 1, n)
           S == {"Draft", "SM Approval", "Dept. Head Approval", "QA Activity", "Clearance",
                 "Closed"}
<1>1. Stages \in Seq(S) /\ Len(Stages) = 6
  <2>1. Stages \in Seq(S)
    BY DEF Stages
  <2>2. Len(Stages) = 6
    BY DEF Stages
  <2> QED
    BY <2>1, <2>2
<1> HIDE DEF S
<1>2. DOMAIN p = 1..n /\ \A i \in 1..n : p[i] = Stages[i]
  BY <1>1, RowOfSix
<1> HIDE DEF p
<1>3. \A x : x \in RowOf(p) <=> \E i \in 1..n : x = Stages[i]
  BY <1>2 DEF RowOf
<1>4. \A i \in 1..n : i = 1 \/ i = 2 \/ i = 3 \/ i = 4 \/ i = 5 \/ i = 6
  OBVIOUS
<1>5. (\E i \in 1..n : "QA Activity" = Stages[i]) <=> n >= 4
  <2>1. n >= 4 => 4 \in 1..n
    OBVIOUS
  <2>2. ASSUME NEW i \in 1..n, "QA Activity" = Stages[i] PROVE n >= 4
    <3>1. i = 4
      BY TheStages, <1>4, <2>2
    <3> QED
      BY <3>1
  <2> QED
    BY TheStages, <2>1, <2>2
<1>6. (\E i \in 1..n : "Closed" = Stages[i]) <=> n = 6
  <2>1. n = 6 => 6 \in 1..n
    OBVIOUS
  <2>2. ASSUME NEW i \in 1..n, "Closed" = Stages[i] PROVE n = 6
    <3>1. i = 6
      BY TheStages, <1>4, <2>2
    <3> QED
      BY <3>1
  <2> QED
    BY TheStages, <2>1, <2>2
<1> QED
  BY <1>3, <1>5, <1>6 DEF p

\* The row of a request rejected by its department head: it ends after that approval.
LEMMA RejectedRow ==
  LET p == <<"Draft", "SM Approval", "Dept. Head Approval", "Closed">> IN
  "QA Activity" \notin RowOf(p) /\ "Closed" \in RowOf(p)
<1> DEFINE p == <<"Draft", "SM Approval", "Dept. Head Approval", "Closed">>
<1>1. /\ DOMAIN p = 1..4 /\ p[1] = "Draft" /\ p[2] = "SM Approval"
      /\ p[3] = "Dept. Head Approval" /\ p[4] = "Closed"
  OBVIOUS
<1> HIDE DEF p
<1>2. \A i \in 1..4 : i = 1 \/ i = 2 \/ i = 3 \/ i = 4
  OBVIOUS
<1>3. \A i \in DOMAIN p : p[i] # "QA Activity"
  BY <1>1, <1>2
<1>4. 4 \in DOMAIN p
  <2>1. 4 \in 1..4
    OBVIOUS
  <2> QED
    BY <1>1, <2>1
<1> QED
  BY <1>1, <1>3, <1>4 DEF RowOf, p

\* "QA Activity" is painted for the statuses behind the department head's approval, and
\* "Closed" for the two at which a request ends.
LEMMA PaintedIs ==
  ASSUME NEW r \in Requests, fstatus[r] \in FunctionalStatus
  PROVE  /\ "QA Activity" \in PaintedStages(r) <=> fstatus[r] \in HeadApproved
         /\ "Closed" \in PaintedStages(r) <=> fstatus[r] \in {"CLOSED", "DEPARTMENT_HEAD_REJECTED"}
<1> DEFINE s == fstatus[r]
<1>0. PaintedStages(r) = RowOf(Painted(s))
  BY DEF PaintedStages, RowOf
<1>1. CASE s \in {"RETURNED_BY_SM", "SM_REJECTED"}
  <2>1. Painted(s) = SubSeq(Stages, 1, 2) /\ s \notin HeadApproved
    BY <1>1 DEF Painted, HeadApproved, Ready, Executing, Finished
  <2>2. /\ "QA Activity" \notin RowOf(SubSeq(Stages, 1, 2))
        /\ "Closed" \notin RowOf(SubSeq(Stages, 1, 2))
    <3>1. 2 \in 1..6 /\ ~(2 >= 4) /\ 2 # 6
      OBVIOUS
    <3> QED
      BY <3>1, RowHolds, Zenon
  <2> QED
    BY <1>0, <1>1, <2>1, <2>2
<1>2. CASE s = "RETURNED_BY_DEPARTMENT_HEAD"
  <2>1. Painted(s) = SubSeq(Stages, 1, 3) /\ s \notin HeadApproved
    BY <1>2 DEF Painted, HeadApproved, Ready, Executing, Finished
  <2>2. /\ "QA Activity" \notin RowOf(SubSeq(Stages, 1, 3))
        /\ "Closed" \notin RowOf(SubSeq(Stages, 1, 3))
    <3>1. 3 \in 1..6 /\ ~(3 >= 4) /\ 3 # 6
      OBVIOUS
    <3> QED
      BY <3>1, RowHolds, Zenon
  <2> QED
    BY <1>0, <1>2, <2>1, <2>2
<1>3. CASE s = "RETURNED_BY_QA_LEAD"
  <2>1. Painted(s) = SubSeq(Stages, 1, 4) /\ s \in HeadApproved
    BY <1>3 DEF Painted, HeadApproved
  <2>2. /\ "QA Activity" \in RowOf(SubSeq(Stages, 1, 4))
        /\ "Closed" \notin RowOf(SubSeq(Stages, 1, 4))
    <3>1. 4 \in 1..6 /\ (4 >= 4) /\ 4 # 6
      OBVIOUS
    <3> QED
      BY <3>1, RowHolds, Zenon
  <2> QED
    BY <1>0, <1>3, <2>1, <2>2
<1>4. CASE s = "DEPARTMENT_HEAD_REJECTED"
  <2>1. Painted(s) = <<"Draft", "SM Approval", "Dept. Head Approval", "Closed">> /\ s \notin HeadApproved
    BY <1>4 DEF Painted, HeadApproved, Ready, Executing, Finished
  <2> QED
    BY <1>0, <1>4, <2>1, RejectedRow
<1>5. CASE s \notin {"RETURNED_BY_SM", "SM_REJECTED", "RETURNED_BY_DEPARTMENT_HEAD",
                     "RETURNED_BY_QA_LEAD", "DEPARTMENT_HEAD_REJECTED"}
  <2>1. Painted(s) = SubSeq(Stages, 1, LifecycleStageIndex(s))
    BY <1>5 DEF Painted
  <2>2. /\ LifecycleStageIndex(s) \in 1..6
        /\ LifecycleStageIndex(s) >= 4 <=> s \in HeadApproved
        /\ LifecycleStageIndex(s) = 6 <=> s = "CLOSED"
    <3>1. CASE s \in {"DRAFT", "ABSENT"}
      BY <3>1 DEF LifecycleStageIndex, HeadApproved, Ready, Executing, Finished
    <3>2. CASE s = "SM_APPROVAL_PENDING"
      BY <3>2 DEF LifecycleStageIndex, HeadApproved, Ready, Executing, Finished
    <3>3. CASE s = "DEPARTMENT_HEAD_APPROVAL_PENDING"
      BY <3>3 DEF LifecycleStageIndex, HeadApproved, Ready, Executing, Finished
    <3>4. CASE s \in {"QA_LEAD_ASSIGNED", "READINESS_VERIFICATION", "QA_COMPLETED"}
                       \cup (Ready \ Finished)
      BY <3>4 DEF LifecycleStageIndex, HeadApproved, Ready, Executing, Finished
    <3>5. CASE s \in {"QA_SIGNOFF_PENDING", "REQUESTER_VERIFICATION"}
      BY <3>5 DEF LifecycleStageIndex, HeadApproved, Ready, Executing, Finished
    <3>6. CASE s = "CLOSED"
      BY <3>6 DEF LifecycleStageIndex, HeadApproved, Ready, Executing, Finished
    <3> QED
      BY <1>5, <3>1, <3>2, <3>3, <3>4, <3>5, <3>6 DEF FunctionalStatus, Submitting, HeadApproved,
                                                       Ready, Finished
  <2> QED
    BY <1>0, <1>5, <2>1, <2>2, RowHolds
<1> QED
  BY <1>1, <1>2, <1>3, <1>4, <1>5

\* The stepper paints as done what was done: the department head's approval stands behind
\* "QA Activity", a re-approval that is owed takes it away.
THEOREM StepperAlwaysTrue == FunctionalSpec => []StepperTellsTruth
<1>1. FTypeOK /\ (\A q \in Requests : FlowOf(q)) => StepperTellsTruth
  <2> SUFFICES ASSUME FTypeOK, \A q \in Requests : FlowOf(q), NEW r \in Requests
               PROVE  /\ "QA Activity" \in PaintedStages(r) =>
                           headId[r] # None /\ ~(owed[r] /\ fstatus[r] \in Submitting)
                      /\ fstatus[r] \in Ready => "QA Activity" \in PaintedStages(r)
                      /\ "Closed" \in PaintedStages(r) <=>
                           fstatus[r] \in {"CLOSED", "DEPARTMENT_HEAD_REJECTED"}
    BY DEF StepperTellsTruth
  <2>1. fstatus[r] \in FunctionalStatus
    BY DEF FTypeOK
  <2>2. fstatus[r] \in HeadApproved => fstatus[r] \notin Submitting /\ headId[r] # None
    BY DEF FlowOf, HeadApproved, Ready, Executing, Finished, Submitting
  <2>3. fstatus[r] \in Ready => fstatus[r] \in HeadApproved
    BY DEF HeadApproved
  <2>4. /\ "QA Activity" \in PaintedStages(r) <=> fstatus[r] \in HeadApproved
        /\ "Closed" \in PaintedStages(r) <=> fstatus[r] \in {"CLOSED", "DEPARTMENT_HEAD_REJECTED"}
    BY <2>1, PaintedIs
  <2>5. "QA Activity" \in PaintedStages(r) =>
           headId[r] # None /\ ~(owed[r] /\ fstatus[r] \in Submitting)
    BY <2>2, <2>4
  <2>6. fstatus[r] \in Ready => "QA Activity" \in PaintedStages(r)
    BY <2>3, <2>4
  <2>7. "Closed" \in PaintedStages(r) <=>
          fstatus[r] \in {"CLOSED", "DEPARTMENT_HEAD_REJECTED"}
    BY <2>4
  <2> QED
    BY <2>5, <2>6, <2>7
<1> QED
  BY <1>1, FTypeCorrect, FlowAlways, PTL

\* A request of this module is not yet up for clearance, and one in design or execution
\* has its testers.
Assigned == {"TESTER_ASSIGNED", "TEST_DESIGN"} \cup Executing

PlaceOf(q) ==
  /\ fstatus[q] \notin {"QA_SIGNOFF_PENDING", "REQUESTER_VERIFICATION", "CLOSED"}
  /\ fstatus[q] \in Assigned => testers[q] # {}

\* A team has somebody in it.
LEMMA TeamsAreManned == ASSUME NEW T \in TesterTeams PROVE T # {}
  BY DEF TesterTeams

\* A synchronisation with a cycle moves a request within its execution.
LEMMA SyncedPlace ==
  ASSUME FTypeOK, NEW y, NEW l, NEW s, NEW q \in Requests
  PROVE  \/ Synced(y, l, s)[q] = fstatus[q]
         \/ fstatus[q] \in Executing /\ Synced(y, l, s)[q] \in Executing
  BY DEF FTypeOK, Synced, Executing

\* One step keeps it of every request.
LEMMA PlaceStep ==
  ASSUME FTypeOK, [FunctionalNext]_functionalVars, NEW q \in Requests, PlaceOf(q) PROVE PlaceOf(q)'
<1> USE DEF FTypeOK, PlaceOf, Assigned, Executing
<1>1. CASE UNCHANGED functionalVars
  BY <1>1 DEF functionalVars, testing, cycles
<1>2. ASSUME NEW r \in Requests, Raise(r) PROVE PlaceOf(q)'
  BY <1>2 DEF Raise, Moves, AtSM, cycles
<1>3. ASSUME NEW r \in Requests, NameDecided(r) PROVE PlaceOf(q)'
  BY <1>3 DEF NameDecided, cycles
<1>4. ASSUME NEW r \in Requests, NEW u \in Users, Submit(r, u) PROVE PlaceOf(q)'
  BY <1>4 DEF Submit, OnlyMoves, Moves, AtSM, testing, cycles
<1>5. ASSUME NEW r \in Requests, NEW u \in Users, Resubmit(r, u) PROVE PlaceOf(q)'
  BY <1>5 DEF Resubmit, Moves, ReturnsTo, PastReadinessReturn, AtSM, testing, cycles
<1>6. ASSUME NEW r \in Requests, NEW u \in Users, SMDecision(r, u) PROVE PlaceOf(q)'
  BY <1>6 DEF SMDecision, SMVerdicts, OnlyMoves, Moves, testing, cycles
<1>7. ASSUME NEW r \in Requests, NEW u \in Users, DepartmentHeadDecision(r, u) PROVE PlaceOf(q)'
  BY <1>7 DEF DepartmentHeadDecision, HeadVerdicts, Moves, cycles
<1>8. ASSUME NEW r \in Requests, NEW u \in Users, UpdateFunctional(r, u) PROVE PlaceOf(q)'
  BY <1>8 DEF UpdateFunctional, cycles
<1>9. ASSUME NEW r \in Requests, NEW u \in Users, Delegate(r, u) PROVE PlaceOf(q)'
  BY <1>9 DEF Delegate, cycles
<1>10. ASSUME NEW r \in Requests, NEW u \in Users, EndDelegation(r, u) PROVE PlaceOf(q)'
  BY <1>10 DEF EndDelegation, cycles
<1>11. ASSUME NEW r \in Requests, NEW u \in Users, StartReadinessVerification(r, u) PROVE PlaceOf(q)'
  BY <1>11 DEF StartReadinessVerification, OnlyMoves, Moves, testing, cycles
<1>12. ASSUME NEW r \in Requests, NEW u \in Users, UpdateChecklistItem(r, u) PROVE PlaceOf(q)'
  BY <1>12 DEF UpdateChecklistItem, cycles
<1>13. ASSUME NEW r \in Requests, NEW u \in Users, ReadinessDecision(r, u) PROVE PlaceOf(q)'
  BY <1>13 DEF ReadinessDecision, OnlyMoves, Moves, testing, cycles
<1>14. ASSUME NEW r \in Requests, NEW u \in Users, BeginPlanning(r, u) PROVE PlaceOf(q)'
  BY <1>14 DEF BeginPlanning, OnlyMoves, Moves, testing, cycles
<1>15. ASSUME NEW r \in Requests, NEW u \in Users, AssignTester(r, u) PROVE PlaceOf(q)'
  <2>1. PICK T \in TesterTeams : testers' = [testers EXCEPT ![r] = T]
    BY <1>15 DEF AssignTester
  <2>2. T # {}
    BY <2>1, TeamsAreManned
  <2>3. testers'[r] # {} /\ (q # r => testers'[q] = testers[q])
    BY <2>1, <2>2
  <2>4. q # r => fstatus'[q] = fstatus[q]
    BY <1>15 DEF AssignTester
  <2>5. fstatus'[r] \in {fstatus[r], "TESTER_ASSIGNED"}
    BY <1>15 DEF AssignTester
  <2> QED
    BY <2>3, <2>4, <2>5
<1>16. ASSUME NEW r \in Requests, NEW u \in Users, StartTestDesign(r, u) PROVE PlaceOf(q)'
  BY <1>16 DEF StartTestDesign, CanDesign, Works, OnlyMoves, Moves, testing, cycles
<1>17. ASSUME NEW r \in Requests, NEW u \in Users, StartExecution(r, u) PROVE PlaceOf(q)'
  BY <1>17 DEF StartExecution, CanExecute, WorksOrLeads, Moves, testing
<1>18. ASSUME NEW r \in Requests, NEW u \in Users, RaiseDefect(r, u) PROVE PlaceOf(q)'
  BY <1>18 DEF RaiseDefect, CanRaiseDefect, Works, OnlyMoves, Moves, testing, cycles
<1>19. ASSUME NEW r \in Requests, NEW u \in Users, MarkWaitingForFix(r, u) PROVE PlaceOf(q)'
  BY <1>19 DEF MarkWaitingForFix, CanWait, Works, testing, cycles
<1>20. ASSUME NEW r \in Requests, NEW u \in Users, StartRetesting(r, u) PROVE PlaceOf(q)'
  BY <1>20 DEF StartRetesting, CanRetest, WorksOrLeads, OnlyMoves, Moves, testing, cycles
<1>21. ASSUME NEW r \in Requests, NEW u \in Users, CompleteQA(r, u) PROVE PlaceOf(q)'
  BY <1>21 DEF CompleteQA, OnlyMoves, Moves, testing, cycles
<1>22. ASSUME NEW r \in Requests, NEW u \in Users, UnlinkTestCycle(r, u) PROVE PlaceOf(q)'
  BY <1>22 DEF UnlinkTestCycle, testing
<1>23. ASSUME NEW y \in Cycles, CreateCycle(y) PROVE PlaceOf(q)'
  BY <1>23 DEF CreateCycle, testing
<1>24. ASSUME NEW y \in Cycles, UnlinkCycleRequest(y) PROVE PlaceOf(q)'
  BY <1>24 DEF UnlinkCycleRequest, testing
<1>25. ASSUME NEW y \in Cycles, DeleteCycle(y) PROVE PlaceOf(q)'
  BY <1>25 DEF DeleteCycle, testing
<1>26. ASSUME NEW y \in Cycles, NEW s \in CycleStatus, NEW l \in Linkable, UpdateCycle(y, s, l)
       PROVE  PlaceOf(q)'
  BY <1>26, SyncedPlace DEF UpdateCycle, testing
<1> QED
  BY FunctionalSteps, <1>1, <1>2, <1>3, <1>4, <1>5, <1>6, <1>7, <1>8, <1>9, <1>10, <1>11, <1>12,
     <1>13, <1>14, <1>15, <1>16, <1>17, <1>18, <1>19, <1>20, <1>21, <1>22, <1>23, <1>24, <1>25, <1>26

\* The department and QA are staffed: each request has an SM and a department head other
\* than its requester, QA has a lead, and an administrator who belongs to it is one of
\* its engineers (who tests a request is called "QA Engineer" in the column).
Staffed ==
  /\ \A r \in Requests : \E u \in SMs : NotRequester(u, Requester[r])
  /\ \A r \in Requests : \E u \in DeptHeads : NotRequester(u, Requester[r])
  /\ \E u \in QALeads : InQA(u)
  /\ Admins \cap QAStaff \subseteq Engineers

\* At each status of a request, somebody it is pending with has a button for it.
LEMMA SomebodyActs ==
  ASSUME Staffed, FTypeOK, NEW r \in Requests, PlaceOf(r),
         PendingWith(r) # {}, OpenLinkedCycles(r) = {},
         fstatus[r] \notin {"DEFECT_RAISED", "WAITING_FOR_FIX"}
  PROVE  \E u \in PendingWith(r) : TakesOn(r, u)
<1>1. CASE fstatus[r] \in WithRequester
  <2>1. PendingWith(r) = {Requester[r]}
    BY <1>1 DEF PendingWith, WithRequester
  <2>2. \/ ShowsSubmit(r, Requester[r]) \/ ShowsResubmit(r, Requester[r])
        \/ ShowsRecall(r, Requester[r])
    BY <1>1 DEF ShowsSubmit, ShowsResubmit, ShowsRecall, OwnedBy
  <2> QED
    BY <2>1, <2>2 DEF TakesOn
<1>2. CASE fstatus[r] = "SM_APPROVAL_PENDING"
  <2>1. PICK u \in SMs : NotRequester(u, Requester[r])
    BY DEF Staffed
  <2>2. PendingWith(r) = SMs
    BY <1>2 DEF PendingWith, WithRequester
  <2>3. DecisionButtons(r, u) # {}
    <3>1. ShowsSMDecision(r, u)
      BY <1>2, <2>1 DEF ShowsSMDecision, HasRole, IsSelfApproval, NotRequester
    <3> QED
      BY <3>1 DEF DecisionButtons
  <2> QED
    BY <2>1, <2>2, <2>3 DEF TakesOn
<1>3. CASE fstatus[r] = "DEPARTMENT_HEAD_APPROVAL_PENDING"
  <2>1. PICK u \in DeptHeads : NotRequester(u, Requester[r])
    BY DEF Staffed
  <2>2. PendingWith(r) = DeptHeads
    BY <1>3 DEF PendingWith, WithRequester
  <2>3. DecisionButtons(r, u) # {}
    <3>1. ShowsDepartmentHeadDecision(r, u) /\ ~ShowsSMDecision(r, u)
      BY <1>3, <2>1 DEF ShowsSMDecision, ShowsDepartmentHeadDecision, HasRole, IsSelfApproval,
                        NotRequester
    <3> QED
      BY <3>1 DEF DecisionButtons
  <2> QED
    BY <2>1, <2>2, <2>3 DEF TakesOn
<1>4. CASE fstatus[r] \in {"QA_LEAD_ASSIGNED", "READINESS_VERIFICATION", "QA_ACTIVITY_INITIATED",
                           "PLANNING", "QA_COMPLETED"}
  <2>1. PICK u \in QALeads : InQA(u)
    BY DEF Staffed
  <2>2. PendingWith(r) = QALeads
    BY <1>4 DEF PendingWith, WithRequester
  <2>3. IsAssignedQALead(u)
    BY DEF IsAssignedQALead, HasRole, LeadGroup
  <2>4. \/ ShowsStartReadiness(r, u) \/ ReadinessFailedAnswers(r, u) # {}
        \/ ShowsBeginPlanning(r, u) \/ (fstatus[r] = "PLANNING" /\ ShowsAssignTester(r, u))
        \/ ShowsRequestSignoff(r, u)
    BY <1>4, <2>1, <2>3 DEF ShowsStartReadiness, ReadinessFailedAnswers, ShowsReadinessDecision,
         ShowsBeginPlanning, ShowsAssignTester, TesterReassignable, ShowsRequestSignoff
  <2> QED
    BY <2>1, <2>2, <2>4 DEF TakesOn
<1>5. CASE fstatus[r] \in {"TESTER_ASSIGNED", "TEST_DESIGN", "EXECUTION_IN_PROGRESS", "RETESTING"}
  <2>1. PICK u : u \in testers[r]
    BY <1>5 DEF PlaceOf, Assigned, Executing
  <2>2. u \in Engineers
    BY <2>1 DEF FTypeOK, Assignable, HasRole, Staffed
  <2>3. PendingWith(r) = Engineers
    BY <1>5 DEF PendingWith, WithRequester
  <2>4. ShowsStartTestDesign(r, u) \/ ShowsStartExecution(r, u) \/ ShowsCompleteQA(r, u)
    BY <1>5, <2>1, <2>2 DEF ShowsStartTestDesign, ShowsStartExecution, ShowsCompleteQA,
                            IsAssignedTester
  <2> QED
    BY <2>2, <2>3, <2>4 DEF TakesOn
<1>6. CASE fstatus[r] \in {"ABSENT", "DEPARTMENT_HEAD_REJECTED"}
  BY <1>6 DEF PendingWith, WithRequester
<1> QED
  BY <1>1, <1>2, <1>3, <1>4, <1>5, <1>6 DEF FTypeOK, PlaceOf, FunctionalStatus, Submitting,
       HeadApproved, Ready, Executing, Finished, WithRequester

\* Where there are people to act, one of those a request is said to be pending with can
\* take it on, in every state in which it waits for a click of theirs.
THEOREM PendingAlwaysActs ==
  ASSUME Staffed PROVE FunctionalSpec => []PendingWithActs
<1>1. FunctionalInit => \A q \in Requests : PlaceOf(q)
  BY DEF FunctionalInit, PlaceOf, Assigned, Executing
<1>2. FTypeOK /\ (\A q \in Requests : PlaceOf(q)) /\ [FunctionalNext]_functionalVars
      => (\A q \in Requests : PlaceOf(q))'
  BY PlaceStep
<1>3. FTypeOK /\ (\A q \in Requests : PlaceOf(q)) => PendingWithActs
  BY SomebodyActs DEF PendingWithActs
<1> QED
  BY <1>1, <1>2, <1>3, FTypeCorrect, PTL DEF FunctionalSpec

\* The page of a request, the column "Pending With" and the list of pending approvals
\* agree with the server on every request.
THEOREM RequestPageAlwaysAgrees ==
  ASSUME Staffed PROVE FunctionalSpec => []RequestPageAgrees
<1>1. OffersAreAccepted /\ PendingWithActs /\ PendingListIsExact /\ StepperTellsTruth
      => RequestPageAgrees
  BY DEF RequestPageAgrees
<1> QED
  BY <1>1, OffersAlwaysAccepted, PendingListAlwaysExact, StepperAlwaysTrue, PendingAlwaysActs, PTL

----------------------------------------------------------------------------
(* The certificate's own specification. *)

\* Every step is one of these.
LEMMA SignOffSteps ==
  ASSUME [SignOffNext]_signOffVars
  PROVE  \/ UNCHANGED signOffVars
         \/ \E c \in Certs, u \in Users, r \in Subjects \cup {None} : CreateSignoff(c, u, r)
         \/ \E c \in Certs, u \in Users : UpdateSignoff(c, u)
         \/ \E c \in Certs, u \in Users : SubmitSignoff(c, u)
         \/ \E c \in Certs, u \in Users : ResubmitSignoff(c, u)
         \/ \E c \in Certs, u \in Users : QALeadDecision(c, u)
         \/ \E c \in Certs, u \in Users : ExecutiveIssues(c, u)
         \/ \E c \in Certs, u \in Users : ExecutiveSendsBack(c, u)
         \/ \E c \in Certs : ReturnedByRequester(c)
  BY DEF SignOffNext, CertificateStep

----------------------------------------------------------------------------
\* Every reachable state has its type, and a certificate that exists was raised by
\* somebody.
THEOREM STypeCorrect == SignOffSpec => []STypeOK
<1>1. SignOffInit => STypeOK
  BY SignOffAssumption, StaffAssumption DEF SignOffInit, STypeOK, CertStatus, Someone
<1>2. STypeOK /\ [SignOffNext]_signOffVars => STypeOK'
  <2> SUFFICES ASSUME STypeOK, [SignOffNext]_signOffVars PROVE STypeOK'
    OBVIOUS
  <2> USE StaffAssumption, SignOffAssumption DEF STypeOK, Someone
  <2>1. ASSUME NEW c \in Certs, NEW s \in CertStatus \ {"ABSENT"},
               certStatus[c] # "ABSENT", Passes(c, s), UNCHANGED <<text, certBy>>
        PROVE  /\ certStatus' \in [Certs -> CertStatus]
               /\ seen' \in [Certs -> Texts \cup {None}]
               /\ \A d \in Certs : certStatus'[d] = "ABSENT" <=> certBy'[d] = None
    <3>1. certStatus' = [certStatus EXCEPT ![c] = s]
      BY <2>1 DEF Passes
    <3>2. seen' \in {seen, [seen EXCEPT ![c] = text[c]]}
      BY <2>1 DEF Passes
    <3> QED
      BY <2>1, <3>1, <3>2
  <2>2. CASE UNCHANGED signOffVars
    BY <2>2 DEF signOffVars
  <2>3. ASSUME NEW c \in Certs, NEW u \in Users, NEW r \in Subjects \cup {None},
               CreateSignoff(c, u, r)
        PROVE  STypeOK'
    BY <2>3 DEF CreateSignoff, MayCertify, CertStatus, Editable
  <2>4. ASSUME NEW c \in Certs, NEW u \in Users, UpdateSignoff(c, u) PROVE STypeOK'
    <3>1. PICK t \in Texts : text' = [text EXCEPT ![c] = t]
      BY <2>4 DEF UpdateSignoff
    <3>2. seen' \in {seen, [seen EXCEPT ![c] = text'[c]]}
      BY <2>4 DEF UpdateSignoff
    <3> QED
      BY <2>4, <3>1, <3>2 DEF UpdateSignoff
  <2>5. ASSUME NEW c \in Certs, NEW u \in Users, SubmitSignoff(c, u) PROVE STypeOK'
    BY <2>1, <2>5 DEF SubmitSignoff, CanSubmitSignoff, CertStatus
  <2>6. ASSUME NEW c \in Certs, NEW u \in Users, ResubmitSignoff(c, u) PROVE STypeOK'
    BY <2>1, <2>6 DEF ResubmitSignoff, Editable, CanResubmitSignoff, CertStatus
  <2>7. ASSUME NEW c \in Certs, NEW u \in Users, QALeadDecision(c, u) PROVE STypeOK'
    BY <2>1, <2>7 DEF QALeadDecision, QALeadVerdicts, CanQALeadDecide, CertStatus, Editable
  <2>8. ASSUME NEW c \in Certs, NEW u \in Users, ExecutiveIssues(c, u) PROVE STypeOK'
    BY <2>1, <2>8 DEF ExecutiveIssues, CanExecutiveDecide, CertStatus
  <2>9. ASSUME NEW c \in Certs, NEW u \in Users, ExecutiveSendsBack(c, u) PROVE STypeOK'
    BY <2>1, <2>9 DEF ExecutiveSendsBack, CanExecutiveDecide, SentBack, CertStatus, Editable
  <2>10. ASSUME NEW c \in Certs, ReturnedByRequester(c) PROVE STypeOK'
    BY <2>1, <2>10 DEF ReturnedByRequester, CertStatus, Editable
  <2> QED
    BY SignOffSteps, <2>2, <2>3, <2>4, <2>5, <2>6, <2>7, <2>8, <2>9, <2>10
<1> QED
  BY <1>1, <1>2, PTL DEF SignOffSpec

----------------------------------------------------------------------------
(* Four eyes. The certificate may leave its review and come back, so the    *)
(* separation has to hold of the last reviewer at every status, not only at *)
(* ISSUED.                                                                  *)

Reviewed == {"DEPT_HEAD_QA_APPROVAL_PENDING", "RETURNED_BY_DEPT_HEAD_COE",
             "DEPT_HEAD_COE_REJECTED", "ISSUED"}

EyesOf(c) ==
  /\ certStatus[c] = "ABSENT" => reviewedBy[c] = None
  /\ certStatus[c] \in Reviewed => reviewedBy[c] # None
  /\ reviewedBy[c] \in {None} \cup Admins \/ reviewedBy[c] # certBy[c]
  /\ certStatus[c] = "ISSUED" =>
       /\ approvedBy[c] # None
       /\ approvedBy[c] \in Admins \/ approvedBy[c] \notin {certBy[c], reviewedBy[c]}

EyesInv == \A c \in Certs : EyesOf(c)

\* Whoever raised, whoever approved and whoever issued an issued certificate are
\* three people, admins excepted, however many roles each of them has.
THEOREM FourEyesAlways == SignOffSpec => []FourEyes
<1>1. SignOffInit => EyesInv
  BY DEF SignOffInit, EyesInv, EyesOf, Reviewed
<1>2. STypeOK /\ EyesInv /\ [SignOffNext]_signOffVars => EyesInv'
  <2> SUFFICES ASSUME STypeOK, EyesInv, [SignOffNext]_signOffVars, NEW d \in Certs
               PROVE  EyesOf(d)'
    BY DEF EyesInv
  <2> USE StaffAssumption DEF STypeOK, EyesInv, EyesOf, Someone
  <2>1. CASE UNCHANGED signOffVars
    BY <2>1 DEF signOffVars
  <2>2. ASSUME NEW c \in Certs, NEW u \in Users, NEW r \in Subjects \cup {None},
               CreateSignoff(c, u, r)
        PROVE  EyesOf(d)'
    BY <2>2 DEF CreateSignoff, MayCertify, Reviewed
  <2>3. ASSUME NEW c \in Certs, NEW u \in Users, UpdateSignoff(c, u) PROVE EyesOf(d)'
    BY <2>3 DEF UpdateSignoff
  <2>4. ASSUME NEW c \in Certs, NEW u \in Users, SubmitSignoff(c, u) PROVE EyesOf(d)'
    BY <2>4 DEF SubmitSignoff, CanSubmitSignoff, Passes, Reviewed
  <2>5. ASSUME NEW c \in Certs, NEW u \in Users, ResubmitSignoff(c, u) PROVE EyesOf(d)'
    BY <2>5 DEF ResubmitSignoff, Editable, CanResubmitSignoff, Passes, Reviewed
  <2>6. ASSUME NEW c \in Certs, NEW u \in Users, QALeadDecision(c, u) PROVE EyesOf(d)'
    BY <2>6 DEF QALeadDecision, QALeadVerdicts, CanQALeadDecide, Passes, Reviewed, NotRequester
  <2>7. ASSUME NEW c \in Certs, NEW u \in Users, ExecutiveIssues(c, u) PROVE EyesOf(d)'
    BY <2>7 DEF ExecutiveIssues, CanExecutiveDecide, Passes, Reviewed, NotRequester
  <2>8. ASSUME NEW c \in Certs, NEW u \in Users, ExecutiveSendsBack(c, u) PROVE EyesOf(d)'
    BY <2>8 DEF ExecutiveSendsBack, CanExecutiveDecide, SentBack, Passes, Reviewed
  <2>9. ASSUME NEW c \in Certs, ReturnedByRequester(c) PROVE EyesOf(d)'
    BY <2>9 DEF ReturnedByRequester, Passes, Reviewed
  <2> QED
    BY SignOffSteps, <2>1, <2>2, <2>3, <2>4, <2>5, <2>6, <2>7, <2>8, <2>9
<1>3. EyesInv => FourEyes
  BY DEF EyesInv, EyesOf, FourEyes, Reviewed
<1> QED
  BY <1>1, <1>2, <1>3, STypeCorrect, PTL DEF SignOffSpec

----------------------------------------------------------------------------
(* Issued as seen. *)

\* What the executives have before them, or have issued, is what went to them, or
\* what an admin wrote since.
THEOREM IssuedAsSeenAlways == SignOffSpec => []IssuedAsSeen
<1>1. SignOffInit => IssuedAsSeen
  BY DEF SignOffInit, IssuedAsSeen
<1>2. STypeOK /\ IssuedAsSeen /\ [SignOffNext]_signOffVars => IssuedAsSeen'
  <2> SUFFICES ASSUME STypeOK, IssuedAsSeen, [SignOffNext]_signOffVars, NEW d \in Certs,
                      certStatus'[d] \in {"DEPT_HEAD_QA_APPROVAL_PENDING", "ISSUED"}
               PROVE  text'[d] = seen'[d]
    BY DEF IssuedAsSeen
  <2> USE DEF STypeOK, IssuedAsSeen
  <2>1. CASE UNCHANGED signOffVars
    BY <2>1 DEF signOffVars
  <2>2. ASSUME NEW c \in Certs, NEW u \in Users, NEW r \in Subjects \cup {None},
               CreateSignoff(c, u, r)
        PROVE  text'[d] = seen'[d]
    BY <2>2 DEF CreateSignoff, MayCertify
  <2>3. ASSUME NEW c \in Certs, NEW u \in Users, UpdateSignoff(c, u)
        PROVE  text'[d] = seen'[d]
    BY <2>3 DEF UpdateSignoff, CanUpdate, Editable
  <2>4. ASSUME NEW c \in Certs, NEW u \in Users, SubmitSignoff(c, u)
        PROVE  text'[d] = seen'[d]
    BY <2>4 DEF SubmitSignoff, CanSubmitSignoff, Passes
  <2>5. ASSUME NEW c \in Certs, NEW u \in Users, ResubmitSignoff(c, u)
        PROVE  text'[d] = seen'[d]
    BY <2>5 DEF ResubmitSignoff, Editable, CanResubmitSignoff, Passes
  <2>6. ASSUME NEW c \in Certs, NEW u \in Users, QALeadDecision(c, u)
        PROVE  text'[d] = seen'[d]
    BY <2>6 DEF QALeadDecision, QALeadVerdicts, CanQALeadDecide, Passes
  <2>7. ASSUME NEW c \in Certs, NEW u \in Users, ExecutiveIssues(c, u)
        PROVE  text'[d] = seen'[d]
    BY <2>7 DEF ExecutiveIssues, CanExecutiveDecide, Passes
  <2>8. ASSUME NEW c \in Certs, NEW u \in Users, ExecutiveSendsBack(c, u)
        PROVE  text'[d] = seen'[d]
    BY <2>8 DEF ExecutiveSendsBack, CanExecutiveDecide, SentBack, Passes
  <2>9. ASSUME NEW c \in Certs, ReturnedByRequester(c) PROVE text'[d] = seen'[d]
    BY <2>9 DEF ReturnedByRequester, Passes
  <2> QED
    BY SignOffSteps, <2>1, <2>2, <2>3, <2>4, <2>5, <2>6, <2>7, <2>8, <2>9
<1> QED
  BY <1>1, <1>2, STypeCorrect, PTL DEF SignOffSpec

\* Every issued certificate is issued rightly.
THEOREM AlwaysIssuedRightly == SignOffSpec => []IssuedRightly
  BY FourEyesAlways, IssuedAsSeenAlways, PTL DEF IssuedRightly

----------------------------------------------------------------------------
(* The pages of a certificate. They agree with the server by their rules alone, in *)
(* every state.                                                                    *)

\* Its panels and their handlers have the same conditions, and the list of pending
\* approvals those of both.
LEMMA CertificateDecisions ==
  ASSUME NEW c \in Certs, NEW u \in Users
  PROVE  /\ \A s \in CertDecisionButtons(c, u) :
              \/ CanQALeadDecide(c, u) /\ s \in QALeadVerdicts
              \/ CanExecutiveDecide(c, u) /\ s \in {"ISSUED"} \cup SentBack
         /\ CertDecisionButtons(c, u) # {} <=> CanQALeadDecide(c, u) \/ CanExecutiveDecide(c, u)
         /\ PendingCertificate(c, u) <=> CanQALeadDecide(c, u) \/ CanExecutiveDecide(c, u)
<1>1. ShowsQALeadDecision(c, u) <=> CanQALeadDecide(c, u)
  BY DEF ShowsQALeadDecision, CanQALeadDecide, IsOwnCertificate, NotRequester
<1>2. ShowsExecutiveDecision(c, u) <=> CanExecutiveDecide(c, u)
  BY DEF ShowsExecutiveDecision, CanExecutiveDecide, IsOwnCertificate, IsPriorStageApprover,
         NotRequester
<1>3. ~(ShowsQALeadDecision(c, u) /\ ShowsExecutiveDecision(c, u))
  BY DEF ShowsQALeadDecision, ShowsExecutiveDecision
<1>4. CASE ShowsQALeadDecision(c, u)
  <2>1. CertDecisionButtons(c, u) = QALeadVerdicts
    BY <1>3, <1>4 DEF CertDecisionButtons, QALeadVerdicts
  <2> QED
    BY <1>1, <1>4, <2>1 DEF QALeadVerdicts, PendingCertificate, CanQALeadDecide
<1>5. CASE ShowsExecutiveDecision(c, u)
  <2>1. CertDecisionButtons(c, u) = {"ISSUED"} \cup SentBack
    BY <1>3, <1>5 DEF CertDecisionButtons
  <2> QED
    BY <1>2, <1>5, <2>1 DEF PendingCertificate, CanExecutiveDecide, NotRequester
<1>6. CASE ~ShowsQALeadDecision(c, u) /\ ~ShowsExecutiveDecision(c, u)
  <2>1. CertDecisionButtons(c, u) = {}
    BY <1>6 DEF CertDecisionButtons
  <2>2. ~PendingCertificate(c, u)
    BY <1>1, <1>2, <1>6 DEF PendingCertificate, CanQALeadDecide, CanExecutiveDecide, NotRequester
  <2> QED
    BY <1>1, <1>2, <1>6, <2>1, <2>2
<1> QED
  BY <1>4, <1>5, <1>6

\* The rest of what a certificate's page offers.
LEMMA CertificateCorrections ==
  ASSUME NEW c \in Certs, certStatus[c] # "ABSENT", NEW u \in Users
  PROVE  /\ ShowsCertSubmit(c, u)   => CanSubmitSignoff(c, u)
         /\ ShowsCertResubmit(c, u) => CanResubmitSignoff(c, u)
         /\ \A t \in TextChoices(c, u) : CanUpdate(c, u) /\ t \in Texts
         /\ ShowsCertUpload(c, u) => MayUploadToCertificate(c, u)
<1> USE DEF IsRaiser
<1>1. /\ ShowsCertSubmit(c, u)   => CanSubmitSignoff(c, u)
      /\ ShowsCertResubmit(c, u) => CanResubmitSignoff(c, u)
  BY DEF ShowsCertSubmit, CanSubmitSignoff, ShowsCertResubmit, CanResubmitSignoff, Raised, Editable
<1>2. \A t \in TextChoices(c, u) : CanUpdate(c, u) /\ t \in Texts
  BY DEF TextChoices, CanUpdate
<1>3. ShowsCertUpload(c, u) => MayUploadToCertificate(c, u)
  BY DEF ShowsCertUpload, MayUploadToCertificate, ShowsQALeadDecision, ShowsExecutiveDecision,
         IsPriorStageApprover
<1> QED
  BY <1>1, <1>2, <1>3

\* Whoever can open the form of a certificate may create one.
LEMMA CertificatesCreated == ASSUME NEW u \in Users, SubjectChoices(u) # {} PROVE MayCertify(u)
<1>1. PICK r \in Requests : ShowsNewCertificate(u) \/ ShowsRequestSignoff(r, u)
  BY DEF SubjectChoices
<1>2. CASE ShowsNewCertificate(u)
  BY <1>2 DEF ShowsNewCertificate, MayCertify, HasRole, InQA
<1>3. CASE ShowsRequestSignoff(r, u)
  BY <1>3 DEF ShowsRequestSignoff, IsAssignedTester, IsAssignedQALead, MayCertify, HasRole
<1> QED
  BY <1>1, <1>2, <1>3

LEMMA CertificatePagesAgree == CertificatePageAgrees
<1>1. \A r \in Requests, u \in Users :
        ShowsRequesterDecision(r, u) /\ OwnedBy(r, u) => CanVerdict(r, u)
  BY DEF ShowsRequesterDecision, CanVerdict
<1>2. CertificateOffersAreAccepted
  BY <1>1, CertificateDecisions, CertificateCorrections, CertificatesCreated
     DEF CertificateOffersAreAccepted
<1>3. PendingCertificatesAreExact
  BY CertificateDecisions DEF PendingCertificatesAreExact
<1> QED
  BY <1>2, <1>3 DEF CertificatePageAgrees

\* What the pages of a certificate offer is accepted, and the list of pending approvals
\* names it to exactly those who may decide: the maker-checker rules of the frontend and
\* of the two routers are the same.
THEOREM CertificatePageAlwaysAgrees == ClearanceSpec => []CertificatePageAgrees
  BY CertificatePagesAgree, PTL

----------------------------------------------------------------------------
(* The clearance. *)

Clearing == {"QA_SIGNOFF_PENDING"} \cup Cleared

\* Every step of the API is one of these.
LEMMA ClearanceSteps ==
  ASSUME [ClearanceNext]_clearanceVars
  PROVE  \/ UNCHANGED clearanceVars
         \/ FunctionalNext /\ UNCHANGED <<signOffVars, signoff>>
         \/ \E c \in Certs, u \in Users :
              CertificateStep(c, u) /\ UNCHANGED <<functionalVars, signoff>>
         \/ \E c \in Certs, u \in Users : Issue(c, u)
         \/ \E r \in Requests, u \in Users : Accept(r, u)
         \/ \E r \in Requests, u \in Users : RequireChanges(r, u)
         \/ \E c \in Certs, u \in Users, r \in Subjects \cup {None} :
              CreateSignoff(c, u, r) /\ UNCHANGED <<functionalVars, signoff>>
         \/ \E r \in Requests, u \in Users, c \in Certs \cup {None} : RequestSignoff(r, u, c)
         \/ \E r \in Requests, u \in Users, c \in Certs \cup {None} : ConfirmSignoff(r, u, c)
  BY DEF ClearanceNext, Apart, Together

----------------------------------------------------------------------------
(* Types: those of the requests, and that a link is to a certificate. *)

LinkType == signoff \in [Requests -> Certs \cup {None}]
RequestsTyped == FTypeOK /\ LinkType

LEMMA RequestsTypedStep ==
  ASSUME RequestsTyped, [ClearanceNext]_clearanceVars PROVE RequestsTyped'
<1> USE DEF RequestsTyped
<1>0. Clearing \subseteq FunctionalStatus
  BY DEF Clearing, Cleared, FunctionalStatus, HeadApproved, Ready, Finished
<1>1. CASE UNCHANGED clearanceVars
  BY <1>1, FTypeStep DEF clearanceVars, LinkType
<1>2. CASE FunctionalNext /\ UNCHANGED <<signOffVars, signoff>>
  BY <1>2, FTypeStep DEF LinkType
<1>3. CASE UNCHANGED <<functionalVars, signoff>>
  BY <1>3, FTypeStep DEF LinkType
<1>4. ASSUME NEW c \in Certs, NEW u \in Users, Issue(c, u) PROVE RequestsTyped'
  <2>1. fstatus' \in [Requests -> FunctionalStatus]
    BY <1>0, <1>4 DEF Issue, Released, FTypeOK, Clearing, Cleared
  <2> QED
    BY <1>4, <2>1 DEF Issue, FTypeOK, LinkType, testing, cycles
<1>5. ASSUME NEW r \in Requests, NEW u \in Users, Accept(r, u) PROVE RequestsTyped'
  BY <1>0, <1>5, OnlyMovesType DEF Accept, LinkType, Clearing, Cleared
<1>6. ASSUME NEW r \in Requests, NEW u \in Users, RequireChanges(r, u) PROVE RequestsTyped'
  BY <1>0, <1>6, OnlyMovesType DEF RequireChanges, LinkType, Clearing
<1>7. ASSUME NEW r \in Requests, NEW u \in Users, NEW c \in Certs \cup {None},
             RequestSignoff(r, u, c)
      PROVE  RequestsTyped'
  BY <1>0, <1>7, OnlyMovesType DEF RequestSignoff, Links, LinkType, Clearing
<1>8. ASSUME NEW r \in Requests, NEW u \in Users, NEW c \in Certs \cup {None},
             ConfirmSignoff(r, u, c)
      PROVE  RequestsTyped'
  BY <1>0, <1>8, OnlyMovesType DEF ConfirmSignoff, Links, LinkType, Clearing, Cleared
<1> QED
  BY ClearanceSteps, <1>1, <1>2, <1>3, <1>4, <1>5, <1>6, <1>7, <1>8

LEMMA RequestsTypedAlways == ClearanceSpec => []RequestsTyped
<1>1. ClearanceInit => RequestsTyped
  BY FTypeInit DEF ClearanceInit, RequestsTyped, LinkType
<1> QED
  BY <1>1, RequestsTypedStep, PTL DEF ClearanceSpec

----------------------------------------------------------------------------
(* Refinement. *)

\* Every step of the API is a step of a certificate or leaves them all alone.
LEMMA CertificateSteps ==
  ASSUME LinkType, [ClearanceNext]_clearanceVars PROVE [SignOffNext]_signOffVars
<1>1. CASE UNCHANGED clearanceVars
  BY <1>1 DEF clearanceVars
<1>2. ASSUME NEW c \in Certs, NEW u \in Users, CertificateStep(c, u) PROVE SignOffNext
  BY <1>2 DEF SignOffNext
<1>3. ASSUME NEW c \in Certs, NEW u \in Users, Issue(c, u) PROVE SignOffNext
  BY <1>3 DEF Issue, SignOffNext
<1>4. ASSUME NEW r \in Requests, NEW u \in Users, Accept(r, u) PROVE UNCHANGED signOffVars
  BY <1>4 DEF Accept, CanVerdict
<1>5. ASSUME NEW r \in Requests, NEW u \in Users, RequireChanges(r, u)
      PROVE  [SignOffNext]_signOffVars
  <2>1. signoff[r] \in Certs \cup {None}
    BY DEF LinkType
  <2> QED
    BY <1>5, <2>1 DEF RequireChanges, ReopensCertificate, SignOffNext
<1>6. ASSUME NEW c \in Certs, NEW u \in Users, NEW r \in Subjects \cup {None},
             CreateSignoff(c, u, r)
      PROVE  SignOffNext
  BY <1>6 DEF SignOffNext
<1>7. ASSUME NEW r \in Requests, NEW u \in Users, NEW c \in Certs \cup {None},
             RequestSignoff(r, u, c) \/ ConfirmSignoff(r, u, c)
      PROVE  UNCHANGED signOffVars
  BY <1>7 DEF RequestSignoff, ConfirmSignoff
<1> QED
  BY ClearanceSteps, <1>1, <1>2, <1>3, <1>4, <1>5, <1>6, <1>7

\* Whatever is done to requests through the API, their certificates behave as
\* SignOff specifies.
THEOREM RefinesSignOff == ClearanceSpec => SignOffSpec
<1>1. ClearanceInit => SignOffInit
  BY DEF ClearanceInit
<1>2. LinkType /\ [ClearanceNext]_clearanceVars => [SignOffNext]_signOffVars
  BY CertificateSteps
<1>3. RequestsTyped => LinkType
  BY DEF RequestsTyped
<1> QED
  BY <1>1, <1>2, <1>3, RequestsTypedAlways, PTL DEF ClearanceSpec, SignOffSpec

\* So an issued certificate is issued rightly there too.
THEOREM IssuedRightlyThroughTheAPI == ClearanceSpec => []IssuedRightly
  BY RefinesSignOff, AlwaysIssuedRightly, PTL

\* The pages do nothing the API does not allow.
THEOREM PortalUsesTheAPI == PortalSpec => ClearanceSpec
<1>1. PortalNext => ClearanceNext
  <2>1. ASSUME NEW r \in Requests, NEW u \in Users, NEW c \in Certs, NewCertificate(r, u, c)
        PROVE  ClearanceNext
    BY <2>1, ClearanceAssumption DEF NewCertificate, ClearanceNext
  <2>2. ASSUME NEW r \in Requests, NEW u \in Users, NEW c \in Certs, LinkCertificate(r, u, c)
        PROVE  ClearanceNext
    BY <2>2 DEF LinkCertificate, ClearanceNext
  <2> QED
    BY <2>1, <2>2 DEF PortalNext, ClearanceNext
<1> QED
  BY <1>1, PTL DEF PortalSpec, ClearanceSpec

----------------------------------------------------------------------------
(* In step. The certificate of a request has to be its own: if two requests *)
(* shared one, changes required by one would uncover the other.             *)

\* Request q is not in clearance, and does not get there; or stays as it is.
Aside(q) == fstatus'[q] = fstatus[q] \/ {fstatus[q], fstatus'[q]} \cap Clearing = {}

\* The handlers before QA Completed, and those of the cycles, never touch a request
\* in clearance.
LEMMA FunctionalAside ==
  ASSUME FTypeOK, FunctionalNext, NEW q \in Requests PROVE Aside(q)
<1> USE DEF FTypeOK, Aside, Clearing, Cleared
<1>1. ASSUME NEW r \in Requests, Raise(r) PROVE Aside(q)
  BY <1>1 DEF Raise, Moves, AtSM
<1>2. ASSUME NEW r \in Requests, NameDecided(r) PROVE Aside(q)
  BY <1>2 DEF NameDecided
<1>3. ASSUME NEW r \in Requests, NEW u \in Users, Submit(r, u) PROVE Aside(q)
  BY <1>3 DEF Submit, CanSubmit, OnlyMoves, Moves, AtSM
<1>4. ASSUME NEW r \in Requests, NEW u \in Users, Resubmit(r, u) PROVE Aside(q)
  BY <1>4 DEF Resubmit, CanResubmit, Moves, ReturnsTo, PastReadinessReturn, AtSM, WithRequester
<1>5. ASSUME NEW r \in Requests, NEW u \in Users, SMDecision(r, u) PROVE Aside(q)
  BY <1>5 DEF SMDecision, SMVerdicts, CanSMDecide, OnlyMoves, Moves
<1>6. ASSUME NEW r \in Requests, NEW u \in Users, DepartmentHeadDecision(r, u) PROVE Aside(q)
  BY <1>6 DEF DepartmentHeadDecision, HeadVerdicts, CanHeadDecide, Moves
<1>7. ASSUME NEW r \in Requests, NEW u \in Users, UpdateFunctional(r, u) PROVE Aside(q)
  BY <1>7 DEF UpdateFunctional
<1>8. ASSUME NEW r \in Requests, NEW u \in Users, Delegate(r, u) PROVE Aside(q)
  BY <1>8 DEF Delegate, CanDelegate
<1>9. ASSUME NEW r \in Requests, NEW u \in Users, EndDelegation(r, u) PROVE Aside(q)
  BY <1>9 DEF EndDelegation
<1>10. ASSUME NEW r \in Requests, NEW u \in Users, StartReadinessVerification(r, u) PROVE Aside(q)
  BY <1>10 DEF StartReadinessVerification, CanStartReadiness, OnlyMoves, Moves
<1>11. ASSUME NEW r \in Requests, NEW u \in Users, UpdateChecklistItem(r, u) PROVE Aside(q)
  BY <1>11 DEF UpdateChecklistItem, CanVerify
<1>12. ASSUME NEW r \in Requests, NEW u \in Users, ReadinessDecision(r, u) PROVE Aside(q)
  BY <1>12 DEF ReadinessDecision, CanVerify, OnlyMoves, Moves
<1>13. ASSUME NEW r \in Requests, NEW u \in Users, BeginPlanning(r, u) PROVE Aside(q)
  BY <1>13 DEF BeginPlanning, CanPlan, OnlyMoves, Moves
<1>14. ASSUME NEW r \in Requests, NEW u \in Users, AssignTester(r, u) PROVE Aside(q)
  BY <1>14 DEF AssignTester, CanAssignTester
<1>15. ASSUME NEW r \in Requests, NEW u \in Users, StartTestDesign(r, u) PROVE Aside(q)
  BY <1>15 DEF StartTestDesign, Works, CanDesign, OnlyMoves, Moves
<1>16. ASSUME NEW r \in Requests, NEW u \in Users, StartExecution(r, u) PROVE Aside(q)
  BY <1>16 DEF StartExecution, EligibleCycles, WorksOrLeads, CanExecute, Moves
<1>17. ASSUME NEW r \in Requests, NEW u \in Users, RaiseDefect(r, u) PROVE Aside(q)
  BY <1>17 DEF RaiseDefect, Works, CanRaiseDefect, OnlyMoves, Moves
<1>18. ASSUME NEW r \in Requests, NEW u \in Users, MarkWaitingForFix(r, u) PROVE Aside(q)
  BY <1>18 DEF MarkWaitingForFix, Works, CanWait
<1>19. ASSUME NEW r \in Requests, NEW u \in Users, StartRetesting(r, u) PROVE Aside(q)
  BY <1>19 DEF StartRetesting, WorksOrLeads, CanRetest, OnlyMoves, Moves
<1>20. ASSUME NEW r \in Requests, NEW u \in Users, CompleteQA(r, u) PROVE Aside(q)
  BY <1>20 DEF CompleteQA, Works, CanComplete, OnlyMoves, Moves
<1>21. ASSUME NEW r \in Requests, NEW u \in Users, UnlinkTestCycle(r, u) PROVE Aside(q)
  BY <1>21 DEF UnlinkTestCycle
<1>22. ASSUME NEW y \in Cycles, CreateCycle(y) \/ UnlinkCycleRequest(y) \/ DeleteCycle(y)
      PROVE  Aside(q)
  BY <1>22 DEF CreateCycle, UnlinkCycleRequest, DeleteCycle
<1>23. ASSUME NEW y \in Cycles, NEW s \in CycleStatus, NEW l \in Linkable, UpdateCycle(y, s, l)
      PROVE  Aside(q)
  BY <1>23 DEF UpdateCycle, Synced
<1> QED
  BY FunctionalSteps, <1>1, <1>2, <1>3, <1>4, <1>5, <1>6, <1>7, <1>8, <1>9, <1>10, <1>11, <1>12,
     <1>13, <1>14, <1>15, <1>16, <1>17, <1>18, <1>19, <1>20, <1>21, <1>22, <1>23

InStepOf(q) ==
  /\ fstatus[q] = "QA_SIGNOFF_PENDING" =>
       /\ signoff[q] \in Certs /\ certFor[signoff[q]] = q
       /\ certStatus[signoff[q]] \notin {"ABSENT", "ISSUED"}
  /\ fstatus[q] \in Cleared =>
       /\ signoff[q] \in Certs /\ certFor[signoff[q]] = q
       /\ certStatus[signoff[q]] = "ISSUED"

LEMMA InStepInit == ClearanceInit => \A q \in Requests : InStepOf(q)
  BY DEF ClearanceInit, FunctionalInit, InStepOf, Cleared

\* One step keeps it of all requests.
LEMMA InStepStep ==
  ASSUME RequestsTyped, STypeOK, \A q \in Requests : InStepOf(q), [PortalNext]_clearanceVars
  PROVE  \A q \in Requests : InStepOf(q)'
<1> SUFFICES ASSUME NEW q \in Requests PROVE InStepOf(q)'
  OBVIOUS
<1> USE SignOffAssumption, ClearanceAssumption
    DEF RequestsTyped, LinkType, FTypeOK, STypeOK, InStepOf, Cleared
<1>1. CASE UNCHANGED clearanceVars
  BY <1>1 DEF clearanceVars, functionalVars, signOffVars
<1>2. CASE FunctionalNext /\ UNCHANGED <<signOffVars, signoff>>
  BY <1>2, FunctionalAside DEF Aside, Clearing, signOffVars
<1>3. ASSUME NEW c \in Certs, NEW u \in Users, CertificateStep(c, u),
             UNCHANGED <<functionalVars, signoff>>
      PROVE  InStepOf(q)'
  <2>1. /\ certFor' = certFor
        /\ \A d \in Certs : \/ certStatus'[d] = certStatus[d]
                            \/ {certStatus[d], certStatus'[d]} \cap {"ABSENT", "ISSUED"} = {}
    BY <1>3 DEF CertificateStep, UpdateSignoff, SubmitSignoff, CanSubmitSignoff,
                ResubmitSignoff, Editable, CanResubmitSignoff, QALeadDecision, QALeadVerdicts,
                CanQALeadDecide, ExecutiveSendsBack, CanExecutiveDecide, SentBack, Passes
  <2> QED
    BY <1>3, <2>1 DEF functionalVars
<1>4. ASSUME NEW c \in Certs, NEW u \in Users, Issue(c, u) PROVE InStepOf(q)'
  BY <1>4 DEF Issue, ExecutiveIssues, CanExecutiveDecide, Passes, Released
<1>5. ASSUME NEW r \in Requests, NEW u \in Users, Accept(r, u) PROVE InStepOf(q)'
  BY <1>5 DEF Accept, CanVerdict, OnlyMoves, Moves, signOffVars
<1>6. ASSUME NEW r \in Requests, NEW u \in Users, RequireChanges(r, u) PROVE InStepOf(q)'
  <2>1. fstatus[r] = "REQUESTER_VERIFICATION"
    BY <1>6 DEF RequireChanges, CanVerdict, OnlyMoves, Moves
  <2>2. ReturnedByRequester(signoff[r]) /\ UNCHANGED signoff /\ signoff[r] \in Certs
    BY <1>6, <2>1 DEF RequireChanges, CanVerdict, ReopensCertificate
  <2>3. fstatus' = [fstatus EXCEPT ![r] = "QA_SIGNOFF_PENDING"]
    BY <1>6 DEF RequireChanges, CanVerdict, OnlyMoves, Moves
  <2> QED
    BY <2>1, <2>2, <2>3 DEF ReturnedByRequester, Passes
<1>7. ASSUME NEW r \in Requests, NEW u \in Users, NEW c \in Certs, NewCertificate(r, u, c)
      PROVE  InStepOf(q)'
  BY <1>7 DEF NewCertificate, CreateSignoff, MayCertify, functionalVars
<1>8. ASSUME NEW r \in Requests, NEW u \in Users, NEW c \in Certs, LinkCertificate(r, u, c)
      PROVE  InStepOf(q)'
  BY <1>8 DEF LinkCertificate, RequestSignoff, OnlyMoves, Moves, Links, signOffVars
<1> QED
  BY <1>1, <1>2, <1>3, <1>4, <1>5, <1>6, <1>7, <1>8 DEF PortalNext, Apart, Together

\* Through the pages, a request waits for clearance exactly while its certificate
\* is not issued and is cleared exactly while it is.
THEOREM InStepAlways == PortalSpec => []InStep
<1>1. RequestsTyped /\ STypeOK /\ (\A q \in Requests : InStepOf(q)) /\ [PortalNext]_clearanceVars
      => (\A q \in Requests : InStepOf(q))'
  BY InStepStep
<1>2. (\A q \in Requests : InStepOf(q)) => InStep
  BY DEF InStepOf, InStep
<1>3. PortalSpec => []RequestsTyped /\ []STypeOK
  BY PortalUsesTheAPI, RequestsTypedAlways, RefinesSignOff, STypeCorrect, PTL
<1> QED
  BY <1>1, <1>2, <1>3, InStepInit, PTL DEF PortalSpec

\* The same with a choice of the channel: as long as the pages are used, request and
\* certificate never part (the modal of Functional.tsx links what it has created).
THEOREM PagesStayInStep == ChannelSpec => []PagesKeepInStep
<1> DEFINE Stays == channel = "pages" => \A q \in Requests : InStepOf(q)
<1>1. ChannelInit => ClearanceInit /\ Stays
  BY InStepInit DEF ChannelInit
<1>2. [ChannelNext]_channelVars => [ClearanceNext]_clearanceVars
  <2>1. PagesStep => ClearanceNext
    BY ClearanceAssumption DEF PagesStep, NewCertificate, LinkCertificate, ClearanceNext
  <2>2. APIStep => ClearanceNext
    BY DEF APIStep, ClearanceNext
  <2> QED
    BY <2>1, <2>2 DEF ChannelNext, Both, ClearanceNext, channelVars
<1>3. [ChannelNext]_channelVars => UNCHANGED channel
  BY DEF ChannelNext, Both, APIStep, PagesStep, channelVars
<1>4. channel = "pages" /\ [ChannelNext]_channelVars => [PortalNext]_clearanceVars
  BY DEF ChannelNext, Both, APIStep, PagesStep, PortalNext, channelVars
<1>5. RequestsTyped /\ STypeOK /\ Stays /\ [ChannelNext]_channelVars => Stays'
  BY <1>3, <1>4, InStepStep
<1>6. Stays => PagesKeepInStep
  BY DEF InStepOf, InStep, PagesKeepInStep
<1>7. ChannelSpec => ClearanceSpec
  BY <1>1, <1>2, PTL DEF ChannelSpec, ClearanceSpec
<1>8. ChannelSpec => []RequestsTyped /\ []STypeOK
  BY <1>7, RequestsTypedAlways, RefinesSignOff, STypeCorrect, PTL
<1> QED
  BY <1>1, <1>5, <1>6, <1>8, PTL DEF ChannelSpec

=============================================================================
