--------------------------- MODULE ExecutionPage ---------------------------
(* What TestExecution.tsx offers on the cycles and slots of an active project, *)
(* and Defects.tsx on a defect, each on the records as they are, compared with *)
(* what the server accepts; and the one thing on these pages that outlives an  *)
(* answer: the quick panel of a row, which announces the attempt it will save. *)
EXTENDS Executions

CONSTANT Readers  \* the users whose quick panel is followed

VARIABLE panel    \* of a reader: None, or the row it was opened on and its run_version

ASSUME ReadersAssumption == Readers \subseteq Users

executionPageVars == <<cycle, slot, defect, approved, archived, panel>>

----------------------------------------------------------------------------
(* Cycles. *)

CanExec(u)                      == HasRole(u, Executors)
CanManageExecutionGovernance(u) == HasRole(u, LeadGroup)
CanManageRunners(u)             == CanExec(u) /\ InQA(u)
CycleIsLocked(k)                == cycle[k] \in Locking

ShowsDeleteCycle(u, k) == CanManageExecutionGovernance(u) /\ Exists(k) /\ ~CycleIsLocked(k)
ShowsAddCases(u, k)    == CanExec(u) /\ Exists(k) /\ ~CycleIsLocked(k)

\* CycleStatusControl: the buttons next to the status.
Actions(k) ==
  CASE cycle[k] = "Draft"       -> {"Ready"}
    [] cycle[k] = "Ready"       -> {"In Progress"}
    [] cycle[k] = "In Progress" -> {"Blocked", "Completed"}
    [] cycle[k] = "Blocked"     -> {"In Progress"}
    [] OTHER                    -> {}

\* The buttons of the dialog "Complete", whose defects are those of the cycle
\* (fewer than the hundred it loads).
Blockers(k)  == OpenDefects(k, TRUE)
Residual(k)  == OpenDefects(k, FALSE)
ExecutedCount(k)        == Cardinality({s \in SlotsOf(k) : Executed(s)})
CompleteEnabled(k)      == Blockers(k) = {} /\ ExecutedCount(k) = Cardinality(SlotsOf(k))

CycleButtons(u, k) ==
  IF CanExec(u) THEN {a \in Actions(k) : a = "Completed" => CompleteEnabled(k)} ELSE {}

\* AddCasesModal lists the approved test cases that the cycle lacks; what is
\* ticked, or everything but what is unticked again, is added.
Candidates(k) == {c \in Cases : ~InCycle(<<k, c>>) /\ VersionStatus(c, approved[c]) = "Approved"}
SelectionOf(k, selectAllMatching, ticked) ==
  IF selectAllMatching THEN Candidates(k) \ ticked ELSE Candidates(k) \cap ticked

----------------------------------------------------------------------------
(* Rows, and the modal of a row. *)

CanExecuteRow(u, s) ==
  CanExec(u) /\ cycle[s[1]] = "In Progress" /\ (u \in Admins \/ slot[s].runner = u)
CanSelectRow(u, s) == ~CycleIsLocked(s[1]) /\ (CanManageRunners(u) \/ CanExecuteRow(u, s))
RowSelections(u, k) == (SUBSET {s \in SlotsOf(k) : CanSelectRow(u, s)}) \ {{}}

RemoveFromCycleEligibility(u, s) ==
  \/ u \in Admins
  \/ ~Executed(s) /\ (CanManageExecutionGovernance(u) \/ slot[s].adder = u)

ShowsRemove(u, s)  == ~CycleIsLocked(s[1]) /\ RemoveFromCycleEligibility(u, s)
ShowsAssign(u, s)  == ~CycleIsLocked(s[1]) /\ CanManageRunners(u)
ShowsUpgrade(s)    == slot[s].pinned # approved[s[2]] /\ ~Executed(s)

\* RecordResultModal: read only for all but the runner, whatever the cycle's status.
ReadOnly(u, s) ==
  ~CanExec(u) \/ CycleIsLocked(s[1]) \/ (u \notin Admins /\ slot[s].runner # u)

HasRetestEligibleHistory(s) == FailedBefore(s)

\* executionStatusGate of constants.ts: any text will do for a key.
BugMirrorsTheFirstFailure(s, result, key) ==
  /\ ActiveDefects(s) = {}
  /\ result = "Retest Passed" => HasRetestEligibleHistory(s)
  /\ HasRetestEligibleHistory(s) => result \notin {"Pass", "NA"}
ExecutionStatusGate(s, result, key) ==
  /\ ActiveDefects(s) = {}
  /\ result = "Retest Passed" => HasRetestEligibleHistory(s)
  /\ HasRetestEligibleHistory(s) =>
       result \notin {"Pass", "NA"} /\ (result = "Fail" => key # None)

QuickOptions(u, s) ==
  IF CanExecuteRow(u, s) THEN {r \in Results : ExecutionStatusGate(s, r, None)} ELSE {}
ModalOptions(u, s, key) ==
  IF ReadOnly(u, s) THEN {} ELSE {r \in Results : ExecutionStatusGate(s, r, key)}
BulkOptions(u, S, key) ==
  {r \in Results : \A s \in S : CanExecuteRow(u, s) /\ ExecutionStatusGate(s, r, key)}

\* "Link external" and "Link existing" beside a row; the links of its history.
LatestCanLinkDefect(s) == Executed(s) /\ LastRun(s).result \in Failing /\ LastRun(s).key = None
ShowsLink(u, s)        == LatestCanLinkDefect(s) /\ CanExecuteRow(u, s)
LinkExisting           == {d \in Defects : StatusIn(d, Unresolved \cup {"Deferred"})}
DefectLinksWritable(u, s) == Executed(s) /\ LastRun(s).result \in Failing /\ ~ReadOnly(u, s)

\* MyExecutions.tsx, of the user signed in: the queue of the slots assigned to them
\* in the cycles under way, with a quick panel and "Link defect" of its own.
MyExecutions(u) ==
  {s \in Slots : InCycle(s) /\ cycle[s[1]] = "In Progress" /\ InQA(u) /\ slot[s].runner = u}
QuickResultActions(s) == {r \in Results : ExecutionStatusGate(s, r, None)}
QuickDefectLink(s)    == LatestCanLinkDefect(s)

----------------------------------------------------------------------------
(* A defect. *)

\* `manager`: give_final_approval is asked of the project of the linked execution.
Manager(u, d) ==
  HasRole(u, QALeads \cup (Executives \ AGMs)) \/ (u \in Executives /\ defect[d].home # None)
PageTester(u, d) == u \in {defect[d].tester, defect[d].reporter}
AssigneeOrDepartmentHead(u, d) ==
  defect[d].assignee # None /\ (u \in Admins \/ IsAssignee(u, d) \/ IsDepartmentHead(u, d))
CanReassignDefect(u, d) == StatusIn(d, Reassignable) /\ AssigneeOrDepartmentHead(u, d)
ShowsEdit(u, d)         == StatusIn(d, {"New"}) /\ (Manager(u, d) \/ defect[d].reporter = u)
ShowsSeverity(u, d)     == ShowsEdit(u, d) /\ Manager(u, d)
ShowsLinkExecution(d)   == defect[d].home = None

AllowedTransition(u, d, to) ==
  LET manager  == Manager(u, d)
      reporter == defect[d].reporter = u IN
  /\ <<defect[d].status, to>> \in Transitions
  /\ CASE to = "Triaged"      -> manager \/ HasRole(u, Engineers) \/ reporter
       [] to = "Assigned"     -> manager \/ HasRole(u, Engineers)
       [] to \in {"Rejected", "Duplicate"} -> manager \/ reporter \/ AssigneeOrDepartmentHead(u, d)
       [] to = "Not a Defect" -> manager \/ reporter
       [] to = "Deferred"     -> manager \/ HasRole(u, AppOwners)
       [] to \in {"In Progress", "Resolved"} -> manager \/ IsAssignee(u, d)
       [] to \in {"Retest", "Closed"}        -> manager \/ PageTester(u, d)
       [] to = "Reopened"     ->
            CASE StatusIn(d, {"Closed"})   -> HasRole(u, LeadGroup \ AGMs) \/ reporter
              [] StatusIn(d, {"Rejected"}) -> manager \/ reporter \/ AssigneeOrDepartmentHead(u, d)
              [] OTHER                     -> manager \/ PageTester(u, d)

----------------------------------------------------------------------------
(* The quick panel. *)

\* A row is replaced when it is reloaded; a row whose slot was removed is gone.
Unchanged == panel' = [u \in Readers |-> IF panel[u] # None /\ slot'[panel[u].slot] = None
                                         THEN None ELSE panel[u]]

PanelInit == panel = [u \in Readers |-> None]

ToggleRunPanel(u, s) ==
  /\ panel[u] = None /\ InCycle(s) /\ CanExecuteRow(u, s)
  /\ panel' = [panel EXCEPT ![u] = [slot |-> s, seen |-> Len(Runs(s))]]
  /\ UNCHANGED execVars

CloseOutside(u) ==
  panel[u] # None /\ panel' = [panel EXCEPT ![u] = None] /\ UNCHANGED execVars

\* saveResult: the options were those of the row as loaded, the server's answer
\* is about the slot as it is; a refusal leaves the panel open.
SaveResult(u, result) ==
  /\ panel[u] # None
  /\ Record(u, panel[u].slot, result, None, panel[u].seen)
  /\ panel' = [panel EXCEPT ![u] = None]

----------------------------------------------------------------------------
(* The dialogs and buttons, by what each sends; rows are reloaded after it. *)

CycleModal(u, k)  == CreateCycle(u, k) /\ Unchanged
DeleteButton(u, k) == DeleteCycle(u, k) /\ Unchanged

\* `transition`, for the status of the button or dialog.
TransitionCycle(u, k, status) ==
  /\ \/ status = "Ready" /\ MarkReady(u, k)
     \/ status = "In Progress" /\ (StartCycle(u, k) \/ Resume(u, k))
     \/ status = "Blocked" /\ Block(u, k)
     \/ status = "Completed" /\ Complete(u, k)
  /\ Unchanged

AddCasesModal(u, k) ==
  \E S \in SUBSET Cases, r \in Users \cup {None} : AddTestCases(u, k, S, r) /\ Unchanged

AssignRunner(u, s)         == (\E r \in Users \cup {None} : Assign(u, s, r)) /\ Unchanged
BulkAssignSelected(u, k)   == (\E S \in SUBSET Slots, r \in Users : BulkAssign(u, k, S, r)) /\ Unchanged
BulkRemoveModal(u, k)      == (\E S \in SUBSET Slots : BulkRemove(u, k, S)) /\ Unchanged
RemoveButton(u, s)         == Remove(u, s) /\ Unchanged
VersionUpgradeAction(u, s) == UpgradeVersion(u, s) /\ Unchanged

RecordResultModal(u, s) ==
  (\E r \in Results : \E key \in Keys(r) : RichRecord(u, s, r, key)) /\ Unchanged
BulkExecutionModal(u, k) ==
  (\E S \in SUBSET Slots, r \in Results : \E key \in Keys(r) : BulkRecord(u, k, S, r, key)) /\ Unchanged

\* The key is typed beside the row or in the history; on the server one route.
LinkDefect(u, s)              == (\E d \in Defects : LinkRun(u, s, d)) /\ Unchanged
DefectLinks(u, s)             == (\E i \in 1 .. MaxRuns : UnlinkRun(u, s, i)) /\ Unchanged
LinkExistingDefectModal(u, s) == (\E d \in LinkExisting : LinkExecution(u, d, s)) /\ Unchanged

CreateDefectModal(u, d) ==
  /\ \E severe \in BOOLEAN : Report(u, d, severe) \/ \E s \in Slots : ReportAt(u, d, severe, s)
  /\ Unchanged

TransitionModal(u, d) ==
  (\E to \in DefectStatuses, a \in Developers \cup {None} : Transition(u, d, to, a)) /\ Unchanged

ReassignDefectModal(u, d) == (\E a \in Users : Reassign(u, d, a)) /\ Unchanged
LinkExecutionModal(u, d)  == (\E s \in Slots : LinkExecution(u, d, s)) /\ Unchanged
EditDefectModal(u, d)     == (\E severe \in BOOLEAN : SetSeverity(u, d, severe)) /\ Unchanged

\* From the page of the defect, or staged in a form and sent after the answer to it,
\* or before it where the server asks for evidence.
StagedEvidence(u, d) == Attach(u, d) /\ Unchanged

----------------------------------------------------------------------------
(* Whoever uses which page. *)

CycleStep(u, k) ==
  \/ CycleModal(u, k)
  \/ DeleteButton(u, k)
  \/ TransitionCycle(u, k, "Ready")
  \/ TransitionCycle(u, k, "In Progress")
  \/ TransitionCycle(u, k, "Blocked")
  \/ TransitionCycle(u, k, "Completed")
  \/ AddCasesModal(u, k)
  \/ BulkAssignSelected(u, k)
  \/ BulkRemoveModal(u, k)
  \/ BulkExecutionModal(u, k)

SlotStep(u, s) ==
  \/ AssignRunner(u, s)
  \/ RemoveButton(u, s)
  \/ VersionUpgradeAction(u, s)
  \/ RecordResultModal(u, s)
  \/ LinkDefect(u, s)
  \/ DefectLinks(u, s)
  \/ LinkExistingDefectModal(u, s)

DefectStep(u, d) ==
  \/ CreateDefectModal(u, d)
  \/ TransitionModal(u, d)
  \/ ReassignDefectModal(u, d)
  \/ LinkExecutionModal(u, d)
  \/ EditDefectModal(u, d)
  \/ StagedEvidence(u, d)

PanelStep(u) ==
  \/ CloseOutside(u)
  \/ \E s \in Slots : ToggleRunPanel(u, s)
  \/ \E r \in Results : SaveResult(u, r)

RepositoryStep(c) ==
  \/ ApproveRevision(c) /\ Unchanged
  \/ ArchiveOrRestore(c) /\ Unchanged

PagesInit == ExecInit /\ PanelInit

PagesNext ==
  \/ \E u \in Users, k \in Cycles : CycleStep(u, k)
  \/ \E u \in Users, s \in Slots : SlotStep(u, s)
  \/ \E u \in Users, d \in Defects : DefectStep(u, d)
  \/ \E u \in Readers : PanelStep(u)
  \/ \E c \in Cases : RepositoryStep(c)

PagesSpec == PagesInit /\ [][PagesNext]_executionPageVars

----------------------------------------------------------------------------
(* Properties. *)

\* Refusals the buttons do not foresee: AGM_QA governs but is not let into the
\* route, a cycle that still has slots, an unready cycle, open defects that are
\* the lead's to waive, and a cycle whose scope only a lead may change by now.
KnownCycleRefusal(u, k, button) ==
  CASE button = "delete"    -> ~CanExec(u) \/ (SlotsOf(k) # {} /\ (u \notin Admins \/
                                 \E s \in SlotsOf(k) : Referred(s)))
    [] button = "add"       -> ~MayChangeScope(u, k)
    [] button = "Ready"     -> ~CycleReady(k)
    [] button = "Completed" -> Residual(k) # {} /\
                                 (~Governs(u) \/ \E d \in Residual(k) : ~defect[d].target)
    [] OTHER                -> FALSE

MovesTo(u, k, status) ==
  CASE status = "Ready"       -> MayMarkReady(u, k)
    [] status = "In Progress" -> MayBegin(u, k) \/ MayResume(u, k)
    [] status = "Blocked"     -> MayBlock(u, k)
    [] status = "Completed"   -> MayComplete(u, k)

\* The buttons of a cycle are the transitions the server would make of it, for
\* everybody: nothing it accepts lacks its button, and what is offered and not a
\* known refusal is accepted -- in every state the cycle's slots and defects reach.
CycleOffersAreAccepted ==
  \A u \in Users : \A k \in Cycles : Exists(k) =>
    /\ \A to \in {"Ready", "In Progress", "Blocked", "Completed"} :
         /\ to \in CycleButtons(u, k) => KnownCycleRefusal(u, k, to) \/ MovesTo(u, k, to)
         /\ MovesTo(u, k, to) => to \in CycleButtons(u, k)
    /\ ShowsDeleteCycle(u, k) => KnownCycleRefusal(u, k, "delete") \/ MayDeleteCycle(u, k)
    /\ ShowsAddCases(u, k) /\ ~KnownCycleRefusal(u, k, "add") =>
         \A all \in BOOLEAN : \A ticked \in SUBSET Candidates(k) :
           SelectionOf(k, all, ticked) # {} => MayAddCases(u, k, SelectionOf(k, all, ticked))

\* On a row: the quick panel offers exactly the results the server takes without a
\* key, the modal and the bulk dialog none that it refuses -- but for a cycle not
\* started, where the modal is open all the same, and a key of a cleared or unknown
\* defect after a failure; whoever may assign, remove, link sees the means to.
RowOffersAreAccepted ==
  \A u \in Users : \A s \in Slots : InCycle(s) =>
    /\ \A r \in Results :
         /\ (r \in QuickOptions(u, s)) <=> MayRecord(u, s, r, None)
         /\ \A d \in Defects : Known(d) /\ r \in ModalOptions(u, s, d) =>
              \/ cycle[s[1]] # "In Progress" \/ StatusIn(d, Clear)
              \/ MayRecord(u, s, r, IF r \in Failing THEN d ELSE None)
    /\ ShowsAssign(u, s) <=> MayAssign(u, {s})
    /\ (ShowsRemove(u, s) /\ ~Referred(s)) <=> MayRemoveAll(u, {s})
    /\ ShowsUpgrade(s) \/ slot[s].pinned = approved[s[2]] \/ ~MayUpgrade(u, s)
    /\ ShowsLink(u, s) =>
         /\ MayLinkRun(u, s)
         /\ u \in Reporters => \A d \in LinkExisting : MayLinkExecution(u, d, s)
    /\ DefectLinksWritable(u, s) /\ LastRun(s).key # None /\ (HasRole(u, QALeads) \/ LastRun(s).by = u) =>
         MayUnlinkRun(u, s, Len(Runs(s)))

\* The queue of a runner asks for nobody's role and no cycle's status row by row, and
\* agrees with the server all the same: what is in it may be run by its user, with the
\* results it offers and no others, and nothing that waits for a user's result is
\* missing from their queue -- through reassignments, blocked cycles, and defects
\* that lock a slot and clear.
MyOffersAreAccepted ==
  \A u \in Users : \A s \in Slots : InCycle(s) =>
    /\ s \in MyExecutions(u) =>
         /\ \A r \in Results : (r \in QuickResultActions(s)) <=> MayRecord(u, s, r, None)
         /\ QuickDefectLink(s) <=> MayLinkRun(u, s)
    /\ u \notin Admins /\ (\E r \in Results : MayRecord(u, s, r, None)) => s \in MyExecutions(u)

\* The bulk bar: a selection its checkboxes allow can be assigned, its removable
\* part removed, and a result that every row of it is open for recorded.
SelectionOffersAreAccepted ==
  \A u \in Users : \A k \in Cycles : Exists(k) /\ CanExec(u) => \A S \in RowSelections(u, k) :
    /\ CanManageRunners(u) => MayAssign(u, S)
    /\ LET removable == {s \in S : RemoveFromCycleEligibility(u, s)} IN
       removable # {} /\ (\A s \in removable : ~Referred(s)) => MayRemoveAll(u, removable)
    /\ \A r \in BulkOptions(u, S, None) : \A s \in S : MayRecord(u, s, r, None)

\* The evidence staged with a rejection or a reopening is sent before it. (Of a
\* closed defect its reporter may reopen, the server takes evidence from leads only.)
EvidenceAtHand(u, d, to) ==
  to \in {"Rejected", "Reopened"} => defect[d].evidence \/ MayAttach(u, d)
ReporterOfClosed(u, d) == StatusIn(d, {"Closed"}) /\ defect[d].reporter = u /\ ~Governs(u)

\* The page of a defect offers the transitions the server would make for this user:
\* none that it refuses once the evidence is sent, and all it accepts but those it
\* accepts from the runner of the slot as such, and from AGM_QA without a slot.
DefectOffersAreAccepted ==
  \A u \in Users : \A d \in Defects : Known(d) =>
    /\ \A to \in Successors[defect[d].status] :
         /\ AllowedTransition(u, d, to) =>
              MayMove(u, d, to) /\ (EvidenceAtHand(u, d, to) \/ ReporterOfClosed(u, d))
         /\ MayMove(u, d, to) =>
              \/ AllowedTransition(u, d, to)
              \/ u \in AGMs /\ defect[d].home = None
              \/ IsTester(u, d) /\ ~PageTester(u, d)
    /\ CanReassignDefect(u, d) <=> MayReassign(u, d)
    /\ ShowsSeverity(u, d) => MaySetSeverity(u, d)
    /\ ShowsLinkExecution(d) /\ u \in Reporters
         /\ ~StatusIn(d, {"Closed", "Rejected", "Duplicate", "Not a Defect"}) =>
           \A s \in Slots : Linkable(s, d) => MayLinkExecution(u, d, s)

\* "Attempt #n" of the quick panel is the number the attempt gets that is saved from
\* it, whatever the other routes recorded while it was open.
AttemptAsAnnounced ==
  [][\A u \in Readers : \A s \in Slots :
       /\ panel[u] # None /\ panel'[u] = None /\ Grows(s) /\ s = panel[u].slot =>
            Len(Runs(s)') = panel[u].seen + 1]_executionPageVars

\* The pages of cycles, of a runner's queue and of the register agree with the server.
ExecutionPagesAgree ==
  /\ CycleOffersAreAccepted /\ RowOffersAreAccepted /\ MyOffersAreAccepted
  /\ SelectionOffersAreAccepted /\ DefectOffersAreAccepted

=============================================================================
