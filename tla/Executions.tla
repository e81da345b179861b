----------------------------- MODULE Executions -----------------------------
(***************************************************************************)
(* Test execution (routers/test_execution.py) and the defects register     *)
(* (routers/defects.py) of one active test project: cycles, the slots that *)
(* pin approved versions of test cases and hold the recorded attempts, and *)
(* the defects found, each at home in at most one slot and linked to more. *)
(* The approved versions come from the repository (TestCases), here an     *)
(* environment.  A cycle's link to a request is in Functional.             *)
(***************************************************************************)
EXTENDS Staff, FiniteSets, Sequences

CONSTANTS
  Cycles, Cases, Defects,
  AGMs,        \* the executives that are AGM_QA
  AppOwners,   \* APPLICATION_OWNER
  Reporters,   \* CREATE_ROLES of defects.py
  Developers,  \* whom defects are assigned to: of the department of DeptHeads
  Results,     \* the results the pages send, of Pass, NA, Fail, Blocked, Retest Passed
  MaxVersion, MaxRuns  \* bounds of the model: versions of a case, attempts on a slot

VARIABLES
  cycle,     \* TestCycle.status, or "Absent"
  slot,      \* TestExecution, or None; its status is its last attempt's result
  defect,    \* Defect, or None
  approved,  \* the number of the approved version of a case
  archived   \* whether that version is archived

execVars == <<cycle, slot, defect, approved, archived>>

ASSUME ExecutionsAssumption ==
  /\ UNION {AppOwners, Reporters, Developers} \subseteq Users
  /\ AGMs \subseteq Executives
  /\ MaxVersion \in Nat \ {0} /\ MaxRuns \in Nat \ {0}

Slots     == Cycles \X Cases
Versions  == 1 .. MaxVersion
Attempts  == [result : Results, key : Defects \cup {None}, by : Users \cup {None}]
Failing   == {"Fail", "Blocked"}
Clear     == {"Deferred", "Closed"}       \* _DEFECT_RETEST_CLEAR_STATUSES
Locking   == {"Blocked", "Completed"}     \* TEST_CYCLE_LOCKED_STATUSES
Unresolved == {"New", "Assigned", "In Progress", "Resolved", "Retest", "Reopened"}

\* TRANSITIONS of defects.py
From(status, to) == {status} \X to
Transitions ==
  UNION {From("New", {"Triaged"}),
         From("Triaged", {"Assigned", "Rejected", "Duplicate", "Not a Defect", "Deferred"}),
         From("Assigned", {"In Progress", "Rejected", "Duplicate", "Not a Defect", "Deferred"}),
         From("In Progress", {"Resolved", "Rejected", "Duplicate", "Deferred"}),
         From("Resolved", {"Retest"}), From("Retest", {"Closed", "Reopened"}),
         From("Reopened", {"Assigned"}), From("Deferred", {"Assigned"}),
         From("Closed", {"Reopened"}), From("Rejected", {"Reopened"})}
DefectStatuses == UNION {{t[1], t[2]} : t \in Transitions}
Successors     == [status \in DefectStatuses |-> {t[2] : t \in {m \in Transitions : m[1] = status}}]

Executors     == Engineers \cup QALeads \cup (Executives \ AGMs)  \* _EXEC_ROLES
MayExecute(u) == HasRole(u, Executors)
Governs(u)    == HasRole(u, LeadGroup)
Runners       == Executors \cap QAStaff

SlotRecords ==
  [pinned : Versions, adder : Users, runner : Runners \cup {None}, runs : Seq(Attempts)]

DefectRecords ==
  [status : DefectStatuses, severe : BOOLEAN, reporter : Users, assignee : Users \cup {None},
   tester : Users, home : Slots \cup {None}, links : SUBSET Slots,
   evidence : BOOLEAN, target : BOOLEAN]

\* None stands for no slot and for no defect.
ASSUME NoneIsNoRecord == None \notin SlotRecords \cup DefectRecords \cup Slots \cup Defects

InCycle(s)     == slot[s] # None
SlotsOf(k)     == {s \in Slots : s[1] = k /\ InCycle(s)}
Runs(s)        == slot[s].runs
Executed(s)    == InCycle(s) /\ Len(Runs(s)) > 0
LastRun(s)     == Runs(s)[Len(Runs(s))]
FailedBefore(s) == \E i \in DOMAIN Runs(s) : Runs(s)[i].result \in Failing

Exists(k)      == cycle[k] # "Absent"
Open(k)        == Exists(k) /\ cycle[k] \notin Locking

Known(d)       == defect[d] # None
At(d, s)       == Known(d) /\ defect[d].home = s
StatusIn(d, S) == Known(d) /\ defect[d].status \in S

\* A slot or cycle a defect refers to stays: the foreign keys refuse its deletion.
Referred(s) == \E d \in Defects : At(d, s) \/ (Known(d) /\ s \in defect[d].links)

VersionStatus(c, v) ==
  IF v < approved[c] THEN "Superseded" ELSE IF archived[c] THEN "Archived" ELSE "Approved"

ExecInit ==
  /\ cycle = [k \in Cycles |-> "Absent"]
  /\ slot = [s \in Slots |-> None]
  /\ defect = [d \in Defects |-> None]
  /\ approved = [c \in Cases |-> 1]
  /\ archived = [c \in Cases |-> FALSE]

MoveCycle(k, status) ==
  cycle' = [cycle EXCEPT ![k] = status] /\ UNCHANGED <<slot, defect, approved, archived>>

SetSlots(f) == slot' = f /\ UNCHANGED <<cycle, defect, approved, archived>>

SetDefect(d, r) ==
  defect' = [defect EXCEPT ![d] = r] /\ UNCHANGED <<cycle, slot, approved, archived>>

With(S, Change(_)) == [s \in Slots |-> IF s \in S THEN Change(s) ELSE slot[s]]

----------------------------------------------------------------------------
(* What the repository does meanwhile. *)

ApproveRevision(c) ==
  /\ approved[c] < MaxVersion
  /\ approved' = [approved EXCEPT ![c] = @ + 1] /\ archived' = [archived EXCEPT ![c] = FALSE]
  /\ UNCHANGED <<cycle, slot, defect>>

ArchiveOrRestore(c) ==
  archived' = [archived EXCEPT ![c] = ~@] /\ UNCHANGED <<cycle, slot, defect, approved>>

----------------------------------------------------------------------------
(* Cycles. *)

CreateCycle(u, k) == MayExecute(u) /\ ~Exists(k) /\ MoveCycle(k, "Draft")

\* An administrator's deletion takes the slots and their attempts along.
MayDeleteCycle(u, k) ==
  /\ MayExecute(u) /\ Open(k) /\ Governs(u)
  /\ SlotsOf(k) # {} => u \in Admins
  /\ \A s \in SlotsOf(k) : ~Referred(s)

DeleteCycle(u, k) ==
  /\ MayDeleteCycle(u, k)
  /\ cycle' = [cycle EXCEPT ![k] = "Absent"]
  /\ slot' = With(SlotsOf(k), LAMBDA s : None)
  /\ UNCHANGED <<defect, approved, archived>>

\* _validate_cycle_ready: a superseded version will do, an archived one will not.
CycleReady(k) ==
  SlotsOf(k) # {} /\ \A s \in SlotsOf(k) : VersionStatus(s[2], slot[s].pinned) # "Archived"

MayMarkReady(u, k) == MayExecute(u) /\ cycle[k] = "Draft" /\ CycleReady(k)
MayBegin(u, k)     == MayExecute(u) /\ cycle[k] = "Ready"
MayBlock(u, k)     == MayExecute(u) /\ cycle[k] = "In Progress"
MayResume(u, k)    == MayExecute(u) /\ cycle[k] = "Blocked"

MarkReady(u, k)  == MayMarkReady(u, k) /\ MoveCycle(k, "Ready")
StartCycle(u, k) == MayBegin(u, k) /\ MoveCycle(k, "In Progress")
Block(u, k)      == MayBlock(u, k) /\ MoveCycle(k, "Blocked")
Resume(u, k)     == MayResume(u, k) /\ MoveCycle(k, "In Progress")

\* A defect counts for the cycle of its home slot, whatever else it is linked to.
OpenDefects(k, severe) ==
  {d \in Defects : /\ StatusIn(d, Unresolved) /\ defect[d].severe = severe
                   /\ \E s \in Slots : s[1] = k /\ At(d, s)}

\* The justification asked for with open defects is the text of the lead who gives it.
MayComplete(u, k) ==
  /\ MayExecute(u) /\ cycle[k] = "In Progress"
  /\ \A s \in SlotsOf(k) : Executed(s)
  /\ OpenDefects(k, TRUE) = {}
  /\ OpenDefects(k, FALSE) # {} => Governs(u) /\ \A d \in OpenDefects(k, FALSE) : defect[d].target

Complete(u, k) == MayComplete(u, k) /\ MoveCycle(k, "Completed")

----------------------------------------------------------------------------
(* The scope of a cycle, and who runs it. *)

\* _require_scope_change_permission
MayChangeScope(u, k) == Governs(u) \/ \A s \in SlotsOf(k) : ~Executed(s)

MayAddCases(u, k, S) ==
  /\ MayExecute(u) /\ Open(k) /\ MayChangeScope(u, k) /\ S # {}
  /\ \A c \in S : VersionStatus(c, approved[c]) = "Approved"

\* All of the selection must be approved; what is in the cycle already is skipped.
AddTestCases(u, k, S, r) ==
  LET new == {s \in Slots : s[1] = k /\ s[2] \in S /\ ~InCycle(s)} IN
  /\ MayAddCases(u, k, S)
  /\ r # None => InQA(u) /\ r \in Runners
  /\ SetSlots(With(new, LAMBDA s :
       [pinned |-> approved[s[2]], adder |-> u, runner |-> r, runs |-> <<>>]))

MayAssign(u, S) == MayExecute(u) /\ InQA(u) /\ \A s \in S : InCycle(s) /\ Open(s[1])

Assign(u, s, r) ==
  MayAssign(u, {s}) /\ r \in Runners \cup {None} /\ SetSlots([slot EXCEPT ![s].runner = r])

BulkAssign(u, k, S, r) ==
  /\ S # {} /\ S \subseteq SlotsOf(k) /\ MayAssign(u, S) /\ r \in Runners
  /\ SetSlots(With(S, LAMBDA s : [slot[s] EXCEPT !.runner = r]))

\* (Operators named Bug... are not part of the specification: each one is what
\* the definition after it would be with a mistake in the code.)
BugUpgradesExecuted(u, s) ==
  /\ MayExecute(u) /\ InCycle(s) /\ Open(s[1])
  /\ VersionStatus(s[2], approved[s[2]]) = "Approved"
  /\ SetSlots([slot EXCEPT ![s].pinned = approved[s[2]]])

MayUpgrade(u, s) ==
  /\ MayExecute(u) /\ InCycle(s) /\ Open(s[1]) /\ ~Executed(s)
  /\ VersionStatus(s[2], approved[s[2]]) = "Approved"

UpgradeVersion(u, s) ==
  MayUpgrade(u, s) /\ SetSlots([slot EXCEPT ![s].pinned = approved[s[2]]])

\* _execution_removal_block_reason
MayRemove(u, s) == u \in Admins \/ (~Executed(s) /\ (Governs(u) \/ slot[s].adder = u))

MayRemoveAll(u, S) ==
  /\ HasRole(u, Engineers \cup LeadGroup)
  /\ \A s \in S : InCycle(s) /\ Open(s[1]) /\ MayRemove(u, s) /\ ~Referred(s)

RemoveAll(u, S) == MayRemoveAll(u, S) /\ SetSlots(With(S, LAMBDA s : None))

Remove(u, s)        == RemoveAll(u, {s})
BulkRemove(u, k, S) == InQA(u) /\ S # {} /\ S \subseteq SlotsOf(k) /\ RemoveAll(u, S)

----------------------------------------------------------------------------
(* Attempts. *)

\* _execution_lock_state: of the defects at home here, not of those linked.
BugReopenedIsClear(s) == {d \in Defects : At(d, s) /\ ~StatusIn(d, Clear \cup {"Reopened"})}
ActiveDefects(s)      == {d \in Defects : At(d, s) /\ ~StatusIn(d, Clear)}

BugForgetsFailures(s, result, key) ==
  ActiveDefects(s) = {} /\ (result = "Retest Passed" => FailedBefore(s))

\* _execution_status_gate
Gate(s, result, key) ==
  /\ ActiveDefects(s) = {}
  /\ result = "Retest Passed" => FailedBefore(s)
  /\ FailedBefore(s) =>
       /\ result \notin {"Pass", "NA"}
       /\ result = "Fail" => \E d \in Defects : d = key /\ Known(d) /\ ~StatusIn(d, Clear)

\* The keys typed are those of the register (a key of another tracker would do
\* as well, where the gate does not ask for a governed one).
Keys(result) == {None} \cup (IF result \in Failing THEN {d \in Defects : Known(d)} ELSE {})

Attempted(s, u, result, key) ==
  [slot[s] EXCEPT !.runs = Append(@, [result |-> result, key |-> key,
                                      by |-> IF key = None THEN None ELSE u])]

\* _prepare_execution_update and _record_attempt, for every slot of S or none.
MayRecord(u, s, result, key) ==
  /\ MayExecute(u) /\ InCycle(s) /\ cycle[s[1]] = "In Progress"
  /\ key \in Keys(result) /\ Gate(s, result, key)
  /\ u \in Admins \/ slot[s].runner = u

RecordAll(u, S, result, key) ==
  /\ \A s \in S : MayRecord(u, s, result, key) /\ Len(Runs(s)) < MaxRuns
  /\ SetSlots(With(S, LAMBDA s : Attempted(s, u, result, key)))

BugAnyVersion(u, s, result, key, seen) == RecordAll(u, {s}, result, key)

\* update_execution compares the attempts its caller saw (run_version); the
\* other two routes have nothing to compare.
Record(u, s, result, key, seen)  == RecordAll(u, {s}, result, key) /\ seen = Len(Runs(s))
RichRecord(u, s, result, key)    == RecordAll(u, {s}, result, key)
BulkRecord(u, k, S, result, key) == S # {} /\ S \subseteq SlotsOf(k) /\ RecordAll(u, S, result, key)

\* The key of the i-th attempt, and who wrote it.
Keyed(s, i, key, u) == [slot[s] EXCEPT !.runs[i].key = key, !.runs[i].by = u]

\* add_run_defect: the cycle need not be in progress, the key not be governed.
MayLinkRun(u, s) ==
  /\ MayExecute(u) /\ InCycle(s) /\ Open(s[1]) /\ (u \in Admins \/ slot[s].runner = u)
  /\ Executed(s) /\ LastRun(s).result \in Failing /\ LastRun(s).key = None

LinkRun(u, s, key) ==
  /\ MayLinkRun(u, s) /\ Known(key)
  /\ SetSlots([slot EXCEPT ![s] = Keyed(s, Len(Runs(s)), key, u)])

\* remove_run_defect: a defect at home in the slot stays at home there.
MayUnlinkRun(u, s, i) ==
  /\ MayExecute(u) /\ InCycle(s) /\ Open(s[1]) /\ i \in DOMAIN Runs(s)
  /\ Runs(s)[i].key # None /\ (HasRole(u, QALeads) \/ Runs(s)[i].by = u)

UnlinkRun(u, s, i) ==
  /\ MayUnlinkRun(u, s, i)
  /\ SetSlots([slot EXCEPT ![s] = Keyed(s, i, None, None)])

----------------------------------------------------------------------------
(* Defects. *)

CanAssign(u)      == HasRole(u, Engineers) \/ Governs(u)
CanDefer(u)       == Governs(u) \/ HasRole(u, AppOwners)
IsAssignee(u, d)  == defect[d].assignee = u
IsDepartmentHead(u, d) ==
  \/ defect[d].assignee \in Developers /\ u \in DeptHeads
  \/ defect[d].assignee \in QAStaff /\ u \in QAStaff \cap Executives
IsTester(u, d) ==
  \/ u \in {defect[d].tester, defect[d].reporter}
  \/ \E s \in Slots : At(d, s) /\ InCycle(s) /\ slot[s].runner = u
Disposes(u, d) ==
  Governs(u) \/ defect[d].reporter = u \/ IsAssignee(u, d) \/ IsDepartmentHead(u, d)

\* _execution_context: nothing is asked of the slot's cycle.
Linkable(s, d) ==
  InCycle(s) /\ Executed(s) /\ LastRun(s).result \in Failing /\ LastRun(s).key \in {None, d}

\* _link_run_defect
NamedIn(s, d, u) ==
  slot' = [slot EXCEPT ![s] = IF LastRun(s).key = None THEN Keyed(s, Len(Runs(s)), d, u) ELSE @]

Runner(s, u) == IF slot[s].runner = None THEN u ELSE slot[s].runner

New(u, severe, tester, home) ==
  [status |-> "New", severe |-> severe, reporter |-> u, assignee |-> None, tester |-> tester,
   home |-> home, links |-> {}, evidence |-> FALSE, target |-> FALSE]

Report(u, d, severe) ==
  HasRole(u, Reporters) /\ ~Known(d) /\ SetDefect(d, New(u, severe, u, None))

ReportAt(u, d, severe, s) ==
  /\ HasRole(u, Reporters) /\ ~Known(d) /\ Linkable(s, d)
  /\ defect' = [defect EXCEPT ![d] = New(u, severe, Runner(s, u), s)]
  /\ NamedIn(s, d, u)
  /\ UNCHANGED <<cycle, approved, archived>>

\* The first link makes a slot the home of the defect; later ones are additional.
MayLinkExecution(u, d, s) ==
  /\ HasRole(u, Reporters) /\ Known(d) /\ Linkable(s, d)
  /\ ~StatusIn(d, {"Closed", "Rejected", "Duplicate", "Not a Defect"})

LinkExecution(u, d, s) ==
  /\ MayLinkExecution(u, d, s)
  /\ defect' = [defect EXCEPT ![d] =
       IF defect[d].home \in {None, s} THEN [defect[d] EXCEPT !.home = s]
       ELSE [defect[d] EXCEPT !.links = defect[d].links \cup {s}]]
  /\ NamedIn(s, d, u)
  /\ UNCHANGED <<cycle, approved, archived>>

\* update_defect, where what it edits is of interest here.
MaySetSeverity(u, d)      == Governs(u) /\ StatusIn(d, {"New"})
SetSeverity(u, d, severe) ==
  MaySetSeverity(u, d) /\ SetDefect(d, [defect[d] EXCEPT !.severe = severe])

MayAttach(u, d) ==
  Known(d) /\ IF StatusIn(d, {"Closed"}) THEN Governs(u) ELSE Disposes(u, d) \/ defect[d].tester = u

Attach(u, d) == MayAttach(u, d) /\ SetDefect(d, [defect[d] EXCEPT !.evidence = TRUE])

MayMove(u, d, to) ==
  /\ Known(d) /\ <<defect[d].status, to>> \in Transitions
  /\ \/ to = "Triaged" /\ (CanAssign(u) \/ defect[d].reporter = u)
     \/ to = "Assigned" /\ CanAssign(u)
     \/ to \in {"Rejected", "Duplicate"} /\ Disposes(u, d)
     \/ to = "Not a Defect" /\ (Governs(u) \/ defect[d].reporter = u)
     \/ to = "Deferred" /\ CanDefer(u)
     \/ to \in {"In Progress", "Resolved"} /\ (IsAssignee(u, d) \/ Governs(u))
     \/ to \in {"Retest", "Closed"} /\ (IsTester(u, d) \/ Governs(u))
     \/ /\ to = "Reopened"
        /\ \/ StatusIn(d, {"Closed"}) /\ (HasRole(u, LeadGroup \ AGMs) \/ defect[d].reporter = u)
           \/ StatusIn(d, {"Retest"}) /\ (IsTester(u, d) \/ Governs(u))
           \/ StatusIn(d, {"Rejected"}) /\ Disposes(u, d)

\* transition_defect, for an assignee a where it assigns.
Transition(u, d, to, a) ==
  /\ MayMove(u, d, to)
  /\ to \in {"Rejected", "Reopened"} => defect[d].evidence
  /\ to = "Duplicate" => \E e \in Defects \ {d} : Known(e)
  /\ IF to = "Assigned" THEN a \in Developers ELSE a = None
  /\ SetDefect(d, [defect[d] EXCEPT !.status = to, !.target = @ \/ to = "Deferred",
                                    !.assignee = IF to = "Assigned" THEN a ELSE @])

Reassignable == {"Assigned", "In Progress", "Resolved", "Retest", "Reopened", "Deferred"}

\* A colleague of the assignee, or somebody of the QA department.
Destinations(d) == QAStaff \cup (IF defect[d].assignee \in Developers THEN Developers ELSE {})

MayReassign(u, d) ==
  /\ StatusIn(d, Reassignable) /\ defect[d].assignee # None
  /\ u \in Admins \/ IsAssignee(u, d) \/ IsDepartmentHead(u, d)

Reassign(u, d, a) ==
  /\ MayReassign(u, d) /\ a \in Destinations(d)
  /\ SetDefect(d, [defect[d] EXCEPT !.assignee = a])

----------------------------------------------------------------------------
(* Properties. *)

\* Type invariant: slots are of existing cycles, defects refer to existing slots
\* and are worked on by somebody, and attempts name defects of the register.
ETypeOK ==
  /\ cycle \in [Cycles -> {"Absent", "Draft", "Ready", "In Progress"} \cup Locking]
  /\ slot \in [Slots -> SlotRecords \cup {None}]
  /\ defect \in [Defects -> DefectRecords \cup {None}]
  /\ approved \in [Cases -> Versions] /\ archived \in [Cases -> BOOLEAN]
  /\ \A s \in Slots : InCycle(s) =>
       /\ Exists(s[1]) /\ slot[s].pinned <= approved[s[2]]
       /\ \A i \in DOMAIN Runs(s) : Runs(s)[i].key = None \/ Known(Runs(s)[i].key)
  /\ \A d \in Defects : Known(d) =>
       /\ \A s \in Slots : (At(d, s) \/ s \in defect[d].links) => Executed(s)
       /\ StatusIn(d, {"Assigned", "In Progress", "Resolved", "Retest"}) =>
            defect[d].assignee # None

\* An attempt history reads as one: what once failed or was blocked never just
\* passes, and "Retest Passed" follows a failure, whichever of the three routes
\* recorded the attempts and whatever became of the defects between them.
HistoryReads ==
  \A s \in Slots : InCycle(s) =>
    \A j \in DOMAIN Runs(s) :
      LET failed == \E i \in 1 .. j - 1 : Runs(s)[i].result \in Failing IN
      /\ failed => Runs(s)[j].result \notin {"Pass", "NA"}
      /\ Runs(s)[j].result = "Retest Passed" => failed

Grows(s) == InCycle(s) /\ InCycle(s)' /\ Len(Runs(s)') > Len(Runs(s))

\* Defects govern the retest: no attempt is recorded while a defect at home in the
\* slot is open, and a slot fails again only in the name of an open defect that is
\* at home elsewhere -- never of the one found here, reopened as the gate advises.
DefectsGovernRetest ==
  [][\A s \in Slots : Grows(s) =>
       /\ \A d \in Defects : At(d, s) => StatusIn(d, Clear)
       /\ FailedBefore(s) /\ LastRun(s)'.result = "Fail" =>
            \E d \in Defects : LastRun(s)'.key = d /\ Known(d) /\ ~At(d, s) /\ ~StatusIn(d, Clear)
    ]_execVars

\* A completed cycle stands: every slot of it was executed, and no step reopens it,
\* changes its scope, its runners or its results, whoever takes it.
CompletedStands ==
  [][\A k \in Cycles : cycle[k] = "Completed" =>
       /\ cycle'[k] = "Completed"
       /\ \A s \in Slots : s[1] = k =>
            /\ InCycle(s) => Executed(s)
            /\ InCycle(s) <=> InCycle(s)'
            /\ InCycle(s) => /\ slot'[s].runner = slot[s].runner
                             /\ Len(Runs(s)') = Len(Runs(s))]_execVars

\* What was executed is what the slot says: once a slot has attempts its pinned
\* version stays, and the attempts stay what they were, until it leaves the cycle.
EvidenceStands ==
  [][\A s \in Slots : Executed(s) /\ InCycle(s)' =>
       /\ slot'[s].pinned = slot[s].pinned
       /\ Len(Runs(s)') >= Len(Runs(s))
       /\ \A i \in DOMAIN Runs(s) : slot'[s].runs[i].result = Runs(s)[i].result]_execVars

\* The register is sound: typed, slots, defects and attempts about each other, and
\* histories that read as histories.
RegisterIsSound == ETypeOK /\ HistoryReads

\* Records stand: those of a completed cycle, and the attempts of any slot.
RecordsStand == CompletedStands /\ EvidenceStands

\* "This Test Cycle contains unresolved Critical or High severity defects. Resolve,
\* reject, defer with approval, or close these defects before completing the Test
\* Cycle." (But a Triaged one is not counted.)
CompletedIsClean ==
  [][\A k \in Cycles : cycle[k] # "Completed" /\ cycle'[k] = "Completed" =>
       \A d \in Defects : Known(d) /\ defect[d].severe /\ (\E s \in Slots : s[1] = k /\ At(d, s)) =>
         StatusIn(d, {"Rejected", "Deferred", "Closed", "Duplicate", "Not a Defect"})]_execVars

=============================================================================
