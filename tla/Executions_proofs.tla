------------------------- MODULE Executions_proofs -------------------------
(***************************************************************************)
(* What holds of cycles, slots and defects for any number of them, any     *)
(* results and any people, whatever is done on which page.                 *)
(***************************************************************************)
EXTENDS ExecutionPage, SequenceTheorems, FiniteSetTheorems, TLAPS

(* What a call may do to one slot. *)

Added(s) ==
  /\ slot[s] = None /\ Open(s[1])
  /\ slot'[s] \in SlotRecords /\ slot'[s].runs = <<>> /\ slot'[s].pinned = approved[s[2]]
  /\ MayExecute(slot'[s].adder)

Dropped(s) ==
  InCycle(s) /\ Open(s[1]) /\ ~Referred(s) /\ slot'[s] = None /\ UNCHANGED defect

Handed(s) ==
  /\ InCycle(s) /\ Open(s[1])
  /\ \E r \in Runners \cup {None} : slot'[s] = [slot[s] EXCEPT !.runner = r]

Repinned(s) ==
  /\ InCycle(s) /\ Open(s[1]) /\ ~Executed(s)
  /\ slot'[s] = [slot[s] EXCEPT !.pinned = approved[s[2]]]

Recorded(s) ==
  \E u \in Users, result \in Results : \E key \in Keys(result) :
    /\ MayRecord(u, s, result, key) /\ UNCHANGED <<cycle, defect>>
    /\ slot'[s] = Attempted(s, u, result, key)

\* A key is written to an attempt, or taken from it.
Named(s) ==
  /\ Executed(s)
  /\ \E i \in DOMAIN Runs(s), key \in Defects \cup {None}, by \in Users \cup {None} :
       /\ key = None \/ Known(key)'
       /\ slot'[s] = Keyed(s, i, key, by)

SlotChange(s) ==
  \/ slot'[s] = slot[s] \/ Added(s) \/ Dropped(s) \/ Handed(s) \/ Repinned(s)
  \/ Recorded(s) \/ Named(s)

(* To one cycle. *)

Begun(k)   == cycle[k] = "Absent" /\ cycle'[k] = "Draft"
Deleted(k) ==
  Open(k) /\ cycle'[k] = "Absent" /\ \A s \in Slots : s[1] = k => slot'[s] = None
Moved(k)   ==
  /\ cycle[k] \in {"Draft", "Ready", "In Progress", "Blocked"}
  /\ cycle'[k] \in {"Ready", "In Progress", "Blocked"}
Ended(k)   ==
  /\ cycle[k] = "In Progress" /\ cycle'[k] = "Completed" /\ UNCHANGED slot
  /\ \A s \in SlotsOf(k) : Executed(s)

CycleChange(k) == cycle'[k] = cycle[k] \/ Begun(k) \/ Deleted(k) \/ Moved(k) \/ Ended(k)

(* To one defect. *)

Reported(d) ==
  /\ ~Known(d)
  /\ \E u, t \in Users, severe \in BOOLEAN, h \in Slots \cup {None} :
       (h # None => Executed(h)) /\ defect'[d] = New(u, severe, t, h)

Linked(d) ==
  /\ Known(d)
  /\ \E s \in Slots : /\ Executed(s)
                      /\ \/ defect'[d] = [defect[d] EXCEPT !.home = s]
                         \/ defect'[d] = [defect[d] EXCEPT !.links = defect[d].links \cup {s}]

Edited(d) ==
  /\ Known(d)
  /\ \/ \E b \in BOOLEAN : defect'[d] = [defect[d] EXCEPT !.severe = b]
     \/ defect'[d] = [defect[d] EXCEPT !.evidence = TRUE]
     \/ \E a \in Users : defect'[d] = [defect[d] EXCEPT !.assignee = a]

Transitioned(d) ==
  /\ Known(d)
  /\ \E to \in DefectStatuses, a \in Users :
       /\ <<defect[d].status, to>> \in Transitions
       /\ defect'[d] = [defect[d] EXCEPT !.status = to, !.target = @ \/ to = "Deferred",
                                         !.assignee = IF to = "Assigned" THEN a ELSE @]

DefectChange(d) ==
  defect'[d] = defect[d] \/ Reported(d) \/ Linked(d) \/ Edited(d) \/ Transitioned(d)

\* To the repository.
Grown ==
  /\ approved' \in [Cases -> Versions] /\ archived' \in [Cases -> BOOLEAN]
  /\ \A c \in Cases : approved[c] <= approved'[c]

IsFun(f, S) == f = [x \in S |-> f[x]]

SlotsChange   == IsFun(slot', Slots) /\ \A s \in Slots : SlotChange(s)
CyclesChange  == IsFun(cycle', Cycles) /\ \A k \in Cycles : CycleChange(k)
DefectsChange == IsFun(defect', Defects) /\ \A d \in Defects : DefectChange(d)
Change        == SlotsChange /\ CyclesChange /\ DefectsChange /\ Grown

----------------------------------------------------------------------------
\* The functions of ETypeOK.
TablesOK ==
  /\ cycle \in [Cycles -> {"Absent", "Draft", "Ready", "In Progress"} \cup Locking]
  /\ slot \in [Slots -> SlotRecords \cup {None}]
  /\ defect \in [Defects -> DefectRecords \cup {None}]
  /\ approved \in [Cases -> Versions] /\ archived \in [Cases -> BOOLEAN]

LEMMA Tables == ETypeOK => TablesOK
  BY DEF ETypeOK, TablesOK

LEMMA NumbersOfVersions ==
  ASSUME ETypeOK, NEW c \in Cases
  PROVE  approved[c] \in Versions /\ approved[c] \in 1 .. MaxVersion /\ approved[c] \in Nat
<1>1. approved[c] \in Versions BY DEF ETypeOK
<1>2. approved[c] \in 1 .. MaxVersion BY <1>1 DEF Versions
<1> QED BY <1>1, <1>2, ExecutionsAssumption

\* What stays is a change of its kind.
LEMMA StaysIsChange ==
  ASSUME ETypeOK
  PROVE  /\ UNCHANGED slot => SlotsChange
         /\ UNCHANGED cycle => CyclesChange
         /\ UNCHANGED defect => DefectsChange
         /\ UNCHANGED <<approved, archived>> => Grown
<1>1. UNCHANGED slot => SlotsChange
  BY Tables DEF TablesOK, SlotsChange, IsFun, SlotChange
<1>2. UNCHANGED cycle => CyclesChange
  BY Tables DEF TablesOK, CyclesChange, IsFun, CycleChange
<1>3. UNCHANGED defect => DefectsChange
  BY Tables DEF TablesOK, DefectsChange, IsFun, DefectChange
<1>4. \A c \in Cases : approved[c] \in Nat
  BY NumbersOfVersions
<1>5. ASSUME UNCHANGED <<approved, archived>> PROVE Grown
  <2>1. approved' \in [Cases -> Versions] /\ archived' \in [Cases -> BOOLEAN]
    BY <1>5, Tables DEF TablesOK
  <2>2. \A c \in Cases : approved[c] <= approved'[c]
    BY <1>4, <1>5
  <2> QED BY <2>1, <2>2 DEF Grown
<1> QED BY <1>1, <1>2, <1>3, <1>5

LEMMA RepositoryChanges ==
  ASSUME ETypeOK, NEW c \in Cases, RepositoryStep(c)
  PROVE  Change
<1>1. UNCHANGED <<cycle, slot, defect>>
  BY DEF RepositoryStep, ApproveRevision, ArchiveOrRestore
<1>2. Grown
  <2>0. approved \in [Cases -> Versions] /\ archived \in [Cases -> BOOLEAN]
    BY Tables DEF TablesOK
  <2>1. CASE ApproveRevision(c)
    <3>1. \A x \in Cases : approved[x] \in 1 .. MaxVersion /\ approved[x] \in Nat
      BY NumbersOfVersions
    <3>2. approved' = [approved EXCEPT ![c] = @ + 1] /\ approved[c] < MaxVersion
      BY <2>1 DEF ApproveRevision
    <3>3. \A x \in Cases : approved'[x] \in 1 .. MaxVersion /\ approved[x] <= approved'[x]
      BY <2>0, <3>1, <3>2, ExecutionsAssumption
    <3> QED BY <2>0, <2>1, <3>2, <3>3 DEF ApproveRevision, Grown, Versions
  <2>2. CASE ArchiveOrRestore(c)
    <3>1. \A x \in Cases : approved[x] <= approved'[x]
      BY <2>2, NumbersOfVersions DEF ArchiveOrRestore
    <3> QED BY <2>0, <2>2, <3>1 DEF ArchiveOrRestore, Grown
  <2> QED BY <2>1, <2>2 DEF RepositoryStep
<1> QED BY <1>1, <1>2, StaysIsChange DEF Change

LEMMA CycleMoves ==
  ASSUME ETypeOK, NEW k \in Cycles, NEW u \in Users,
         \/ CreateCycle(u, k) \/ MarkReady(u, k) \/ StartCycle(u, k) \/ Block(u, k)
         \/ Resume(u, k) \/ Complete(u, k)
  PROVE  Change
<1>1. UNCHANGED <<slot, defect, approved, archived>>
  BY DEF CreateCycle, MarkReady, StartCycle, Block, Resume, Complete, MoveCycle
<1>2. CyclesChange
  <2>0. TablesOK BY Tables
  <2> USE <2>0 DEF TablesOK, CyclesChange, IsFun, CycleChange, MoveCycle
  <2>1. CASE CreateCycle(u, k) BY <2>1 DEF CreateCycle, Exists, Begun
  <2>2. CASE Complete(u, k) BY <2>2 DEF Complete, MayComplete, Ended
  <2>3. CASE MarkReady(u, k) \/ StartCycle(u, k) \/ Block(u, k) \/ Resume(u, k)
    BY <2>3 DEF MarkReady, MayMarkReady, StartCycle, MayBegin, Block, MayBlock, Resume, MayResume, Moved
  <2> QED BY <2>1, <2>2, <2>3
<1> QED BY <1>1, <1>2, StaysIsChange DEF Change

\* The calls that set slots: it is enough to say what becomes of each slot.
LEMMA OnlySlots ==
  ASSUME ETypeOK, SlotsChange, UNCHANGED <<cycle, defect, approved, archived>>
  PROVE  Change
  BY StaysIsChange DEF Change

LEMMA CycleDeleted ==
  ASSUME ETypeOK, NEW k \in Cycles, NEW u \in Users, DeleteCycle(u, k)
  PROVE  Change
<1>0. TablesOK BY Tables
<1> USE <1>0 DEF TablesOK, DeleteCycle, MayDeleteCycle
<1>1. SlotsChange
  BY DEF SlotsChange, IsFun, SlotChange, Dropped, With, SlotsOf
<1>2. CyclesChange
  <2>1. \A s \in Slots : s[1] = k => slot'[s] = None
    BY DEF With, SlotsOf, InCycle
  <2> QED BY <2>1 DEF CyclesChange, IsFun, CycleChange, Deleted
<1> QED BY <1>1, <1>2, StaysIsChange DEF Change

\* A new slot is a slot.
LEMMA NewSlot ==
  ASSUME NEW x, NEW no \in Versions, NEW u \in Users, NEW r \in Runners \cup {None},
         x = [pinned |-> no, adder |-> u, runner |-> r, runs |-> <<>>]
  PROVE  x.runs = <<>> /\ x.pinned = no /\ x \in SlotRecords
  BY EmptySeq DEF SlotRecords

LEMMA CasesAdded ==
  ASSUME ETypeOK, NEW u \in Users, NEW k \in Cycles, NEW S \in SUBSET Cases,
         NEW r \in Users \cup {None}, AddTestCases(u, k, S, r)
  PROVE  Change
<1> DEFINE new == {s \in Slots : s[1] = k /\ s[2] \in S /\ ~InCycle(s)}
<1>1. ASSUME NEW s \in Slots, s \in new PROVE Added(s)
  <2>1. slot'[s] = [pinned |-> approved[s[2]], adder |-> u, runner |-> r, runs |-> <<>>]
    BY <1>1 DEF AddTestCases, SetSlots, With
  <2>2. Open(s[1]) /\ slot[s] = None
    BY <1>1 DEF AddTestCases, MayAddCases, InCycle
  <2>3. r \in Runners \cup {None}
    BY DEF AddTestCases
  <2>4. approved[s[2]] \in Versions
    BY NumbersOfVersions DEF Slots
  <2>5. slot'[s].runs = <<>> /\ slot'[s].pinned = approved[s[2]] /\ slot'[s] \in SlotRecords
    BY <2>1, <2>3, <2>4, NewSlot
  <2>6. MayExecute(slot'[s].adder)
    <3>1. slot'[s].adder = u BY <2>1
    <3>2. MayExecute(u) BY DEF AddTestCases, MayAddCases
    <3> QED BY <3>1, <3>2
  <2> QED BY <2>2, <2>5, <2>6 DEF Added
<1>2. ASSUME NEW s \in Slots, s \notin new PROVE slot'[s] = slot[s]
  BY <1>2 DEF AddTestCases, SetSlots, With
<1>3. IsFun(slot', Slots)
  BY DEF AddTestCases, SetSlots, With, IsFun
<1>4. UNCHANGED <<cycle, defect, approved, archived>>
  BY DEF AddTestCases, SetSlots
<1> QED BY <1>1, <1>2, <1>3, <1>4, OnlySlots DEF SlotsChange, SlotChange

LEMMA ScopeChanges ==
  ASSUME ETypeOK, NEW u \in Users,
         \/ \E k \in Cycles, S \in SUBSET Cases, r \in Users \cup {None} : AddTestCases(u, k, S, r)
         \/ \E s \in Slots, r \in Users \cup {None} : Assign(u, s, r)
         \/ \E k \in Cycles, S \in SUBSET Slots, r \in Users : BulkAssign(u, k, S, r)
         \/ \E s \in Slots : UpgradeVersion(u, s)
         \/ \E s \in Slots : Remove(u, s)
         \/ \E k \in Cycles, S \in SUBSET Slots : BulkRemove(u, k, S)
  PROVE  Change
<1>0. TablesOK BY Tables
<1> USE <1>0 DEF TablesOK, SetSlots
<1>1. ASSUME NEW k \in Cycles, NEW S \in SUBSET Cases, NEW r \in Users \cup {None},
             AddTestCases(u, k, S, r)
      PROVE  Change
  BY <1>1, CasesAdded
<1>2. ASSUME NEW s \in Slots, NEW r \in Users \cup {None}, Assign(u, s, r) PROVE Change
  <2>1. SlotsChange
    BY <1>2 DEF SlotsChange, IsFun, SlotChange, Handed, Assign, MayAssign
  <2> QED BY <1>2, <2>1, OnlySlots DEF Assign
<1>3. ASSUME NEW k \in Cycles, NEW S \in SUBSET Slots, NEW r \in Users, BulkAssign(u, k, S, r)
      PROVE  Change
  <2>1. SlotsChange
    BY <1>3 DEF SlotsChange, IsFun, SlotChange, Handed, BulkAssign, MayAssign, With
  <2> QED BY <1>3, <2>1, OnlySlots DEF BulkAssign
<1>4. ASSUME NEW s \in Slots, UpgradeVersion(u, s) PROVE Change
  <2>1. SlotsChange
    BY <1>4 DEF SlotsChange, IsFun, SlotChange, Repinned, UpgradeVersion, MayUpgrade
  <2> QED BY <1>4, <2>1, OnlySlots DEF UpgradeVersion
<1>5. ASSUME NEW S \in SUBSET Slots, RemoveAll(u, S) PROVE Change
  <2>1. SlotsChange
    BY <1>5 DEF SlotsChange, IsFun, SlotChange, Dropped, RemoveAll, MayRemoveAll, With
  <2> QED BY <1>5, <2>1, OnlySlots DEF RemoveAll
<1> QED BY <1>1, <1>2, <1>3, <1>4, <1>5 DEF Remove, BulkRemove

----------------------------------------------------------------------------
(* Attempts. *)

LEMMA AttemptsRecorded ==
  ASSUME ETypeOK, NEW u \in Users, NEW S \in SUBSET Slots, NEW result \in Results,
         NEW key \in Keys(result), RecordAll(u, S, result, key)
  PROVE  Change
<1>1. UNCHANGED <<cycle, defect, approved, archived>> /\ IsFun(slot', Slots)
  BY DEF RecordAll, SetSlots, With, IsFun
<1>2. ASSUME NEW s \in S PROVE Recorded(s)
  <2>1. MayRecord(u, s, result, key) BY DEF RecordAll
  <2>2. slot'[s] = Attempted(s, u, result, key) BY DEF RecordAll, SetSlots, With
  <2> QED BY <1>1, <2>1, <2>2 DEF Recorded
<1>3. ASSUME NEW s \in Slots, s \notin S PROVE slot'[s] = slot[s]
  BY <1>3 DEF RecordAll, SetSlots, With
<1> QED BY <1>1, <1>2, <1>3, OnlySlots DEF SlotsChange, SlotChange

\* The last attempt of an executed slot is one of its attempts.
LEMMA SlotTyped ==
  ASSUME ETypeOK, NEW s \in Slots, InCycle(s)
  PROVE  /\ slot[s] \in SlotRecords /\ Runs(s) \in Seq(Attempts)
         /\ DOMAIN Runs(s) = 1 .. Len(Runs(s)) /\ Len(Runs(s)) \in Nat
         /\ \A i \in 1 .. Len(Runs(s)) : Runs(s)[i] \in Attempts
         /\ Executed(s) => Len(Runs(s)) \in 1 .. Len(Runs(s))
<1>1. slot[s] \in SlotRecords BY Tables DEF TablesOK, InCycle
<1>2. Runs(s) \in Seq(Attempts) BY <1>1 DEF SlotRecords, Runs
<1> QED BY <1>1, <1>2, LenProperties, ElementOfSeq DEF Executed

LEMMA KeysChanged ==
  ASSUME ETypeOK, NEW u \in Users, NEW s \in Slots,
         \/ \E d \in Defects : LinkRun(u, s, d)
         \/ \E i \in 1 .. MaxRuns : UnlinkRun(u, s, i)
  PROVE  Change
<1>1. UNCHANGED <<cycle, defect, approved, archived>>
  BY DEF LinkRun, UnlinkRun, SetSlots
<1>2. ASSUME NEW d \in Defects, LinkRun(u, s, d) PROVE SlotsChange
  <2>1. Executed(s) /\ Known(d)' /\ Len(Runs(s)) \in DOMAIN Runs(s)
    BY <1>1, <1>2, SlotTyped DEF LinkRun, MayLinkRun, Known
  <2>2. slot' = [slot EXCEPT ![s] = Keyed(s, Len(Runs(s)), d, u)]
    BY <1>2 DEF LinkRun, SetSlots
  <2>3. Named(s) BY <2>1, <2>2, Tables DEF TablesOK, Named
  <2>4. \A t \in Slots : t # s => slot'[t] = slot[t] BY <2>2, Tables DEF TablesOK
  <2>5. IsFun(slot', Slots) BY <2>2, Tables DEF TablesOK, IsFun
  <2> QED BY <2>3, <2>4, <2>5 DEF SlotsChange, SlotChange
<1>3. ASSUME NEW i \in 1 .. MaxRuns, UnlinkRun(u, s, i) PROVE SlotsChange
  <2>1. Executed(s) /\ i \in DOMAIN Runs(s)
    BY <1>3, SlotTyped DEF UnlinkRun, MayUnlinkRun, Executed
  <2>2. slot' = [slot EXCEPT ![s] = Keyed(s, i, None, None)]
    BY <1>3 DEF UnlinkRun, SetSlots
  <2>3. Named(s) BY <2>1, <2>2, Tables DEF TablesOK, Named
  <2>4. \A t \in Slots : t # s => slot'[t] = slot[t] BY <2>2, Tables DEF TablesOK
  <2>5. IsFun(slot', Slots) BY <2>2, Tables DEF TablesOK, IsFun
  <2> QED BY <2>3, <2>4, <2>5 DEF SlotsChange, SlotChange
<1> QED BY <1>1, <1>2, <1>3, OnlySlots

----------------------------------------------------------------------------
(* Defects. *)

\* A new defect, and a defect with one more link, are defects.
LEMMA NewDefect ==
  ASSUME NEW u \in Users, NEW t \in Users, NEW severe \in BOOLEAN, NEW h \in Slots \cup {None}
  PROVE  New(u, severe, t, h) \in DefectRecords
<1>0. <<"New", "Triaged">> \in Transitions
  BY DEF Transitions, From
<1>1. "New" \in DefectStatuses
  BY <1>0 DEF DefectStatuses
<1> QED BY <1>1 DEF New, DefectRecords

LEMMA LinkedDefect ==
  ASSUME NEW r \in DefectRecords, NEW s \in Slots
  PROVE  /\ [r EXCEPT !.home = s] \in DefectRecords
         /\ [r EXCEPT !.links = r.links \cup {s}] \in DefectRecords
  BY DEF DefectRecords

LEMMA AttemptNamed ==
  ASSUME ETypeOK, NEW u \in Users, NEW d \in Defects, NEW s \in Slots,
         Linkable(s, d), NamedIn(s, d, u), Known(d)'
  PROVE  SlotsChange
<1>1. Executed(s) /\ Len(Runs(s)) \in DOMAIN Runs(s)
  BY SlotTyped DEF Linkable
<1>2. slot'[s] = slot[s] \/ Named(s)
  BY <1>1, Tables DEF TablesOK, Named, NamedIn
<1>3. \A t \in Slots : t # s => slot'[t] = slot[t]
  BY Tables DEF TablesOK, NamedIn
<1>4. IsFun(slot', Slots)
  BY Tables DEF TablesOK, NamedIn, IsFun
<1> QED BY <1>2, <1>3, <1>4 DEF SlotsChange, SlotChange

\* It is enough to say what becomes of the one defect.
LEMMA OneDefect ==
  ASSUME ETypeOK, NEW d \in Defects, NEW r, defect' = [defect EXCEPT ![d] = r], DefectChange(d)
  PROVE  DefectsChange
  BY Tables DEF TablesOK, DefectsChange, IsFun, DefectChange

LEMMA OnlyDefects ==
  ASSUME ETypeOK, DefectsChange, UNCHANGED <<cycle, slot, approved, archived>>
  PROVE  Change
  BY StaysIsChange DEF Change

\* A reporter is a user, and so is the tester the defect gets.
LEMMA DefectReported ==
  ASSUME ETypeOK, NEW u \in Users, NEW d \in Defects, NEW severe \in BOOLEAN,
         Report(u, d, severe) \/ \E s \in Slots : ReportAt(u, d, severe, s)
  PROVE  Change
<1>1. CASE Report(u, d, severe)
  <2>1. defect' = [defect EXCEPT ![d] = New(u, severe, u, None)] /\ ~Known(d)
    BY <1>1 DEF Report, SetDefect
  <2>2. defect'[d] = New(u, severe, u, None) BY <2>1, Tables DEF TablesOK
  <2>3. DefectChange(d) BY <2>1, <2>2 DEF DefectChange, Reported
  <2> QED BY <1>1, <2>1, <2>3, OneDefect, OnlyDefects DEF Report, SetDefect
<1>2. ASSUME NEW s \in Slots, ReportAt(u, d, severe, s) PROVE Change
  <2>1. /\ defect' = [defect EXCEPT ![d] = New(u, severe, Runner(s, u), s)]
        /\ ~Known(d) /\ Linkable(s, d) /\ NamedIn(s, d, u)
        /\ UNCHANGED <<cycle, approved, archived>>
    BY <1>2 DEF ReportAt
  <2>2. defect'[d] = New(u, severe, Runner(s, u), s) BY <2>1, Tables DEF TablesOK
  <2>3. Executed(s) /\ InCycle(s) BY <2>1 DEF Linkable
  <2>4. Runner(s, u) \in Users
    <3>1. slot[s].runner \in Runners \cup {None}
      BY <2>3, SlotTyped DEF SlotRecords
    <3> QED BY <3>1, StaffAssumption DEF Runner, Runners, Executors
  <2>5. DefectChange(d) BY <2>1, <2>2, <2>3, <2>4 DEF DefectChange, Reported
  <2>6. Known(d)'
    BY <2>1, <2>2, <2>4, NewDefect, NoneIsNoRecord DEF Known
  <2>7. SlotsChange BY <2>1, <2>6, AttemptNamed
  <2>8. DefectsChange BY <2>1, <2>5, OneDefect
  <2> QED BY <2>1, <2>7, <2>8, StaysIsChange DEF Change
<1> QED BY <1>1, <1>2

LEMMA DefectLinked ==
  ASSUME ETypeOK, NEW u \in Users, NEW d \in Defects, NEW s \in Slots, LinkExecution(u, d, s)
  PROVE  Change
<1>1. /\ Known(d) /\ Linkable(s, d) /\ NamedIn(s, d, u) /\ UNCHANGED <<cycle, approved, archived>>
      /\ defect' = [defect EXCEPT ![d] = IF defect[d].home \in {None, s}
                                         THEN [defect[d] EXCEPT !.home = s]
                                         ELSE [defect[d] EXCEPT !.links = defect[d].links \cup {s}]]
  BY DEF LinkExecution, MayLinkExecution
<1>2. Executed(s) BY <1>1 DEF Linkable
<1>3. \/ defect'[d] = [defect[d] EXCEPT !.home = s]
      \/ defect'[d] = [defect[d] EXCEPT !.links = defect[d].links \cup {s}]
  BY <1>1, Tables DEF TablesOK
<1>4. DefectChange(d) BY <1>1, <1>2, <1>3 DEF DefectChange, Linked
<1>5. DefectsChange BY <1>1, <1>4, OneDefect
<1>6. defect[d] \in DefectRecords BY <1>1, Tables DEF TablesOK, Known
<1>7. Known(d)' BY <1>2, <1>3, <1>6, LinkedDefect, NoneIsNoRecord DEF Known
<1>8. SlotsChange BY <1>1, <1>7, AttemptNamed
<1> QED BY <1>1, <1>5, <1>8, StaysIsChange DEF Change

LEMMA DefectMoved ==
  ASSUME ETypeOK, NEW u \in Users, NEW d \in Defects,
         \/ \E severe \in BOOLEAN : SetSeverity(u, d, severe)
         \/ Attach(u, d)
         \/ \E a \in Users : Reassign(u, d, a)
         \/ \E to \in DefectStatuses, a \in Developers \cup {None} : Transition(u, d, to, a)
  PROVE  Change
<1>1. UNCHANGED <<cycle, slot, approved, archived>>
  BY DEF SetSeverity, Attach, Reassign, Transition, SetDefect
<1>2. ASSUME NEW severe \in BOOLEAN, SetSeverity(u, d, severe) PROVE DefectsChange
  <2>1. Known(d) /\ defect' = [defect EXCEPT ![d] = [defect[d] EXCEPT !.severe = severe]]
    BY <1>2 DEF SetSeverity, MaySetSeverity, StatusIn, SetDefect
  <2>2. DefectChange(d) BY <2>1, Tables DEF TablesOK, DefectChange, Edited
  <2> QED BY <2>1, <2>2, OneDefect
<1>3. ASSUME Attach(u, d) PROVE DefectsChange
  <2>1. Known(d) /\ defect' = [defect EXCEPT ![d] = [defect[d] EXCEPT !.evidence = TRUE]]
    BY <1>3 DEF Attach, MayAttach, SetDefect
  <2>2. DefectChange(d) BY <2>1, Tables DEF TablesOK, DefectChange, Edited
  <2> QED BY <2>1, <2>2, OneDefect
<1>4. ASSUME NEW a \in Users, Reassign(u, d, a) PROVE DefectsChange
  <2>1. Known(d) /\ defect' = [defect EXCEPT ![d] = [defect[d] EXCEPT !.assignee = a]]
    BY <1>4 DEF Reassign, MayReassign, StatusIn, SetDefect
  <2>2. DefectChange(d) BY <2>1, Tables DEF TablesOK, DefectChange, Edited
  <2> QED BY <2>1, <2>2, OneDefect
<1>5. ASSUME NEW to \in DefectStatuses, NEW a \in Developers \cup {None}, Transition(u, d, to, a)
      PROVE  DefectsChange
  <2>1. /\ Known(d) /\ <<defect[d].status, to>> \in Transitions
        /\ defect' = [defect EXCEPT ![d] =
              [defect[d] EXCEPT !.status = to, !.target = @ \/ to = "Deferred",
                                !.assignee = IF to = "Assigned" THEN a ELSE @]]
    BY <1>5 DEF Transition, MayMove, SetDefect
  <2>2. to = "Assigned" => a \in Users
    BY <1>5, ExecutionsAssumption DEF Transition
  <2>3. \E b \in Users :
          defect'[d] = [defect[d] EXCEPT !.status = to, !.target = @ \/ to = "Deferred",
                                         !.assignee = IF to = "Assigned" THEN b ELSE @]
    BY <2>1, <2>2, Tables DEF TablesOK
  <2>4. DefectChange(d) BY <2>1, <2>3 DEF DefectChange, Transitioned
  <2> QED BY <2>1, <2>4, OneDefect
<1> QED BY <1>1, <1>2, <1>3, <1>4, <1>5, OnlyDefects

----------------------------------------------------------------------------
(* Every step of the pages is a change, or one of an open panel. *)

\* An open panel is of a slot, and remembers a number of attempts.
PanelOK == panel \in [Readers -> [slot : Slots, seen : Nat] \cup {None}]

LEMMA PagesChange ==
  ASSUME ETypeOK, PanelOK, PagesNext
  PROVE  Change
<1>1. ASSUME NEW u \in Users, NEW k \in Cycles, CycleStep(u, k) PROVE Change
  <2>1. CASE CycleModal(u, k) BY <2>1, CycleMoves DEF CycleModal
  <2>2. CASE DeleteButton(u, k) BY <2>2, CycleDeleted DEF DeleteButton
  <2>3. ASSUME NEW status \in {"Ready", "In Progress", "Blocked", "Completed"},
               TransitionCycle(u, k, status)
        PROVE  Change
    BY <2>3, CycleMoves DEF TransitionCycle
  <2>4. CASE AddCasesModal(u, k) \/ BulkAssignSelected(u, k) \/ BulkRemoveModal(u, k)
    BY <2>4, ScopeChanges DEF AddCasesModal, BulkAssignSelected, BulkRemoveModal
  <2>5. CASE BulkExecutionModal(u, k)
    BY <2>5, AttemptsRecorded DEF BulkExecutionModal, BulkRecord
  <2> QED BY <1>1, <2>1, <2>2, <2>3, <2>4, <2>5 DEF CycleStep
<1>2. ASSUME NEW u \in Users, NEW s \in Slots, SlotStep(u, s) PROVE Change
  <2>1. CASE AssignRunner(u, s) \/ RemoveButton(u, s) \/ VersionUpgradeAction(u, s)
    BY <2>1, ScopeChanges DEF AssignRunner, RemoveButton, VersionUpgradeAction
  <2>2. CASE RecordResultModal(u, s)
    BY <2>2, AttemptsRecorded DEF RecordResultModal, RichRecord
  <2>3. CASE LinkDefect(u, s) \/ DefectLinks(u, s)
    BY <2>3, KeysChanged DEF LinkDefect, DefectLinks
  <2>4. CASE LinkExistingDefectModal(u, s)
    BY <2>4, DefectLinked DEF LinkExistingDefectModal, LinkExisting
  <2> QED BY <1>2, <2>1, <2>2, <2>3, <2>4 DEF SlotStep
<1>3. ASSUME NEW u \in Users, NEW d \in Defects, DefectStep(u, d) PROVE Change
  <2>1. CASE CreateDefectModal(u, d) BY <2>1, DefectReported DEF CreateDefectModal
  <2>2. CASE LinkExecutionModal(u, d) BY <2>2, DefectLinked DEF LinkExecutionModal
  <2>3. CASE \/ TransitionModal(u, d) \/ ReassignDefectModal(u, d) \/ EditDefectModal(u, d)
             \/ StagedEvidence(u, d)
    BY <2>3, DefectMoved DEF TransitionModal, ReassignDefectModal, EditDefectModal, StagedEvidence
  <2> QED BY <1>3, <2>1, <2>2, <2>3 DEF DefectStep
<1>4. ASSUME NEW u \in Readers, PanelStep(u) PROVE Change
  <2>1. CASE CloseOutside(u) \/ \E s \in Slots : ToggleRunPanel(u, s)
    BY <2>1, StaysIsChange DEF CloseOutside, ToggleRunPanel, execVars, Change
  <2>2. ASSUME NEW result \in Results, SaveResult(u, result) PROVE Change
    <3>1. panel[u].slot \in Slots BY <2>2 DEF SaveResult, PanelOK
    <3>2. None \in Keys(result) BY DEF Keys
    <3> QED BY <2>2, <3>1, <3>2, AttemptsRecorded, ReadersAssumption DEF SaveResult, Record
  <2> QED BY <1>4, <2>1, <2>2 DEF PanelStep
<1>5. ASSUME NEW c \in Cases, RepositoryStep(c) PROVE Change
  BY <1>5, RepositoryChanges
<1> QED BY <1>1, <1>2, <1>3, <1>4, <1>5 DEF PagesNext

----------------------------------------------------------------------------
(* What a change means for the attempts of a slot. *)

\* A key written to an attempt leaves everything else of the slot.
LEMMA NamedKeeps ==
  ASSUME ETypeOK, NEW s \in Slots, Named(s)
  PROVE  /\ slot'[s] \in SlotRecords /\ Len(Runs(s)') = Len(Runs(s))
         /\ slot'[s].pinned = slot[s].pinned /\ slot'[s].runner = slot[s].runner
         /\ slot'[s].adder = slot[s].adder
         /\ \A i \in 1 .. Len(Runs(s)) :
              /\ slot'[s].runs[i].result = Runs(s)[i].result
              /\ \/ slot'[s].runs[i].key \in {Runs(s)[i].key, None}
                 \/ defect'[slot'[s].runs[i].key] # None
<1>1. PICK i \in DOMAIN Runs(s), key \in Defects \cup {None}, by \in Users \cup {None} :
        (key = None \/ Known(key)') /\ slot'[s] = Keyed(s, i, key, by)
  BY DEF Named
<1>2. /\ slot[s] \in SlotRecords /\ Runs(s) \in Seq(Attempts) /\ i \in 1 .. Len(Runs(s))
      /\ \A j \in 1 .. Len(Runs(s)) : Runs(s)[j] \in Attempts
  BY <1>1, SlotTyped DEF Named, Executed
<1> DEFINE run == [Runs(s)[i] EXCEPT !.key = key, !.by = by]
<1>3. run \in Attempts /\ run.result = Runs(s)[i].result /\ run.key = key
  BY <1>2 DEF Attempts
<1>4. slot'[s] = [slot[s] EXCEPT !.runs = [Runs(s) EXCEPT ![i] = run]]
  BY <1>1, <1>2 DEF Keyed, Runs, SlotRecords
<1> HIDE DEF run
<1>5. /\ [Runs(s) EXCEPT ![i] = run] \in Seq(Attempts)
      /\ Len([Runs(s) EXCEPT ![i] = run]) = Len(Runs(s))
      /\ \A j \in 1 .. Len(Runs(s)) :
           [Runs(s) EXCEPT ![i] = run][j] = IF j = i THEN run ELSE Runs(s)[j]
  BY <1>2, <1>3, ExceptSeq
<1>6. /\ slot'[s].runs = [Runs(s) EXCEPT ![i] = run] /\ Runs(s)' = slot'[s].runs
      /\ slot'[s] \in SlotRecords
      /\ slot'[s].pinned = slot[s].pinned /\ slot'[s].runner = slot[s].runner
      /\ slot'[s].adder = slot[s].adder
  BY <1>2, <1>4, <1>5 DEF Runs, SlotRecords
<1>7. ASSUME NEW j \in 1 .. Len(Runs(s))
      PROVE  /\ slot'[s].runs[j].result = Runs(s)[j].result
             /\ \/ slot'[s].runs[j].key \in {Runs(s)[j].key, None}
                \/ defect'[slot'[s].runs[j].key] # None
  <2>1. CASE j = i
    <3>1. slot'[s].runs[j] = run BY <1>5, <1>6, <2>1
    <3> QED BY <1>1, <1>3, <2>1, <3>1 DEF Known
  <2>2. CASE j # i BY <1>5, <1>6, <2>2
  <2> QED BY <2>1, <2>2
<1> QED BY <1>5, <1>6, <1>7

\* A recorded attempt comes after the others.
LEMMA RecordedAppends ==
  ASSUME ETypeOK, NEW s \in Slots, Recorded(s)
  PROVE  /\ slot'[s] \in SlotRecords /\ Len(Runs(s)') = Len(Runs(s)) + 1
         /\ slot'[s].pinned = slot[s].pinned /\ slot'[s].runner = slot[s].runner
         /\ slot'[s].adder = slot[s].adder
         /\ \A i \in 1 .. Len(Runs(s)) : slot'[s].runs[i] = Runs(s)[i]
         /\ \E u \in Users, result \in Results : \E key \in Keys(result) :
              /\ MayRecord(u, s, result, key) /\ UNCHANGED <<cycle, defect>>
              /\ LastRun(s)'.result = result /\ LastRun(s)'.key = key
<1>1. PICK u \in Users, result \in Results : \E key \in Keys(result) :
        /\ MayRecord(u, s, result, key) /\ UNCHANGED <<cycle, defect>>
        /\ slot'[s] = Attempted(s, u, result, key)
  BY DEF Recorded
<1>2. PICK key \in Keys(result) :
        /\ MayRecord(u, s, result, key) /\ UNCHANGED <<cycle, defect>>
        /\ slot'[s] = Attempted(s, u, result, key)
  BY <1>1
<1>3. slot[s] \in SlotRecords /\ Runs(s) \in Seq(Attempts) /\ Len(Runs(s)) \in Nat
  BY <1>2, SlotTyped DEF MayRecord
<1> DEFINE run == [result |-> result, key |-> key, by |-> IF key = None THEN None ELSE u]
<1>4. run \in Attempts /\ run.result = result /\ run.key = key
  BY DEF Attempts, Keys
<1>5. slot'[s] = [slot[s] EXCEPT !.runs = Append(Runs(s), run)]
  BY <1>2 DEF Attempted, Runs
<1> HIDE DEF run
<1>6. /\ Append(Runs(s), run) \in Seq(Attempts) /\ Len(Append(Runs(s), run)) = Len(Runs(s)) + 1
      /\ \A i \in 1 .. Len(Runs(s)) : Append(Runs(s), run)[i] = Runs(s)[i]
      /\ Append(Runs(s), run)[Len(Runs(s)) + 1] = run
  BY <1>3, <1>4, AppendProperties
<1>7. /\ slot'[s].runs = Append(Runs(s), run) /\ Runs(s)' = slot'[s].runs
      /\ slot'[s] \in SlotRecords
      /\ slot'[s].pinned = slot[s].pinned /\ slot'[s].runner = slot[s].runner
      /\ slot'[s].adder = slot[s].adder
  BY <1>3, <1>5, <1>6 DEF Runs, SlotRecords
<1>8. LastRun(s)' = run BY <1>6, <1>7 DEF LastRun
<1> QED BY <1>2, <1>4, <1>6, <1>7, <1>8

\* Any other change of a slot that stays in its cycle leaves its results.
LEMMA OthersKeep ==
  ASSUME ETypeOK, NEW s \in Slots, SlotChange(s), ~Recorded(s), InCycle(s), InCycle(s)'
  PROVE  /\ slot'[s] \in SlotRecords /\ Len(Runs(s)') = Len(Runs(s))
         /\ \A i \in 1 .. Len(Runs(s)) : slot'[s].runs[i].result = Runs(s)[i].result
         /\ Executed(s) => slot'[s].pinned = slot[s].pinned
         /\ slot'[s].pinned \in {slot[s].pinned, approved[s[2]]}
         /\ slot'[s].runner = slot[s].runner \/ Open(s[1])
         /\ slot'[s].adder = slot[s].adder
         /\ \A i \in 1 .. Len(Runs(s)) :
              \/ slot'[s].runs[i].key \in {Runs(s)[i].key, None}
              \/ defect'[slot'[s].runs[i].key] # None
<1>1. slot[s] \in SlotRecords BY SlotTyped
<1>2. CASE slot'[s] = slot[s] BY <1>1, <1>2 DEF Runs
<1>3. CASE Handed(s)
  <2>1. PICK r \in Runners \cup {None} : slot'[s] = [slot[s] EXCEPT !.runner = r]
    BY <1>3 DEF Handed
  <2> QED BY <1>1, <1>3, <2>1 DEF Handed, Runs, SlotRecords
<1>4. CASE Repinned(s)
  <2>1. approved[s[2]] \in Versions BY NumbersOfVersions DEF Slots
  <2> QED BY <1>1, <1>4, <2>1 DEF Repinned, Runs, SlotRecords
<1>5. CASE Named(s) BY <1>5, NamedKeeps
<1> QED BY <1>2, <1>3, <1>4, <1>5 DEF SlotChange, Added, Dropped, InCycle

----------------------------------------------------------------------------
(* Types. *)

\* A slot after a change, by whether it was in its cycle.
LEMMA SlotAfter ==
  ASSUME ETypeOK, NEW s \in Slots, SlotChange(s), InCycle(s)'
  PROVE  /\ slot'[s] \in SlotRecords
         /\ InCycle(s) \/ Added(s)
         /\ Executed(s) => Executed(s)'
<1>1. CASE Added(s)
  BY <1>1 DEF Added, Executed, InCycle
<1>2. CASE InCycle(s) /\ Recorded(s)
  <2>1. Len(Runs(s)) \in Nat BY <1>2, SlotTyped
  <2> QED BY <1>2, <2>1, RecordedAppends DEF Executed
<1>3. CASE InCycle(s) /\ ~Recorded(s)
  BY <1>3, OthersKeep DEF Executed
<1>4. InCycle(s) \/ Added(s)
  BY DEF SlotChange, Dropped, Handed, Repinned, Recorded, MayRecord, Named, Executed, InCycle
<1> QED BY <1>1, <1>2, <1>3, <1>4

\* A key is forgotten by no register.
LEMMA KnownStays ==
  ASSUME ETypeOK, NEW d \in Defects, DefectChange(d)
  PROVE  /\ defect'[d] \in DefectRecords \cup {None}
         /\ Known(d) => defect'[d] \in DefectRecords /\ defect'[d] # None
<1>1. defect[d] \in DefectRecords \cup {None} BY Tables DEF TablesOK
<1>2. CASE defect'[d] = defect[d] BY <1>1, <1>2 DEF Known
<1>3. CASE Reported(d)
  BY <1>3, NewDefect DEF Reported
<1>4. CASE Linked(d)
  <2>1. defect[d] \in DefectRecords BY <1>1, <1>4 DEF Linked, Known
  <2>2. defect'[d] \in DefectRecords BY <1>4, <2>1, LinkedDefect DEF Linked
  <2> QED BY <2>2, NoneIsNoRecord
<1>5. CASE Edited(d)
  <2>1. defect[d] \in DefectRecords BY <1>1, <1>5 DEF Edited, Known
  <2>2. defect'[d] \in DefectRecords BY <1>5, <2>1 DEF Edited, DefectRecords
  <2> QED BY <2>2, NoneIsNoRecord
<1>6. CASE Transitioned(d)
  <2>1. defect[d] \in DefectRecords BY <1>1, <1>6 DEF Transitioned, Known
  <2>2. defect'[d] \in DefectRecords BY <1>6, <2>1 DEF Transitioned, DefectRecords
  <2> QED BY <2>2, NoneIsNoRecord
<1> QED BY <1>2, <1>3, <1>4, <1>5, <1>6 DEF DefectChange, Reported

LEMMA TablesStay ==
  ASSUME ETypeOK, Change
  PROVE  TablesOK'
<1>1. cycle' \in [Cycles -> {"Absent", "Draft", "Ready", "In Progress"} \cup Locking]
  <2>1. \A k \in Cycles : cycle'[k] \in {"Absent", "Draft", "Ready", "In Progress"} \cup Locking
    BY Tables DEF TablesOK, Change, CyclesChange, CycleChange, Begun, Deleted, Moved, Ended, Locking
  <2> QED BY <2>1 DEF Change, CyclesChange, IsFun
<1>2. slot' \in [Slots -> SlotRecords \cup {None}]
  <2>1. \A s \in Slots : slot'[s] \in SlotRecords \cup {None}
    BY SlotAfter DEF Change, SlotsChange, InCycle
  <2> QED BY <2>1 DEF Change, SlotsChange, IsFun
<1>3. defect' \in [Defects -> DefectRecords \cup {None}]
  <2>1. \A d \in Defects : defect'[d] \in DefectRecords \cup {None}
    BY KnownStays DEF Change, DefectsChange
  <2> QED BY <2>1 DEF Change, DefectsChange, IsFun
<1> QED BY <1>1, <1>2, <1>3 DEF TablesOK, Change, Grown

\* The two parts of ETypeOK that are about several tables.
SlotOK(s) ==
  InCycle(s) => /\ Exists(s[1]) /\ slot[s].pinned <= approved[s[2]]
                /\ \A i \in DOMAIN Runs(s) : Runs(s)[i].key = None \/ Known(Runs(s)[i].key)

DefectOK(d) ==
  Known(d) => /\ \A s \in Slots : (At(d, s) \/ s \in defect[d].links) => Executed(s)
              /\ StatusIn(d, {"Assigned", "In Progress", "Resolved", "Retest"}) =>
                   defect[d].assignee # None

LEMMA TypeParts ==
  ETypeOK <=> TablesOK /\ (\A s \in Slots : SlotOK(s)) /\ (\A d \in Defects : DefectOK(d))
  BY DEF ETypeOK, TablesOK, SlotOK, DefectOK

LEMMA SlotsStayOK ==
  ASSUME ETypeOK, Change, NEW s \in Slots
  PROVE  SlotOK(s)'
<1> SUFFICES ASSUME InCycle(s)' PROVE SlotOK(s)'
  BY DEF SlotOK
<1>0. SlotChange(s) /\ SlotOK(s) /\ s[1] \in Cycles /\ s[2] \in Cases
  BY TypeParts DEF Change, SlotsChange, Slots
<1>1. Exists(s[1])'
  <2>1. Exists(s[1]) BY <1>0, SlotAfter DEF Added, Open, SlotOK
  <2>2. CycleChange(s[1]) BY <1>0 DEF Change, CyclesChange
  <2> QED BY <2>1, <2>2 DEF CycleChange, Begun, Deleted, Moved, Ended, Exists, InCycle
<1>2. slot'[s].pinned <= approved'[s[2]]
  <2>1. approved[s[2]] \in Nat /\ approved'[s[2]] \in Nat /\ approved[s[2]] <= approved'[s[2]]
    BY <1>0, NumbersOfVersions, ExecutionsAssumption DEF Change, Grown, Versions
  <2>2. slot'[s].pinned = approved[s[2]] \/ (InCycle(s) /\ slot'[s].pinned = slot[s].pinned)
    BY <1>0, SlotAfter, OthersKeep, RecordedAppends DEF Added
  <2>3. InCycle(s) => slot[s].pinned \in Nat /\ slot[s].pinned <= approved[s[2]]
    BY <1>0, SlotTyped, ExecutionsAssumption DEF SlotOK, SlotRecords, Versions
  <2> QED BY <2>1, <2>2, <2>3
<1>3. ASSUME NEW i \in 1 .. Len(slot'[s].runs)
      PROVE  slot'[s].runs[i].key = None \/ defect'[slot'[s].runs[i].key] # None
  <2>0. \A d \in Defects : Known(d) => defect'[d] # None
    BY KnownStays DEF Change, DefectsChange
  <2>1. CASE Added(s)
    BY <1>3, <2>1, EmptySeq DEF Added
  <2>2. CASE InCycle(s) /\ ~Recorded(s)
    <3>1. /\ Len(slot'[s].runs) = Len(Runs(s))
          /\ slot'[s].runs[i].key \in {Runs(s)[i].key, None} \/ defect'[slot'[s].runs[i].key] # None
      BY <1>0, <1>3, <2>2, OthersKeep DEF Runs
    <3>2. Runs(s)[i].key = None \/ (Runs(s)[i].key \in Defects /\ Known(Runs(s)[i].key))
      BY <1>0, <1>3, <2>2, <3>1, SlotTyped DEF SlotOK, Attempts
    <3> QED BY <2>0, <3>1, <3>2
  <2>3. CASE Recorded(s)
    <3>1. /\ Len(slot'[s].runs) = Len(Runs(s)) + 1 /\ UNCHANGED defect
          /\ \A j \in 1 .. Len(Runs(s)) : slot'[s].runs[j] = Runs(s)[j]
          /\ \E result \in Results : slot'[s].runs[Len(Runs(s)) + 1].key \in Keys(result)
      BY <2>3, RecordedAppends DEF Runs, LastRun
    <3>2. InCycle(s) BY <2>3 DEF Recorded, MayRecord
    <3>3. CASE i \in 1 .. Len(Runs(s))
      <4>1. Runs(s)[i].key = None \/ Known(Runs(s)[i].key)
        BY <1>0, <3>2, <3>3, SlotTyped DEF SlotOK
      <4> QED BY <3>1, <3>3, <4>1 DEF Known
    <3>4. CASE i = Len(Runs(s)) + 1
      BY <3>1, <3>4 DEF Keys, Known
    <3> QED BY <1>3, <3>1, <3>2, <3>3, <3>4, SlotTyped
  <2> QED BY <1>0, <2>1, <2>2, <2>3, SlotAfter
<1>4. DOMAIN Runs(s)' = 1 .. Len(slot'[s].runs)
  <2>1. slot'[s].runs \in Seq(Attempts) BY <1>0, SlotAfter DEF SlotRecords
  <2> QED BY <2>1 DEF Runs
<1> QED BY <1>1, <1>2, <1>3, <1>4 DEF SlotOK, Runs, Known

\* What was executed stays so, but for the slots no defect refers to.
LEMMA ExecutedStays ==
  ASSUME ETypeOK, Change, NEW s \in Slots, Executed(s)
  PROVE  Executed(s)' \/ Dropped(s)
<1>1. InCycle(s) /\ SlotChange(s) BY DEF Executed, Change, SlotsChange
<1>2. slot'[s] = None => Dropped(s)
  <2>1. slot[s] \in SlotRecords /\ slot[s] # None BY <1>1, SlotTyped DEF InCycle
  <2>2. CASE Added(s) BY <2>1, <2>2 DEF Added
  <2>3. CASE Handed(s)
    <3>1. slot'[s] \in SlotRecords BY <2>1, <2>3 DEF Handed, SlotRecords
    <3> QED BY <3>1, NoneIsNoRecord
  <2>4. CASE Repinned(s) BY <1>1, <2>4 DEF Repinned
  <2>5. CASE Recorded(s) BY <2>5, RecordedAppends, NoneIsNoRecord
  <2>6. CASE Named(s) BY <2>6, NamedKeeps, NoneIsNoRecord
  <2> QED BY <1>1, <2>1, <2>2, <2>3, <2>4, <2>5, <2>6 DEF SlotChange
<1> QED BY <1>1, <1>2, SlotAfter DEF InCycle

\* A slot a defect refers to after a change was executed before it.
LEMMA ReferredWasExecuted ==
  ASSUME ETypeOK, NEW d \in Defects, DefectChange(d), Known(d)', NEW s \in Slots,
         At(d, s)' \/ s \in defect'[d].links
  PROVE  /\ Executed(s)
         /\ defect'[d] = defect[d] => Referred(s)
<1>1. DefectOK(d) BY TypeParts
<1>2. CASE defect'[d] = defect[d]
  BY <1>1, <1>2 DEF DefectOK, Known, At, Referred
<1>3. CASE Reported(d)
  BY <1>3, NoneIsNoRecord DEF Reported, New, At, Known
<1>4. ASSUME Known(d) PROVE defect[d] \in DefectRecords
  BY <1>4, Tables DEF TablesOK, Known
<1>5. CASE Linked(d)
  <2>1. PICK t \in Slots : /\ Executed(t)
                           /\ \/ defect'[d] = [defect[d] EXCEPT !.home = t]
                              \/ defect'[d] = [defect[d] EXCEPT !.links = defect[d].links \cup {t}]
    BY <1>5 DEF Linked
  <2>2. Known(d) /\ defect[d] \in DefectRecords BY <1>4, <1>5 DEF Linked
  <2>3. /\ defect'[d].home \in {defect[d].home, t}
        /\ defect'[d].links \in {defect[d].links, defect[d].links \cup {t}}
    BY <2>1, <2>2 DEF DefectRecords
  <2>4. s = t \/ defect[d].home = s \/ s \in defect[d].links BY <2>3 DEF At
  <2> QED BY <1>1, <2>1, <2>2, <2>4 DEF DefectOK, At, Known, Referred
<1>6. CASE Edited(d) \/ Transitioned(d)
  <2>1. Known(d) /\ defect[d] \in DefectRecords BY <1>4, <1>6 DEF Edited, Transitioned
  <2>2. defect'[d].home = defect[d].home /\ defect'[d].links = defect[d].links
    BY <1>6, <2>1 DEF Edited, Transitioned, DefectRecords
  <2> QED BY <1>1, <2>1, <2>2 DEF DefectOK, At, Known, Referred
<1> QED BY <1>2, <1>3, <1>5, <1>6 DEF DefectChange

\* Who is in the middle of working on a defect came there by an assignment.
LEMMA StepsOfWork ==
  ASSUME NEW from, NEW to, <<from, to>> \in Transitions
  PROVE  /\ to = "In Progress" => from = "Assigned"
         /\ to = "Resolved" => from = "In Progress"
         /\ to = "Retest" => from = "Resolved"
<1>1. CASE to = "In Progress" BY <1>1 DEF Transitions, From
<1>2. CASE to = "Resolved" BY <1>2 DEF Transitions, From
<1>3. CASE to = "Retest" BY <1>3 DEF Transitions, From
<1> QED BY <1>1, <1>2, <1>3

Working == {"Assigned", "In Progress", "Resolved", "Retest"}

LEMMA WorkersStay ==
  ASSUME ETypeOK, NEW d \in Defects, DefectChange(d), defect'[d] # None,
         defect'[d].status \in Working
  PROVE  defect'[d].assignee # None
<1>0. /\ Known(d) => defect[d] \in DefectRecords
      /\ Known(d) /\ defect[d].status \in Working => defect[d].assignee # None
  <2>1. DefectOK(d) BY TypeParts
  <2> QED BY <2>1, Tables DEF TablesOK, Known, DefectOK, StatusIn, Working
<1>1. CASE defect'[d] = defect[d] BY <1>0, <1>1 DEF Known
<1>2. CASE Reported(d) BY <1>2 DEF Reported, New, Working
<1>3. CASE Linked(d)
  <2>1. defect'[d].status = defect[d].status /\ defect'[d].assignee = defect[d].assignee
    BY <1>0, <1>3 DEF Linked, DefectRecords
  <2> QED BY <1>0, <1>3, <2>1 DEF Linked
<1>4. CASE Edited(d)
  <2>1. /\ defect'[d].status = defect[d].status
        /\ defect'[d].assignee = defect[d].assignee \/ defect'[d].assignee \in Users
    BY <1>0, <1>4 DEF Edited, DefectRecords
  <2> QED BY <1>0, <1>4, <2>1, StaffAssumption DEF Edited
<1>5. CASE Transitioned(d)
  <2>1. PICK to \in DefectStatuses, a \in Users :
          /\ <<defect[d].status, to>> \in Transitions
          /\ defect'[d] = [defect[d] EXCEPT !.status = to, !.target = @ \/ to = "Deferred",
                                            !.assignee = IF to = "Assigned" THEN a ELSE @]
    BY <1>5 DEF Transitioned
  <2>2. Known(d) /\ defect[d] \in DefectRecords BY <1>0, <1>5 DEF Transitioned
  <2>3. /\ defect'[d].status = to
        /\ defect'[d].assignee = IF to = "Assigned" THEN a ELSE defect[d].assignee
    BY <2>1, <2>2 DEF DefectRecords
  <2>4. to # "Assigned" => defect[d].status \in Working
    BY <2>1, <2>3, StepsOfWork DEF Working
  <2> QED BY <1>0, <2>2, <2>3, <2>4, StaffAssumption
<1> QED BY <1>1, <1>2, <1>3, <1>4, <1>5 DEF DefectChange

LEMMA DefectsStayOK ==
  ASSUME ETypeOK, Change, NEW d \in Defects
  PROVE  DefectOK(d)'
<1> SUFFICES ASSUME Known(d)' PROVE DefectOK(d)'
  BY DEF DefectOK
<1>0. DefectChange(d) BY DEF Change, DefectsChange
<1>1. ASSUME NEW s \in Slots, At(d, s)' \/ s \in defect'[d].links PROVE Executed(s)'
  <2>1. Executed(s) /\ (defect'[d] = defect[d] => Referred(s))
    BY <1>0, <1>1, ReferredWasExecuted
  <2>2. ~Dropped(s) BY <2>1 DEF Dropped
  <2> QED BY <2>1, <2>2, ExecutedStays
<1>2. defect'[d].status \in Working => defect'[d].assignee # None
  BY <1>0, WorkersStay DEF Known
<1> QED BY <1>1, <1>2 DEF DefectOK, StatusIn, Working

LEMMA TypesStay ==
  ASSUME ETypeOK, Change
  PROVE  ETypeOK'
<1>1. TablesOK' BY TablesStay
<1>2. \A s \in Slots : SlotOK(s)' BY SlotsStayOK
<1>3. \A d \in Defects : DefectOK(d)' BY DefectsStayOK
<1>4. (\A s \in Slots : SlotOK(s))' BY <1>2
<1>5. (\A d \in Defects : DefectOK(d))' BY <1>3
<1> QED BY <1>1, <1>4, <1>5, TypeParts, PTL

----------------------------------------------------------------------------
(* Histories. *)

Reads(runs) ==
  \A j \in 1 .. Len(runs) :
    LET failed == \E i \in 1 .. j - 1 : runs[i].result \in Failing IN
    /\ failed => runs[j].result \notin {"Pass", "NA"}
    /\ runs[j].result = "Retest Passed" => failed

LEMMA HistoryParts ==
  ETypeOK => (HistoryReads <=> \A s \in Slots : InCycle(s) => Reads(slot[s].runs))
<1> SUFFICES ASSUME ETypeOK
             PROVE  HistoryReads <=> \A s \in Slots : InCycle(s) => Reads(slot[s].runs)
  OBVIOUS
<1>1. \A s \in Slots : InCycle(s) => DOMAIN Runs(s) = 1 .. Len(slot[s].runs)
  BY SlotTyped DEF Runs
<1> QED BY <1>1 DEF HistoryReads, Reads, Runs

\* The same results read the same.
LEMMA SameReads ==
  ASSUME NEW r, NEW q, Len(r) \in Nat, Len(q) = Len(r), Reads(r),
         \A i \in 1 .. Len(r) : q[i].result = r[i].result
  PROVE  Reads(q)
<1> SUFFICES ASSUME NEW j \in 1 .. Len(r)
             PROVE  LET failed == \E i \in 1 .. j - 1 : q[i].result \in Failing IN
                    /\ failed => q[j].result \notin {"Pass", "NA"}
                    /\ q[j].result = "Retest Passed" => failed
  BY DEF Reads
<1>1. \A i \in 1 .. j - 1 : i \in 1 .. Len(r) OBVIOUS
<1>2. (\E i \in 1 .. j - 1 : q[i].result \in Failing)
        <=> \E i \in 1 .. j - 1 : r[i].result \in Failing
  BY <1>1
<1> QED BY <1>2 DEF Reads

LEMMA Positions ==
  ASSUME NEW n \in Nat, NEW j \in 1 .. n + 1
  PROVE  /\ \A i \in 1 .. j - 1 : i \in 1 .. n
         /\ IF j = n + 1 THEN j - 1 = n ELSE j \in 1 .. n
  OBVIOUS

\* One more result reads on, if the gate let it pass.
LEMMA OneMoreReads ==
  ASSUME NEW r, NEW q, NEW n \in Nat, Len(r) = n, Len(q) = n + 1, Reads(r),
         \A i \in 1 .. n : q[i] = r[i],
         (\E i \in 1 .. n : r[i].result \in Failing) => q[n + 1].result \notin {"Pass", "NA"},
         q[n + 1].result = "Retest Passed" => \E i \in 1 .. n : r[i].result \in Failing
  PROVE  Reads(q)
<1> SUFFICES ASSUME NEW j \in 1 .. n + 1
             PROVE  LET failed == \E i \in 1 .. j - 1 : q[i].result \in Failing IN
                    /\ failed => q[j].result \notin {"Pass", "NA"}
                    /\ q[j].result = "Retest Passed" => failed
  BY DEF Reads
<1>1. \A i \in 1 .. j - 1 : i \in 1 .. n BY Positions
<1>2. (\E i \in 1 .. j - 1 : q[i].result \in Failing)
        <=> \E i \in 1 .. j - 1 : r[i].result \in Failing
  BY <1>1
<1>3. CASE j = n + 1
  <2>1. j - 1 = n BY <1>3, Positions
  <2> QED BY <1>2, <1>3, <2>1
<1>4. CASE j # n + 1
  <2>1. j \in 1 .. n BY <1>4, Positions
  <2> QED BY <1>2, <2>1 DEF Reads
<1> QED BY <1>3, <1>4

LEMMA HistoriesStay ==
  ASSUME ETypeOK, Change, HistoryReads
  PROVE  HistoryReads'
<1>1. ASSUME NEW s \in Slots, InCycle(s)' PROVE Reads(slot'[s].runs)
  <2>0. SlotChange(s) BY DEF Change, SlotsChange
  <2>1. CASE Added(s)
    <3>1. Len(slot'[s].runs) = 0 BY <2>1, EmptySeq DEF Added
    <3>2. 1 .. Len(slot'[s].runs) = {} BY <3>1
    <3> QED BY <3>2 DEF Reads
  <2>2. ASSUME InCycle(s)
        PROVE  Len(Runs(s)) \in Nat /\ Reads(Runs(s)) /\ DOMAIN Runs(s) = 1 .. Len(Runs(s))
    BY <2>2, HistoryParts, SlotTyped DEF Runs
  <2>3. CASE InCycle(s) /\ ~Recorded(s)
    <3>1. /\ Len(slot'[s].runs) = Len(Runs(s))
          /\ \A i \in 1 .. Len(Runs(s)) : slot'[s].runs[i].result = Runs(s)[i].result
      BY <1>1, <2>0, <2>3, OthersKeep DEF Runs
    <3> QED BY <2>2, <2>3, <3>1, SameReads
  <2>4. CASE Recorded(s)
    <3>1. InCycle(s) BY <2>4 DEF Recorded, MayRecord
    <3>2. PICK u \in Users, result \in Results : \E key \in Keys(result) :
            MayRecord(u, s, result, key) /\ LastRun(s)'.result = result
      BY <2>4, RecordedAppends
    <3>3. /\ Len(slot'[s].runs) = Len(Runs(s)) + 1
          /\ \A i \in 1 .. Len(Runs(s)) : slot'[s].runs[i] = Runs(s)[i]
      BY <2>4, RecordedAppends DEF Runs
    <3>4. slot'[s].runs[Len(slot'[s].runs)].result = result
      BY <3>2 DEF LastRun, Runs
    <3>5. /\ FailedBefore(s) => result \notin {"Pass", "NA"}
          /\ result = "Retest Passed" => FailedBefore(s)
      BY <3>2 DEF MayRecord, Gate
    <3>6. FailedBefore(s) <=> \E i \in 1 .. Len(Runs(s)) : Runs(s)[i].result \in Failing
      BY <2>2, <3>1 DEF FailedBefore
    <3> QED BY <2>2, <3>1, <3>3, <3>4, <3>5, <3>6, OneMoreReads
  <2> QED BY <1>1, <2>0, <2>1, <2>3, <2>4, SlotAfter
<1>2. ETypeOK' BY TypesStay
<1>3. (\A s \in Slots : InCycle(s) => Reads(slot[s].runs))'
  BY <1>1
<1> QED BY <1>2, <1>3, HistoryParts, PTL

----------------------------------------------------------------------------
(* Completed cycles. *)

CompletedExecuted ==
  \A s \in Slots : cycle[s[1]] = "Completed" /\ InCycle(s) => Executed(s)

\* A cycle is locked for good when it is completed, and with it its slots.
LEMMA SlotOfCompleted ==
  ASSUME ETypeOK, Change, NEW s \in Slots, cycle[s[1]] = "Completed"
  PROVE  /\ cycle'[s[1]] = "Completed"
         /\ slot'[s] = slot[s] \/ Named(s)
<1>1. s[1] \in Cycles BY DEF Slots
<1>2. CycleChange(s[1]) /\ SlotChange(s) BY <1>1 DEF Change, CyclesChange, SlotsChange
<1>3. ~Open(s[1]) BY DEF Open, Locking
<1> QED BY <1>2, <1>3 DEF CycleChange, Begun, Deleted, Moved, Ended, SlotChange, Added, Dropped,
                          Handed, Repinned, Recorded, MayRecord

LEMMA CompletedStay ==
  ASSUME ETypeOK, Change, CompletedExecuted
  PROVE  CompletedExecuted'
<1> SUFFICES ASSUME NEW s \in Slots, cycle'[s[1]] = "Completed", InCycle(s)'
             PROVE  Executed(s)'
  BY DEF CompletedExecuted
<1>1. s[1] \in Cycles BY DEF Slots
<1>2. CASE cycle[s[1]] = "Completed"
  <2>1. Executed(s)
    BY <1>1, <1>2, SlotOfCompleted DEF CompletedExecuted, Named, InCycle
  <2> QED BY <2>1, ExecutedStays DEF Dropped, InCycle
<1>3. CASE cycle[s[1]] # "Completed"
  <2>1. CycleChange(s[1]) BY <1>1 DEF Change, CyclesChange
  <2>2. Ended(s[1]) BY <1>3, <2>1 DEF CycleChange, Begun, Deleted, Moved
  <2> QED BY <2>2 DEF Ended, SlotsOf, InCycle, Executed, Runs
<1> QED BY <1>2, <1>3

----------------------------------------------------------------------------
(* The quick panel. *)

\* What a step does to the panels.
PanelChange ==
  \/ Unchanged
  \/ \E u \in Readers, s \in Slots : ToggleRunPanel(u, s)
  \/ \E u \in Readers : CloseOutside(u)
  \/ \E u \in Readers, result \in Results : SaveResult(u, result)

LEMMA PanelsChange == PagesNext => PanelChange
<1> SUFFICES ASSUME PagesNext PROVE PanelChange
  OBVIOUS
<1> USE DEF PanelChange
<1>1. ASSUME NEW u \in Users, NEW k \in Cycles, CycleStep(u, k) PROVE Unchanged
  BY <1>1 DEF CycleStep, CycleModal, DeleteButton, TransitionCycle, AddCasesModal,
              BulkAssignSelected, BulkRemoveModal, BulkExecutionModal
<1>2. ASSUME NEW u \in Users, NEW s \in Slots, SlotStep(u, s) PROVE Unchanged
  BY <1>2 DEF SlotStep, AssignRunner, RemoveButton, VersionUpgradeAction, RecordResultModal,
              LinkDefect, DefectLinks, LinkExistingDefectModal
<1>3. ASSUME NEW u \in Users, NEW d \in Defects, DefectStep(u, d) PROVE Unchanged
  BY <1>3 DEF DefectStep, CreateDefectModal, TransitionModal, ReassignDefectModal,
              LinkExecutionModal, EditDefectModal, StagedEvidence
<1>4. ASSUME NEW u \in Readers, PanelStep(u) PROVE PanelChange
  BY <1>4 DEF PanelStep
<1>5. ASSUME NEW c \in Cases, RepositoryStep(c) PROVE Unchanged
  BY <1>5 DEF RepositoryStep
<1> QED BY <1>1, <1>2, <1>3, <1>4, <1>5 DEF PagesNext

LEMMA PanelsStayOK ==
  ASSUME ETypeOK, PanelOK, PanelChange
  PROVE  PanelOK'
<1>1. CASE Unchanged BY <1>1 DEF Unchanged, PanelOK
<1>2. ASSUME NEW u \in Readers, NEW s \in Slots, ToggleRunPanel(u, s) PROVE PanelOK'
  <2>1. Len(Runs(s)) \in Nat BY <1>2, SlotTyped DEF ToggleRunPanel
  <2> QED BY <1>2, <2>1 DEF ToggleRunPanel, PanelOK
<1>3. ASSUME NEW u \in Readers, CloseOutside(u) PROVE PanelOK'
  BY <1>3 DEF CloseOutside, PanelOK
<1>4. ASSUME NEW u \in Readers, NEW result \in Results, SaveResult(u, result) PROVE PanelOK'
  BY <1>4 DEF SaveResult, PanelOK
<1> QED BY <1>1, <1>2, <1>3, <1>4 DEF PanelChange

----------------------------------------------------------------------------
(* The invariant. *)

IInv == ETypeOK /\ HistoryReads /\ CompletedExecuted /\ PanelOK

LEMMA IInvInit == PagesInit => IInv
<1> SUFFICES ASSUME PagesInit PROVE IInv
  OBVIOUS
<1> USE DEF PagesInit, ExecInit, PanelInit
<1>1. \A s \in Slots : ~InCycle(s) BY DEF InCycle
<1>2. \A d \in Defects : ~Known(d) BY DEF Known
<1>3. 1 \in Versions BY ExecutionsAssumption DEF Versions
<1>4. ETypeOK BY <1>1, <1>2, <1>3 DEF ETypeOK
<1> QED BY <1>1, <1>4 DEF IInv, HistoryReads, CompletedExecuted, PanelOK

LEMMA IInvNext == IInv /\ [PagesNext]_executionPageVars => IInv'
<1> SUFFICES ASSUME IInv, [PagesNext]_executionPageVars PROVE IInv'
  OBVIOUS
<1> USE DEF IInv
<1>1. CASE PagesNext
  <2>1. Change BY <1>1, PagesChange
  <2>2. PanelChange BY <1>1, PanelsChange
  <2> QED BY <2>1, <2>2, TypesStay, HistoriesStay, CompletedStay, PanelsStayOK
<1>2. CASE UNCHANGED executionPageVars
  <2> USE <1>2 DEF executionPageVars
  <2>1. ETypeOK' BY DEF ETypeOK, InCycle, Exists, Runs, Known, At, StatusIn, Executed
  <2>2. HistoryReads' BY DEF HistoryReads, InCycle, Runs
  <2>3. CompletedExecuted' BY DEF CompletedExecuted, InCycle, Executed, Runs
  <2>4. PanelOK' BY DEF PanelOK
  <2> QED BY <2>1, <2>2, <2>3, <2>4
<1> QED BY <1>1, <1>2

LEMMA IInvHolds == PagesSpec => []IInv
  BY IInvInit, IInvNext, PTL DEF PagesSpec

\* The register is sound whatever is done on which page: no record refers to what is
\* not there, and every history of attempts reads as one.
THEOREM RegisterIsAlwaysSound == PagesSpec => []RegisterIsSound
<1>1. IInv => RegisterIsSound BY DEF IInv, RegisterIsSound
<1> QED BY <1>1, IInvHolds, PTL

----------------------------------------------------------------------------
(* The steps. *)

\* Only a recorded attempt makes a history grow.
LEMMA GrowthIsRecorded ==
  ASSUME ETypeOK, Change, NEW s \in Slots, Grows(s)
  PROVE  Recorded(s)
<1>1. SlotChange(s) /\ InCycle(s) /\ InCycle(s)' /\ Len(Runs(s)') > Len(Runs(s))
  BY DEF Change, SlotsChange, Grows
<1>2. Len(Runs(s)) \in Nat BY <1>1, SlotTyped
<1>3. ~Recorded(s) => Len(Runs(s)') = Len(Runs(s)) BY <1>1, OthersKeep
<1> QED BY <1>1, <1>2, <1>3

GovernedStep ==
  \A s \in Slots : Grows(s) =>
    /\ \A d \in Defects : At(d, s) => StatusIn(d, Clear)
    /\ FailedBefore(s) /\ LastRun(s)'.result = "Fail" =>
         \E d \in Defects : LastRun(s)'.key = d /\ Known(d) /\ ~At(d, s) /\ ~StatusIn(d, Clear)

LEMMA StepsAreGoverned ==
  ASSUME IInv, Change
  PROVE  GovernedStep
<1> SUFFICES ASSUME NEW s \in Slots, Grows(s)
             PROVE  /\ \A d \in Defects : At(d, s) => StatusIn(d, Clear)
                    /\ FailedBefore(s) /\ LastRun(s)'.result = "Fail" =>
                         \E d \in Defects : /\ LastRun(s)'.key = d /\ Known(d)
                                            /\ ~At(d, s) /\ ~StatusIn(d, Clear)
  BY DEF GovernedStep
<1>1. ETypeOK BY DEF IInv
<1>2. Recorded(s) BY <1>1, GrowthIsRecorded
<1>3. PICK u \in Users, result \in Results : \E key \in Keys(result) :
        MayRecord(u, s, result, key) /\ LastRun(s)'.result = result /\ LastRun(s)'.key = key
  BY <1>1, <1>2, RecordedAppends
<1>4. PICK key \in Keys(result) :
        MayRecord(u, s, result, key) /\ LastRun(s)'.result = result /\ LastRun(s)'.key = key
  BY <1>3
<1>5. Gate(s, result, key) BY <1>4 DEF MayRecord
<1>6. \A d \in Defects : At(d, s) => StatusIn(d, Clear)
  BY <1>5 DEF Gate, ActiveDefects
<1> QED BY <1>4, <1>5, <1>6 DEF Gate

\* No attempt is recorded past an open defect of its slot.
THEOREM DefectsAlwaysGovernRetest == PagesSpec => DefectsGovernRetest
<1>1. IInv /\ [PagesNext]_executionPageVars => [GovernedStep]_execVars
  <2> SUFFICES ASSUME IInv, [PagesNext]_executionPageVars PROVE [GovernedStep]_execVars
    OBVIOUS
  <2>1. CASE PagesNext
    <3>1. Change BY <2>1, PagesChange DEF IInv
    <3> QED BY <3>1, StepsAreGoverned
  <2>2. CASE UNCHANGED executionPageVars BY <2>2 DEF executionPageVars, execVars
  <2> QED BY <2>1, <2>2
<1> QED BY <1>1, IInvHolds, PTL DEF PagesSpec, DefectsGovernRetest, GovernedStep

CompletedStep ==
  \A k \in Cycles : cycle[k] = "Completed" =>
    /\ cycle'[k] = "Completed"
    /\ \A s \in Slots : s[1] = k =>
         /\ InCycle(s) => Executed(s)
         /\ InCycle(s) <=> InCycle(s)'
         /\ InCycle(s) => /\ slot'[s].runner = slot[s].runner
                          /\ Len(Runs(s)') = Len(Runs(s))

EvidenceStep ==
  \A s \in Slots : Executed(s) /\ InCycle(s)' =>
    /\ slot'[s].pinned = slot[s].pinned
    /\ Len(Runs(s)') >= Len(Runs(s))
    /\ \A i \in DOMAIN Runs(s) : slot'[s].runs[i].result = Runs(s)[i].result

LEMMA CompletedStepStands ==
  ASSUME IInv, Change
  PROVE  CompletedStep
<1> USE DEF IInv
<1>1. ASSUME NEW k \in Cycles, cycle[k] = "Completed" PROVE cycle'[k] = "Completed"
  <2>1. CycleChange(k) BY DEF Change, CyclesChange
  <2> QED BY <1>1, <2>1 DEF CycleChange, Begun, Deleted, Moved, Ended, Open, Locking
<1>2. ASSUME NEW s \in Slots, cycle[s[1]] = "Completed"
      PROVE  /\ InCycle(s) => Executed(s)
             /\ InCycle(s) <=> InCycle(s)'
             /\ InCycle(s) => /\ slot'[s].runner = slot[s].runner
                              /\ Len(Runs(s)') = Len(Runs(s))
  <2>1. slot'[s] = slot[s] \/ Named(s) BY <1>2, SlotOfCompleted
  <2>2. CASE slot'[s] = slot[s]
    BY <1>2, <2>2 DEF CompletedExecuted, InCycle, Runs
  <2>3. CASE Named(s)
    BY <2>3, NamedKeeps, NoneIsNoRecord DEF Named, Executed, InCycle
  <2> QED BY <2>1, <2>2, <2>3
<1> QED BY <1>1, <1>2 DEF CompletedStep

LEMMA EvidenceStepStands ==
  ASSUME IInv, Change
  PROVE  EvidenceStep
<1> SUFFICES ASSUME NEW s \in Slots, Executed(s), InCycle(s)'
             PROVE  /\ slot'[s].pinned = slot[s].pinned
                    /\ Len(Runs(s)') >= Len(Runs(s))
                    /\ \A i \in DOMAIN Runs(s) : slot'[s].runs[i].result = Runs(s)[i].result
  BY DEF EvidenceStep
<1>1. ETypeOK /\ SlotChange(s) /\ InCycle(s) BY DEF IInv, Change, SlotsChange, Executed
<1>2. Len(Runs(s)) \in Nat /\ DOMAIN Runs(s) = 1 .. Len(Runs(s)) BY <1>1, SlotTyped
<1>3. CASE Recorded(s) BY <1>1, <1>2, <1>3, RecordedAppends
<1>4. CASE ~Recorded(s) BY <1>1, <1>2, <1>4, OthersKeep
<1> QED BY <1>3, <1>4

\* A completed cycle keeps its slots, runners and attempts, and a slot what it recorded.
THEOREM RecordsAlwaysStand == PagesSpec => RecordsStand
<1>1. IInv /\ [PagesNext]_executionPageVars => [CompletedStep]_execVars /\ [EvidenceStep]_execVars
  <2> SUFFICES ASSUME IInv, [PagesNext]_executionPageVars
               PROVE  [CompletedStep]_execVars /\ [EvidenceStep]_execVars
    OBVIOUS
  <2>1. CASE PagesNext
    <3>1. Change BY <2>1, PagesChange DEF IInv
    <3> QED BY <3>1, CompletedStepStands, EvidenceStepStands
  <2>2. CASE UNCHANGED executionPageVars BY <2>2 DEF executionPageVars, execVars
  <2> QED BY <2>1, <2>2
<1> QED BY <1>1, IInvHolds, PTL DEF PagesSpec, RecordsStand, CompletedStands, CompletedStep,
                                    EvidenceStands, EvidenceStep

AnnouncedStep ==
  \A u \in Readers : \A s \in Slots :
    /\ panel[u] # None /\ panel'[u] = None /\ Grows(s) /\ s = panel[u].slot =>
         Len(Runs(s)') = panel[u].seen + 1

LEMMA StepsAreAnnounced ==
  ASSUME IInv, PagesNext
  PROVE  AnnouncedStep
<1> SUFFICES ASSUME NEW u \in Readers, NEW s \in Slots,
                    panel[u] # None, panel'[u] = None, Grows(s), s = panel[u].slot
             PROVE  Len(Runs(s)') = panel[u].seen + 1
  BY DEF AnnouncedStep
<1>1. Change BY PagesChange DEF IInv
<1>2. Len(Runs(s)') = Len(Runs(s)) + 1
  BY <1>1, GrowthIsRecorded, RecordedAppends DEF IInv
<1>3. ~Unchanged BY DEF Unchanged, Grows, InCycle
<1>4. ASSUME NEW v \in Readers, NEW t \in Slots, ToggleRunPanel(v, t) PROVE FALSE
  BY <1>4 DEF ToggleRunPanel, IInv, PanelOK
<1>5. ASSUME NEW v \in Readers, CloseOutside(v) PROVE FALSE
  <2>1. Recorded(s) BY <1>1, GrowthIsRecorded DEF IInv
  <2>2. UNCHANGED slot BY <1>5 DEF CloseOutside, execVars
  <2>3. Len(Runs(s)') = Len(Runs(s)) BY <2>2 DEF Runs
  <2>4. Len(Runs(s)) \in Nat BY SlotTyped DEF Grows, IInv
  <2> QED BY <1>2, <2>3, <2>4
<1>6. ASSUME NEW v \in Readers, NEW result \in Results, SaveResult(v, result)
      PROVE  Len(Runs(s)) = panel[u].seen
  <2>1. v = u BY <1>6 DEF SaveResult, IInv, PanelOK
  <2> QED BY <1>6, <2>1 DEF SaveResult, Record
<1>7. PanelChange BY PanelsChange
<1> QED BY <1>2, <1>3, <1>4, <1>5, <1>6, <1>7 DEF PanelChange

\* The number a quick panel announces is the number its attempt gets.
THEOREM AttemptsAlwaysAsAnnounced == PagesSpec => AttemptAsAnnounced
<1>1. IInv /\ [PagesNext]_executionPageVars => [AnnouncedStep]_executionPageVars
  BY StepsAreAnnounced
<1> QED BY <1>1, IInvHolds, PTL DEF PagesSpec, AttemptAsAnnounced, AnnouncedStep

----------------------------------------------------------------------------
(* The pages. *)

\* Whoever added a slot may execute: the page offers its removal to whoever added it,
\* the server asks for a role too.
AddersExecute == \A s \in Slots : InCycle(s) => MayExecute(slot[s].adder)

LEMMA AddersStay ==
  ASSUME ETypeOK, Change, AddersExecute
  PROVE  AddersExecute'
<1> SUFFICES ASSUME NEW s \in Slots, InCycle(s)' PROVE MayExecute(slot'[s].adder)
  BY DEF AddersExecute
<1>1. SlotChange(s) BY DEF Change, SlotsChange
<1>2. CASE Added(s) BY <1>2 DEF Added
<1>3. CASE InCycle(s)
  <2>1. slot'[s].adder = slot[s].adder
    <3>1. CASE Recorded(s) BY <3>1, RecordedAppends
    <3>2. CASE ~Recorded(s) BY <1>1, <1>3, <3>2, OthersKeep
    <3> QED BY <3>1, <3>2
  <2>2. MayExecute(slot[s].adder) BY <1>3 DEF AddersExecute
  <2> QED BY <2>1, <2>2
<1> QED BY <1>1, <1>2, <1>3, SlotAfter

PInv == IInv /\ AddersExecute

LEMMA PInvHolds == PagesSpec => []PInv
<1>1. PagesInit => AddersExecute
  BY DEF PagesInit, ExecInit, AddersExecute, InCycle
<1>2. IInv /\ AddersExecute /\ [PagesNext]_executionPageVars => AddersExecute'
  <2> SUFFICES ASSUME IInv, AddersExecute, [PagesNext]_executionPageVars PROVE AddersExecute'
    OBVIOUS
  <2>1. CASE PagesNext BY <2>1, PagesChange, AddersStay DEF IInv
  <2>2. CASE UNCHANGED executionPageVars
    BY <2>2 DEF executionPageVars, AddersExecute, InCycle
  <2> QED BY <2>1, <2>2
<1> QED BY <1>1, <1>2, IInvHolds, PTL DEF PagesSpec, PInv

\* What the dialog "Complete" counts is what the server asks of each slot.
LEMMA CountsAgree ==
  ASSUME IsFiniteSet(Cases), NEW k \in Cycles
  PROVE  ExecutedCount(k) = Cardinality(SlotsOf(k)) <=> \A s \in SlotsOf(k) : Executed(s)
<1> DEFINE done == {s \in SlotsOf(k) : Executed(s)}
<1>1. IsFiniteSet({k} \X Cases)
  BY FS_Product, FS_Singleton
<1>2. SlotsOf(k) \subseteq {k} \X Cases
  BY DEF SlotsOf, Slots
<1>3. IsFiniteSet(SlotsOf(k))
  BY <1>1, <1>2, FS_Subset
<1>4. done = SlotsOf(k) <=> Cardinality(done) = Cardinality(SlotsOf(k))
  BY <1>3, FS_Subset
<1>5. done = SlotsOf(k) <=> \A s \in SlotsOf(k) : Executed(s)
  OBVIOUS
<1> QED BY <1>4, <1>5 DEF ExecutedCount

LEMMA CycleButtonsAgree ==
  ASSUME ETypeOK, IsFiniteSet(Cases), NEW u \in Users, NEW k \in Cycles,
         NEW to \in {"Ready", "In Progress", "Blocked", "Completed"}
  PROVE  /\ to \in CycleButtons(u, k) => KnownCycleRefusal(u, k, to) \/ MovesTo(u, k, to)
         /\ MovesTo(u, k, to) => to \in CycleButtons(u, k)
<1>1. cycle[k] \in {"Absent", "Draft", "Ready", "In Progress", "Blocked", "Completed"}
  BY DEF ETypeOK, Locking
<1>2. CanExec(u) <=> MayExecute(u)
  BY DEF CanExec, MayExecute
<1>3. \A a : a \in CycleButtons(u, k) <=>
               MayExecute(u) /\ a \in Actions(k) /\ (a = "Completed" => CompleteEnabled(k))
  BY <1>2 DEF CycleButtons
<1>4. /\ "Ready" \in Actions(k) <=> cycle[k] = "Draft"
      /\ "In Progress" \in Actions(k) <=> cycle[k] \in {"Ready", "Blocked"}
      /\ "Blocked" \in Actions(k) <=> cycle[k] = "In Progress"
      /\ "Completed" \in Actions(k) <=> cycle[k] = "In Progress"
  BY <1>1 DEF Actions
<1>5. CASE to = "Ready"
  BY <1>3, <1>4, <1>5 DEF KnownCycleRefusal, MovesTo, MayMarkReady
<1>6. CASE to = "In Progress"
  BY <1>3, <1>4, <1>6 DEF KnownCycleRefusal, MovesTo, MayBegin, MayResume
<1>7. CASE to = "Blocked"
  BY <1>3, <1>4, <1>7 DEF KnownCycleRefusal, MovesTo, MayBlock
<1>8. CASE to = "Completed"
  <2>1. CompleteEnabled(k) <=> OpenDefects(k, TRUE) = {} /\ \A s \in SlotsOf(k) : Executed(s)
    BY CountsAgree DEF CompleteEnabled, Blockers
  <2> QED BY <1>3, <1>4, <1>8, <2>1 DEF KnownCycleRefusal, MovesTo, MayComplete, Residual
<1> QED BY <1>5, <1>6, <1>7, <1>8

LEMMA CycleOffers ==
  ASSUME ETypeOK, IsFiniteSet(Cases)
  PROVE  CycleOffersAreAccepted
<1> SUFFICES ASSUME NEW u \in Users, NEW k \in Cycles, Exists(k)
             PROVE  /\ \A to \in {"Ready", "In Progress", "Blocked", "Completed"} :
                         /\ to \in CycleButtons(u, k) =>
                              KnownCycleRefusal(u, k, to) \/ MovesTo(u, k, to)
                         /\ MovesTo(u, k, to) => to \in CycleButtons(u, k)
                    /\ ShowsDeleteCycle(u, k) =>
                         KnownCycleRefusal(u, k, "delete") \/ MayDeleteCycle(u, k)
                    /\ ShowsAddCases(u, k) /\ ~KnownCycleRefusal(u, k, "add") =>
                         \A all \in BOOLEAN : \A ticked \in SUBSET Candidates(k) :
                           SelectionOf(k, all, ticked) # {} =>
                             MayAddCases(u, k, SelectionOf(k, all, ticked))
  BY DEF CycleOffersAreAccepted
<1>1. CanExec(u) <=> MayExecute(u)
  BY DEF CanExec, MayExecute
<1>2. ShowsDeleteCycle(u, k) => KnownCycleRefusal(u, k, "delete") \/ MayDeleteCycle(u, k)
  <2>1. KnownCycleRefusal(u, k, "delete") <=>
          ~MayExecute(u) \/ (SlotsOf(k) # {} /\ (u \notin Admins \/ \E s \in SlotsOf(k) : Referred(s)))
    BY <1>1 DEF KnownCycleRefusal
  <2>2. ShowsDeleteCycle(u, k) => Governs(u) /\ Open(k)
    BY DEF ShowsDeleteCycle, CanManageExecutionGovernance, Governs, Open, CycleIsLocked
  <2> QED BY <2>1, <2>2 DEF MayDeleteCycle
<1>3. ASSUME ShowsAddCases(u, k), ~KnownCycleRefusal(u, k, "add"),
             NEW all \in BOOLEAN, NEW ticked \in SUBSET Candidates(k),
             SelectionOf(k, all, ticked) # {}
      PROVE  MayAddCases(u, k, SelectionOf(k, all, ticked))
  <2>1. MayChangeScope(u, k)
    BY <1>3 DEF KnownCycleRefusal
  <2>2. MayExecute(u) /\ Open(k)
    BY <1>3 DEF ShowsAddCases, CanExec, MayExecute, CycleIsLocked, Open
  <2>3. SelectionOf(k, all, ticked) \subseteq Candidates(k)
    BY DEF SelectionOf
  <2>4. \A c \in Candidates(k) : VersionStatus(c, approved[c]) = "Approved"
    BY DEF Candidates
  <2> QED BY <1>3, <2>1, <2>2, <2>3, <2>4 DEF MayAddCases
<1>4. \A to \in {"Ready", "In Progress", "Blocked", "Completed"} :
        /\ to \in CycleButtons(u, k) => KnownCycleRefusal(u, k, to) \/ MovesTo(u, k, to)
        /\ MovesTo(u, k, to) => to \in CycleButtons(u, k)
  BY CycleButtonsAgree
<1> QED BY <1>2, <1>3, <1>4

\* Without a key the gate of the page is the gate of the server.
LEMMA GatesAgree ==
  ASSUME NEW s \in Slots, NEW result
  PROVE  ExecutionStatusGate(s, result, None) <=> Gate(s, result, None)
<1>1. None \notin Defects
  BY NoneIsNoRecord
<1> QED BY <1>1 DEF ExecutionStatusGate, HasRetestEligibleHistory, Gate

LEMMA RowRecords ==
  ASSUME NEW u \in Users, NEW s \in Slots, InCycle(s), NEW result
  PROVE  CanExecuteRow(u, s) /\ ExecutionStatusGate(s, result, None)
           <=> MayRecord(u, s, result, None)
<1>1. None \in Keys(result)
  BY DEF Keys
<1> QED BY <1>1, GatesAgree DEF MayRecord, CanExecuteRow, CanExec, MayExecute

\* A slot is of a cycle; it is open to changes when its cycle is not locked.
LEMMA SlotsAreOpen ==
  ASSUME ETypeOK, NEW s \in Slots, InCycle(s)
  PROVE  Open(s[1]) <=> ~CycleIsLocked(s[1])
<1>1. SlotOK(s) BY TypeParts
<1> QED BY <1>1 DEF SlotOK, Open, CycleIsLocked

\* What can be selected to be removed can be removed.
LEMMA RowRemoves ==
  ASSUME PInv, NEW u \in Users, NEW s \in Slots, InCycle(s), RemoveFromCycleEligibility(u, s)
  PROVE  HasRole(u, Engineers \cup LeadGroup) /\ MayRemove(u, s)
<1>1. MayExecute(slot[s].adder) BY DEF PInv, AddersExecute
<1>2. MayRemove(u, s)
  BY DEF RemoveFromCycleEligibility, CanManageExecutionGovernance, MayRemove, Governs
<1>3. u \in Admins \/ Governs(u) \/ MayExecute(u)
  BY <1>1, <1>2 DEF MayRemove
<1> QED BY <1>2, <1>3 DEF Governs, MayExecute, HasRole, Executors, LeadGroup

LEMMA RowOffers ==
  ASSUME PInv
  PROVE  RowOffersAreAccepted
<1> SUFFICES ASSUME NEW u \in Users, NEW s \in Slots, InCycle(s)
             PROVE  /\ \A r \in Results :
                         /\ (r \in QuickOptions(u, s)) <=> MayRecord(u, s, r, None)
                         /\ \A d \in Defects : Known(d) /\ r \in ModalOptions(u, s, d) =>
                              \/ cycle[s[1]] # "In Progress" \/ StatusIn(d, Clear)
                              \/ MayRecord(u, s, r, IF r \in Failing THEN d ELSE None)
                    /\ ShowsAssign(u, s) <=> MayAssign(u, {s})
                    /\ (ShowsRemove(u, s) /\ ~Referred(s)) <=> MayRemoveAll(u, {s})
                    /\ ShowsUpgrade(s) \/ slot[s].pinned = approved[s[2]] \/ ~MayUpgrade(u, s)
                    /\ ShowsLink(u, s) =>
                         /\ MayLinkRun(u, s)
                         /\ u \in Reporters => \A d \in LinkExisting : MayLinkExecution(u, d, s)
                    /\ DefectLinksWritable(u, s) /\ LastRun(s).key # None
                         /\ (HasRole(u, QALeads) \/ LastRun(s).by = u) =>
                         MayUnlinkRun(u, s, Len(Runs(s)))
  BY DEF RowOffersAreAccepted
<1>0. ETypeOK /\ (Open(s[1]) <=> ~CycleIsLocked(s[1]))
  BY SlotsAreOpen DEF PInv, IInv
<1>1. ASSUME NEW r \in Results PROVE (r \in QuickOptions(u, s)) <=> MayRecord(u, s, r, None)
  BY <1>1, RowRecords DEF QuickOptions
<1>2. ASSUME NEW r \in Results, NEW d \in Defects, Known(d), r \in ModalOptions(u, s, d),
             cycle[s[1]] = "In Progress", ~StatusIn(d, Clear)
      PROVE  MayRecord(u, s, r, IF r \in Failing THEN d ELSE None)
  <2> DEFINE key == IF r \in Failing THEN d ELSE None
  <2>1. ~ReadOnly(u, s) /\ ExecutionStatusGate(s, r, d)
    BY <1>2 DEF ModalOptions
  <2>2. MayExecute(u) /\ (u \in Admins \/ slot[s].runner = u)
    BY <2>1 DEF ReadOnly, CanExec, MayExecute
  <2>3. key \in Keys(r)
    BY <1>2 DEF Keys
  <2>4. Gate(s, r, key)
    <3>1. r = "Fail" => key = d
      BY DEF Failing
    <3> QED BY <1>2, <2>1, <3>1 DEF ExecutionStatusGate, HasRetestEligibleHistory, Gate
  <2> QED BY <1>2, <2>2, <2>3, <2>4 DEF MayRecord
<1>3. ShowsAssign(u, s) <=> MayAssign(u, {s})
  BY <1>0 DEF ShowsAssign, MayAssign, CanManageRunners, CanExec, MayExecute
<1>4. (ShowsRemove(u, s) /\ ~Referred(s)) <=> MayRemoveAll(u, {s})
  <2>1. ShowsRemove(u, s) /\ ~Referred(s) => MayRemoveAll(u, {s})
    BY <1>0, RowRemoves DEF ShowsRemove, MayRemoveAll
  <2>2. MayRemoveAll(u, {s}) => ShowsRemove(u, s) /\ ~Referred(s)
    BY <1>0 DEF ShowsRemove, MayRemoveAll, MayRemove, RemoveFromCycleEligibility,
                CanManageExecutionGovernance, Governs
  <2> QED BY <2>1, <2>2
<1>5. ShowsUpgrade(s) \/ slot[s].pinned = approved[s[2]] \/ ~MayUpgrade(u, s)
  BY DEF ShowsUpgrade, MayUpgrade
<1>6. ASSUME ShowsLink(u, s)
      PROVE  /\ MayLinkRun(u, s)
             /\ u \in Reporters => \A d \in LinkExisting : MayLinkExecution(u, d, s)
  <2>1. /\ Executed(s) /\ LastRun(s).result \in Failing /\ LastRun(s).key = None
        /\ MayExecute(u) /\ cycle[s[1]] = "In Progress" /\ (u \in Admins \/ slot[s].runner = u)
    BY <1>6 DEF ShowsLink, LatestCanLinkDefect, CanExecuteRow, CanExec, MayExecute
  <2>2. Open(s[1])
    BY <1>0, <2>1 DEF CycleIsLocked, Locking
  <2>3. ASSUME u \in Reporters, NEW d \in LinkExisting PROVE MayLinkExecution(u, d, s)
    <3>1. Known(d) /\ defect[d].status \in Unresolved \cup {"Deferred"}
      BY DEF LinkExisting, StatusIn
    <3>2. ~StatusIn(d, {"Closed", "Rejected", "Duplicate", "Not a Defect"})
      BY <3>1 DEF StatusIn, Unresolved
    <3> QED BY <2>1, <2>3, <3>1, <3>2 DEF MayLinkExecution, Linkable, HasRole
  <2> QED BY <2>1, <2>2, <2>3 DEF MayLinkRun
<1>7. ASSUME DefectLinksWritable(u, s), LastRun(s).key # None,
             HasRole(u, QALeads) \/ LastRun(s).by = u
      PROVE  MayUnlinkRun(u, s, Len(Runs(s)))
  <2>1. Executed(s) /\ ~ReadOnly(u, s)
    BY <1>7 DEF DefectLinksWritable
  <2>2. Len(Runs(s)) \in DOMAIN Runs(s)
    BY <1>0, <2>1, SlotTyped
  <2>3. MayExecute(u) /\ Open(s[1])
    BY <1>0, <2>1 DEF ReadOnly, CanExec, MayExecute
  <2> QED BY <1>7, <2>2, <2>3 DEF MayUnlinkRun, LastRun
<1> QED BY <1>1, <1>2, <1>3, <1>4, <1>5, <1>6, <1>7

\* A runner executes, and is of the QA department.
LEMMA RunnersExecute ==
  ASSUME ETypeOK, NEW u \in Users, NEW s \in Slots, InCycle(s), slot[s].runner = u
  PROVE  MayExecute(u) /\ InQA(u)
<1>1. slot[s].runner \in Runners \cup {None}
  BY SlotTyped DEF SlotRecords
<1>2. u \in Runners
  BY <1>1, StaffAssumption
<1> QED BY <1>2 DEF Runners, MayExecute, HasRole, InQA

LEMMA MyOffers ==
  ASSUME ETypeOK
  PROVE  MyOffersAreAccepted
<1> SUFFICES ASSUME NEW u \in Users, NEW s \in Slots, InCycle(s)
             PROVE  /\ s \in MyExecutions(u) =>
                         /\ \A r \in Results :
                              (r \in QuickResultActions(s)) <=> MayRecord(u, s, r, None)
                         /\ QuickDefectLink(s) <=> MayLinkRun(u, s)
                    /\ u \notin Admins /\ (\E r \in Results : MayRecord(u, s, r, None)) =>
                         s \in MyExecutions(u)
  BY DEF MyOffersAreAccepted
<1>1. ASSUME s \in MyExecutions(u)
      PROVE  /\ \A r \in Results : (r \in QuickResultActions(s)) <=> MayRecord(u, s, r, None)
             /\ QuickDefectLink(s) <=> MayLinkRun(u, s)
  <2>1. cycle[s[1]] = "In Progress" /\ slot[s].runner = u
    BY <1>1 DEF MyExecutions
  <2>2. MayExecute(u)
    BY <2>1, RunnersExecute
  <2>3. CanExecuteRow(u, s)
    BY <2>1, <2>2 DEF CanExecuteRow, CanExec, MayExecute
  <2>4. Open(s[1])
    BY <2>1, SlotsAreOpen DEF CycleIsLocked, Locking
  <2>5. QuickDefectLink(s) <=> MayLinkRun(u, s)
    BY <2>1, <2>2, <2>4 DEF QuickDefectLink, LatestCanLinkDefect, MayLinkRun
  <2> QED BY <2>3, <2>5, RowRecords DEF QuickResultActions
<1>2. ASSUME u \notin Admins, NEW r \in Results, MayRecord(u, s, r, None)
      PROVE  s \in MyExecutions(u)
  BY <1>2, RunnersExecute DEF MayRecord, MyExecutions
<1> QED BY <1>1, <1>2

LEMMA SelectionOffers ==
  ASSUME PInv
  PROVE  SelectionOffersAreAccepted
<1> SUFFICES ASSUME NEW u \in Users, NEW k \in Cycles, CanExec(u), NEW S \in RowSelections(u, k)
             PROVE  /\ CanManageRunners(u) => MayAssign(u, S)
                    /\ LET removable == {s \in S : RemoveFromCycleEligibility(u, s)} IN
                       removable # {} /\ (\A s \in removable : ~Referred(s)) =>
                         MayRemoveAll(u, removable)
                    /\ \A r \in BulkOptions(u, S, None) : \A s \in S : MayRecord(u, s, r, None)
  BY DEF SelectionOffersAreAccepted
<1>1. \A s \in S : s \in Slots /\ InCycle(s) /\ ~CycleIsLocked(s[1])
  BY DEF RowSelections, SlotsOf, CanSelectRow
<1>2. \A s \in S : Open(s[1])
  BY <1>1, SlotsAreOpen DEF PInv, IInv
<1>3. CanManageRunners(u) => MayAssign(u, S)
  BY <1>1, <1>2 DEF CanManageRunners, CanExec, MayAssign, MayExecute
<1> DEFINE removable == {s \in S : RemoveFromCycleEligibility(u, s)}
<1>4. ASSUME removable # {}, \A s \in removable : ~Referred(s) PROVE MayRemoveAll(u, removable)
  <2>1. \A s \in removable : HasRole(u, Engineers \cup LeadGroup) /\ MayRemove(u, s)
    BY <1>1, RowRemoves
  <2> QED BY <1>1, <1>2, <1>4, <2>1 DEF MayRemoveAll
<1>5. \A r \in BulkOptions(u, S, None) : \A s \in S : MayRecord(u, s, r, None)
  BY <1>1, RowRecords DEF BulkOptions
<1> QED BY <1>3, <1>4, <1>5

\* A manager of a defect governs; whoever governs and is no manager is an AGM_QA, and
\* the defect is at home in no slot.
LEMMA ManagersGovern ==
  ASSUME NEW u \in Users, NEW d \in Defects
  PROVE  /\ Manager(u, d) => Governs(u)
         /\ Governs(u) => Manager(u, d) \/ (u \in AGMs /\ defect[d].home = None)
  BY DEF Manager, Governs, HasRole, LeadGroup

\* Nobody is assigned to nothing.
LEMMA AssigneesAgree ==
  ASSUME NEW u \in Users, NEW d \in Defects
  PROVE  /\ IsAssignee(u, d) \/ IsDepartmentHead(u, d) => defect[d].assignee # None
         /\ AssigneeOrDepartmentHead(u, d) =>
              u \in Admins \/ IsAssignee(u, d) \/ IsDepartmentHead(u, d)
         /\ IsAssignee(u, d) \/ IsDepartmentHead(u, d) => AssigneeOrDepartmentHead(u, d)
<1>1. None \notin Developers \cup QAStaff /\ u # None
  BY StaffAssumption, ExecutionsAssumption
<1>2. IsAssignee(u, d) \/ IsDepartmentHead(u, d) => defect[d].assignee # None
  BY <1>1 DEF IsAssignee, IsDepartmentHead
<1> QED BY <1>2 DEF AssigneeOrDepartmentHead

\* What follows what.
LEMMA TransitionCases ==
  ASSUME NEW m \in Transitions
  PROVE  /\ m = <<m[1], m[2]>> /\ m[1] \in DefectStatuses /\ m[2] \in DefectStatuses
         /\ m[2] \in {"Triaged", "Assigned", "Rejected", "Duplicate", "Not a Defect", "Deferred",
                      "In Progress", "Resolved", "Retest", "Closed", "Reopened"}
         /\ m[2] = "Reopened" => m[1] \in {"Closed", "Retest", "Rejected"}
         /\ m[2] = "Rejected" => m[1] # "Closed"
<1>0. ASSUME NEW status, NEW to, m \in From(status, to)
      PROVE  m[1] = status /\ m[2] \in to
  BY <1>0 DEF From
<1>1. \/ m[1] = "New" /\ m[2] \in {"Triaged"}
      \/ /\ m[1] = "Triaged"
         /\ m[2] \in {"Assigned", "Rejected", "Duplicate", "Not a Defect", "Deferred"}
      \/ /\ m[1] = "Assigned"
         /\ m[2] \in {"In Progress", "Rejected", "Duplicate", "Not a Defect", "Deferred"}
      \/ m[1] = "In Progress" /\ m[2] \in {"Resolved", "Rejected", "Duplicate", "Deferred"}
      \/ m[1] = "Resolved" /\ m[2] \in {"Retest"}
      \/ m[1] = "Retest" /\ m[2] \in {"Closed", "Reopened"}
      \/ m[1] \in {"Reopened", "Deferred"} /\ m[2] \in {"Assigned"}
      \/ m[1] \in {"Closed", "Rejected"} /\ m[2] \in {"Reopened"}
  <2>1. \/ m \in From("New", {"Triaged"})
        \/ m \in From("Triaged", {"Assigned", "Rejected", "Duplicate", "Not a Defect", "Deferred"})
        \/ m \in From("Assigned", {"In Progress", "Rejected", "Duplicate", "Not a Defect", "Deferred"})
        \/ m \in From("In Progress", {"Resolved", "Rejected", "Duplicate", "Deferred"})
        \/ m \in From("Resolved", {"Retest"}) \/ m \in From("Retest", {"Closed", "Reopened"})
        \/ m \in From("Reopened", {"Assigned"}) \/ m \in From("Deferred", {"Assigned"})
        \/ m \in From("Closed", {"Reopened"}) \/ m \in From("Rejected", {"Reopened"})
    BY DEF Transitions
  <2> QED BY <1>0, <2>1
<1>2. m = <<m[1], m[2]>>
  <2>1. PICK status, to : m \in From(status, to) BY DEF Transitions
  <2> QED BY <2>1 DEF From
<1>3. m[1] \in DefectStatuses /\ m[2] \in DefectStatuses
  BY DEF DefectStatuses
<1>4. m[2] \in {"Triaged", "Assigned", "Rejected", "Duplicate", "Not a Defect", "Deferred",
                "In Progress", "Resolved", "Retest", "Closed", "Reopened"}
  BY <1>1
<1>5. m[2] = "Reopened" => m[1] \in {"Closed", "Retest", "Rejected"}
  BY <1>1
<1>6. m[2] = "Rejected" => m[1] # "Closed"
  BY <1>1
<1> QED BY <1>2, <1>3, <1>4, <1>5, <1>6

\* Whom the page lets dispose of a defect, and whom it takes for its tester, the
\* server does; and the other way round, but for an AGM_QA without a slot, and the
\* runner of the slot.
LEMMA RolesAgree ==
  ASSUME NEW u \in Users, NEW d \in Defects, Known(d)
  PROVE  /\ Manager(u, d) \/ defect[d].reporter = u \/ AssigneeOrDepartmentHead(u, d) =>
              Disposes(u, d)
         /\ Disposes(u, d) =>
              \/ Manager(u, d) \/ defect[d].reporter = u \/ AssigneeOrDepartmentHead(u, d)
              \/ u \in AGMs /\ defect[d].home = None
         /\ Manager(u, d) \/ PageTester(u, d) => IsTester(u, d) \/ Governs(u)
         /\ IsTester(u, d) \/ Governs(u) =>
              \/ Manager(u, d) \/ PageTester(u, d)
              \/ IsTester(u, d) /\ ~PageTester(u, d)
              \/ u \in AGMs /\ defect[d].home = None
<1>1. u \in Admins => Governs(u) BY DEF Governs, HasRole
<1> QED BY <1>1, ManagersGovern, AssigneesAgree DEF Disposes, IsTester, PageTester

\* The transitions the page offers are those the server makes.
LEMMA TransitionsAgree ==
  ASSUME NEW u \in Users, NEW d \in Defects, Known(d), NEW to \in DefectStatuses,
         <<defect[d].status, to>> \in Transitions
  PROVE  /\ AllowedTransition(u, d, to) => MayMove(u, d, to)
         /\ MayMove(u, d, to) =>
              \/ AllowedTransition(u, d, to)
              \/ u \in AGMs /\ defect[d].home = None
              \/ IsTester(u, d) /\ ~PageTester(u, d)
<1> DEFINE manager  == Manager(u, d)
           reporter == defect[d].reporter = u
           agm      == u \in AGMs /\ defect[d].home = None
           runner   == IsTester(u, d) /\ ~PageTester(u, d)
           Agree    == /\ AllowedTransition(u, d, to) => MayMove(u, d, to)
                       /\ MayMove(u, d, to) => AllowedTransition(u, d, to) \/ agm \/ runner
<1>0. /\ manager => Governs(u)
      /\ Governs(u) => manager \/ agm
  BY ManagersGovern
<1>1. CASE to = "Triaged"
  <2>1. AllowedTransition(u, d, to) <=> manager \/ HasRole(u, Engineers) \/ reporter
    BY <1>1 DEF AllowedTransition
  <2>2. MayMove(u, d, to) <=> CanAssign(u) \/ reporter
    BY <1>1 DEF MayMove
  <2> QED BY <1>0, <2>1, <2>2 DEF CanAssign
<1>2. CASE to = "Assigned"
  <2>1. AllowedTransition(u, d, to) <=> manager \/ HasRole(u, Engineers)
    BY <1>2 DEF AllowedTransition
  <2>2. MayMove(u, d, to) <=> CanAssign(u)
    BY <1>2 DEF MayMove
  <2> QED BY <1>0, <2>1, <2>2 DEF CanAssign
<1>3. CASE to = "Rejected" \/ to = "Duplicate"
  <2>1. AllowedTransition(u, d, to) <=> manager \/ reporter \/ AssigneeOrDepartmentHead(u, d)
    BY <1>3 DEF AllowedTransition
  <2>2. MayMove(u, d, to) <=> Disposes(u, d)
    BY <1>3 DEF MayMove
  <2> QED BY <2>1, <2>2, RolesAgree
<1>4. CASE to = "Not a Defect"
  <2>1. AllowedTransition(u, d, to) <=> manager \/ reporter
    BY <1>4 DEF AllowedTransition
  <2>2. MayMove(u, d, to) <=> Governs(u) \/ reporter
    BY <1>4 DEF MayMove
  <2> QED BY <1>0, <2>1, <2>2
<1>5. CASE to = "Deferred"
  <2>1. AllowedTransition(u, d, to) <=> manager \/ HasRole(u, AppOwners)
    BY <1>5 DEF AllowedTransition
  <2>2. MayMove(u, d, to) <=> CanDefer(u)
    BY <1>5 DEF MayMove
  <2> QED BY <1>0, <2>1, <2>2 DEF CanDefer
<1>6. CASE to = "In Progress" \/ to = "Resolved"
  <2>1. AllowedTransition(u, d, to) <=> manager \/ IsAssignee(u, d)
    BY <1>6 DEF AllowedTransition
  <2>2. MayMove(u, d, to) <=> IsAssignee(u, d) \/ Governs(u)
    BY <1>6 DEF MayMove
  <2> QED BY <1>0, <2>1, <2>2
<1>7. CASE to = "Retest" \/ to = "Closed"
  <2>1. AllowedTransition(u, d, to) <=> manager \/ PageTester(u, d)
    BY <1>7 DEF AllowedTransition
  <2>2. MayMove(u, d, to) <=> IsTester(u, d) \/ Governs(u)
    BY <1>7 DEF MayMove
  <2> QED BY <2>1, <2>2, RolesAgree
<1>8. CASE to = "Reopened"
  <2>0. defect[d].status \in {"Closed", "Retest", "Rejected"}
    BY <1>8, TransitionCases
  <2>1. CASE defect[d].status = "Closed"
    <3>1. AllowedTransition(u, d, to) <=> HasRole(u, LeadGroup \ AGMs) \/ reporter
      BY <1>8, <2>1 DEF AllowedTransition, StatusIn
    <3>2. MayMove(u, d, to) <=> HasRole(u, LeadGroup \ AGMs) \/ reporter
      BY <1>8, <2>1 DEF MayMove, StatusIn
    <3> QED BY <3>1, <3>2
  <2>2. CASE defect[d].status = "Rejected"
    <3>1. AllowedTransition(u, d, to) <=> manager \/ reporter \/ AssigneeOrDepartmentHead(u, d)
      BY <1>8, <2>2 DEF AllowedTransition, StatusIn
    <3>2. MayMove(u, d, to) <=> Disposes(u, d)
      BY <1>8, <2>2 DEF MayMove, StatusIn
    <3> QED BY <3>1, <3>2, RolesAgree
  <2>3. CASE defect[d].status = "Retest"
    <3>1. AllowedTransition(u, d, to) <=> manager \/ PageTester(u, d)
      BY <1>8, <2>3 DEF AllowedTransition, StatusIn
    <3>2. MayMove(u, d, to) <=> IsTester(u, d) \/ Governs(u)
      BY <1>8, <2>3 DEF MayMove, StatusIn
    <3> QED BY <3>1, <3>2, RolesAgree
  <2> QED BY <2>0, <2>1, <2>2, <2>3
<1>9. to \in {"Triaged", "Assigned", "Rejected", "Duplicate", "Not a Defect", "Deferred",
              "In Progress", "Resolved", "Retest", "Closed", "Reopened"}
  BY TransitionCases
<1> QED BY <1>1, <1>2, <1>3, <1>4, <1>5, <1>6, <1>7, <1>8, <1>9

\* Whoever is offered to reject or to reopen a defect may send the evidence for it.
LEMMA EvidenceFollows ==
  ASSUME NEW u \in Users, NEW d \in Defects, Known(d), NEW to \in DefectStatuses,
         <<defect[d].status, to>> \in Transitions, AllowedTransition(u, d, to),
         ~ReporterOfClosed(u, d)
  PROVE  EvidenceAtHand(u, d, to)
<1>0. MayMove(u, d, to) BY TransitionsAgree
<1>1. CASE to = "Rejected"
  <2>1. Disposes(u, d) BY <1>0, <1>1 DEF MayMove
  <2>2. defect[d].status # "Closed" BY <1>1, TransitionCases
  <2> QED BY <2>1, <2>2 DEF EvidenceAtHand, MayAttach, StatusIn
<1>2. CASE to = "Reopened"
  <2>0. defect[d].status \in {"Closed", "Retest", "Rejected"} BY <1>2, TransitionCases
  <2>1. CASE defect[d].status = "Closed"
    <3>1. HasRole(u, LeadGroup \ AGMs) \/ defect[d].reporter = u
      BY <1>0, <1>2, <2>1 DEF MayMove, StatusIn
    <3>2. Governs(u) BY <2>1, <3>1 DEF ReporterOfClosed, StatusIn, Governs, HasRole
    <3> QED BY <2>1, <3>2 DEF EvidenceAtHand, MayAttach, StatusIn
  <2>2. CASE defect[d].status = "Retest"
    <3>1. Manager(u, d) \/ PageTester(u, d)
      BY <1>2, <2>2 DEF AllowedTransition, StatusIn
    <3>2. Disposes(u, d) \/ defect[d].tester = u
      BY <3>1, ManagersGovern DEF PageTester, Disposes
    <3> QED BY <2>2, <3>2 DEF EvidenceAtHand, MayAttach, StatusIn
  <2>3. CASE defect[d].status = "Rejected"
    <3>1. Disposes(u, d) BY <1>0, <1>2, <2>3 DEF MayMove, StatusIn
    <3> QED BY <2>3, <3>1 DEF EvidenceAtHand, MayAttach, StatusIn
  <2> QED BY <2>0, <2>1, <2>2, <2>3
<1>3. CASE to \notin {"Rejected", "Reopened"} BY <1>3 DEF EvidenceAtHand
<1> QED BY <1>1, <1>2, <1>3

LEMMA DefectOffers ==
  ASSUME ETypeOK
  PROVE  DefectOffersAreAccepted
<1> SUFFICES ASSUME NEW u \in Users, NEW d \in Defects, Known(d)
             PROVE  /\ \A to \in Successors[defect[d].status] :
                         /\ AllowedTransition(u, d, to) =>
                              MayMove(u, d, to) /\ (EvidenceAtHand(u, d, to) \/ ReporterOfClosed(u, d))
                         /\ MayMove(u, d, to) =>
                              \/ AllowedTransition(u, d, to)
                              \/ u \in AGMs /\ defect[d].home = None
                              \/ IsTester(u, d) /\ ~PageTester(u, d)
                    /\ CanReassignDefect(u, d) <=> MayReassign(u, d)
                    /\ ShowsSeverity(u, d) => MaySetSeverity(u, d)
                    /\ ShowsLinkExecution(d) /\ u \in Reporters
                         /\ ~StatusIn(d, {"Closed", "Rejected", "Duplicate", "Not a Defect"}) =>
                           \A s \in Slots : Linkable(s, d) => MayLinkExecution(u, d, s)
  BY DEF DefectOffersAreAccepted
<1>1. \A to \in Successors[defect[d].status] :
        to \in DefectStatuses /\ <<defect[d].status, to>> \in Transitions
  <2>1. defect[d].status \in DefectStatuses
    BY Tables DEF TablesOK, Known, DefectRecords
  <2>2. Successors[defect[d].status] = {t[2] : t \in {m \in Transitions : m[1] = defect[d].status}}
    BY <2>1 DEF Successors
  <2> QED BY <2>2, TransitionCases
<1>2. CanReassignDefect(u, d) <=> MayReassign(u, d)
  BY AssigneesAgree DEF CanReassignDefect, MayReassign, AssigneeOrDepartmentHead
<1>3. ShowsSeverity(u, d) => MaySetSeverity(u, d)
  BY ManagersGovern DEF ShowsSeverity, ShowsEdit, MaySetSeverity
<1>4. ASSUME u \in Reporters, ~StatusIn(d, {"Closed", "Rejected", "Duplicate", "Not a Defect"}),
             NEW s \in Slots, Linkable(s, d)
      PROVE  MayLinkExecution(u, d, s)
  BY <1>4 DEF MayLinkExecution, HasRole
<1> QED BY <1>1, <1>2, <1>3, <1>4, TransitionsAgree, EvidenceFollows

\* What the pages of execution and of defects offer is what the server accepts, but for
\* the refusals named, in every state and for everybody (the cases of a project are
\* finitely many: the dialog that completes a cycle compares two counts).
THEOREM ExecutionPagesAlwaysAgree ==
  ASSUME IsFiniteSet(Cases)
  PROVE  PagesSpec => []ExecutionPagesAgree
<1>1. PInv => ExecutionPagesAgree
  BY CycleOffers, RowOffers, MyOffers, SelectionOffers, DefectOffers
     DEF PInv, IInv, ExecutionPagesAgree
<1> QED BY <1>1, PInvHolds, PTL

=============================================================================
