------------------------ MODULE IntakeWorkers_proofs -------------------------
(* Theorems about IntakeWorkers, for every number of request threads. *)
EXTENDS IntakeSerial, Intake_proofs

Session  == [phase : Phase, plan : Plan, locks : SUBSET Lockable]
Sessions == TypeOK /\ txn \in [Workers -> Session]

\* The inductive invariant: OneActiveDelegation alone is not inductive, because a
\* session that read "no active delegation" may commit much later.
IInv == Sessions /\ LocksHold /\ OneActiveDelegation

\* A plan that is right about the delegations of the moment it was read.
Fits(p) ==
  /\ \A t \in DOMAIN p.open : deleg[t] = <<>>
  /\ \A t \in p.close : deleg[t] # <<>>

\* A write set without delegations needs no lock.
LEMMA NoDelegationFits == ASSUME NEW p, NoDelegation(p) PROVE Fits(p)
  BY DEF Fits, NoDelegation, Nothing

----------------------------------------------------------------------------
\* What a plan writes is among what a session can lock.
LEMMA WantedLockable ==
  ASSUME Sessions, NEW w \in Workers
  PROVE  Wanted(w) \subseteq Lockable /\ ForUpdate(txn[w].plan) \subseteq Lockable
  <1> DEFINE p == txn[w].plan
  <1>1. p \in Plan BY DEF Sessions, Session
  <1> HIDE DEF p
  <1>2. /\ DOMAIN p.status \subseteq Gateways /\ DOMAIN p.link \subseteq Gateways
        /\ DOMAIN p.reqName \subseteq Gateways /\ DOMAIN p.types \subseteq Gateways
        /\ DOMAIN p.details \subseteq Gateways /\ p.number \subseteq Gateways
    BY <1>1 DEF Plan, Partial
  <1>3. /\ DOMAIN p.appStatus \subseteq Apps /\ DOMAIN p.appName \subseteq Apps
        /\ DOMAIN p.origin \subseteq Apps
    BY <1>1 DEF Plan, Partial
  <1>4. DOMAIN p.child \subseteq Row /\ DOMAIN p.childName \subseteq Row
    BY <1>1 DEF Plan, Partial
  <1>5. DOMAIN p.open \subseteq Target /\ p.close \subseteq Target
    BY <1>1 DEF Plan, Partial
  <1>6. DOMAIN p.insert \subseteq Gateways \X Types
    BY <1>1 DEF Plan, Partial
  <1>7. Row \subseteq Target /\ \A g \in Gateways : Gate(g) \in Target BY DEF Target
  <1>8. ForUpdate(p) \subseteq Lockable BY <1>5 DEF ForUpdate, Lockable
  <1>9. Touched(p) \subseteq Lockable
    <2>1. Touched(p) \subseteq Target \cup Apps
      BY <1>2, <1>3, <1>4, <1>7 DEF Touched
    <2> QED BY <2>1 DEF Lockable
  <1>10. Counters(p) \subseteq Lockable
    <2>1. \A c \in DOMAIN p.insert : c[2] \in Types BY <1>6
    <2> QED BY <2>1 DEF Counters, Counter, Lockable
  <1> QED BY <1>8, <1>9, <1>10 DEF Wanted, p

\* Reading opens a session whose locks nobody else holds.
LEMMA ReadStep ==
  ASSUME IInv, NEW w \in Workers, NEW phase \in {"submitting", "writing"},
         NEW p \in Plan, Fits(p), Read(w, phase, p)
  PROVE  IInv'
  <1> DEFINE s == [phase |-> phase, plan |-> p, locks |-> ForUpdate(p)]
  <1>1. UNCHANGED vars /\ txn' = [txn EXCEPT ![w] = s] BY DEF Read
  <1>2. TypeOK' BY <1>1 DEF IInv, Sessions, TypeOK, vars
  <1>3. s \in Session
    <2>1. DOMAIN p.open \subseteq Target /\ p.close \subseteq Target BY DEF Plan, Partial
    <2>2. ForUpdate(p) \subseteq Lockable BY <2>1 DEF ForUpdate, Lockable
    <2> QED BY <2>2 DEF Session, Phase
  <1>4. Sessions' BY <1>1, <1>2, <1>3 DEF IInv, Sessions
  <1>5. deleg' = deleg BY <1>1 DEF vars
  <1>6. OneActiveDelegation' BY <1>5 DEF IInv, OneActiveDelegation
  <1>7. /\ txn'[w].plan = p /\ txn'[w].locks = ForUpdate(p)
        /\ \A v \in Workers \ {w} : txn'[v] = txn[v]
    BY <1>1 DEF IInv, Sessions
  <1>8. \A v \in Workers \ {w} : txn[v].locks \cap ForUpdate(p) = {}
    BY DEF Read, Free, Others
  <1>9. LocksHold'
    <2>1. ASSUME NEW v \in Workers, NEW x \in Workers, v # x
          PROVE  txn'[v].locks \cap txn'[x].locks = {}
      BY <1>7, <1>8, <2>1 DEF IInv, LocksHold
    <2>2. ASSUME NEW v \in Workers
          PROVE  /\ ForUpdate(txn'[v].plan) \subseteq txn'[v].locks
                 /\ \A t \in DOMAIN txn'[v].plan.open : deleg'[t] = <<>>
                 /\ \A t \in txn'[v].plan.close : deleg'[t] # <<>>
      BY <1>5, <1>7 DEF IInv, LocksHold, Fits
    <2>3. \A v \in Workers : ForUpdate(txn[v].plan)' = ForUpdate(txn'[v].plan)
      BY DEF ForUpdate
    <2> QED BY <2>1, <2>2, <2>3 DEF LocksHold
  <1> QED BY <1>4, <1>6, <1>9 DEF IInv

\* A session that writes no delegation takes no lock.
LEMMA ReadFree ==
  ASSUME IInv, NEW w \in Workers, NEW phase \in {"submitting", "writing"},
         NEW p \in Plan, NoDelegation(p), Read(w, phase, p)
  PROVE  IInv'
  BY ReadStep, NoDelegationFits

\* A thread that starts a handler of a gateway keeps the invariant.
LEMMA ReadGatewayStep ==
  ASSUME IInv, NEW w \in Workers, NEW g \in Gateways, ReadGateway(w, g) PROVE IInv'
  <1>0. TypeOK BY DEF IInv, Sessions
  <1>1. ASSUME NEW n \in Names, NEW a \in Apps, NEW ts \in SUBSET Types,
               NEW d \in {"INCOMPLETE", "COMPLETE"},
               \/ Read(w, "writing", CreateWrites(g, n, a, ts, d))
               \/ Read(w, "writing", EditWrites(g, n, a, ts, d))
        PROVE  IInv'
    BY <1>0, <1>1, DraftTypes, DraftDelegation, ReadFree
  <1>2. ASSUME \/ Read(w, "writing", CancelWrites(g))
               \/ Read(w, "submitting", SubmitWrites(g))
        PROVE  IInv'
    BY <1>0, <1>2, LeaveDraftTypes, LeaveDraftDelegation, ReadFree
  <1>3. ASSUME NEW n \in Names, NEW a \in Apps, Read(w, "writing", RelinkWrites(n, g, a))
        PROVE  IInv'
    BY <1>0, <1>3, RelinkType, RelinkDelegation, ReadFree
  <1> QED BY <1>1, <1>2, <1>3 DEF ReadGateway

\* A thread that starts a delegation handler holds the row it decided about.
LEMMA ReadDelegationStep ==
  ASSUME IInv, NEW w \in Workers, NEW t \in Target, ReadDelegation(w, t) PROVE IInv'
  <1>1. ASSUME NEW u \in Users, NEW v \in Users, CanAssign(t, u, v),
               Read(w, "writing", AssignWrites(t, v))
        PROVE  IInv'
    <2>1. Fits(AssignWrites(t, v))
      BY <1>1 DEF Fits, AssignWrites, CanAssign, NoWrites, One
    <2> QED BY <1>1, <2>1, DelegationTypes, ReadStep
  <1>2. ASSUME NEW u \in Users, deleg[t] # <<>>, Read(w, "writing", CloseWrites(t))
        PROVE  IInv'
    <2>1. Fits(CloseWrites(t))
      BY <1>2 DEF Fits, CloseWrites, NoWrites, Nothing
    <2> QED BY <1>2, <2>1, DelegationTypes, ReadStep
  <1> QED BY <1>1, <1>2 DEF ReadDelegation, CanReturn, CanRecall

\* A thread that starts a decision of a name keeps the invariant.
LEMMA ReadNameStep ==
  ASSUME IInv, NEW w \in Workers, NEW a \in Apps, ReadName(w, a) PROVE IInv'
  <1>0. TypeOK BY DEF IInv, Sessions
  <1>1. ASSUME \/ Read(w, "writing", ApproveWrites({a})) \/ Read(w, "writing", RejectWrites(a))
               \/ Read(w, "writing", SMApproveNameWrites(a))
               \/ Read(w, "writing", SMRejectNameWrites(a))
               \/ Read(w, "writing", ProjectWrites(a))
        PROVE  IInv'
    BY <1>0, <1>1, DecisionTypes, DecisionDelegation, ReadFree
  <1>2. ASSUME NEW n \in Names, Read(w, "writing", RenameWrites(a, n)) PROVE IInv'
    BY <1>0, <1>2, RenameType, DecisionDelegation, ReadFree
  <1> QED BY <1>1, <1>2 DEF ReadName

\* A thread that starts a bulk seed keeps the invariant.
LEMMA ReadSeedStep == ASSUME IInv, NEW w \in Workers, ReadSeed(w) PROVE IInv'
  <1>0. TypeOK BY DEF IInv, Sessions
  <1>1. PICK S \in SUBSET Names : \E f \in [S -> Apps] : Read(w, "writing", BulkSeedWrites(f))
    BY DEF ReadSeed
  <1>2. PICK f \in [S -> Apps] : Read(w, "writing", BulkSeedWrites(f)) BY <1>1
  <1> QED BY <1>0, <1>2, SeedType, SeedDelegation, ReadFree

\* A thread that starts a handler of a linked request keeps the invariant.
LEMMA ReadChildStep ==
  ASSUME IInv, NEW w \in Workers, NEW r \in Row, ReadChild(w, r) PROVE IInv'
  <1>0. TypeOK BY DEF IInv, Sessions
  <1>1. ASSUME NEW s \in ChildStatus, \/ Read(w, "writing", SMDecisionWrites(r, s))
                                      \/ Read(w, "writing", ResubmitWrites(r))
        PROVE  IInv'
    BY <1>0, <1>1, StatusTypes, ChildDelegation, ReadFree
  <1>2. ASSUME NEW n \in Names, NEW a \in Apps, Read(w, "writing", RenameScanWrites(r, n, a))
        PROVE  IInv'
    BY <1>0, <1>2, RenameScanType, ChildDelegation, ReadFree
  <1>3. /\ "DEPARTMENT_HEAD_APPROVAL_PENDING" \in ChildStatus
        /\ Correctable \subseteq ChildStatus
    BY DEF ChildStatus, Correctable
  <1> QED BY <1>1, <1>2, <1>3 DEF ReadChild

----------------------------------------------------------------------------
\* A session that takes free locks, and keeps its plan of the delegations.
LEMMA TakeStep ==
  ASSUME IInv, UNCHANGED vars, NEW w \in Workers, NEW s \in Session,
         txn' = [txn EXCEPT ![w] = s],
         s.plan.open = txn[w].plan.open, s.plan.close = txn[w].plan.close,
         txn[w].locks \subseteq s.locks,
         \A l \in s.locks \ txn[w].locks : Free(w, l)
  PROVE  IInv'
  <1>1. TypeOK' BY DEF IInv, Sessions, TypeOK, vars
  <1>2. Sessions' BY <1>1 DEF IInv, Sessions
  <1>3. deleg' = deleg BY DEF vars
  <1>4. OneActiveDelegation' BY <1>3 DEF IInv, OneActiveDelegation
  <1>5. txn'[w] = s /\ \A v \in Workers \ {w} : txn'[v] = txn[v] BY DEF IInv, Sessions
  <1>6. \A v \in Workers \ {w} : txn[v].locks \cap s.locks = {}
    BY DEF IInv, LocksHold, Free, Others
  <1>7. LocksHold'
    <2>1. ASSUME NEW v \in Workers, NEW x \in Workers, v # x
          PROVE  txn'[v].locks \cap txn'[x].locks = {}
      BY <1>5, <1>6, <2>1 DEF IInv, LocksHold
    <2>2. ASSUME NEW v \in Workers
          PROVE  /\ ForUpdate(txn'[v].plan) \subseteq txn'[v].locks
                 /\ \A t \in DOMAIN txn'[v].plan.open : deleg'[t] = <<>>
                 /\ \A t \in txn'[v].plan.close : deleg'[t] # <<>>
      BY <1>3, <1>5 DEF IInv, LocksHold, ForUpdate
    <2>3. \A v \in Workers : ForUpdate(txn[v].plan)' = ForUpdate(txn'[v].plan)
      BY DEF ForUpdate
    <2> QED BY <2>1, <2>2, <2>3 DEF LocksHold
  <1> QED BY <1>2, <1>4, <1>7 DEF IInv

\* Claiming the request id takes its counter and changes only what will be inserted.
LEMMA ClaimStep == ASSUME IInv, NEW w \in Workers, Claim(w) PROVE IInv'
  <1> DEFINE p == txn[w].plan
             absent == {c \in DOMAIN p.insert :
                          \A i \in Copies : child[<<c[1], c[2], i>>] = "NONE"}
             q == [p EXCEPT !.insert = [c \in absent |-> p.insert[c]]]
             s == [phase |-> "writing", plan |-> q, locks |-> txn[w].locks \cup RequestId(p)]
  <1>1. p \in Plan BY DEF IInv, Sessions, Session
  <1>2. q \in Plan
    <2>1. PICK S \in SUBSET (Gateways \X Types) : p.insert \in [S -> Names \cup {None}]
      BY <1>1 DEF Plan, Partial
    <2>2. absent \in SUBSET (Gateways \X Types) BY <2>1
    <2>3. [c \in absent |-> p.insert[c]] \in [absent -> Names \cup {None}] BY <2>1
    <2>4. [c \in absent |-> p.insert[c]] \in Partial(Gateways \X Types, Names \cup {None})
      BY <2>2, <2>3, FunctionPartial
    <2> HIDE DEF p, absent
    <2> QED BY <1>1, <2>4 DEF Plan
  <1>3. q.open = p.open /\ q.close = p.close
    <2> HIDE DEF p, absent
    <2> QED BY <1>1 DEF Plan
  <1>4. UNCHANGED vars /\ txn' = [txn EXCEPT ![w] = s] BY DEF Claim
  <1>5. \A l \in RequestId(p) : Free(w, l) BY DEF Claim
  <1> HIDE DEF q
  <1>6. RequestId(p) \subseteq Lockable BY DEF RequestId, Counter, Lockable
  <1>7. txn[w].locks \subseteq Lockable BY DEF IInv, Sessions, Session
  <1>8. s \in Session BY <1>2, <1>6, <1>7 DEF Session, Phase
  <1>9. /\ s.plan.open = txn[w].plan.open /\ s.plan.close = txn[w].plan.close
        /\ txn[w].locks \subseteq s.locks
        /\ \A l \in s.locks \ txn[w].locks : Free(w, l)
    BY <1>3, <1>5
  <1> HIDE DEF s
  <1> QED BY <1>4, <1>8, <1>9, TakeStep

\* A flush takes one more lock that is free.
LEMMA LockStep == ASSUME IInv, NEW w \in Workers, Lock(w) PROVE IInv'
  <1>1. PICK l \in Asked(w) : Free(w, l) /\ txn' = [txn EXCEPT ![w].locks = @ \cup {l}]
    BY DEF Lock
  <1> DEFINE s == [phase |-> txn[w].phase, plan |-> txn[w].plan, locks |-> txn[w].locks \cup {l}]
  <1>2. txn[w] \in Session BY DEF IInv, Sessions
  <1>3. l \in Lockable BY <1>1, WantedLockable DEF Lock, Asked, IInv
  <1>4. s \in Session BY <1>2, <1>3 DEF Session
  <1>5. [txn[w] EXCEPT !.locks = @ \cup {l}] = s BY <1>2 DEF Session
  <1>6. UNCHANGED vars /\ txn' = [txn EXCEPT ![w] = s]
    <2>1. UNCHANGED vars BY DEF Lock
    <2>2. txn' = [txn EXCEPT ![w] = [txn[w] EXCEPT !.locks = @ \cup {l}]] BY <1>1
    <2> QED BY <1>5, <2>1, <2>2
  <1>7. /\ s.plan.open = txn[w].plan.open /\ s.plan.close = txn[w].plan.close
        /\ txn[w].locks \subseteq s.locks
        /\ \A k \in s.locks \ txn[w].locks : Free(w, k)
    BY <1>1
  <1> HIDE DEF s
  <1> QED BY <1>4, <1>6, <1>7, TakeStep

\* Closing the session gives its locks back.
LEMMA CloseSession ==
  ASSUME IInv, TypeOK', NEW w \in Workers, txn' = [txn EXCEPT ![w] = Closed],
         \A t \in Target : Len(deleg'[t]) <= 1,
         \A t \in Target \ ForUpdate(txn[w].plan) : deleg'[t] = deleg[t]
  PROVE  IInv'
  <1>1. Sessions'
    <2>1. Closed \in Session BY NoWritesType DEF Closed, Phase, Session
    <2> QED BY <2>1 DEF IInv, Sessions
  <1>2. /\ txn'[w].plan = NoWrites /\ txn'[w].locks = {}
        /\ \A v \in Workers \ {w} : txn'[v] = txn[v]
    BY DEF IInv, Sessions, Closed
  <1>3. NoWrites.open = Nothing /\ NoWrites.close = {} BY DEF NoWrites
  <1>4. ASSUME NEW v \in Workers
        PROVE  /\ ForUpdate(txn'[v].plan) \subseteq txn'[v].locks
               /\ \A t \in DOMAIN txn'[v].plan.open : deleg'[t] = <<>>
               /\ \A t \in txn'[v].plan.close : deleg'[t] # <<>>
    <2>1. CASE v = w BY <1>2, <1>3, <2>1 DEF Nothing, ForUpdate
    <2>2. CASE v # w
      <3>1. ForUpdate(txn[v].plan) \cap ForUpdate(txn[w].plan) = {}
        BY <2>2 DEF IInv, LocksHold
      <3>2. ForUpdate(txn[v].plan) \subseteq Target
        <4>1. txn[v].plan \in Plan BY DEF IInv, Sessions, Session
        <4>2. PICK S \in SUBSET Target : txn[v].plan.open \in [S -> Users]
          BY <4>1 DEF Plan, Partial
        <4>3. txn[v].plan.close \subseteq Target BY <4>1 DEF Plan
        <4> QED BY <4>2, <4>3 DEF ForUpdate
      <3>3. \A t \in ForUpdate(txn[v].plan) : deleg'[t] = deleg[t] BY <3>1, <3>2
      <3> QED BY <1>2, <2>2, <3>3 DEF IInv, LocksHold, ForUpdate
    <2> QED BY <2>1, <2>2
  <1>5. LocksHold'
    <2>1. ASSUME NEW v \in Workers, NEW x \in Workers, v # x
          PROVE  txn'[v].locks \cap txn'[x].locks = {}
      BY <1>2, <2>1 DEF IInv, LocksHold
    <2>2. \A v \in Workers : ForUpdate(txn[v].plan)' = ForUpdate(txn'[v].plan)
      BY DEF ForUpdate
    <2> QED BY <1>4, <2>1, <2>2 DEF LocksHold
  <1>6. OneActiveDelegation' BY DEF OneActiveDelegation
  <1> QED BY <1>1, <1>5, <1>6 DEF IInv

\* A commit keeps the invariant: what it opens was closed, and nobody else held it.
LEMMA CommitStep == ASSUME IInv, NEW w \in Workers, Commit(w) PROVE IInv'
  <1> DEFINE p == txn[w].plan
  <1>1. p \in Plan /\ Flush(p) BY DEF IInv, Sessions, Session, Commit
  <1>2. TypeOK' BY <1>1, FlushType DEF IInv, Sessions
  <1>3. \A t \in DOMAIN p.open : deleg[t] = <<>> BY DEF IInv, LocksHold
  <1> HIDE DEF p
  <1>4. ASSUME NEW t \in Target PROVE deleg'[t] = DelegationRows(t, p)
    BY <1>1 DEF Flush
  <1>5. ASSUME NEW t \in Target PROVE Len(deleg'[t]) <= 1
    <2>1. deleg[t] \in Seq(Users) /\ Len(deleg[t]) <= 1
      BY DEF IInv, Sessions, TypeOK, OneActiveDelegation
    <2>2. CASE t \in DOMAIN p.open
      <3>1. PICK S \in SUBSET Target : p.open \in [S -> Users] BY <1>1 DEF Plan, Partial
      <3>2. p.open[t] \in Users BY <2>2, <3>1
      <3>3. deleg'[t] = Append(<<>>, p.open[t]) BY <1>3, <1>4, <2>2 DEF DelegationRows
      <3>4. Len(Append(<<>>, p.open[t])) = 1 OBVIOUS
      <3> QED BY <3>3, <3>4
    <2>3. CASE t \notin DOMAIN p.open /\ t \in p.close /\ deleg[t] # <<>>
      <3>1. deleg'[t] = Tail(deleg[t]) BY <1>4, <2>3 DEF DelegationRows
      <3>2. Len(deleg[t]) \in Nat /\ Len(deleg[t]) # 0
        BY ONLY <2>1, <2>3, EmptySeq, LenProperties
      <3>3. Len(deleg[t]) = 1
        <4>1. \A k \in Nat : k # 0 /\ k <= 1 => k = 1 BY SMT
        <4>2. Len(deleg[t]) <= 1 BY ONLY <2>1
        <4> QED BY ONLY <3>2, <4>1, <4>2, Zenon
      <3>4. Tail(deleg[t]) = <<>> BY <2>1, <3>3, TailOfOne
      <3>5. deleg'[t] = <<>> BY ONLY <3>1, <3>4
      <3>6. Len(<<>>) <= 1 BY SMT
      <3>7. Len(deleg'[t]) <= 1 BY ONLY <3>5, <3>6
      <3> QED BY <3>7
    <2>4. CASE t \notin DOMAIN p.open /\ ~(t \in p.close /\ deleg[t] # <<>>)
      BY <1>4, <2>1, <2>4 DEF DelegationRows
    <2> QED BY <2>2, <2>3, <2>4
  <1>6. ASSUME NEW t \in Target \ ForUpdate(txn[w].plan) PROVE deleg'[t] = deleg[t]
    BY <1>4 DEF DelegationRows, ForUpdate, p
  <1>7. txn' = [txn EXCEPT ![w] = Closed] BY DEF Commit
  <1> QED BY <1>2, <1>5, <1>6, <1>7, CloseSession

\* An error keeps the invariant: it changes no row.
LEMMA ErrorStep ==
  ASSUME IInv, NEW w \in Workers, Rollback(w) \/ Refused(w) PROVE IInv'
  <1>1. UNCHANGED vars /\ txn' = [txn EXCEPT ![w] = Closed] BY DEF Rollback, Refused, Ended
  <1>2. TypeOK' /\ deleg' = deleg BY <1>1 DEF IInv, Sessions, TypeOK, vars
  <1> QED BY <1>1, <1>2, CloseSession DEF IInv, OneActiveDelegation

----------------------------------------------------------------------------
\* No session is open and no delegation active at the start.
LEMMA WInitIInv == ASSUME IntakeAssumption, WInit PROVE IInv
  <1>1. TypeOK BY InitType DEF WInit
  <1>2. Sessions BY <1>1, NoWritesType DEF WInit, Sessions, Session, Closed, Phase
  <1>3. NoWrites.open = Nothing /\ NoWrites.close = {} BY DEF NoWrites
  <1>4. LocksHold BY <1>3 DEF WInit, LocksHold, ForUpdate, Closed, Nothing
  <1>5. OneActiveDelegation BY DEF WInit, Init, OneActiveDelegation
  <1> QED BY <1>2, <1>4, <1>5 DEF IInv

\* Every step of a thread keeps the invariant.
LEMMA WNextIInv == ASSUME IInv, [WNext]_wvars PROVE IInv'
  <1>1. CASE UNCHANGED wvars
    BY <1>1 DEF wvars, vars, IInv, Sessions, TypeOK, LocksHold, ForUpdate, OneActiveDelegation
  <1>2. CASE WNext
    BY <1>2, ReadGatewayStep, ReadDelegationStep, ReadNameStep, ReadSeedStep, ReadChildStep,
       ClaimStep, LockStep, CommitStep, ErrorStep DEF WNext
  <1> QED BY <1>1, <1>2

\* The inductive invariant holds.
LEMMA IInvAlways == ASSUME IntakeAssumption PROVE WSpec => []IInv
  <1>1. WInit => IInv BY WInitIInv
  <1>2. IInv /\ [WNext]_wvars => IInv' BY WNextIInv
  <1> QED BY <1>1, <1>2, PTL DEF WSpec

\* However many threads run, whatever they interleave with, no target ever has two
\* ACTIVE delegations: the FOR UPDATE of the delegation handlers is enough.
THEOREM OneDelegation == ASSUME IntakeAssumption PROVE WSpec => []OneActiveDelegation
  <1>1. IInv => OneActiveDelegation BY DEF IInv
  <1> QED BY <1>1, IInvAlways, PTL

\* The locks are exclusive and what was read under them stays true to the commit.
THEOREM LocksAreEnough == ASSUME IntakeAssumption PROVE WSpec => [](WTypeOK /\ LocksHold)
  <1>1. IInv => WTypeOK /\ LocksHold BY DEF IInv, Sessions, Session, WTypeOK
  <1> QED BY <1>1, IInvAlways, PTL

\* The row locks are enough for what they are taken for.
THEOREM RowLocksAreEnough == ASSUME IntakeAssumption PROVE WSpec => []RowLocksSuffice
  BY OneDelegation, LocksAreEnough, PTL DEF RowLocksSuffice

----------------------------------------------------------------------------
(* Threads that run undisturbed. *)

\* A handler of Intake, run on the rows of now, gets past its checks and writes p: one
\* operator for each group of handlers.
DraftWrite(p) ==
  \E g \in Gateways, n \in Names, a \in Apps, ts \in SUBSET Types,
     d \in {"INCOMPLETE", "COMPLETE"} :
    \/ CanCreate(g, n, a) /\ p = CreateWrites(g, n, a, ts, d)
    \/ \E u \in Users : CanEdit(g, u, n, a) /\ p = EditWrites(g, n, a, ts, d)
GatewayWrite(p) ==
  \E g \in Gateways, u \in Users :
    \/ CanCancel(g, u) /\ p = CancelWrites(g)
    \/ CanSubmit(g, u) /\ p = SubmitWrites(g)
    \/ \E n \in Names, a \in Apps : CanAdminRelink(g, u, n, a) /\ p = RelinkWrites(n, g, a)
DelegationWrite(p) ==
  \E t \in Target, u \in Users :
    \/ \E v \in Users : CanAssign(t, u, v) /\ p = AssignWrites(t, v)
    \/ (CanReturn(t, u) \/ CanRecall(t, u)) /\ p = CloseWrites(t)
NameWrite(p) ==
  \/ \E a \in Apps, u \in Users :
       \/ CanAppOwnerDecide(a, u) /\ (p = ApproveWrites({a}) \/ p = RejectWrites(a))
       \/ CanSMDecideName(a, u) /\ (p = SMApproveNameWrites(a) \/ p = SMRejectNameWrites(a))
       \/ \E n \in Names : CanRename(a, n, u) /\ p = RenameWrites(a, n)
  \/ \E a \in Apps : CanCreateProject(a) /\ p = ProjectWrites(a)
SeedWrite(p) ==
  \E u \in Users, S \in SUBSET Names : \E f \in [S -> Apps] :
    CanBulkSeed(u, f) /\ p = BulkSeedWrites(f)
ChildWrite(p) ==
  \E r \in Row, u \in Users :
    \/ CanSMApprove(r, u) /\ p = SMDecisionWrites(r, "DEPARTMENT_HEAD_APPROVAL_PENDING")
    \/ \E s \in Correctable : CanSMDecide(r, u) /\ p = SMDecisionWrites(r, s)
    \/ CanResubmit(r, u) /\ p = ResubmitWrites(r)
    \/ \E n \in Names, a \in Apps :
         CanAdminRenameScan(r, u, n, a) /\ p = RenameScanWrites(r, n, a)

WouldWrite(p) ==
  \/ DraftWrite(p) \/ GatewayWrite(p) \/ DelegationWrite(p)
  \/ NameWrite(p) \/ SeedWrite(p) \/ ChildWrite(p)

\* submit_request has read what it decides about, and not yet claimed an id.
Submitting(p) == \E g \in Gateways, u \in Users : CanSubmit(g, u) /\ p = SubmitWrites(g)

\* What nobody's commit came between is still right: the checks of the thread hold of the
\* rows of now, and its write set is what its handler would build from them.
SerialInv ==
  /\ undisturbed \subseteq Workers
  /\ \A w \in undisturbed :
       /\ txn[w].phase # "idle" => WouldWrite(txn[w].plan)
       /\ txn[w].phase = "submitting" => Submitting(txn[w].plan)

\* To flush what a handler would write is a step of Intake.
LEMMA WouldWriteNext == ASSUME NEW p, WouldWrite(p), Flush(p) PROVE Next
  <1>1. CASE DraftWrite(p) BY <1>1 DEF DraftWrite, Next, Create, Edit
  <1>2. CASE GatewayWrite(p) BY <1>2 DEF GatewayWrite, Next, Cancel, Submit, AdminRelink
  <1>3. CASE DelegationWrite(p)
    BY <1>3 DEF DelegationWrite, Next, AssignForInput, ReturnDelegated, RecallDelegated
  <1>4. CASE NameWrite(p)
    BY <1>4 DEF NameWrite, Next, AppOwnerApprove, AppOwnerReject, SMApproveName, SMRejectName,
                RenameApplication, CreateProject
  <1>5. CASE SeedWrite(p) BY <1>5 DEF SeedWrite, Next, BulkSeed
  <1>6. CASE ChildWrite(p)
    BY <1>6 DEF ChildWrite, Next, SMApprove, SMSendBack, Resubmit, AdminRenameScan
  <1> QED BY <1>1, <1>2, <1>3, <1>4, <1>5, <1>6 DEF WouldWrite

\* The helpers of the handlers read the rows and nothing else.
LEMMA HelpersFrame ==
  ASSUME UNCHANGED vars
  PROVE  /\ \A a, n : NamedRow(a, n)' = NamedRow(a, n)
         /\ \A a, n : FreeRow(a, n)' = FreeRow(a, n)
         /\ \A n, g, a : ResolvesTo(n, g, a)' = ResolvesTo(n, g, a)
         /\ \A n, g, a : ResolveWrites(n, g, a)' = ResolveWrites(n, g, a)
         /\ \A n, g, a : RelinkWrites(n, g, a)' = RelinkWrites(n, g, a)
         /\ \A G : FinalizeWrites(G)' = FinalizeWrites(G)
         /\ \A A : Waiting(A)' = Waiting(A)
         /\ \A a : Using(a)' = Using(a)
         /\ \A G : AtSM(G)' = AtSM(G)
         /\ \A g, u : OwnsDraft(g, u)' = OwnsDraft(g, u)
         /\ \A t : Delegate(t)' = Delegate(t)
         /\ \A r : NameOf(r)' = NameOf(r)
  <1>1. ASSUME NEW a, NEW n PROVE NamedRow(a, n)' = NamedRow(a, n)
    BY DEF NamedRow, Live, vars
  <1>2. ASSUME NEW a, NEW n PROVE FreeRow(a, n)' = FreeRow(a, n)
    BY DEF FreeRow, NamedRow, Live, vars
  <1>3. ASSUME NEW n, NEW g, NEW a PROVE ResolvesTo(n, g, a)' = ResolvesTo(n, g, a)
    BY <1>1, <1>2 DEF ResolvesTo, vars
  <1>4. ASSUME NEW n, NEW g, NEW a PROVE ResolveWrites(n, g, a)' = ResolveWrites(n, g, a)
    BY DEF ResolveWrites, Dirty, vars
  <1>5. ASSUME NEW n, NEW g, NEW a PROVE RelinkWrites(n, g, a)' = RelinkWrites(n, g, a)
    BY <1>4 DEF RelinkWrites, Orphaned, Dirty, vars
  <1>6. ASSUME NEW G PROVE FinalizeWrites(G)' = FinalizeWrites(G)
    <2>1. Missing(G)' = Missing(G) BY DEF Missing, vars
    <2> QED BY <2>1 DEF FinalizeWrites, vars
  <1>7. ASSUME NEW A PROVE Waiting(A)' = Waiting(A) BY DEF Waiting, vars
  <1>8. ASSUME NEW a PROVE Using(a)' = Using(a) BY DEF Using, vars
  <1>9. ASSUME NEW G PROVE AtSM(G)' = AtSM(G) BY DEF AtSM, vars
  <1>10. ASSUME NEW g, NEW u PROVE OwnsDraft(g, u)' = OwnsDraft(g, u)
    BY DEF OwnsDraft, OwnerOrAdmin, vars
  <1>11. ASSUME NEW t PROVE Delegate(t)' = Delegate(t) BY DEF Delegate, vars
  <1>12. ASSUME NEW r PROVE NameOf(r)' = NameOf(r) BY DEF NameOf, vars
  <1> QED BY <1>1, <1>2, <1>3, <1>4, <1>5, <1>6, <1>7, <1>8, <1>9, <1>10, <1>11, <1>12

\* What a handler would write stays the same while no row changes.
LEMMA WouldWriteFrame ==
  ASSUME UNCHANGED vars, NEW CONSTANT p
  PROVE  /\ WouldWrite(p) => WouldWrite(p)'
         /\ Submitting(p) => Submitting(p)'
  <1>1. ASSUME NEW g \in Gateways, NEW n \in Names, NEW a \in Apps, NEW ts \in SUBSET Types,
               NEW d \in {"INCOMPLETE", "COMPLETE"}
        PROVE  /\ CanCreate(g, n, a)' = CanCreate(g, n, a)
               /\ CreateWrites(g, n, a, ts, d)' = CreateWrites(g, n, a, ts, d)
               /\ EditWrites(g, n, a, ts, d)' = EditWrites(g, n, a, ts, d)
    BY HelpersFrame DEF CanCreate, CreateWrites, EditWrites, Dirty, vars
  <1>2. ASSUME NEW g \in Gateways, NEW u \in Users, NEW n \in Names, NEW a \in Apps
        PROVE  /\ CanEdit(g, u, n, a)' = CanEdit(g, u, n, a)
               /\ CanAdminRelink(g, u, n, a)' = CanAdminRelink(g, u, n, a)
               /\ CanRename(a, n, u)' = CanRename(a, n, u)
               /\ RenameWrites(a, n)' = RenameWrites(a, n)
    BY HelpersFrame DEF CanEdit, CanEditDraft, CanAdminRelink, CanRename, RenameWrites, Live, vars
  <1>3. ASSUME NEW g \in Gateways, NEW u \in Users
        PROVE  /\ CanCancel(g, u)' = CanCancel(g, u)
               /\ CancelWrites(g)' = CancelWrites(g)
               /\ CanSubmit(g, u)' = CanSubmit(g, u)
               /\ SubmitWrites(g)' = SubmitWrites(g)
    BY HelpersFrame DEF CanCancel, CancelWrites, CanSubmit, SubmitWrites, vars
  <1>4. ASSUME NEW t \in Target, NEW u \in Users, NEW v \in Users
        PROVE  /\ CanAssign(t, u, v)' = CanAssign(t, u, v)
               /\ AssignWrites(t, v)' = AssignWrites(t, v)
               /\ CanReturn(t, u)' = CanReturn(t, u)
               /\ CanRecall(t, u)' = CanRecall(t, u)
               /\ CloseWrites(t)' = CloseWrites(t)
    BY HelpersFrame DEF CanAssign, WithRequester, OwnerOrAdmin, AssignWrites, CanReturn,
                        CanRecall, CloseWrites, vars
  <1>5. ASSUME NEW a \in Apps, NEW u \in Users
        PROVE  /\ CanAppOwnerDecide(a, u)' = CanAppOwnerDecide(a, u)
               /\ CanSMDecideName(a, u)' = CanSMDecideName(a, u)
               /\ CanCreateProject(a)' = CanCreateProject(a)
               /\ ApproveWrites({a})' = ApproveWrites({a})
               /\ RejectWrites(a)' = RejectWrites(a)
               /\ SMApproveNameWrites(a)' = SMApproveNameWrites(a)
               /\ SMRejectNameWrites(a)' = SMRejectNameWrites(a)
               /\ ProjectWrites(a)' = ProjectWrites(a)
    BY HelpersFrame DEF CanAppOwnerDecide, CanSMDecideName, CanCreateProject, Live,
         ApproveWrites, RejectWrites, SMApproveNameWrites, SMRejectNameWrites, ProjectWrites, vars
  <1>6. ASSUME NEW u \in Users, NEW S \in SUBSET Names, NEW f \in [S -> Apps]
        PROVE  /\ CanBulkSeed(u, f)' = CanBulkSeed(u, f)
               /\ BulkSeedWrites(f)' = BulkSeedWrites(f)
    <2>1. CanBulkSeed(u, f)' = CanBulkSeed(u, f) BY HelpersFrame DEF CanBulkSeed
    <2>2. BulkSeedWrites(f)' = BulkSeedWrites(f)
      <3> DEFINE new  == {n \in DOMAIN f : appStatus[f[n]] = "UNUSED"}
                 open == {f[n] : n \in {m \in DOMAIN f : appStatus[f[m]] \in Undecided}}
                 Seeds(w, N, O, o) ==
                   [w EXCEPT
                      !.appStatus = [a \in {f[n] : n \in N} \cup O |-> "APPROVED"],
                      !.appName   = [a \in {f[n] : n \in N} |-> CHOOSE n \in N : f[n] = a],
                      !.origin    = [a \in {b \in {f[n] : n \in N} : o[b] # None} |-> None]]
      <3>1. new' = new /\ open' = open /\ origin' = origin BY DEF vars
      <3>2. ApproveWrites(open)' = ApproveWrites(open)
        BY <3>1, HelpersFrame DEF ApproveWrites
      <3>3. BulkSeedWrites(f) = Seeds(ApproveWrites(open), new, open, origin)
        BY DEF BulkSeedWrites
      <3>4. BulkSeedWrites(f)' = Seeds(ApproveWrites(open)', new', open', origin')
        BY DEF BulkSeedWrites
      <3> HIDE DEF Seeds, new, open
      <3> QED BY <3>1, <3>2, <3>3, <3>4
    <2> QED BY <2>1, <2>2
  <1>8. ASSUME WouldWrite(p) PROVE WouldWrite(p)'
    <2>1. CASE DraftWrite(p) BY <2>1, <1>1, <1>2 DEF DraftWrite, WouldWrite
    <2>2. CASE GatewayWrite(p)
      BY <2>2, <1>2, <1>3, HelpersFrame DEF GatewayWrite, WouldWrite
    <2>3. CASE DelegationWrite(p) BY <2>3, <1>4 DEF DelegationWrite, WouldWrite
    <2>4. CASE NameWrite(p)
      <3>1. ASSUME NEW a \in Apps, CanCreateProject(a), p = ProjectWrites(a) PROVE NameWrite(p)'
        <4>1. CanCreateProject(a)' /\ p = ProjectWrites(a)'
          BY <3>1, HelpersFrame DEF CanCreateProject, Live, ProjectWrites, vars
        <4> QED BY <4>1 DEF NameWrite
      <3>2. ASSUME NEW a \in Apps, NEW u \in Users, CanAppOwnerDecide(a, u),
                   p = ApproveWrites({a}) \/ p = RejectWrites(a)
            PROVE  NameWrite(p)'
        BY <3>2, <1>5 DEF NameWrite
      <3>3. ASSUME NEW a \in Apps, NEW u \in Users, CanSMDecideName(a, u),
                   p = SMApproveNameWrites(a) \/ p = SMRejectNameWrites(a)
            PROVE  NameWrite(p)'
        BY <3>3, <1>5 DEF NameWrite
      <3>4. ASSUME NEW a \in Apps, NEW u \in Users, NEW n \in Names, CanRename(a, n, u),
                   p = RenameWrites(a, n)
            PROVE  NameWrite(p)'
        <4>1. CanRename(a, n, u)' /\ p = RenameWrites(a, n)'
          BY <3>4, HelpersFrame DEF CanRename, RenameWrites, Live, vars
        <4> QED BY <4>1 DEF NameWrite
      <3> QED BY <2>4, <3>1, <3>2, <3>3, <3>4 DEF NameWrite, WouldWrite
    <2>5. CASE SeedWrite(p) BY <2>5, <1>6 DEF SeedWrite, WouldWrite
    <2>6. CASE ChildWrite(p)
      <3>1. ASSUME NEW r \in Row, NEW u \in Users, NEW s, p = SMDecisionWrites(r, s),
                   \/ s = "DEPARTMENT_HEAD_APPROVAL_PENDING" /\ CanSMApprove(r, u)
                   \/ s \in Correctable /\ CanSMDecide(r, u)
            PROVE  ChildWrite(p)'
        <4>1. /\ CanSMApprove(r, u)' = CanSMApprove(r, u)
              /\ CanSMDecide(r, u)' = CanSMDecide(r, u)
              /\ SMDecisionWrites(r, s)' = SMDecisionWrites(r, s)
          BY HelpersFrame DEF CanSMApprove, CanSMDecide, SMDecisionWrites, vars
        <4> QED BY <3>1, <4>1 DEF ChildWrite
      <3>2. ASSUME NEW r \in Row, NEW u \in Users, CanResubmit(r, u), p = ResubmitWrites(r)
            PROVE  ChildWrite(p)'
        <4>1. CanResubmit(r, u)' /\ p = ResubmitWrites(r)'
          BY <3>2, HelpersFrame
          DEF CanResubmit, OwnerOrAdmin, ResubmitWrites, SMDecisionWrites, Dirty, vars
        <4> QED BY <4>1 DEF ChildWrite
      <3>3. ASSUME NEW r \in Row, NEW u \in Users, NEW n \in Names, NEW a \in Apps,
                   CanAdminRenameScan(r, u, n, a), p = RenameScanWrites(r, n, a)
            PROVE  ChildWrite(p)'
        <4>1. CanAdminRenameScan(r, u, n, a)' /\ p = RenameScanWrites(r, n, a)'
          BY <3>3, HelpersFrame DEF CanAdminRenameScan, RenameScanWrites, vars
        <4> QED BY <4>1 DEF ChildWrite
      <3> QED BY <2>6, <3>1, <3>2, <3>3 DEF ChildWrite, WouldWrite
    <2> QED BY <1>8, <2>1, <2>2, <2>3, <2>4, <2>5, <2>6 DEF WouldWrite
  <1>9. ASSUME Submitting(p) PROVE Submitting(p)'
    BY <1>9, <1>3 DEF Submitting
  <1> QED BY <1>8, <1>9


\* What a thread reads is what its handler would write.
LEMMA ReadsWouldWrite ==
  ASSUME NEW w \in Workers,
         \/ \E g \in Gateways : ReadGateway(w, g)
         \/ \E t \in Target : ReadDelegation(w, t)
         \/ \E a \in Apps : ReadName(w, a)
         \/ ReadSeed(w)
         \/ \E r \in Row : ReadChild(w, r)
  PROVE  \E p : \E phase \in {"submitting", "writing"} :
           Read(w, phase, p) /\ WouldWrite(p) /\ (phase = "submitting" => Submitting(p))
  <1>1. ASSUME NEW g \in Gateways, ReadGateway(w, g)
        PROVE  \E p : \/ Read(w, "writing", p) /\ (DraftWrite(p) \/ GatewayWrite(p))
                      \/ Read(w, "submitting", p) /\ Submitting(p)
    BY <1>1 DEF ReadGateway, DraftWrite, GatewayWrite, Submitting
  <1>2. ASSUME NEW t \in Target, ReadDelegation(w, t)
        PROVE  \E p : Read(w, "writing", p) /\ DelegationWrite(p)
    BY <1>2 DEF ReadDelegation, DelegationWrite
  <1>3. ASSUME NEW a \in Apps, ReadName(w, a)
        PROVE  \E p : Read(w, "writing", p) /\ NameWrite(p)
    BY <1>3 DEF ReadName, NameWrite
  <1>4. ASSUME ReadSeed(w) PROVE \E p : Read(w, "writing", p) /\ SeedWrite(p)
    BY <1>4 DEF ReadSeed, SeedWrite
  <1>5. ASSUME NEW r \in Row, ReadChild(w, r)
        PROVE  \E p : Read(w, "writing", p) /\ ChildWrite(p)
    BY <1>5 DEF ReadChild, ChildWrite
  <1>6. \A p : Submitting(p) => GatewayWrite(p) BY DEF Submitting, GatewayWrite
  <1> QED BY <1>1, <1>2, <1>3, <1>4, <1>5, <1>6 DEF WouldWrite

\* The late lookup of an undisturbed submit finds what its first one found.
LEMMA ClaimKeepsPlan ==
  ASSUME Sessions, NEW w \in Workers, Submitting(txn[w].plan), Claim(w)
  PROVE  txn'[w].phase = "writing" /\ txn'[w].plan = txn[w].plan
  <1> DEFINE p == txn[w].plan
             absent == {c \in DOMAIN p.insert : \A i \in Copies : child[<<c[1], c[2], i>>] = "NONE"}
  <1>1. PICK g \in Gateways : p = SubmitWrites(g) BY DEF Submitting
  <1>2. p.insert = Nothing \/ p.insert = FinalizeWrites({g}).insert
    BY <1>1 DEF SubmitWrites, NoWrites
  <1>3. DOMAIN p.insert = {} \/ DOMAIN p.insert = Missing({g})
    BY <1>2 DEF FinalizeWrites, NoWrites, Nothing
  <1>4. absent = DOMAIN p.insert BY <1>3 DEF Missing
  <1>5. p \in Plan BY DEF Sessions, Session
  <1>6. [c \in DOMAIN p.insert |-> p.insert[c]] = p.insert BY <1>5 DEF Plan, Partial
  <1>7. [p EXCEPT !.insert = p.insert] = p BY <1>5 DEF Plan
  <1>8. txn'[w] = [phase |-> "writing",
                   plan |-> [p EXCEPT !.insert = [c \in absent |-> p.insert[c]]],
                   locks |-> txn[w].locks \cup RequestId(p)]
    BY DEF Claim, Sessions
  <1> HIDE DEF p, absent
  <1> QED BY <1>4, <1>6, <1>7, <1>8 DEF p

\* The plans of the undisturbed threads stay right.
LEMMA SerialStep == ASSUME Sessions, SerialInv, [SerialNext]_swvars PROVE SerialInv'
  <1> DEFINE Right(w) == /\ txn[w].phase # "idle" => WouldWrite(txn[w].plan)
                         /\ txn[w].phase = "submitting" => Submitting(txn[w].plan)
  <1>0. txn \in [Workers -> Session] BY DEF Sessions
  <1>1. ASSUME NEW v \in undisturbed, UNCHANGED vars,
               txn'[v].phase = txn[v].phase, txn'[v].plan = txn[v].plan
        PROVE  Right(v)'
    <2> DEFINE p == txn[v].plan
    <2>1. PICK q : q = p OBVIOUS
    <2>2. /\ WouldWrite(q) => WouldWrite(q)'
          /\ Submitting(q) => Submitting(q)'
      BY <1>1, WouldWriteFrame
    <2>3. txn'[v].plan = q /\ txn[v].plan = q BY <1>1, <2>1
    <2> QED BY <1>1, <2>2, <2>3 DEF SerialInv
  <1>2. ASSUME NEW w \in Workers,
               \/ \E g \in Gateways : ReadGateway(w, g)
               \/ \E t \in Target : ReadDelegation(w, t)
               \/ \E a \in Apps : ReadName(w, a)
               \/ ReadSeed(w)
               \/ \E r \in Row : ReadChild(w, r),
               Starts(w)
        PROVE  SerialInv'
    <2>1. PICK p : \E phase \in {"submitting", "writing"} :
            Read(w, phase, p) /\ WouldWrite(p) /\ (phase = "submitting" => Submitting(p))
      BY <1>2, ReadsWouldWrite
    <2>2. PICK phase \in {"submitting", "writing"} :
            Read(w, phase, p) /\ WouldWrite(p) /\ (phase = "submitting" => Submitting(p))
      BY <2>1
    <2>3. /\ UNCHANGED vars
          /\ txn' = [txn EXCEPT ![w] = [phase |-> phase, plan |-> p, locks |-> ForUpdate(p)]]
      BY <2>2 DEF Read
    <2>4. WouldWrite(p)' /\ (phase = "submitting" => Submitting(p)')
      BY <2>2, <2>3, WouldWriteFrame
    <2>5. txn'[w].phase = phase /\ txn'[w].plan = p BY <1>0, <2>3
    <2>6. Right(w)' BY <2>4, <2>5
    <2>7. ASSUME NEW v \in undisturbed, v # w PROVE Right(v)'
      <3>1. txn'[v] = txn[v] BY <1>0, <2>3, <2>7
      <3> QED BY <1>1, <2>3, <3>1
    <2> QED BY <1>2, <2>6, <2>7 DEF SerialInv, Starts
  <1>3. ASSUME NEW w \in Workers, Claim(w), Goes(w) PROVE SerialInv'
    <2>1. UNCHANGED vars BY <1>3 DEF Claim
    <2>2. ASSUME NEW v \in undisturbed, v # w PROVE Right(v)'
      <3>1. txn'[v] = txn[v] BY <1>0, <1>3, <2>2 DEF Claim
      <3> QED BY <1>1, <2>1, <3>1
    <2>3. ASSUME w \in undisturbed PROVE Right(w)'
      <3>1. txn[w].phase = "submitting" BY <1>3 DEF Claim
      <3>2. WouldWrite(txn[w].plan) /\ Submitting(txn[w].plan) BY <2>3, <3>1 DEF SerialInv
      <3>3. PICK q : q = txn[w].plan OBVIOUS
      <3>5. txn'[w].phase = "writing" /\ txn'[w].plan = q
        BY <1>3, <3>2, <3>3, ClaimKeepsPlan
      <3>6. WouldWrite(q)' BY <2>1, <3>2, <3>3, WouldWriteFrame
      <3> QED BY <3>5, <3>6
    <2> QED BY <1>3, <2>2, <2>3 DEF SerialInv, Goes
  <1>7. ASSUME NEW w \in Workers, Lock(w), Goes(w) PROVE SerialInv'
    <2>1. PICK l : txn' = [txn EXCEPT ![w].locks = @ \cup {l}] BY <1>7 DEF Lock
    <2>2. UNCHANGED vars BY <1>7 DEF Lock
    <2>3. \A v \in Workers : txn'[v].phase = txn[v].phase /\ txn'[v].plan = txn[v].plan
      BY <1>0, <2>1 DEF Session
    <2>4. undisturbed \subseteq Workers BY DEF SerialInv
    <2>5. \A v \in undisturbed : Right(v)' BY <1>1, <2>2, <2>3, <2>4
    <2> QED BY <1>7, <2>5 DEF SerialInv, Goes
  <1>4. ASSUME NEW w \in Workers, Rollback(w) \/ Refused(w), Goes(w) PROVE SerialInv'
    <2>1. UNCHANGED vars /\ txn' = [txn EXCEPT ![w] = Closed]
      BY <1>4 DEF Rollback, Refused, Ended
    <2>2. Right(w)' BY <1>0, <2>1 DEF Closed
    <2>3. ASSUME NEW v \in undisturbed, v # w PROVE Right(v)'
      <3>1. txn'[v] = txn[v] BY <1>0, <2>1, <2>3
      <3> QED BY <1>1, <2>1, <3>1
    <2> QED BY <1>4, <2>2, <2>3 DEF SerialInv, Goes
  <1>5. ASSUME NEW w \in Workers, Ends(w) PROVE SerialInv'
    BY <1>5 DEF SerialInv, Ends
  <1>6. CASE UNCHANGED swvars
    <2>1. UNCHANGED vars /\ txn' = txn /\ undisturbed' = undisturbed
      BY <1>6 DEF swvars, wvars
    <2>2. \A v \in undisturbed : Right(v)' BY <1>1, <2>1
    <2> QED BY <2>1, <2>2 DEF SerialInv
  <1> QED BY <1>2, <1>3, <1>4, <1>5, <1>6, <1>7 DEF SerialNext

\* An undisturbed thread that ends has done a step of Intake, or nothing.
LEMMA EndsSerially ==
  ASSUME Sessions, SerialInv, SerialNext, NEW v \in undisturbed,
         txn[v].phase # "idle", txn'[v].phase = "idle"
  PROVE  Next \/ UNCHANGED vars
  <1>0. txn \in [Workers -> Session] BY DEF Sessions
  <1>1. ASSUME NEW w \in Workers, NEW p, NEW phase \in {"submitting", "writing"},
               Read(w, phase, p)
        PROVE  UNCHANGED vars
    BY <1>1 DEF Read
  <1>2. ASSUME NEW w \in Workers, Commit(w) PROVE Next
    <2>1. w = v BY <1>0, <1>2 DEF Commit
    <2>2. WouldWrite(txn[v].plan) /\ Flush(txn[v].plan) BY <1>2, <2>1 DEF SerialInv, Commit
    <2> QED BY <2>2, WouldWriteNext
  <1>3. ASSUME NEW w \in Workers, Claim(w) \/ Lock(w) \/ Rollback(w) \/ Refused(w)
        PROVE  UNCHANGED vars
    BY <1>3 DEF Claim, Lock, Rollback, Refused
  <1> QED BY <1>1, <1>2, <1>3, ReadsWouldWrite DEF SerialNext

\* A thread that nobody's commit came between does, with its checks, its errors, its late
\* lookup and its locks, exactly what the one-step handler of Intake does.
THEOREM UndisturbedIsSerial == ASSUME IntakeAssumption PROVE SerialSpec => CommitsAreSerial
  <1>1. SerialInit => WInit /\ SerialInv
    BY DEF SerialInit, WInit, SerialInv, Closed
  <1>2. [SerialNext]_swvars => [WNext]_wvars
    BY DEF SerialNext, WNext, swvars
  <1>3. Sessions /\ SerialInv /\ [SerialNext]_swvars => SerialInv' BY SerialStep
  <1>4. Sessions /\ SerialInv /\ [SerialNext]_swvars =>
          [\A w \in undisturbed : txn[w].phase # "idle" /\ txn'[w].phase = "idle" =>
             Next \/ UNCHANGED vars]_swvars
    BY EndsSerially
  <1>5. IInv => Sessions BY DEF IInv
  <1> QED BY <1>1, <1>2, <1>3, <1>4, <1>5, IInvAlways, PTL
          DEF SerialSpec, CommitsAreSerial, WSpec

=============================================================================
