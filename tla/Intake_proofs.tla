---------------------------- MODULE Intake_proofs ----------------------------
(* Theorems about Intake, for every set of requests, names, people and rows. *)
EXTENDS IntakePage, SequenceTheorems, TLAPS

----------------------------------------------------------------------------
(* Write sets. *)

\* Values for some of the rows of a column, and the write sets of a session.
Partial(K, V) == UNION {[S -> V] : S \in SUBSET K}

Plan ==
  [status : Partial(Gateways, GatewayStatus), link : Partial(Gateways, Apps \cup {None}),
   reqName : Partial(Gateways, Names \cup {None}), types : Partial(Gateways, SUBSET Types),
   details : Partial(Gateways, Details), number : SUBSET Gateways,
   appStatus : Partial(Apps, AppStatus), appName : Partial(Apps, Names \cup {None}),
   origin : Partial(Apps, Gateways \cup {None}),
   insert : Partial(Gateways \X Types, Names \cup {None}),
   child : Partial(Row, ChildStatus), childName : Partial(Row, Names \cup {None}),
   open : Partial(Target, Users), close : SUBSET Target, project : SUBSET Apps,
   cascade : Partial(Names \cup {None}, Names \cup {None})]

\* A write set that changes nothing is a write set of every column.
LEMMA NothingPartial == ASSUME NEW K, NEW V PROVE Nothing \in Partial(K, V)
  <1>1. Nothing \in [{} -> V] BY DEF Nothing
  <1>2. {} \in SUBSET K OBVIOUS
  <1> QED BY <1>1, <1>2 DEF Partial

\* A function on some of the keys is a write set of the column.
LEMMA FunctionPartial ==
  ASSUME NEW K, NEW V, NEW S \in SUBSET K, NEW f \in [S -> V] PROVE f \in Partial(K, V)
  BY DEF Partial

\* One changed row is a write set.
LEMMA OnePartial ==
  ASSUME NEW K, NEW V, NEW k \in K, NEW v \in V PROVE One(k, v) \in Partial(K, V)
  <1>1. One(k, v) \in [{k} -> V] BY DEF One
  <1> QED BY <1>1 DEF Partial

\* So is one row whose value may be the old one.
LEMMA DirtyPartial ==
  ASSUME NEW K, NEW V, NEW column, NEW k \in K, NEW v \in V
  PROVE  Dirty(column, k, v) \in Partial(K, V)
  BY NothingPartial, OnePartial DEF Dirty

\* Writing a write set over a column gives a column.
LEMMA OverType ==
  ASSUME NEW K, NEW V, NEW f \in [K -> V], NEW p \in Partial(K, V)
  PROVE  Over(f, p) \in [K -> V]
  <1>1. PICK S \in SUBSET K : p \in [S -> V] BY DEF Partial
  <1> QED BY <1>1 DEF Over

\* The empty write set is well typed.
LEMMA NoWritesType == NoWrites \in Plan
  BY NothingPartial DEF NoWrites, Plan

\* A commit of a well-typed write set keeps every column well typed.
LEMMA FlushType ==
  ASSUME TypeOK, NEW p \in Plan, Flush(p) PROVE TypeOK'
  <1>1. status' \in [Gateways -> GatewayStatus]
    BY OverType DEF TypeOK, Flush, Plan
  <1>2. link' \in [Gateways -> Apps \cup {None}]
    BY OverType DEF TypeOK, Flush, Plan
  <1>3. ASSUME NEW n \in Names \cup {None} PROVE Renamed(n, p) \in Names \cup {None}
    <2>1. PICK S \in SUBSET (Names \cup {None}) : p.cascade \in [S -> Names \cup {None}]
      BY DEF Plan, Partial
    <2> QED BY <2>1 DEF Renamed
  <1>4. reqName' \in [Gateways -> Names \cup {None}]
    <2>1. Over(reqName, p.reqName) \in [Gateways -> Names \cup {None}]
      BY OverType DEF TypeOK, Plan
    <2> QED BY <2>1, <1>3 DEF Flush
  <1>5. types' \in [Gateways -> SUBSET Types]
    BY OverType DEF TypeOK, Flush, Plan
  <1>6. details' \in [Gateways -> Details] /\ numbered' \in SUBSET Gateways
    BY OverType DEF TypeOK, Flush, Plan
  <1>7. appStatus' \in [Apps -> AppStatus]
    BY OverType DEF TypeOK, Flush, Plan
  <1>8. appName' \in [Apps -> Names \cup {None}]
    BY OverType DEF TypeOK, Flush, Plan
  <1>9. origin' \in [Apps -> Gateways \cup {None}]
    BY OverType DEF TypeOK, Flush, Plan
  <1>10. child' \in [Row -> ChildStatus]
    <2>1. Over(child, p.child) \in [Row -> ChildStatus]
      BY OverType DEF TypeOK, Plan
    <2>2. "SM_APPROVAL_PENDING" \in ChildStatus BY DEF ChildStatus
    <2> QED BY <2>1, <2>2 DEF Flush
  <1>11. childName' \in [Row -> Names \cup {None}]
    <2>1. Over(childName, p.childName) \in [Row -> Names \cup {None}]
      BY OverType DEF TypeOK, Plan
    <2>2. ASSUME NEW r \in Row, Inserted(r, p)
          PROVE  p.insert[<<r[1], r[2]>>] \in Names \cup {None}
      <3>1. PICK S \in SUBSET (Gateways \X Types) : p.insert \in [S -> Names \cup {None}]
        BY DEF Plan, Partial
      <3> QED BY <3>1, <2>2 DEF Inserted
    <2> QED BY <2>1, <2>2, <1>3 DEF Flush
  <1>12. deleg' \in [Target -> Seq(Users)]
    <2>1. ASSUME NEW t \in Target PROVE DelegationRows(t, p) \in Seq(Users)
      <3>1. deleg[t] \in Seq(Users) BY DEF TypeOK
      <3>2. deleg[t] # <<>> => Tail(deleg[t]) \in Seq(Users) BY <3>1
      <3>3. PICK S \in SUBSET Target : p.open \in [S -> Users]
        BY DEF Plan, Partial
      <3> QED BY <3>1, <3>2, <3>3 DEF DelegationRows
    <2> QED BY <2>1 DEF Flush
  <1>13. projects' \in SUBSET Apps
    BY DEF TypeOK, Flush, Plan
  <1> QED BY <1>1, <1>2, <1>4, <1>5, <1>6, <1>7, <1>8, <1>9, <1>10, <1>11, <1>12, <1>13
        DEF TypeOK

----------------------------------------------------------------------------
(* Every handler builds a well-typed write set. *)

\* Resolving a name writes rows of the name master only.
LEMMA ResolveType ==
  ASSUME TypeOK, NEW n \in Names, NEW g \in Gateways, NEW a \in Apps
  PROVE  ResolveWrites(n, g, a) \in Plan
  <1>1. One(a, "PENDING_APP_OWNER") \in Partial(Apps, AppStatus)
    BY OnePartial DEF AppStatus
  <1>2. Dirty(appName, a, n) \in Partial(Apps, Names \cup {None})
    BY DirtyPartial
  <1>3. Dirty(origin, a, g) \in Partial(Apps, Gateways \cup {None})
    BY DirtyPartial
  <1> QED BY <1>1, <1>2, <1>3, NoWritesType DEF ResolveWrites, Plan

\* Relinking also writes the request and may delete the row it left.
LEMMA RelinkType ==
  ASSUME TypeOK, NEW n \in Names, NEW g \in Gateways, NEW a \in Apps
  PROVE  RelinkWrites(n, g, a) \in Plan
  <1> DEFINE old == link[g]
             w   == ResolveWrites(n, g, a)
             del == [x \in {old} \cup DOMAIN w.appStatus |->
                       IF x = old THEN "DELETED" ELSE w.appStatus[x]]
  <1>1. w \in Plan BY ResolveType
  <1>2. One(g, n) \in Partial(Gateways, Names \cup {None}) BY OnePartial
  <1>3. Dirty(link, g, a) \in Partial(Gateways, Apps \cup {None}) BY DirtyPartial
  <1>4. ASSUME Orphaned(old, g) PROVE del \in Partial(Apps, AppStatus)
    <2>1. old \in Apps BY <1>4 DEF Orphaned, TypeOK
    <2>2. PICK S \in SUBSET Apps : w.appStatus \in [S -> AppStatus]
      BY <1>1 DEF Plan, Partial
    <2>3. {old} \cup DOMAIN w.appStatus \in SUBSET Apps BY <2>1, <2>2
    <2>4. del \in [{old} \cup DOMAIN w.appStatus -> AppStatus]
      BY <2>1, <2>2 DEF AppStatus
    <2> QED BY <2>3, <2>4, FunctionPartial
  <1>5. (IF Orphaned(old, g) THEN del ELSE w.appStatus) \in Partial(Apps, AppStatus)
    BY <1>1, <1>4 DEF Plan
  <1> HIDE DEF w, del
  <1> QED BY <1>1, <1>2, <1>3, <1>5 DEF RelinkWrites, Plan, w, del

\* So do creating and editing a draft.
LEMMA DraftTypes ==
  ASSUME TypeOK, NEW n \in Names, NEW g \in Gateways, NEW a \in Apps,
         NEW ts \in SUBSET Types, NEW d \in {"INCOMPLETE", "COMPLETE"}
  PROVE  CreateWrites(g, n, a, ts, d) \in Plan /\ EditWrites(g, n, a, ts, d) \in Plan
  <1>1. ResolveWrites(n, g, a) \in Plan BY ResolveType
  <1>2. RelinkWrites(n, g, a) \in Plan BY RelinkType
  <1>3. /\ One(g, "DRAFT") \in Partial(Gateways, GatewayStatus)
        /\ One(g, a) \in Partial(Gateways, Apps \cup {None})
        /\ One(g, n) \in Partial(Gateways, Names \cup {None})
        /\ One(g, ts) \in Partial(Gateways, SUBSET Types)
        /\ One(g, d) \in Partial(Gateways, Details)
    BY OnePartial DEF GatewayStatus, Details
  <1>4. /\ Dirty(types, g, ts) \in Partial(Gateways, SUBSET Types)
        /\ Dirty(details, g, d) \in Partial(Gateways, Details)
    BY DirtyPartial DEF Details
  <1>5. CreateWrites(g, n, a, ts, d) \in Plan
    BY <1>1, <1>3 DEF CreateWrites, Plan
  <1>6. EditWrites(g, n, a, ts, d) \in Plan
    BY <1>2, <1>4, NoWritesType DEF EditWrites, Plan
  <1> QED BY <1>5, <1>6

\* Raising any set of requests.
LEMMA FinalizeType ==
  ASSUME TypeOK, NEW G \in SUBSET Gateways PROVE FinalizeWrites(G) \in Plan
  <1>1. [g \in G |-> "RAISED"] \in Partial(Gateways, GatewayStatus)
    BY FunctionPartial DEF GatewayStatus
  <1>2. [g \in G |-> "CONSUMED"] \in Partial(Gateways, Details)
    BY FunctionPartial DEF Details
  <1>3. [c \in Missing(G) |-> IF c[2] \in NamedTypes THEN reqName[c[1]] ELSE None]
          \in Partial(Gateways \X Types, Names \cup {None})
    <2>1. Missing(G) \in SUBSET (Gateways \X Types) BY DEF Missing
    <2>2. \A c \in Missing(G) : reqName[c[1]] \in Names \cup {None}
      BY <2>1 DEF TypeOK
    <2> QED BY <2>1, <2>2, FunctionPartial
  <1> QED BY <1>1, <1>2, <1>3, NoWritesType DEF FinalizeWrites, Plan

\* The two ways out of a draft.
LEMMA LeaveDraftTypes ==
  ASSUME TypeOK, NEW g \in Gateways
  PROVE  CancelWrites(g) \in Plan /\ SubmitWrites(g) \in Plan
  <1>1. /\ One(g, "CANCELLED") \in Partial(Gateways, GatewayStatus)
        /\ One(g, "SUBMITTED") \in Partial(Gateways, GatewayStatus)
    BY OnePartial DEF GatewayStatus
  <1>2. FinalizeWrites({g}) \in Plan BY FinalizeType
  <1>3. CancelWrites(g) \in Plan BY <1>1, NoWritesType DEF CancelWrites, Plan
  <1>4. {g} \ numbered \in SUBSET Gateways OBVIOUS
  <1>5. SubmitWrites(g) \in Plan
    BY <1>1, <1>2, <1>4, NoWritesType DEF SubmitWrites, Plan
  <1> QED BY <1>3, <1>5

\* Opening and closing a delegation.
LEMMA DelegationTypes ==
  ASSUME NEW t \in Target, NEW v \in Users
  PROVE  AssignWrites(t, v) \in Plan /\ CloseWrites(t) \in Plan
  <1>1. One(t, v) \in Partial(Target, Users) BY OnePartial
  <1>2. AssignWrites(t, v) \in Plan BY <1>1, NoWritesType DEF AssignWrites, Plan
  <1>3. CloseWrites(t) \in Plan BY NoWritesType DEF CloseWrites, Plan
  <1> QED BY <1>2, <1>3

\* Decisions about names.
LEMMA DecisionTypes ==
  ASSUME TypeOK, NEW a \in Apps
  PROVE  /\ ApproveWrites({a}) \in Plan
         /\ RejectWrites(a) \in Plan
         /\ SMApproveNameWrites(a) \in Plan
         /\ SMRejectNameWrites(a) \in Plan
         /\ ProjectWrites(a) \in Plan
  <1>1. FinalizeWrites(Waiting({a})) \in Plan
    BY FinalizeType DEF Waiting
  <1>2. [x \in {a} |-> "APPROVED"] \in Partial(Apps, AppStatus)
    BY FunctionPartial DEF AppStatus
  <1>3. /\ One(a, "REJECTED") \in Partial(Apps, AppStatus)
        /\ One(a, "APPROVED") \in Partial(Apps, AppStatus)
    BY OnePartial DEF AppStatus
  <1>4. [g \in Waiting({a}) |-> "DRAFT"] \in Partial(Gateways, GatewayStatus)
    BY FunctionPartial DEF Waiting, GatewayStatus
  <1>5. \A G : [r \in AtSM(G) |-> "SM_REJECTED"] \in Partial(Row, ChildStatus)
    BY FunctionPartial DEF AtSM, ChildStatus
  <1>6. ApproveWrites({a}) \in Plan
    BY <1>1, <1>2 DEF ApproveWrites, Plan
  <1>7. RejectWrites(a) \in Plan
    BY <1>3, <1>4, <1>5, NoWritesType DEF RejectWrites, Plan
  <1>8. SMApproveNameWrites(a) \in Plan /\ SMRejectNameWrites(a) \in Plan
    BY <1>3, <1>5, NoWritesType DEF SMApproveNameWrites, SMRejectNameWrites, Plan
  <1>9. ProjectWrites(a) \in Plan BY NoWritesType DEF ProjectWrites, Plan
  <1> QED BY <1>6, <1>7, <1>8, <1>9

\* An admin's rename with its cascade.
LEMMA RenameType ==
  ASSUME TypeOK, NEW a \in Apps, NEW n \in Names PROVE RenameWrites(a, n) \in Plan
  <1>1. appName[a] \in Names \cup {None} BY DEF TypeOK
  <1>2. One(appName[a], n) \in Partial(Names \cup {None}, Names \cup {None})
    BY <1>1, OnePartial
  <1>3. One(a, n) \in Partial(Apps, Names \cup {None}) BY OnePartial
  <1> QED BY <1>2, <1>3, NoWritesType DEF RenameWrites, Plan

\* A bulk seed of any workbook.
LEMMA SeedType ==
  ASSUME TypeOK, NEW S \in SUBSET Names, NEW f \in [S -> Apps]
  PROVE  BulkSeedWrites(f) \in Plan
  <1> DEFINE new  == {n \in DOMAIN f : appStatus[f[n]] = "UNUSED"}
             open == {f[n] : n \in {m \in DOMAIN f : appStatus[f[m]] \in Undecided}}
             rows == {f[n] : n \in new}
             reset == {b \in rows : origin[b] # None}
  <1>1. open \in SUBSET Apps /\ rows \in SUBSET Apps /\ reset \in SUBSET Apps
    OBVIOUS
  <1>2. FinalizeWrites(Waiting(open)) \in Plan
    BY FinalizeType DEF Waiting
  <1>3. ApproveWrites(open) \in Plan
    <2>1. [a \in open |-> "APPROVED"] \in Partial(Apps, AppStatus)
      BY <1>1, FunctionPartial DEF AppStatus
    <2> QED BY <1>2, <2>1 DEF ApproveWrites, Plan
  <1>4. [a \in rows \cup open |-> "APPROVED"] \in Partial(Apps, AppStatus)
    BY <1>1, FunctionPartial DEF AppStatus
  <1>5. [a \in rows |-> CHOOSE n \in new : f[n] = a] \in Partial(Apps, Names \cup {None})
    <2>1. ASSUME NEW a \in rows PROVE (CHOOSE n \in new : f[n] = a) \in Names
      <3>1. \E n \in new : f[n] = a OBVIOUS
      <3>2. (CHOOSE n \in new : f[n] = a) \in new
        <4> HIDE DEF new
        <4> QED BY <3>1
      <3>3. new \subseteq Names OBVIOUS
      <3> QED BY <3>2, <3>3
    <2>2. [a \in rows |-> CHOOSE n \in new : f[n] = a] \in [rows -> Names \cup {None}]
      <3> HIDE DEF rows, new
      <3> QED BY <2>1
    <2> HIDE DEF rows, new
    <2> QED BY <1>1, <2>2, FunctionPartial
  <1>6. [a \in reset |-> None] \in Partial(Apps, Gateways \cup {None})
    BY <1>1, FunctionPartial
  <1> HIDE DEF new, open, rows, reset
  <1> QED BY <1>3, <1>4, <1>5, <1>6 DEF BulkSeedWrites, Plan, new, open, rows, reset

\* Decisions about a linked request.
LEMMA StatusTypes ==
  ASSUME TypeOK, NEW r \in Row, NEW s \in ChildStatus
  PROVE  SMDecisionWrites(r, s) \in Plan /\ ResubmitWrites(r) \in Plan
  <1>1. SMDecisionWrites(r, s) \in Plan
    BY OnePartial, NoWritesType DEF SMDecisionWrites, Plan
  <1>2. ResubmitWrites(r) \in Plan
    <2>1. (IF NameOf(r) = "REJECTED" THEN "SM_REJECTED" ELSE "SM_APPROVAL_PENDING")
            \in ChildStatus
      BY DEF ChildStatus
    <2> QED BY <2>1, DirtyPartial, NoWritesType DEF ResubmitWrites, Plan
  <1> QED BY <1>1, <1>2

\* An admin's rename of a SAST or Performance request.
LEMMA RenameScanType ==
  ASSUME TypeOK, NEW r \in Row, NEW n \in Names, NEW a \in Apps
  PROVE  RenameScanWrites(r, n, a) \in Plan
  <1>1. r[1] \in Gateways BY DEF Row
  <1>2. ResolveWrites(n, r[1], a) \in Plan BY <1>1, ResolveType
  <1>3. One(r, n) \in Partial(Row, Names \cup {None}) BY OnePartial
  <1> QED BY <1>2, <1>3 DEF RenameScanWrites, Plan

----------------------------------------------------------------------------
(* Type correctness. *)

\* Every initial state has its type.
LEMMA InitType == ASSUME IntakeAssumption, Init PROVE TypeOK
  <1>1. \A t \in Target : <<>> \in Seq(Users) OBVIOUS
  <1> QED BY <1>1 DEF Init, TypeOK, GatewayStatus, Details, AppStatus, ChildStatus

\* Every handler keeps the type, and so does a step that changes nothing.
LEMMA NextType == ASSUME TypeOK, [Next]_vars PROVE TypeOK'
  <1>1. CASE UNCHANGED vars BY <1>1 DEF vars, TypeOK
  <1>2. ASSUME NEW g \in Gateways, Create(g) PROVE TypeOK'
    BY <1>2, DraftTypes, FlushType DEF Create
  <1>3. ASSUME NEW g \in Gateways, NEW u \in Users,
               Edit(g, u) \/ Cancel(g, u) \/ Submit(g, u) \/ AdminRelink(g, u)
        PROVE  TypeOK'
    BY <1>3, DraftTypes, LeaveDraftTypes, RelinkType, FlushType
       DEF Edit, Cancel, Submit, AdminRelink
  <1>4. ASSUME NEW t \in Target, NEW u \in Users,
               AssignForInput(t, u) \/ ReturnDelegated(t, u) \/ RecallDelegated(t, u)
        PROVE  TypeOK'
    BY <1>4, DelegationTypes, FlushType DEF AssignForInput, ReturnDelegated, RecallDelegated
  <1>5. ASSUME NEW a \in Apps, NEW u \in Users,
               \/ AppOwnerApprove(a, u) \/ AppOwnerReject(a, u)
               \/ SMApproveName(a, u) \/ SMRejectName(a, u) \/ RenameApplication(a, u)
        PROVE  TypeOK'
    <2>1. CASE RenameApplication(a, u)
      BY <2>1, RenameType, FlushType DEF RenameApplication
    <2>2. CASE \/ AppOwnerApprove(a, u) \/ AppOwnerReject(a, u)
               \/ SMApproveName(a, u) \/ SMRejectName(a, u)
      <3>1. /\ ApproveWrites({a}) \in Plan /\ RejectWrites(a) \in Plan
            /\ SMApproveNameWrites(a) \in Plan /\ SMRejectNameWrites(a) \in Plan
        BY DecisionTypes
      <3> QED BY <2>2, <3>1, FlushType
              DEF AppOwnerApprove, AppOwnerReject, SMApproveName, SMRejectName
    <2> QED BY <1>5, <2>1, <2>2
  <1>6. ASSUME NEW a \in Apps, CreateProject(a) PROVE TypeOK'
    BY <1>6, DecisionTypes, FlushType DEF CreateProject
  <1>7. ASSUME NEW u \in Users, BulkSeed(u) PROVE TypeOK'
    BY <1>7, SeedType, FlushType DEF BulkSeed
  <1>8. ASSUME NEW r \in Row, NEW u \in Users,
               SMApprove(r, u) \/ SMSendBack(r, u) \/ Resubmit(r, u) \/ AdminRenameScan(r, u)
        PROVE  TypeOK'
    <2>1. CASE AdminRenameScan(r, u)
      BY <2>1, RenameScanType, FlushType DEF AdminRenameScan
    <2>2. CASE SMApprove(r, u) \/ SMSendBack(r, u) \/ Resubmit(r, u)
      BY <2>2, StatusTypes, FlushType
         DEF SMApprove, SMSendBack, Resubmit, ChildStatus, Correctable
    <2> QED BY <1>8, <2>1, <2>2
  <1> QED BY <1>1, <1>2, <1>3, <1>4, <1>5, <1>6, <1>7, <1>8 DEF Next

\* Every reachable state of the database is well typed, whatever handlers run.
THEOREM TypeCorrect == ASSUME IntakeAssumption PROVE Spec => []TypeOK
  <1>1. Init => TypeOK BY InitType
  <1>2. TypeOK /\ [Next]_vars => TypeOK' BY NextType
  <1> QED BY <1>1, <1>2, PTL DEF Spec

----------------------------------------------------------------------------
(* Delegations. *)

\* Only the six delegation handlers write delegations.
NoDelegation(p) == p.open = Nothing /\ p.close = {}

\* A session that wrote nothing touches no delegation.
LEMMA NoWritesDelegation == NoDelegation(NoWrites)
  BY DEF NoDelegation, NoWrites

\* Resolving a name touches no delegation and no linked request.
LEMMA ResolveDelegation ==
  ASSUME NEW n, NEW g, NEW a
  PROVE  /\ NoDelegation(ResolveWrites(n, g, a))
         /\ ResolveWrites(n, g, a).status = Nothing
         /\ ResolveWrites(n, g, a).child = Nothing
  BY DEF ResolveWrites, NoDelegation, NoWrites

\* Relinking a gateway touches no delegation and no linked request.
LEMMA RelinkDelegation ==
  ASSUME NEW n, NEW g, NEW a
  PROVE  /\ NoDelegation(RelinkWrites(n, g, a))
         /\ RelinkWrites(n, g, a).status = Nothing
         /\ RelinkWrites(n, g, a).child = Nothing
  BY ResolveDelegation DEF RelinkWrites, ResolveWrites, NoDelegation, NoWrites

\* Raising gateways touches no delegation and changes no linked request there is.
LEMMA FinalizeDelegation ==
  ASSUME NEW G
  PROVE  /\ NoDelegation(FinalizeWrites(G))
         /\ FinalizeWrites(G).status = [g \in G |-> "RAISED"]
         /\ FinalizeWrites(G).child = Nothing
  BY DEF FinalizeWrites, NoDelegation, NoWrites

\* Creating or editing a draft touches no delegation and changes no status but of a new gateway.
LEMMA DraftDelegation ==
  ASSUME NEW n, NEW g, NEW a, NEW ts, NEW d
  PROVE  /\ NoDelegation(CreateWrites(g, n, a, ts, d))
         /\ CreateWrites(g, n, a, ts, d).status = One(g, "DRAFT")
         /\ CreateWrites(g, n, a, ts, d).child = Nothing
         /\ NoDelegation(EditWrites(g, n, a, ts, d))
         /\ EditWrites(g, n, a, ts, d).status = Nothing
         /\ EditWrites(g, n, a, ts, d).child = Nothing
  <1>1. /\ NoDelegation(CreateWrites(g, n, a, ts, d))
        /\ CreateWrites(g, n, a, ts, d).status = One(g, "DRAFT")
        /\ CreateWrites(g, n, a, ts, d).child = Nothing
    BY ResolveDelegation DEF CreateWrites, ResolveWrites, NoDelegation, NoWrites
  <1>2. /\ NoDelegation(EditWrites(g, n, a, ts, d))
        /\ EditWrites(g, n, a, ts, d).status = Nothing
        /\ EditWrites(g, n, a, ts, d).child = Nothing
    BY RelinkDelegation DEF EditWrites, RelinkWrites, ResolveWrites, NoDelegation, NoWrites
  <1> QED BY <1>1, <1>2

\* Cancelling and submitting touch no delegation.
LEMMA LeaveDraftDelegation ==
  ASSUME NEW g
  PROVE  /\ NoDelegation(CancelWrites(g)) /\ NoDelegation(SubmitWrites(g))
         /\ DOMAIN CancelWrites(g).status = {g} /\ DOMAIN SubmitWrites(g).status = {g}
         /\ CancelWrites(g).child = Nothing /\ SubmitWrites(g).child = Nothing
  <1>1. NoDelegation(CancelWrites(g)) /\ DOMAIN CancelWrites(g).status = {g}
          /\ CancelWrites(g).child = Nothing
    BY DEF CancelWrites, NoDelegation, NoWrites, One
  <1>2. NoDelegation(SubmitWrites(g)) /\ DOMAIN SubmitWrites(g).status = {g}
          /\ SubmitWrites(g).child = Nothing
    BY DEF SubmitWrites, FinalizeWrites, NoDelegation, NoWrites, One
  <1> QED BY <1>1, <1>2

\* The decisions of a name touch no delegation.
LEMMA DecisionDelegation ==
  ASSUME NEW a, NEW A, NEW n, NEW f
  PROVE  /\ NoDelegation(ApproveWrites(A)) /\ ApproveWrites(A).child = Nothing
         /\ DOMAIN ApproveWrites(A).status = Waiting(A)
         /\ NoDelegation(RejectWrites(a)) /\ DOMAIN RejectWrites(a).status = Waiting({a})
         /\ DOMAIN RejectWrites(a).child = AtSM(Using(a) \ Waiting({a}))
         /\ NoDelegation(SMApproveNameWrites(a)) /\ SMApproveNameWrites(a).status = Nothing
         /\ SMApproveNameWrites(a).child = Nothing
         /\ NoDelegation(SMRejectNameWrites(a)) /\ SMRejectNameWrites(a).status = Nothing
         /\ DOMAIN SMRejectNameWrites(a).child = AtSM(Using(a))
         /\ NoDelegation(RenameWrites(a, n)) /\ RenameWrites(a, n).status = Nothing
         /\ RenameWrites(a, n).child = Nothing
         /\ NoDelegation(ProjectWrites(a)) /\ ProjectWrites(a).status = Nothing
         /\ ProjectWrites(a).child = Nothing
  <1>1. /\ NoDelegation(ApproveWrites(A)) /\ ApproveWrites(A).child = Nothing
        /\ DOMAIN ApproveWrites(A).status = Waiting(A)
    BY DEF ApproveWrites, FinalizeWrites, NoDelegation, NoWrites
  <1>2. /\ NoDelegation(RejectWrites(a)) /\ DOMAIN RejectWrites(a).status = Waiting({a})
        /\ DOMAIN RejectWrites(a).child = AtSM(Using(a) \ Waiting({a}))
    BY DEF RejectWrites, NoDelegation, NoWrites
  <1>3. /\ NoDelegation(SMApproveNameWrites(a)) /\ SMApproveNameWrites(a).status = Nothing
        /\ SMApproveNameWrites(a).child = Nothing
        /\ NoDelegation(SMRejectNameWrites(a)) /\ SMRejectNameWrites(a).status = Nothing
        /\ DOMAIN SMRejectNameWrites(a).child = AtSM(Using(a))
    BY DEF SMApproveNameWrites, SMRejectNameWrites, NoDelegation, NoWrites
  <1>4. /\ NoDelegation(RenameWrites(a, n)) /\ RenameWrites(a, n).status = Nothing
        /\ RenameWrites(a, n).child = Nothing
        /\ NoDelegation(ProjectWrites(a)) /\ ProjectWrites(a).status = Nothing
        /\ ProjectWrites(a).child = Nothing
    BY DEF RenameWrites, ProjectWrites, NoDelegation, NoWrites
  <1> QED BY <1>1, <1>2, <1>3, <1>4

\* A bulk seed touches no delegation.
LEMMA SeedDelegation ==
  ASSUME NEW f
  PROVE  /\ NoDelegation(BulkSeedWrites(f)) /\ BulkSeedWrites(f).child = Nothing
         /\ \E A : DOMAIN BulkSeedWrites(f).status = Waiting(A)
  <1> DEFINE open == {f[n] : n \in {m \in DOMAIN f : appStatus[f[m]] \in Undecided}}
  <1>1. DOMAIN BulkSeedWrites(f).status = Waiting(open)
    BY DEF BulkSeedWrites, ApproveWrites, FinalizeWrites, NoWrites
  <1>2. NoDelegation(BulkSeedWrites(f)) /\ BulkSeedWrites(f).child = Nothing
    BY DEF BulkSeedWrites, ApproveWrites, FinalizeWrites, NoDelegation, NoWrites
  <1> QED BY <1>1, <1>2

\* The decisions, resubmissions and renames of a linked request touch no delegation.
LEMMA ChildDelegation ==
  ASSUME NEW r, NEW s, NEW n, NEW a
  PROVE  /\ NoDelegation(SMDecisionWrites(r, s)) /\ SMDecisionWrites(r, s).status = Nothing
         /\ DOMAIN SMDecisionWrites(r, s).child = {r}
         /\ NoDelegation(ResubmitWrites(r)) /\ ResubmitWrites(r).status = Nothing
         /\ DOMAIN ResubmitWrites(r).child \subseteq {r}
         /\ NoDelegation(RenameScanWrites(r, n, a)) /\ RenameScanWrites(r, n, a).status = Nothing
         /\ RenameScanWrites(r, n, a).child = Nothing
  <1>1. /\ NoDelegation(SMDecisionWrites(r, s)) /\ SMDecisionWrites(r, s).status = Nothing
        /\ DOMAIN SMDecisionWrites(r, s).child = {r}
    BY DEF SMDecisionWrites, NoDelegation, NoWrites, One
  <1>2. /\ NoDelegation(ResubmitWrites(r)) /\ ResubmitWrites(r).status = Nothing
        /\ DOMAIN ResubmitWrites(r).child \subseteq {r}
    BY DEF ResubmitWrites, NoDelegation, NoWrites, Dirty, One, Nothing
  <1>3. /\ NoDelegation(RenameScanWrites(r, n, a)) /\ RenameScanWrites(r, n, a).status = Nothing
        /\ RenameScanWrites(r, n, a).child = Nothing
    BY ResolveDelegation DEF RenameScanWrites, ResolveWrites, NoDelegation, NoWrites
  <1> QED BY <1>1, <1>2, <1>3

\* A gateway is no linked request's row.
LEMMA GateFacts ==
  ASSUME IntakeAssumption, NEW g \in Gateways
  PROVE  Gate(g) \in Target /\ Gate(g) \notin Row /\ Gate(g)[1] = g
  <1>1. Gate(g) = <<g, "QA_REQUEST", 0>> BY DEF Gate
  <1>2. Gate(g) \notin Row
    BY <1>1 DEF Row, IntakeAssumption
  <1> QED BY <1>1, <1>2 DEF Target

\* A handler that writes no delegation keeps them matched if it moves nothing
\* that is delegated.
LEMMA KeepsDelegations ==
  ASSUME IntakeAssumption, TypeOK, DelegationMatchesStage,
         NEW p \in Plan, Flush(p), NoDelegation(p),
         \A g \in DOMAIN p.status : deleg[Gate(g)] = <<>>,
         \A r \in DOMAIN p.child : deleg[r] = <<>>
  PROVE  DelegationMatchesStage'
  <1>1. deleg' = deleg
    <2>1. ASSUME NEW t \in Target PROVE DelegationRows(t, p) = deleg[t]
      BY DEF DelegationRows, NoDelegation, Nothing
    <2> QED BY <2>1 DEF Flush, TypeOK
  <1> SUFFICES ASSUME NEW t \in Target, deleg[t] # <<>> PROVE WithRequester(t)'
    BY <1>1 DEF DelegationMatchesStage
  <1>2. WithRequester(t) BY DEF DelegationMatchesStage
  <1>3. CASE t \in Row
    <2>1. child[t] \in Correctable BY <1>2, <1>3 DEF WithRequester
    <2>2. ~Inserted(t, p) BY <2>1 DEF Inserted, Correctable
    <2>3. child'[t] = Over(child, p.child)[t] BY <1>3, <2>2 DEF Flush
    <2>4. t \notin DOMAIN p.child OBVIOUS
    <2>5. child'[t] = child[t] BY <1>3, <2>3, <2>4 DEF Over, TypeOK
    <2> QED BY <1>3, <2>1, <2>5 DEF WithRequester
  <1>4. CASE t \notin Row
    <2>1. PICK g \in Gateways : t = Gate(g) BY <1>4 DEF Target
    <2>2. t[1] = g BY <2>1, GateFacts
    <2>3. status[g] = "DRAFT" BY <1>2, <1>4, <2>2 DEF WithRequester
    <2>4. g \notin DOMAIN p.status BY <2>1
    <2>5. status'[g] = status[g] BY <2>4 DEF Flush, Over, TypeOK
    <2> QED BY <1>4, <2>2, <2>3, <2>5 DEF WithRequester
  <1> QED BY <1>3, <1>4

\* What waits for the Application Owner, or at SM, is not delegated.
LEMMA WaitingNotDelegated ==
  ASSUME IntakeAssumption, TypeOK, DelegationMatchesStage
  PROVE  /\ \A g \in Gateways : status[g] # "DRAFT" => deleg[Gate(g)] = <<>>
         /\ \A A : \A g \in Waiting(A) : deleg[Gate(g)] = <<>>
         /\ \A r \in Row : child[r] \notin Correctable => deleg[r] = <<>>
         /\ \A G : \A r \in AtSM(G) : deleg[r] = <<>>
  <1>1. ASSUME NEW g \in Gateways, status[g] # "DRAFT" PROVE deleg[Gate(g)] = <<>>
    BY <1>1, GateFacts DEF DelegationMatchesStage, WithRequester
  <1>2. ASSUME NEW r \in Row, child[r] \notin Correctable PROVE deleg[r] = <<>>
    BY <1>2 DEF DelegationMatchesStage, WithRequester, Target
  <1> QED BY <1>1, <1>2 DEF Waiting, AtSM, Correctable

\* What is left of a sequence of one.
LEMMA TailOfOne == ASSUME NEW S, NEW s \in Seq(S), Len(s) = 1 PROVE Tail(s) = <<>>
  <1>1. s # <<>> OBVIOUS
  <1>2. Tail(s) \in Seq(S) /\ Len(Tail(s)) = 0 BY <1>1, HeadTailProperties
  <1> QED BY <1>2, EmptySeq

\* A delegation that is opened or closed.
LEMMA DelegationStep ==
  ASSUME IntakeAssumption, TypeOK, DelegationMatchesStage, NEW t \in Target, NEW u \in Users,
         AssignForInput(t, u) \/ ReturnDelegated(t, u) \/ RecallDelegated(t, u)
  PROVE  DelegationMatchesStage'
  <1>1. /\ \A r \in Row : child'[r] = child[r]
        /\ \A g \in Gateways : status'[g] = status[g]
    <2>1. ASSUME NEW p, Flush(p), p.status = Nothing, p.child = Nothing, p.insert = Nothing
          PROVE  /\ \A r \in Row : child'[r] = child[r]
                 /\ \A g \in Gateways : status'[g] = status[g]
      BY <2>1 DEF Flush, Over, Inserted, Nothing, TypeOK
    <2>2. \A v \in Users : /\ AssignWrites(t, v).status = Nothing
                           /\ AssignWrites(t, v).child = Nothing
                           /\ AssignWrites(t, v).insert = Nothing
      BY DEF AssignWrites, NoWrites
    <2>3. /\ CloseWrites(t).status = Nothing
          /\ CloseWrites(t).child = Nothing
          /\ CloseWrites(t).insert = Nothing
      BY DEF CloseWrites, NoWrites
    <2> QED BY <2>1, <2>2, <2>3 DEF AssignForInput, ReturnDelegated, RecallDelegated
  <1>2. \A x \in Target : WithRequester(x) => WithRequester(x)'
    <2>1. \A x \in Target \ Row : x[1] \in Gateways BY GateFacts DEF Target
    <2> QED BY <1>1, <2>1 DEF WithRequester
  <1>3. CASE AssignForInput(t, u)
    <2>1. PICK v \in Users : CanAssign(t, u, v) /\ Flush(AssignWrites(t, v))
      BY <1>3 DEF AssignForInput
    <2>2. AssignWrites(t, v).open = One(t, v) /\ AssignWrites(t, v).close = {}
      BY DEF AssignWrites, NoWrites
    <2>3. \A x \in Target : deleg'[x] = IF x = t THEN Append(deleg[t], v) ELSE deleg[x]
      BY <2>1, <2>2 DEF Flush, DelegationRows, One
    <2>4. deleg'[t] = <<v>> BY <2>1, <2>3 DEF CanAssign
    <2>5. WithRequester(t) /\ v # Owner[t[1]] BY <2>1 DEF CanAssign
    <2>6. Len(<<v>>) = 1 /\ <<v>>[1] = v OBVIOUS
    <2>7. ASSUME NEW x \in Target, deleg'[x] # <<>>
          PROVE  Len(deleg'[x]) = 1 /\ deleg'[x][1] # Owner[x[1]] /\ WithRequester(x)'
      <3>1. CASE x = t BY <1>2, <2>4, <2>5, <2>6, <3>1
      <3>2. CASE x # t BY <1>2, <2>3, <2>7, <3>2 DEF DelegationMatchesStage
      <3> QED BY <3>1, <3>2
    <2> QED BY <2>7 DEF DelegationMatchesStage
  <1>4. CASE ReturnDelegated(t, u) \/ RecallDelegated(t, u)
    <2>1. deleg[t] # <<>> /\ Flush(CloseWrites(t))
      BY <1>4 DEF ReturnDelegated, RecallDelegated, CanReturn, CanRecall
    <2>2. CloseWrites(t).open = Nothing /\ CloseWrites(t).close = {t}
      BY DEF CloseWrites, NoWrites
    <2>3. \A x \in Target : deleg'[x] = IF x = t THEN Tail(deleg[t]) ELSE deleg[x]
      BY <2>1, <2>2 DEF Flush, DelegationRows, Nothing
    <2>4. deleg[t] \in Seq(Users) /\ Len(deleg[t]) = 1
      BY <2>1 DEF DelegationMatchesStage, TypeOK
    <2>5. Tail(deleg[t]) = <<>> BY <2>4, TailOfOne
    <2> QED BY <1>2, <2>3, <2>5 DEF DelegationMatchesStage
  <1> QED BY <1>3, <1>4

\* Every handler keeps delegations with the stage of their target.
LEMMA NextDelegation ==
  ASSUME IntakeAssumption, TypeOK, DelegationMatchesStage, [Next]_vars
  PROVE  DelegationMatchesStage'
  <1>1. CASE UNCHANGED vars
    BY <1>1 DEF vars, DelegationMatchesStage, WithRequester
  <1>2. ASSUME NEW g \in Gateways, Create(g) PROVE DelegationMatchesStage'
    <2>1. PICK n \in Names, a \in Apps, ts \in SUBSET Types, d \in {"INCOMPLETE", "COMPLETE"} :
            CanCreate(g, n, a) /\ Flush(CreateWrites(g, n, a, ts, d))
      BY <1>2 DEF Create
    <2>2. deleg[Gate(g)] = <<>> BY <2>1, WaitingNotDelegated DEF CanCreate
    <2>3. CreateWrites(g, n, a, ts, d) \in Plan BY DraftTypes
    <2> QED BY <2>1, <2>2, <2>3, DraftDelegation, KeepsDelegations DEF One, Nothing
  <1>3. ASSUME NEW g \in Gateways, NEW u \in Users,
               Edit(g, u) \/ Cancel(g, u) \/ Submit(g, u) \/ AdminRelink(g, u)
        PROVE  DelegationMatchesStage'
    <2>1. CASE Edit(g, u)
      <3>1. PICK n \in Names, a \in Apps, ts \in SUBSET Types, d \in {"INCOMPLETE", "COMPLETE"} :
              Flush(EditWrites(g, n, a, ts, d))
        BY <2>1 DEF Edit
      <3>2. EditWrites(g, n, a, ts, d) \in Plan BY DraftTypes
      <3> QED BY <3>1, <3>2, DraftDelegation, KeepsDelegations DEF Nothing
    <2>2. CASE Cancel(g, u)
      BY <2>2, LeaveDraftTypes, LeaveDraftDelegation, KeepsDelegations
         DEF Cancel, CanCancel, OwnsDraft, Nothing
    <2>3. CASE Submit(g, u)
      BY <2>3, LeaveDraftTypes, LeaveDraftDelegation, KeepsDelegations
         DEF Submit, CanSubmit, OwnsDraft, Nothing
    <2>4. CASE AdminRelink(g, u)
      <3>1. PICK n \in Names, a \in Apps : Flush(RelinkWrites(n, g, a))
        BY <2>4 DEF AdminRelink
      <3> QED BY <3>1, RelinkType, RelinkDelegation, KeepsDelegations DEF Nothing
    <2> QED BY <1>3, <2>1, <2>2, <2>3, <2>4
  <1>4. ASSUME NEW t \in Target, NEW u \in Users,
               AssignForInput(t, u) \/ ReturnDelegated(t, u) \/ RecallDelegated(t, u)
        PROVE  DelegationMatchesStage'
    BY <1>4, DelegationStep
  <1>5. ASSUME NEW a \in Apps, NEW u \in Users,
               \/ AppOwnerApprove(a, u) \/ AppOwnerReject(a, u)
               \/ SMApproveName(a, u) \/ SMRejectName(a, u) \/ RenameApplication(a, u)
        PROVE  DelegationMatchesStage'
    <2>1. CASE AppOwnerApprove(a, u)
      BY <2>1, DecisionTypes, DecisionDelegation, WaitingNotDelegated, KeepsDelegations
         DEF AppOwnerApprove, Nothing
    <2>2. CASE AppOwnerReject(a, u)
      BY <2>2, DecisionTypes, DecisionDelegation, WaitingNotDelegated, KeepsDelegations
         DEF AppOwnerReject, Nothing
    <2>3. CASE SMApproveName(a, u)
      BY <2>3, DecisionTypes, DecisionDelegation, KeepsDelegations DEF SMApproveName, Nothing
    <2>4. CASE SMRejectName(a, u)
      BY <2>4, DecisionTypes, DecisionDelegation, WaitingNotDelegated, KeepsDelegations
         DEF SMRejectName, Nothing
    <2>5. CASE RenameApplication(a, u)
      BY <2>5, RenameType, DecisionDelegation, KeepsDelegations DEF RenameApplication, Nothing
    <2> QED BY <1>5, <2>1, <2>2, <2>3, <2>4, <2>5
  <1>6. ASSUME NEW a \in Apps, CreateProject(a) PROVE DelegationMatchesStage'
    BY <1>6, DecisionTypes, DecisionDelegation, KeepsDelegations DEF CreateProject, Nothing
  <1>7. ASSUME NEW u \in Users, BulkSeed(u) PROVE DelegationMatchesStage'
    <2>1. PICK S \in SUBSET Names : \E f \in [S -> Apps] : Flush(BulkSeedWrites(f))
      BY <1>7 DEF BulkSeed
    <2>2. PICK f \in [S -> Apps] : Flush(BulkSeedWrites(f)) BY <2>1
    <2> QED BY <2>2, SeedType, SeedDelegation, WaitingNotDelegated, KeepsDelegations DEF Nothing
  <1>8. ASSUME NEW r \in Row, NEW u \in Users,
               SMApprove(r, u) \/ SMSendBack(r, u) \/ Resubmit(r, u) \/ AdminRenameScan(r, u)
        PROVE  DelegationMatchesStage'
    <2>1. ASSUME CanSMDecide(r, u), NEW s \in ChildStatus, Flush(SMDecisionWrites(r, s))
          PROVE  DelegationMatchesStage'
      <3>1. deleg[r] = <<>>
        BY <2>1, WaitingNotDelegated DEF CanSMDecide, Correctable
      <3> QED BY <2>1, <3>1, StatusTypes, ChildDelegation, KeepsDelegations DEF Nothing
    <2>2. CASE SMApprove(r, u) \/ SMSendBack(r, u)
      BY <2>1, <2>2 DEF SMApprove, SMSendBack, CanSMApprove, ChildStatus, Correctable
    <2>3. CASE Resubmit(r, u)
      <3>1. ResubmitWrites(r) \in Plan
        BY StatusTypes DEF ChildStatus
      <3> QED BY <2>3, <3>1, ChildDelegation, KeepsDelegations DEF Resubmit, CanResubmit, Nothing
    <2>4. CASE AdminRenameScan(r, u)
      <3>1. PICK n \in Names, a \in Apps : Flush(RenameScanWrites(r, n, a))
        BY <2>4 DEF AdminRenameScan
      <3> QED BY <3>1, RenameScanType, ChildDelegation, KeepsDelegations DEF Nothing
    <2> QED BY <1>8, <2>2, <2>3, <2>4
  <1> QED BY <1>1, <1>2, <1>3, <1>4, <1>5, <1>6, <1>7, <1>8 DEF Next

\* Whoever acts on whatever request, a delegation is the only one of its target
\* and its target stays with its requester: no handler moves a delegated draft or
\* a delegated correction on. The invariant is inductive with TypeOK.
THEOREM DelegationsMatch == ASSUME IntakeAssumption PROVE Spec => []DelegationMatchesStage
  <1>1. Init => TypeOK /\ DelegationMatchesStage
    BY InitType DEF Init, DelegationMatchesStage
  <1>2. TypeOK /\ DelegationMatchesStage /\ [Next]_vars => (TypeOK /\ DelegationMatchesStage)'
    BY NextType, NextDelegation
  <1> QED BY <1>1, <1>2, PTL DEF Spec

----------------------------------------------------------------------------
(* Commits, row by row. *)

\* What a commit does to a row of each table.
LEMMA Flushed ==
  ASSUME TypeOK, NEW p \in Plan, Flush(p)
  PROVE  /\ \A g \in Gateways :
              /\ status'[g]  = IF g \in DOMAIN p.status THEN p.status[g] ELSE status[g]
              /\ link'[g]    = IF g \in DOMAIN p.link THEN p.link[g] ELSE link[g]
              /\ types'[g]   = IF g \in DOMAIN p.types THEN p.types[g] ELSE types[g]
              /\ details'[g] = IF g \in DOMAIN p.details THEN p.details[g] ELSE details[g]
              /\ reqName'[g] = Renamed(IF g \in DOMAIN p.reqName THEN p.reqName[g] ELSE reqName[g], p)
         /\ \A a \in Apps :
              /\ appStatus'[a] = IF a \in DOMAIN p.appStatus THEN p.appStatus[a] ELSE appStatus[a]
              /\ appName'[a]   = IF a \in DOMAIN p.appName THEN p.appName[a] ELSE appName[a]
              /\ origin'[a]    = IF a \in DOMAIN p.origin THEN p.origin[a] ELSE origin[a]
         /\ \A r \in Row :
              child'[r] = IF Inserted(r, p) THEN "SM_APPROVAL_PENDING"
                          ELSE IF r \in DOMAIN p.child THEN p.child[r] ELSE child[r]
         /\ numbered' = numbered \cup p.number
         /\ projects' = projects \cup p.project
  BY DEF TypeOK, Flush, Over

----------------------------------------------------------------------------
(* Decisions about names. *)

\* What may become of a row of the name master.
RowStays(b)    == appStatus'[b] = appStatus[b]
RowProposed(b) ==
  /\ appStatus[b] \in {"UNUSED", "REJECTED"} /\ appStatus'[b] = "PENDING_APP_OWNER"
  /\ origin'[b] \in Gateways /\ (appStatus[b] = "REJECTED" => origin'[b] # origin[b])
RowDecided(b)  == appStatus[b] \in Undecided /\ appStatus'[b] \in {"APPROVED", "REJECTED", "DELETED"}
RowSeeded(b)   == appStatus[b] = "UNUSED" /\ appStatus'[b] = "APPROVED"
RowStep(b)     == RowStays(b) \/ RowProposed(b) \/ RowDecided(b) \/ RowSeeded(b)

\* A resolution proposes one row, or none.
LEMMA ResolveRows ==
  ASSUME TypeOK, NEW n \in Names, NEW g \in Gateways, NEW a \in Apps, ResolvesTo(n, g, a),
         NEW p \in Plan, Flush(p), p.origin = ResolveWrites(n, g, a).origin,
         p.appStatus = ResolveWrites(n, g, a).appStatus,
         NEW b \in Apps
  PROVE  RowStays(b) \/ RowProposed(b)
  <1>1. CASE appStatus[a] \in {"UNUSED", "REJECTED"} /\ b = a
    <2>1. appStatus'[b] = "PENDING_APP_OWNER"
      BY <1>1, Flushed DEF ResolveWrites, NoWrites, One
    <2>2. origin'[b] = g
      BY <1>1, Flushed DEF ResolveWrites, NoWrites, One, Dirty, Nothing
    <2>3. appStatus[b] = "REJECTED" => origin[b] # g
      BY <1>1 DEF ResolvesTo, FreeRow
    <2> QED
      BY <1>1, <2>1, <2>2, <2>3 DEF RowProposed
  <1>2. CASE ~(appStatus[a] \in {"UNUSED", "REJECTED"} /\ b = a)
    BY <1>2, Flushed DEF ResolveWrites, NoWrites, One, Nothing, RowStays
  <1> QED
    BY <1>1, <1>2

\* Relinking may delete the row it leaves besides, if nobody else uses it.
LEMMA RelinkRows ==
  ASSUME TypeOK, NEW n \in Names, NEW g \in Gateways, NEW a \in Apps, ResolvesTo(n, g, a),
         NEW p \in Plan, Flush(p), p.origin = RelinkWrites(n, g, a).origin,
         p.appStatus = RelinkWrites(n, g, a).appStatus,
         NEW b \in Apps
  PROVE  /\ \/ RowStays(b) \/ RowProposed(b)
            \/ Orphaned(link[g], g) /\ b = link[g] /\ appStatus'[b] = "DELETED"
         /\ b = a => appStatus'[b] # "REJECTED"
  <1> DEFINE w == ResolveWrites(n, g, a)
  <1>0. p.origin = w.origin
    BY DEF RelinkWrites, ResolveWrites, NoWrites
  <1>1. CASE Orphaned(link[g], g) /\ b = link[g]
    <2>1. p.appStatus = [x \in {link[g]} \cup DOMAIN w.appStatus |->
                           IF x = link[g] THEN "DELETED" ELSE w.appStatus[x]]
      BY <1>1 DEF RelinkWrites, ResolveWrites, NoWrites
    <2>2. appStatus'[b] = "DELETED"
      BY <1>1, <2>1, Flushed
    <2> QED
      BY <1>1, <2>2
  <1>2. CASE ~(Orphaned(link[g], g) /\ b = link[g])
    <2>1. /\ b \in DOMAIN p.appStatus <=> b \in DOMAIN w.appStatus
          /\ b \in DOMAIN w.appStatus => p.appStatus[b] = w.appStatus[b]
      BY <1>2 DEF RelinkWrites, ResolveWrites, NoWrites
    <2>2. /\ appStatus'[b] = IF b \in DOMAIN w.appStatus THEN w.appStatus[b] ELSE appStatus[b]
          /\ origin'[b] = IF b \in DOMAIN w.origin THEN w.origin[b] ELSE origin[b]
      BY <2>1, <1>0, Flushed
    <2>3. CASE appStatus[a] \in {"UNUSED", "REJECTED"} /\ b = a
      <3>1. appStatus'[b] = "PENDING_APP_OWNER"
        BY <2>2, <2>3 DEF ResolveWrites, NoWrites, One
      <3>2. origin'[b] = g
        BY <2>2, <2>3 DEF ResolveWrites, NoWrites, One, Dirty, Nothing
      <3>3. appStatus[b] = "REJECTED" => origin[b] # g
        BY <2>3 DEF ResolvesTo, FreeRow
      <3> QED
        BY <2>3, <3>1, <3>2, <3>3 DEF RowProposed
    <2>4. CASE ~(appStatus[a] \in {"UNUSED", "REJECTED"} /\ b = a)
      BY <2>2, <2>4 DEF ResolveWrites, NoWrites, One, Nothing, RowStays
    <2> QED
      BY <2>3, <2>4
  <1> QED
    BY <1>1, <1>2

\* So a row still stays, is proposed, decided or seeded.
LEMMA RelinkRowStep ==
  ASSUME TypeOK, NEW n \in Names, NEW g \in Gateways, NEW a \in Apps, ResolvesTo(n, g, a),
         NEW p \in Plan, Flush(p), p.origin = RelinkWrites(n, g, a).origin,
         p.appStatus = RelinkWrites(n, g, a).appStatus,
         NEW b \in Apps
  PROVE  RowStep(b)
  BY RelinkRows DEF Orphaned, RowStep, RowDecided

\* A write set that leaves the name master's status column alone.
LEMMA UntouchedRows ==
  ASSUME TypeOK, NEW p \in Plan, Flush(p), p.appStatus = Nothing, NEW b \in Apps
  PROVE  RowStays(b)
  BY Flushed DEF Nothing, RowStays

\* A workbook approves what waits and adds rows born APPROVED.
LEMMA SeedRows ==
  ASSUME TypeOK, NEW S \in SUBSET Names, NEW f \in [S -> Apps], Flush(BulkSeedWrites(f)),
         NEW b \in Apps
  PROVE  RowStep(b)
  <1> DEFINE new  == {n \in DOMAIN f : appStatus[f[n]] = "UNUSED"}
             open == {f[n] : n \in {m \in DOMAIN f : appStatus[f[m]] \in Undecided}}
             rows == {f[n] : n \in new}
             p    == BulkSeedWrites(f)
  <1>1. p.appStatus = [x \in rows \cup open |-> "APPROVED"]
    BY DEF BulkSeedWrites, ApproveWrites, FinalizeWrites, NoWrites
  <1>2. p \in Plan
    BY SeedType
  <1>3. b \in rows => appStatus[b] = "UNUSED"
    OBVIOUS
  <1>4. b \in open => appStatus[b] \in Undecided
    OBVIOUS
  <1> HIDE DEF rows, open, new, p
  <1>5. appStatus'[b] = IF b \in rows \cup open THEN "APPROVED" ELSE appStatus[b]
    BY <1>1, <1>2, Flushed DEF p
  <1> QED
    BY <1>3, <1>4, <1>5 DEF RowStep, RowSeeded, RowDecided, RowStays

\* Whatever the step, a row of the name master stays, is proposed, decided or seeded.
LEMMA RowSteps == ASSUME TypeOK, [Next]_vars, NEW b \in Apps PROVE RowStep(b)
  <1>1. CASE UNCHANGED vars BY <1>1 DEF vars, RowStep, RowStays
  <1>2. ASSUME NEW g \in Gateways, Create(g) PROVE RowStep(b)
    <2>1. PICK n \in Names, a \in Apps, ts \in SUBSET Types, d \in {"INCOMPLETE", "COMPLETE"} :
            CanCreate(g, n, a) /\ Flush(CreateWrites(g, n, a, ts, d))
      BY <1>2 DEF Create
    <2>2. /\ CreateWrites(g, n, a, ts, d).appStatus = ResolveWrites(n, g, a).appStatus
          /\ CreateWrites(g, n, a, ts, d).origin = ResolveWrites(n, g, a).origin
      BY DEF CreateWrites, ResolveWrites, NoWrites
    <2> QED BY <2>1, <2>2, DraftTypes, ResolveRows DEF CanCreate, RowStep
  <1>3. ASSUME NEW g \in Gateways, NEW u \in Users,
               Edit(g, u) \/ Cancel(g, u) \/ Submit(g, u) \/ AdminRelink(g, u)
        PROVE  RowStep(b)
    <2>1. CASE Edit(g, u)
      <3>1. PICK n \in Names, a \in Apps, ts \in SUBSET Types, d \in {"INCOMPLETE", "COMPLETE"} :
              CanEdit(g, u, n, a) /\ Flush(EditWrites(g, n, a, ts, d))
        BY <2>1 DEF Edit
      <3>2. EditWrites(g, n, a, ts, d) \in Plan BY DraftTypes
      <3>3. CASE n = reqName[g]
        <4>1. EditWrites(g, n, a, ts, d).appStatus = Nothing
          BY <3>3 DEF EditWrites, NoWrites
        <4> QED BY <3>1, <3>2, <4>1, UntouchedRows DEF RowStep
      <3>4. CASE n # reqName[g]
        <4>1. /\ EditWrites(g, n, a, ts, d).appStatus = RelinkWrites(n, g, a).appStatus
              /\ EditWrites(g, n, a, ts, d).origin = RelinkWrites(n, g, a).origin
          BY <3>4 DEF EditWrites, RelinkWrites, ResolveWrites, NoWrites
        <4> QED BY <3>1, <3>2, <3>4, <4>1, RelinkRowStep DEF CanEdit
      <3> QED BY <3>3, <3>4
    <2>2. CASE Cancel(g, u)
      <3>1. CancelWrites(g).appStatus = Nothing BY DEF CancelWrites, NoWrites
      <3> QED BY <2>2, <3>1, LeaveDraftTypes, UntouchedRows DEF Cancel, RowStep
    <2>3. CASE Submit(g, u)
      <3>1. SubmitWrites(g).appStatus = Nothing
        BY DEF SubmitWrites, FinalizeWrites, NoWrites
      <3> QED BY <2>3, <3>1, LeaveDraftTypes, UntouchedRows DEF Submit, RowStep
    <2>4. CASE AdminRelink(g, u)
      <3>1. PICK n \in Names, a \in Apps :
              CanAdminRelink(g, u, n, a) /\ Flush(RelinkWrites(n, g, a))
        BY <2>4 DEF AdminRelink
      <3> QED BY <3>1, RelinkType, RelinkRowStep DEF CanAdminRelink
    <2> QED BY <1>3, <2>1, <2>2, <2>3, <2>4
  <1>4. ASSUME NEW t \in Target, NEW u \in Users,
               AssignForInput(t, u) \/ ReturnDelegated(t, u) \/ RecallDelegated(t, u)
        PROVE  RowStep(b)
    <2>1. \A v \in Users : AssignWrites(t, v).appStatus = Nothing
      BY DEF AssignWrites, NoWrites
    <2>2. CloseWrites(t).appStatus = Nothing BY DEF CloseWrites, NoWrites
    <2> QED BY <1>4, <2>1, <2>2, DelegationTypes, UntouchedRows
            DEF AssignForInput, ReturnDelegated, RecallDelegated, RowStep
  <1>5. ASSUME NEW a \in Apps, NEW u \in Users,
               \/ AppOwnerApprove(a, u) \/ AppOwnerReject(a, u)
               \/ SMApproveName(a, u) \/ SMRejectName(a, u)
        PROVE  RowStep(b)
    <2>1. /\ ApproveWrites({a}).appStatus = One(a, "APPROVED")
          /\ RejectWrites(a).appStatus = One(a, "REJECTED")
          /\ SMApproveNameWrites(a).appStatus = One(a, "APPROVED")
          /\ SMRejectNameWrites(a).appStatus = One(a, "REJECTED")
      BY DEF ApproveWrites, FinalizeWrites, RejectWrites, SMApproveNameWrites,
             SMRejectNameWrites, NoWrites, One
    <2>2. appStatus[a] \in Undecided
      BY <1>5 DEF AppOwnerApprove, AppOwnerReject, SMApproveName, SMRejectName,
                  CanAppOwnerDecide, CanSMDecideName, Undecided
    <2>3. ASSUME NEW p \in Plan, Flush(p), NEW s \in {"APPROVED", "REJECTED"},
                 p.appStatus = One(a, s)
          PROVE  RowStep(b)
      <3>1. appStatus'[b] = IF b = a THEN s ELSE appStatus[b]
        BY <2>3, Flushed DEF One
      <3> QED BY <2>2, <3>1 DEF RowStep, RowStays, RowDecided
    <2> QED BY <1>5, <2>1, <2>3, DecisionTypes
            DEF AppOwnerApprove, AppOwnerReject, SMApproveName, SMRejectName
  <1>6. ASSUME NEW a \in Apps, NEW u \in Users, RenameApplication(a, u) PROVE RowStep(b)
    <2>1. \A n \in Names : RenameWrites(a, n).appStatus = Nothing
      BY DEF RenameWrites, NoWrites
    <2> QED BY <1>6, <2>1, RenameType, UntouchedRows DEF RenameApplication, RowStep
  <1>7. ASSUME NEW a \in Apps, CreateProject(a) PROVE RowStep(b)
    <2>1. ProjectWrites(a).appStatus = Nothing BY DEF ProjectWrites, NoWrites
    <2> QED BY <1>7, <2>1, DecisionTypes, UntouchedRows DEF CreateProject, RowStep
  <1>8. ASSUME NEW u \in Users, BulkSeed(u) PROVE RowStep(b)
    BY <1>8, SeedRows DEF BulkSeed
  <1>9. ASSUME NEW r \in Row, NEW u \in Users,
               SMApprove(r, u) \/ SMSendBack(r, u) \/ Resubmit(r, u) \/ AdminRenameScan(r, u)
        PROVE  RowStep(b)
    <2>1. /\ \A s : SMDecisionWrites(r, s).appStatus = Nothing
          /\ ResubmitWrites(r).appStatus = Nothing
      BY DEF SMDecisionWrites, ResubmitWrites, NoWrites
    <2>2. CASE SMApprove(r, u) \/ SMSendBack(r, u) \/ Resubmit(r, u)
      <3>1. PICK s \in ChildStatus : Flush(SMDecisionWrites(r, s)) \/ Flush(ResubmitWrites(r))
        BY <2>2 DEF SMApprove, SMSendBack, Resubmit, ChildStatus, Correctable
      <3> QED BY <2>1, <3>1, StatusTypes, UntouchedRows DEF RowStep
    <2>3. CASE AdminRenameScan(r, u)
      <3>1. PICK n \in Names, a \in Apps :
              CanAdminRenameScan(r, u, n, a) /\ Flush(RenameScanWrites(r, n, a))
        BY <2>3 DEF AdminRenameScan
      <3>2. r[1] \in Gateways BY DEF Row
      <3>3. /\ RenameScanWrites(r, n, a).appStatus = ResolveWrites(n, r[1], a).appStatus
            /\ RenameScanWrites(r, n, a).origin = ResolveWrites(n, r[1], a).origin
        BY DEF RenameScanWrites, ResolveWrites, NoWrites
      <3> QED BY <3>1, <3>2, <3>3, RenameScanType, ResolveRows DEF CanAdminRenameScan, RowStep
    <2> QED BY <1>9, <2>2, <2>3
  <1> QED BY <1>1, <1>2, <1>3, <1>4, <1>5, <1>6, <1>7, <1>8, <1>9 DEF Next

\* What was decided of a name stands: an approval for ever, a rejection for the
\* request that introduced the name, through every resolve, cleanup, seed, rename
\* and decision of every other request.
THEOREM DecisionsAlwaysBind == ASSUME IntakeAssumption PROVE Spec => DecisionsBind
  <1>1. ASSUME TypeOK, [Next]_vars
        PROVE  /\ \A a \in Apps : appStatus[a] = "APPROVED" => appStatus'[a] = "APPROVED"
               /\ \A a \in Apps : appStatus[a] = "REJECTED" /\ appStatus'[a] # "REJECTED"
                    => /\ appStatus'[a] = "PENDING_APP_OWNER"
                       /\ origin'[a] \in Gateways \ {origin[a]}
    BY <1>1, RowSteps DEF RowStep, RowStays, RowProposed, RowDecided, RowSeeded, Undecided
  <1>2. Spec => []TypeOK BY TypeCorrect
  <1> QED BY <1>1, <1>2, PTL DEF Spec, DecisionsBind, ApprovalIsFinal, RejectionBindsItsRequest

----------------------------------------------------------------------------
(* Names. *)

\* A commit that keeps every live row live, under its name, and no link or
\* project of it changed.
LEMMA NamesStay ==
  ASSUME TypeOK, NamesAgree, NEW p \in Plan, Flush(p),
         p.link = Nothing, p.reqName = Nothing, p.cascade = Nothing, p.appName = Nothing,
         p.project = {},
         \A b \in DOMAIN p.appStatus : Live(b) /\ p.appStatus[b] \notin {"UNUSED", "DELETED"}
  PROVE  NamesAgree'
  <1>1. \A g \in Gateways : link'[g] = link[g] /\ reqName'[g] = reqName[g]
    BY Flushed DEF Nothing, Renamed
  <1>2. \A b \in Apps : appName'[b] = appName[b]
    BY Flushed DEF Nothing
  <1>3. \A b \in Apps : Live(b)' <=> Live(b)
    BY Flushed DEF Live
  <1>4. projects' = projects BY Flushed
  <1>5. \A g \in Gateways : link[g] # None => link[g] \in Apps BY DEF TypeOK
  <1>6. projects \subseteq Apps BY DEF TypeOK
  <1>7. ASSUME NEW g \in Gateways, link'[g] # None PROVE NamedRow(link[g], reqName[g])'
    BY <1>1, <1>2, <1>3, <1>5, <1>7 DEF NamesAgree, NamedRow
  <1>8. \A a, b \in Apps : (Live(a) /\ NamedRow(b, appName[a]))' => a = b
    BY <1>2, <1>3 DEF NamesAgree, NamedRow
  <1> QED BY <1>3, <1>4, <1>6, <1>7, <1>8 DEF NamesAgree

\* Name n leads to row a, which a request may link; a row that goes is used by nobody.
LEMMA NamesResolve ==
  ASSUME IntakeAssumption, TypeOK, TypeOK', NamesAgree,
         NEW n \in Names, NEW g \in Gateways, NEW a \in Apps, ResolvesTo(n, g, a),
         Live(a)', appName'[a] = n, projects' = projects,
         \A b \in Apps \ {a} : appName'[b] = appName[b] /\ (Live(b)' => Live(b)),
         \A b \in Apps : Live(b) /\ ~Live(b)' => b \notin projects /\ \A h \in Gateways : link'[h] # b,
         \A h \in Gateways : \/ link'[h] = link[h] /\ reqName'[h] = reqName[h]
                             \/ link'[h] = a /\ reqName'[h] = n
  PROVE  NamesAgree'
  <1>1. NamedRow(a, n) \/ ~Live(a) BY DEF ResolvesTo, FreeRow, Live
  <1>2. ASSUME NEW h \in Gateways, link'[h] # None PROVE NamedRow(link[h], reqName[h])'
    <2>1. link'[h] \in Apps BY <1>2 DEF TypeOK
    <2>2. CASE link'[h] = a /\ reqName'[h] = n BY <2>2 DEF NamedRow
    <2>3. CASE link'[h] = link[h] /\ reqName'[h] = reqName[h]
      <3>1. NamedRow(link[h], reqName[h]) BY <1>2, <2>3 DEF NamesAgree
      <3>2. CASE link[h] = a
        <4>1. NamedRow(a, n) /\ reqName[h] = n BY <1>1, <3>1, <3>2 DEF NamedRow
        <4> QED BY <2>3, <3>2, <4>1 DEF NamedRow
      <3>3. CASE link[h] # a BY <2>1, <2>3, <3>1, <3>3 DEF NamedRow
      <3> QED BY <3>2, <3>3
    <2> QED BY <2>2, <2>3
  <1>3. ASSUME NEW b \in projects' PROVE Live(b)'
    BY <1>3 DEF NamesAgree, TypeOK
  <1>4. ASSUME NEW x \in Apps, NEW y \in Apps, (Live(x) /\ NamedRow(y, appName[x]))' PROVE x = y
    <2>1. Live(x)' /\ Live(y)' /\ appName'[y] = appName'[x] BY <1>4 DEF NamedRow
    <2>2. ASSUME NEW z \in Apps \ {a}, Live(z)' PROVE appName'[z] # n
      <3>1. Live(z) /\ appName'[z] = appName[z] BY <2>2
      <3>2. CASE NamedRow(a, n) BY <3>1, <3>2 DEF NamesAgree, NamedRow
      <3>3. CASE FreeRow(a, n) BY <3>1, <3>3 DEF FreeRow, NamedRow
      <3> QED BY <3>2, <3>3 DEF ResolvesTo
    <2>3. CASE x # a /\ y # a BY <2>1, <2>3 DEF NamesAgree, NamedRow
    <2> QED BY <2>1, <2>2, <2>3
  <1> QED BY <1>2, <1>3, <1>4 DEF NamesAgree

\* The row a name leads to is live under that name after the resolution; the
\* others are as before.
LEMMA ResolvedRow ==
  ASSUME TypeOK, NEW n \in Names, NEW g \in Gateways, NEW a \in Apps, ResolvesTo(n, g, a),
         NEW p \in Plan, Flush(p), p.appName = ResolveWrites(n, g, a).appName,
         p.appStatus = ResolveWrites(n, g, a).appStatus
  PROVE  /\ Live(a)' /\ appName'[a] = n
         /\ \A b \in Apps \ {a} : appName'[b] = appName[b] /\ (Live(b)' <=> Live(b))
  <1>1. \A b \in Apps \ {a} : appName'[b] = appName[b] /\ appStatus'[b] = appStatus[b]
    BY Flushed DEF ResolveWrites, NoWrites, One, Dirty, Nothing
  <1>2. CASE appStatus[a] \in {"UNUSED", "REJECTED"}
    <2>1. appStatus'[a] = "PENDING_APP_OWNER"
      BY <1>2, Flushed DEF ResolveWrites, NoWrites, One
    <2>2. appName'[a] = n
      BY <1>2, Flushed DEF ResolveWrites, NoWrites, One, Dirty, Nothing
    <2> QED BY <1>1, <2>1, <2>2 DEF Live
  <1>3. CASE appStatus[a] \notin {"UNUSED", "REJECTED"}
    <2>1. NamedRow(a, n) BY <1>3 DEF ResolvesTo, FreeRow
    <2>2. appStatus'[a] = appStatus[a] /\ appName'[a] = appName[a]
      BY <1>3, Flushed DEF ResolveWrites, NoWrites, Nothing
    <2> QED BY <1>1, <2>1, <2>2 DEF Live, NamedRow
  <1> QED BY <1>2, <1>3

\* Moving a request to another name, with the cleanup of the row it leaves.
LEMMA RelinkNames ==
  ASSUME IntakeAssumption, TypeOK, NamesAgree, NEW n \in Names, NEW g \in Gateways,
         NEW a \in Apps, ResolvesTo(n, g, a), n # reqName[g],
         NEW p \in Plan, Flush(p), p.cascade = Nothing, p.project = {},
         p.link = RelinkWrites(n, g, a).link, p.reqName = RelinkWrites(n, g, a).reqName,
         p.appName = RelinkWrites(n, g, a).appName, p.appStatus = RelinkWrites(n, g, a).appStatus
  PROVE  NamesAgree'
  <1> DEFINE old == link[g]
             w   == ResolveWrites(n, g, a)
             D   == IF Orphaned(old, g) THEN {old} ELSE {}
  <1>1. TypeOK' BY FlushType
  <1>2. p.appName = w.appName /\ p.link = Dirty(link, g, a) /\ p.reqName = One(g, n)
    BY DEF RelinkWrites, ResolveWrites, NoWrites
  <1>3. /\ \A h \in Gateways \ {g} : link'[h] = link[h] /\ reqName'[h] = reqName[h]
        /\ link'[g] = a /\ reqName'[g] = n
    BY <1>2, Flushed DEF Dirty, One, Nothing, Renamed
  <1>4. old # None => NamedRow(old, reqName[g]) BY DEF NamesAgree
  <1>5. old # a
    <2>1. CASE old = None BY <2>1 DEF IntakeAssumption
    <2>2. CASE old # None BY <1>4, <2>2 DEF ResolvesTo, FreeRow, NamedRow, Live
    <2> QED BY <2>1, <2>2
  <1>6. \A b \in Apps : appStatus'[b] = IF b \in D THEN "DELETED"
                                        ELSE IF b \in DOMAIN w.appStatus THEN w.appStatus[b]
                                        ELSE appStatus[b]
    <2>1. p.appStatus = IF Orphaned(old, g)
                        THEN [x \in {old} \cup DOMAIN w.appStatus |->
                                IF x = old THEN "DELETED" ELSE w.appStatus[x]]
                        ELSE w.appStatus
      BY DEF RelinkWrites, ResolveWrites, NoWrites
    <2>2. ASSUME NEW b \in Apps
          PROVE  appStatus'[b] = IF b \in DOMAIN p.appStatus THEN p.appStatus[b] ELSE appStatus[b]
      BY Flushed
    <2> HIDE DEF w
    <2> QED BY <2>1, <2>2
  <1>7. Live(a)' /\ appName'[a] = n
    <2>1. CASE appStatus[a] \in {"UNUSED", "REJECTED"}
      <3>1. appStatus'[a] = "PENDING_APP_OWNER"
        BY <1>5, <1>6, <2>1 DEF ResolveWrites, NoWrites, One
      <3>2. appName'[a] = n
        BY <1>2, <2>1, Flushed DEF ResolveWrites, NoWrites, One, Dirty, Nothing
      <3> QED BY <3>1, <3>2 DEF Live
    <2>2. CASE appStatus[a] \notin {"UNUSED", "REJECTED"}
      <3>1. NamedRow(a, n) BY <2>2 DEF ResolvesTo, FreeRow
      <3>2. appStatus'[a] = appStatus[a]
        BY <1>5, <1>6, <2>2 DEF ResolveWrites, NoWrites, Nothing
      <3>3. appName'[a] = appName[a]
        BY <1>2, <2>2, Flushed DEF ResolveWrites, NoWrites, Nothing
      <3> QED BY <3>1, <3>2, <3>3 DEF Live, NamedRow
    <2> QED BY <2>1, <2>2
  <1>8. \A b \in Apps \ {a} : appName'[b] = appName[b] /\ (Live(b)' <=> Live(b) /\ b \notin D)
    <2>1. ASSUME NEW b \in Apps \ {a} PROVE appName'[b] = appName[b]
      BY <1>2, Flushed DEF ResolveWrites, NoWrites, One, Dirty, Nothing
    <2>2. ASSUME NEW b \in Apps \ {a} PROVE b \notin DOMAIN w.appStatus
      BY DEF ResolveWrites, NoWrites, One, Nothing
    <2>3. ASSUME NEW b \in Apps \ {a} PROVE Live(b)' <=> Live(b) /\ b \notin D
      <3> HIDE DEF w, D
      <3> QED BY <1>6, <2>2 DEF Live
    <2> QED BY <2>1, <2>3
  <1>9. projects' = projects BY Flushed
  <1>10. \A b \in Apps : Live(b) /\ ~Live(b)' => b \notin projects /\ \A h \in Gateways : link'[h] # b
    <2>1. \A b \in D : b \notin projects /\ \A h \in Gateways : link'[h] # b
      BY <1>3, <1>5 DEF Orphaned
    <2>2. \A b \in Apps : Live(b) /\ ~Live(b)' => b \in D BY <1>7, <1>8
    <2> QED BY <2>1, <2>2
  <1>11. \A h \in Gateways : \/ link'[h] = link[h] /\ reqName'[h] = reqName[h]
                             \/ link'[h] = a /\ reqName'[h] = n
    BY <1>3
  <1>12. \A b \in Apps \ {a} : appName'[b] = appName[b] /\ (Live(b)' => Live(b))
    BY <1>8
  <1> HIDE DEF D, w, old
  <1> QED BY <1>1, <1>7, <1>9, <1>10, <1>11, <1>12, NamesResolve

\* An admin's rename carries the requests that show the old name with it.
LEMMA RenameNames ==
  ASSUME IntakeAssumption, TypeOK, NamesAgree, NEW n \in Names, NEW a \in Apps, NEW u \in Users,
         CanRename(a, n, u), Flush(RenameWrites(a, n))
  PROVE  NamesAgree'
  <1> DEFINE p == RenameWrites(a, n)
  <1>1. p \in Plan BY RenameType
  <1>2. /\ p.link = Nothing /\ p.reqName = Nothing /\ p.appStatus = Nothing /\ p.project = {}
        /\ p.appName = One(a, n) /\ p.cascade = One(appName[a], n)
    BY DEF RenameWrites, NoWrites
  <1> HIDE DEF p
  <1>3. \A g \in Gateways : /\ link'[g] = link[g]
                            /\ reqName'[g] = IF reqName[g] = appName[a] THEN n ELSE reqName[g]
    BY <1>1, <1>2, Flushed DEF p, Renamed, One, Nothing
  <1>4. \A b \in Apps : appName'[b] = (IF b = a THEN n ELSE appName[b]) /\ (Live(b)' <=> Live(b))
    BY <1>1, <1>2, Flushed DEF p, One, Nothing, Live
  <1>5. projects' = projects BY <1>1, <1>2, Flushed DEF p
  <1>6. Live(a) /\ \A b \in Apps \ {a} : ~NamedRow(b, n) BY DEF CanRename
  <1>7. ASSUME NEW g \in Gateways, link'[g] # None PROVE NamedRow(link[g], reqName[g])'
    <2>1. link[g] \in Apps /\ NamedRow(link[g], reqName[g])
      BY <1>3, <1>7 DEF TypeOK, NamesAgree
    <2>2. CASE link[g] = a BY <1>3, <1>4, <2>1, <2>2 DEF NamedRow
    <2>3. CASE link[g] # a
      <3>1. reqName[g] # appName[a] BY <1>6, <2>1, <2>3 DEF NamesAgree, NamedRow
      <3> QED BY <1>3, <1>4, <2>1, <2>3, <3>1 DEF NamedRow
    <2> QED BY <2>2, <2>3
  <1>8. ASSUME NEW b \in projects' PROVE Live(b)'
    BY <1>4, <1>5, <1>8 DEF NamesAgree, TypeOK
  <1>9. ASSUME NEW x \in Apps, NEW y \in Apps, (Live(x) /\ NamedRow(y, appName[x]))' PROVE x = y
    BY <1>4, <1>6, <1>9 DEF NamesAgree, NamedRow
  <1> QED BY <1>7, <1>8, <1>9 DEF NamesAgree

\* A new project pins a live row.
LEMMA ProjectNames ==
  ASSUME TypeOK, NamesAgree, NEW a \in Apps, CanCreateProject(a), Flush(ProjectWrites(a))
  PROVE  NamesAgree'
  <1> DEFINE p == ProjectWrites(a)
  <1>1. p \in Plan BY DecisionTypes
  <1>2. /\ p.link = Nothing /\ p.reqName = Nothing /\ p.appStatus = Nothing /\ p.project = {a}
        /\ p.appName = Nothing /\ p.cascade = Nothing
    BY DEF ProjectWrites, NoWrites
  <1> HIDE DEF p
  <1>3. \A g \in Gateways : link'[g] = link[g] /\ reqName'[g] = reqName[g]
    BY <1>1, <1>2, Flushed DEF p, Nothing, Renamed
  <1>4. \A b \in Apps : appName'[b] = appName[b] /\ (Live(b)' <=> Live(b))
    BY <1>1, <1>2, Flushed DEF p, Nothing, Live
  <1>5. projects' = projects \cup {a} BY <1>1, <1>2, Flushed DEF p
  <1>6. ASSUME NEW g \in Gateways, link'[g] # None PROVE NamedRow(link[g], reqName[g])'
    BY <1>3, <1>4, <1>6 DEF TypeOK, NamesAgree, NamedRow
  <1>7. ASSUME NEW b \in projects' PROVE Live(b)'
    BY <1>4, <1>5, <1>7 DEF NamesAgree, TypeOK, CanCreateProject
  <1>8. \A x, y \in Apps : (Live(x) /\ NamedRow(y, appName[x]))' => x = y
    BY <1>4 DEF NamesAgree, NamedRow
  <1> QED BY <1>6, <1>7, <1>8 DEF NamesAgree

\* A workbook gives each row it adds a name of its own that nobody had.
LEMMA SeedNames ==
  ASSUME IntakeAssumption, TypeOK, NamesAgree, NEW S \in SUBSET Names, NEW f \in [S -> Apps],
         NEW u \in Users, CanBulkSeed(u, f), Flush(BulkSeedWrites(f))
  PROVE  NamesAgree'
  <1> DEFINE new  == {n \in DOMAIN f : appStatus[f[n]] = "UNUSED"}
             open == {f[n] : n \in {m \in DOMAIN f : appStatus[f[m]] \in Undecided}}
             rows == {f[n] : n \in new}
             p    == BulkSeedWrites(f)
  <1>1. p \in Plan /\ Flush(p) BY SeedType
  <1>2. /\ p.link = Nothing /\ p.reqName = Nothing /\ p.project = {} /\ p.cascade = Nothing
        /\ p.appStatus = [a \in rows \cup open |-> "APPROVED"]
        /\ p.appName = [a \in rows |-> CHOOSE n \in new : f[n] = a]
    BY DEF BulkSeedWrites, ApproveWrites, FinalizeWrites, NoWrites
  <1>3. ASSUME NEW m \in new PROVE f[m] \in rows /\ (CHOOSE n \in new : f[n] = f[m]) = m
    <2>0. f[m] \in rows OBVIOUS
    <2>1. \A k \in new : f[k] = f[m] => k = m BY DEF CanBulkSeed
    <2>2. \E n \in new : f[n] = f[m] OBVIOUS
    <2>3. (CHOOSE n \in new : f[n] = f[m]) \in new /\ f[CHOOSE n \in new : f[n] = f[m]] = f[m]
      <3> HIDE DEF new
      <3> QED BY <2>2
    <2> HIDE DEF rows, new
    <2> QED BY <2>0, <2>1, <2>3
  <1>4. \A b \in rows : b \in Apps /\ appStatus[b] = "UNUSED" /\ \E m \in new : f[m] = b
    OBVIOUS
  <1>5. \A b \in open : b \in Apps /\ appStatus[b] \in Undecided
    BY DOMAIN f = S
  <1>6. \A m \in new : m \in Names /\ \A b \in Apps : ~NamedRow(b, m)
    BY DEF CanBulkSeed, NamedRow, FreeRow, Live
  <1> HIDE DEF p, rows, open, new
  <1>7. \A b \in Apps : Live(b)' <=> Live(b) \/ b \in rows
    BY <1>1, <1>2, <1>5, Flushed DEF Live, Undecided
  <1>8. \A b \in Apps : b \notin rows => appName'[b] = appName[b]
    BY <1>1, <1>2, Flushed
  <1>9. ASSUME NEW m \in new PROVE appName'[f[m]] = m
    <2>1. f[m] \in Apps /\ f[m] \in rows /\ (CHOOSE n \in new : f[n] = f[m]) = m
      BY <1>3, <1>4
    <2>2. appName' = Over(appName, p.appName) BY <1>1 DEF Flush
    <2>3. f[m] \in DOMAIN p.appName /\ p.appName[f[m]] = m BY <1>2, <2>1
    <2> QED BY <2>1, <2>2, <2>3 DEF Over, TypeOK
  <1>10. \A g \in Gateways : link'[g] = link[g] /\ reqName'[g] = reqName[g]
    BY <1>1, <1>2, Flushed DEF Nothing, Renamed
  <1>11. projects' = projects BY <1>1, <1>2 DEF Flush
  <1>12. \A b \in Apps : Live(b) => b \notin rows BY <1>4 DEF Live
  <1>13. ASSUME NEW g \in Gateways, link'[g] # None PROVE NamedRow(link[g], reqName[g])'
    BY <1>7, <1>8, <1>10, <1>12, <1>13 DEF TypeOK, NamesAgree, NamedRow
  <1>14. ASSUME NEW b \in projects' PROVE Live(b)'
    BY <1>7, <1>11, <1>14 DEF NamesAgree, TypeOK
  <1>15. ASSUME NEW x \in Apps, NEW y \in Apps, (Live(x) /\ NamedRow(y, appName[x]))' PROVE x = y
    <2>1. Live(x)' /\ Live(y)' /\ appName'[x] = appName'[y] BY <1>15 DEF NamedRow
    <2>2. ASSUME NEW z \in Apps, NEW m \in new, Live(z)', z \notin rows PROVE appName'[z] # m
      BY <1>6, <1>7, <1>8, <2>2 DEF NamedRow
    <2>3. CASE x \in rows /\ y \in rows
      <3>1. PICK m \in new : f[m] = x BY <1>4, <2>3
      <3>2. PICK k \in new : f[k] = y BY <1>4, <2>3
      <3> QED BY <1>9, <2>1, <3>1, <3>2
    <2>4. CASE x \in rows /\ y \notin rows BY <1>4, <1>9, <2>1, <2>2, <2>4
    <2>5. CASE x \notin rows /\ y \in rows BY <1>4, <1>9, <2>1, <2>2, <2>5
    <2>6. CASE x \notin rows /\ y \notin rows
      BY <1>7, <1>8, <2>1, <2>6 DEF NamesAgree, NamedRow
    <2> QED BY <2>3, <2>4, <2>5, <2>6
  <1> QED BY <1>13, <1>14, <1>15 DEF NamesAgree

\* Creating a request links the row its name leads to.
LEMMA CreateNames ==
  ASSUME IntakeAssumption, TypeOK, NamesAgree, NEW n \in Names, NEW g \in Gateways, NEW a \in Apps,
         NEW ts \in SUBSET Types, NEW d \in {"INCOMPLETE", "COMPLETE"},
         CanCreate(g, n, a), Flush(CreateWrites(g, n, a, ts, d))
  PROVE  NamesAgree'
  <1> DEFINE p == CreateWrites(g, n, a, ts, d)
  <1>1. p \in Plan /\ Flush(p) /\ TypeOK' BY DraftTypes, FlushType
  <1>2. /\ p.link = One(g, a) /\ p.reqName = One(g, n) /\ p.cascade = Nothing /\ p.project = {}
        /\ p.appName = ResolveWrites(n, g, a).appName
        /\ p.appStatus = ResolveWrites(n, g, a).appStatus
    BY DEF CreateWrites, ResolveWrites, NoWrites
  <1>3. ResolvesTo(n, g, a) BY DEF CanCreate
  <1> HIDE DEF p
  <1>4. /\ Live(a)' /\ appName'[a] = n
        /\ \A b \in Apps \ {a} : appName'[b] = appName[b] /\ (Live(b)' <=> Live(b))
    BY <1>1, <1>2, <1>3, ResolvedRow
  <1>5. \A h \in Gateways : \/ link'[h] = link[h] /\ reqName'[h] = reqName[h]
                            \/ link'[h] = a /\ reqName'[h] = n
    BY <1>1, <1>2, Flushed DEF One, Nothing, Renamed
  <1>6. projects' = projects BY <1>1, <1>2 DEF Flush
  <1>7. \A b \in Apps \ {a} : appName'[b] = appName[b] /\ (Live(b)' => Live(b)) BY <1>4
  <1>8. \A b \in Apps : Live(b) /\ ~Live(b)' => b \notin projects /\ \A h \in Gateways : link'[h] # b
    BY <1>4
  <1> QED BY <1>1, <1>3, <1>4, <1>5, <1>6, <1>7, <1>8, NamesResolve

\* An admin's rename of a scan request proposes the name and links nothing to it.
LEMMA RenameScanNames ==
  ASSUME IntakeAssumption, TypeOK, NamesAgree, NEW r \in Row, NEW u \in Users, NEW n \in Names,
         NEW a \in Apps, CanAdminRenameScan(r, u, n, a), Flush(RenameScanWrites(r, n, a))
  PROVE  NamesAgree'
  <1> DEFINE p == RenameScanWrites(r, n, a)
             g == r[1]
  <1>1. p \in Plan /\ Flush(p) /\ TypeOK' BY RenameScanType, FlushType
  <1>2. /\ p.link = Nothing /\ p.reqName = Nothing /\ p.cascade = Nothing /\ p.project = {}
        /\ p.appName = ResolveWrites(n, g, a).appName
        /\ p.appStatus = ResolveWrites(n, g, a).appStatus
    BY DEF RenameScanWrites, ResolveWrites, NoWrites
  <1>3. g \in Gateways /\ ResolvesTo(n, g, a) BY DEF CanAdminRenameScan, Row
  <1> HIDE DEF p, g
  <1>4. /\ Live(a)' /\ appName'[a] = n
        /\ \A b \in Apps \ {a} : appName'[b] = appName[b] /\ (Live(b)' <=> Live(b))
    BY <1>1, <1>2, <1>3, ResolvedRow
  <1>5. \A h \in Gateways : link'[h] = link[h] /\ reqName'[h] = reqName[h]
    BY <1>1, <1>2, Flushed DEF Nothing, Renamed
  <1>6. projects' = projects BY <1>1, <1>2 DEF Flush
  <1>7. \A b \in Apps \ {a} : appName'[b] = appName[b] /\ (Live(b)' => Live(b)) BY <1>4
  <1>8. \A b \in Apps : Live(b) /\ ~Live(b)' => b \notin projects /\ \A h \in Gateways : link'[h] # b
    BY <1>4
  <1> QED BY <1>1, <1>3, <1>4, <1>5, <1>6, <1>7, <1>8, NamesResolve

\* Every handler keeps requests and name master in agreement.
LEMMA NextNames == ASSUME IntakeAssumption, TypeOK, NamesAgree, [Next]_vars PROVE NamesAgree'
  <1>1. CASE UNCHANGED vars BY <1>1 DEF vars, NamesAgree, NamedRow, Live
  <1>2. ASSUME NEW g \in Gateways, Create(g) PROVE NamesAgree'
    BY <1>2, CreateNames DEF Create
  <1>3. ASSUME NEW g \in Gateways, NEW u \in Users,
               Edit(g, u) \/ Cancel(g, u) \/ Submit(g, u) \/ AdminRelink(g, u)
        PROVE  NamesAgree'
    <2>1. CASE Edit(g, u)
      <3>1. PICK n \in Names, a \in Apps, ts \in SUBSET Types, d \in {"INCOMPLETE", "COMPLETE"} :
              CanEdit(g, u, n, a) /\ Flush(EditWrites(g, n, a, ts, d))
        BY <2>1 DEF Edit
      <3> DEFINE p == EditWrites(g, n, a, ts, d)
      <3>2. p \in Plan BY DraftTypes
      <3>3. CASE n = reqName[g]
        <4>1. /\ p.link = Nothing /\ p.reqName = Nothing /\ p.cascade = Nothing
              /\ p.appName = Nothing /\ p.project = {} /\ p.appStatus = Nothing
          BY <3>3 DEF EditWrites, NoWrites
        <4> QED BY <3>1, <3>2, <4>1, NamesStay DEF Nothing
      <3>4. CASE n # reqName[g]
        <4>1. /\ p.cascade = Nothing /\ p.project = {}
              /\ p.link = RelinkWrites(n, g, a).link /\ p.reqName = RelinkWrites(n, g, a).reqName
              /\ p.appName = RelinkWrites(n, g, a).appName
              /\ p.appStatus = RelinkWrites(n, g, a).appStatus
          BY <3>4 DEF EditWrites, RelinkWrites, ResolveWrites, NoWrites
        <4> QED BY <3>1, <3>2, <3>4, <4>1, RelinkNames DEF CanEdit
      <3> QED BY <3>3, <3>4
    <2>2. CASE Cancel(g, u)
      <3> DEFINE p == CancelWrites(g)
      <3>1. /\ p.link = Nothing /\ p.reqName = Nothing /\ p.cascade = Nothing
            /\ p.appName = Nothing /\ p.project = {} /\ p.appStatus = Nothing
        BY DEF CancelWrites, NoWrites
      <3> QED BY <2>2, <3>1, LeaveDraftTypes, NamesStay DEF Cancel, Nothing
    <2>3. CASE Submit(g, u)
      <3> DEFINE p == SubmitWrites(g)
      <3>1. /\ p.link = Nothing /\ p.reqName = Nothing /\ p.cascade = Nothing
            /\ p.appName = Nothing /\ p.project = {} /\ p.appStatus = Nothing
        BY DEF SubmitWrites, FinalizeWrites, NoWrites
      <3> QED BY <2>3, <3>1, LeaveDraftTypes, NamesStay DEF Submit, Nothing
    <2>4. CASE AdminRelink(g, u)
      <3>1. PICK n \in Names, a \in Apps :
              CanAdminRelink(g, u, n, a) /\ Flush(RelinkWrites(n, g, a))
        BY <2>4 DEF AdminRelink
      <3>2. RelinkWrites(n, g, a).cascade = Nothing /\ RelinkWrites(n, g, a).project = {}
        BY DEF RelinkWrites, ResolveWrites, NoWrites
      <3> QED BY <3>1, <3>2, RelinkType, RelinkNames DEF CanAdminRelink
    <2> QED BY <1>3, <2>1, <2>2, <2>3, <2>4
  <1>4. ASSUME NEW t \in Target, NEW u \in Users,
               AssignForInput(t, u) \/ ReturnDelegated(t, u) \/ RecallDelegated(t, u)
        PROVE  NamesAgree'
    <2>1. ASSUME NEW v \in Users, NEW p \in {AssignWrites(t, v), CloseWrites(t)}, Flush(p)
          PROVE  NamesAgree'
      <3>1. /\ p.link = Nothing /\ p.reqName = Nothing /\ p.cascade = Nothing
            /\ p.appName = Nothing /\ p.project = {} /\ p.appStatus = Nothing
        BY <2>1 DEF AssignWrites, CloseWrites, NoWrites
      <3>2. p \in Plan BY <2>1, DelegationTypes
      <3> QED BY <2>1, <3>1, <3>2, NamesStay DEF Nothing
    <2> QED BY <1>4, <2>1 DEF AssignForInput, ReturnDelegated, RecallDelegated
  <1>5. ASSUME NEW a \in Apps, NEW u \in Users,
               \/ AppOwnerApprove(a, u) \/ AppOwnerReject(a, u)
               \/ SMApproveName(a, u) \/ SMRejectName(a, u)
        PROVE  NamesAgree'
    <2>1. Live(a)
      BY <1>5 DEF AppOwnerApprove, AppOwnerReject, SMApproveName, SMRejectName,
                  CanAppOwnerDecide, CanSMDecideName, Live
    <2>2. ASSUME NEW p \in Plan, Flush(p),
                 p.link = Nothing, p.reqName = Nothing, p.cascade = Nothing,
                 p.appName = Nothing, p.project = {},
                 p.appStatus = One(a, "APPROVED") \/ p.appStatus = One(a, "REJECTED")
          PROVE  NamesAgree'
      <3>1. \A b \in DOMAIN p.appStatus : Live(b) /\ p.appStatus[b] \notin {"UNUSED", "DELETED"}
        BY <2>1, <2>2 DEF One
      <3> QED BY <2>2, <3>1, NamesStay
    <2>3. CASE AppOwnerApprove(a, u)
      <3> DEFINE p == ApproveWrites({a})
      <3>1. /\ p.link = Nothing /\ p.reqName = Nothing /\ p.cascade = Nothing
            /\ p.appName = Nothing /\ p.project = {} /\ p.appStatus = One(a, "APPROVED")
        BY DEF ApproveWrites, FinalizeWrites, NoWrites, One
      <3> QED BY <2>2, <2>3, <3>1, DecisionTypes DEF AppOwnerApprove
    <2>4. CASE AppOwnerReject(a, u)
      <3> DEFINE p == RejectWrites(a)
      <3>1. /\ p.link = Nothing /\ p.reqName = Nothing /\ p.cascade = Nothing
            /\ p.appName = Nothing /\ p.project = {} /\ p.appStatus = One(a, "REJECTED")
        BY DEF RejectWrites, NoWrites
      <3> QED BY <2>2, <2>4, <3>1, DecisionTypes DEF AppOwnerReject
    <2>5. CASE SMApproveName(a, u)
      <3> DEFINE p == SMApproveNameWrites(a)
      <3>1. /\ p.link = Nothing /\ p.reqName = Nothing /\ p.cascade = Nothing
            /\ p.appName = Nothing /\ p.project = {} /\ p.appStatus = One(a, "APPROVED")
        BY DEF SMApproveNameWrites, NoWrites
      <3> QED BY <2>2, <2>5, <3>1, DecisionTypes DEF SMApproveName
    <2>6. CASE SMRejectName(a, u)
      <3> DEFINE p == SMRejectNameWrites(a)
      <3>1. /\ p.link = Nothing /\ p.reqName = Nothing /\ p.cascade = Nothing
            /\ p.appName = Nothing /\ p.project = {} /\ p.appStatus = One(a, "REJECTED")
        BY DEF SMRejectNameWrites, NoWrites
      <3> QED BY <2>2, <2>6, <3>1, DecisionTypes DEF SMRejectName
    <2> QED BY <1>5, <2>3, <2>4, <2>5, <2>6
  <1>6. ASSUME NEW a \in Apps, NEW u \in Users, RenameApplication(a, u) PROVE NamesAgree'
    BY <1>6, RenameNames DEF RenameApplication
  <1>7. ASSUME NEW a \in Apps, CreateProject(a) PROVE NamesAgree'
    BY <1>7, ProjectNames DEF CreateProject
  <1>8. ASSUME NEW u \in Users, BulkSeed(u) PROVE NamesAgree'
    BY <1>8, SeedNames DEF BulkSeed
  <1>9. ASSUME NEW r \in Row, NEW u \in Users,
               SMApprove(r, u) \/ SMSendBack(r, u) \/ Resubmit(r, u) \/ AdminRenameScan(r, u)
        PROVE  NamesAgree'
    <2>1. ASSUME NEW s \in ChildStatus, NEW p \in {SMDecisionWrites(r, s), ResubmitWrites(r)},
                 Flush(p)
          PROVE  NamesAgree'
      <3>1. /\ p.link = Nothing /\ p.reqName = Nothing /\ p.cascade = Nothing
            /\ p.appName = Nothing /\ p.project = {} /\ p.appStatus = Nothing
        BY <2>1 DEF SMDecisionWrites, ResubmitWrites, NoWrites
      <3>2. p \in Plan BY <2>1, StatusTypes
      <3> QED BY <2>1, <3>1, <3>2, NamesStay DEF Nothing
    <2>2. CASE SMApprove(r, u) \/ SMSendBack(r, u) \/ Resubmit(r, u)
      <3>1. PICK s \in ChildStatus : Flush(SMDecisionWrites(r, s)) \/ Flush(ResubmitWrites(r))
        BY <2>2 DEF SMApprove, SMSendBack, Resubmit, ChildStatus, Correctable
      <3> QED BY <2>1, <3>1
    <2>3. CASE AdminRenameScan(r, u)
      BY <2>3, RenameScanNames DEF AdminRenameScan
    <2> QED BY <1>9, <2>2, <2>3
  <1> QED BY <1>1, <1>2, <1>3, <1>4, <1>5, <1>6, <1>7, <1>8, <1>9 DEF Next

\* References to the name master never dangle, its names stay unique, and a request
\* shows the name of the row it is linked to: through every relink, orphan cleanup,
\* re-proposal, bulk seed and cascading rename. Inductive with TypeOK.
THEOREM NamesAlwaysAgree == ASSUME IntakeAssumption PROVE Spec => []NamesAgree
  <1>1. Init => TypeOK /\ NamesAgree
    BY InitType DEF Init, NamesAgree, NamedRow, Live
  <1>2. TypeOK /\ NamesAgree /\ [Next]_vars => (TypeOK /\ NamesAgree)'
    BY NextType, NextNames
  <1> QED BY <1>1, <1>2, PTL DEF Spec

----------------------------------------------------------------------------
(* Requests and what they raise. *)

\* A request that exists names a row of the master.
Linked == \A g \in Gateways : status[g] # "ABSENT" => link[g] # None

LifeInv == /\ TypeOK /\ Linked /\ SubmittedAwaitsAppOwner
           /\ RejectedNameHoldsNoPendingChild /\ ChildrenExactlyWhenRaised

\* What a step may do to a request and its linked requests: keep what is raised, ...
GateKeeps(g) ==
  /\ status'[g] = "RAISED" <=> status[g] = "RAISED"
  /\ status[g] = "RAISED" => types'[g] = types[g]
  /\ status'[g] # "ABSENT" => link'[g] # None
  /\ status'[g] = "SUBMITTED" => /\ appStatus'[link'[g]] = "PENDING_APP_OWNER"
                                 /\ details'[g] = "COMPLETE" /\ g \in numbered'
  /\ \A r \in Row : r[1] = g =>
       /\ child'[r] = "NONE" <=> child[r] = "NONE"
       /\ child'[r] = "SM_APPROVAL_PENDING" => appStatus'[link'[g]] # "REJECTED"

\* ... or raise it, with one linked request of each kind it asked for.
GateRaised(g) ==
  /\ status[g] # "RAISED" /\ status'[g] = "RAISED" /\ types'[g] = types[g]
  /\ link'[g] # None /\ appStatus'[link'[g]] # "REJECTED"
  /\ \A r \in Row : r[1] = g =>
       child'[r] = IF r[2] \in types[g] /\ r[3] = 1 THEN "SM_APPROVAL_PENDING" ELSE "NONE"

\* Linked requests belong to raised requests.
LEMMA ChildOfRaised ==
  ASSUME TypeOK, ChildrenExactlyWhenRaised, NEW r \in Row
  PROVE  /\ r[1] \in Gateways
         /\ child[r] # "NONE" => status[r[1]] = "RAISED" /\ r[2] \in types[r[1]]
  <1>1. r[1] \in Gateways /\ r[2] \in Types /\ r[3] \in Copies /\ r = <<r[1], r[2], r[3]>>
    BY DEF Row
  <1>2. child[r] # "NONE" => r[3] \in Present(r[1], r[2]) BY <1>1 DEF Present
  <1> QED BY <1>1, <1>2 DEF ChildrenExactlyWhenRaised

\* Either way the invariant of the life cycle is kept.
LEMMA LifeStep ==
  ASSUME IntakeAssumption, LifeInv, TypeOK', \A g \in Gateways : GateKeeps(g) \/ GateRaised(g)
  PROVE  LifeInv'
  <1>1. Linked' BY DEF Linked, GateKeeps, GateRaised
  <1>2. SubmittedAwaitsAppOwner' BY DEF SubmittedAwaitsAppOwner, GateKeeps, GateRaised
  <1>3. ASSUME NEW g \in Gateways, NEW t \in Types
        PROVE  (IF status[g] = "RAISED" /\ t \in types[g]
                THEN \E i \in Copies : Present(g, t) = {i} ELSE Present(g, t) = {})'
    <2>1. \A i \in Copies : /\ <<g, t, i>> \in Row
                            /\ <<g, t, i>>[1] = g /\ <<g, t, i>>[2] = t /\ <<g, t, i>>[3] = i
      BY DEF Row
    <2>2. CASE GateKeeps(g)
      <3>1. Present(g, t)' = Present(g, t) BY <2>1, <2>2 DEF Present, GateKeeps
      <3> QED BY <2>2, <3>1 DEF GateKeeps, LifeInv, ChildrenExactlyWhenRaised
    <2>3. CASE GateRaised(g)
      <3>1. \A i \in Copies : child'[<<g, t, i>>] # "NONE" <=> t \in types[g] /\ i = 1
        BY <2>1, <2>3 DEF GateRaised
      <3>2. Present(g, t)' = IF t \in types[g] THEN {1} ELSE {}
        BY <3>1 DEF Present, IntakeAssumption
      <3> QED BY <2>3, <3>2 DEF GateRaised, IntakeAssumption
    <2> QED BY <2>2, <2>3
  <1>4. ChildrenExactlyWhenRaised' BY <1>3 DEF ChildrenExactlyWhenRaised
  <1>5. ASSUME NEW r \in Row, child'[r] = "SM_APPROVAL_PENDING"
        PROVE  link'[r[1]] # None /\ appStatus'[link'[r[1]]] # "REJECTED"
    <2>1. r[1] \in Gateways /\ (child[r] # "NONE" => status[r[1]] = "RAISED")
      BY ChildOfRaised DEF LifeInv
    <2>2. CASE GateKeeps(r[1]) BY <1>5, <2>1, <2>2 DEF GateKeeps
    <2>3. CASE GateRaised(r[1]) BY <2>3 DEF GateRaised
    <2> QED BY <2>1, <2>2, <2>3
  <1> QED BY <1>1, <1>2, <1>4, <1>5 DEF LifeInv, RejectedNameHoldsNoPendingChild, NameOf

\* Commits that leave requests alone: no decision takes a name from a waiting
\* request, and what waits at SM under a rejected name is rejected with it.
LEMMA GatesQuiet ==
  ASSUME IntakeAssumption, LifeInv, NEW p \in Plan, Flush(p),
         p.status = Nothing, p.link = Nothing, p.types = Nothing, p.details = Nothing,
         p.insert = Nothing,
         \A r \in DOMAIN p.child : child[r] # "NONE" /\ p.child[r] # "NONE",
         \A b \in Apps : appStatus[b] = "PENDING_APP_OWNER" => appStatus'[b] = "PENDING_APP_OWNER",
         \A r \in Row : link[r[1]] \in Apps /\ child'[r] = "SM_APPROVAL_PENDING"
                         => appStatus'[link[r[1]]] # "REJECTED",
         NEW g \in Gateways
  PROVE  GateKeeps(g)
  <1>1. /\ status'[g] = status[g] /\ link'[g] = link[g] /\ types'[g] = types[g]
        /\ details'[g] = details[g] /\ numbered \subseteq numbered'
    BY Flushed DEF LifeInv, Nothing
  <1>2. \A r \in Row : child'[r] = "NONE" <=> child[r] = "NONE"
    <2>1. \A r \in Row : ~Inserted(r, p) BY DEF Inserted, Nothing
    <2>2. \A r \in Row : child'[r] = IF r \in DOMAIN p.child THEN p.child[r] ELSE child[r]
      BY <2>1, Flushed DEF LifeInv
    <2> QED BY <2>2
  <1>3. link[g] # None => link[g] \in Apps BY DEF LifeInv, TypeOK
  <1>4. status[g] # "ABSENT" => link[g] # None BY DEF LifeInv, Linked
  <1>5. status[g] = "SUBMITTED" => /\ appStatus[link[g]] = "PENDING_APP_OWNER"
                                   /\ details[g] = "COMPLETE" /\ g \in numbered
    BY DEF LifeInv, SubmittedAwaitsAppOwner
  <1>6. ASSUME NEW r \in Row, r[1] = g, child'[r] = "SM_APPROVAL_PENDING"
        PROVE  appStatus'[link'[g]] # "REJECTED"
    <2>1. status[g] = "RAISED" BY <1>2, <1>6, ChildOfRaised DEF LifeInv
    <2> QED BY <1>1, <1>3, <1>4, <1>6, <2>1
  <1> QED BY <1>1, <1>2, <1>3, <1>4, <1>5, <1>6 DEF GateKeeps

\* Commits that write request g only keep the others, if the rows those use stay
\* or are proposed again.
LEMMA GatesOther ==
  ASSUME IntakeAssumption, LifeInv, NEW p \in Plan, Flush(p), NEW g \in Gateways,
         DOMAIN p.status \subseteq {g}, DOMAIN p.link \subseteq {g}, DOMAIN p.types \subseteq {g},
         DOMAIN p.details \subseteq {g}, p.insert = Nothing, p.child = Nothing,
         \A b \in Apps : \A h \in Gateways \ {g} : link[h] = b => RowStays(b) \/ RowProposed(b),
         NEW h \in Gateways \ {g}
  PROVE  GateKeeps(h)
  <1>1. /\ status'[h] = status[h] /\ link'[h] = link[h] /\ types'[h] = types[h]
        /\ details'[h] = details[h] /\ numbered \subseteq numbered'
    BY Flushed DEF LifeInv
  <1>2. \A r \in Row : child'[r] = child[r]
    <2>1. \A r \in Row : ~Inserted(r, p) BY DEF Inserted, Nothing
    <2>2. \A r \in Row : child'[r] = IF r \in DOMAIN p.child THEN p.child[r] ELSE child[r]
      BY <2>1, Flushed DEF LifeInv
    <2> QED BY <2>2 DEF Nothing
  <1>3. link[h] # None => link[h] \in Apps BY DEF LifeInv, TypeOK
  <1>4. status[h] # "ABSENT" => link[h] # None BY DEF LifeInv, Linked
  <1>5. status[h] = "SUBMITTED" => /\ appStatus[link[h]] = "PENDING_APP_OWNER"
                                   /\ details[h] = "COMPLETE" /\ h \in numbered
    BY DEF LifeInv, SubmittedAwaitsAppOwner
  <1>6. link[h] # None => /\ appStatus[link[h]] = "PENDING_APP_OWNER"
                               => appStatus'[link[h]] = "PENDING_APP_OWNER"
                          /\ appStatus[link[h]] # "REJECTED" => appStatus'[link[h]] # "REJECTED"
    BY <1>3 DEF RowStays, RowProposed
  <1>7. ASSUME NEW r \in Row, r[1] = h, child[r] = "SM_APPROVAL_PENDING"
        PROVE  link[h] # None /\ appStatus[link[h]] # "REJECTED"
    BY <1>7 DEF LifeInv, RejectedNameHoldsNoPendingChild, NameOf
  <1>8. ASSUME NEW r \in Row, r[1] = h, child'[r] = "SM_APPROVAL_PENDING"
        PROVE  appStatus'[link'[h]] # "REJECTED"
    <2>1. child[r] = "SM_APPROVAL_PENDING" BY <1>2, <1>8
    <2>2. link[h] # None /\ appStatus[link[h]] # "REJECTED" BY <1>7, <1>8, <2>1
    <2>3. appStatus'[link[h]] # "REJECTED" BY <1>6, <2>2
    <2> QED BY <1>1, <2>3
  <1> QED BY <1>1, <1>2, <1>4, <1>5, <1>6, <1>8 DEF GateKeeps

\* Commits that raise the requests G under names that are not rejected.
LEMMA GatesRaise ==
  ASSUME IntakeAssumption, LifeInv, NEW G \in SUBSET Gateways, NEW p \in Plan, Flush(p),
         p.status = [g \in G |-> "RAISED"], p.details = [g \in G |-> "CONSUMED"],
         DOMAIN p.insert = Missing(G), p.child = Nothing, p.link = Nothing, p.types = Nothing,
         \A g \in G : /\ status[g] \in {"DRAFT", "SUBMITTED"}
                      /\ appStatus'[link[g]] # "REJECTED",
         \A b \in Apps : appStatus'[b] = "REJECTED" => appStatus[b] = "REJECTED",
         \A g \in Gateways \ G : status[g] = "SUBMITTED" => appStatus'[link[g]] = appStatus[link[g]],
         NEW g \in Gateways
  PROVE  GateKeeps(g) \/ GateRaised(g)
  <1>1. /\ status'[g] = (IF g \in G THEN "RAISED" ELSE status[g])
        /\ link'[g] = link[g] /\ types'[g] = types[g]
        /\ g \notin G => details'[g] = details[g]
        /\ numbered \subseteq numbered'
    BY Flushed DEF LifeInv, Nothing
  <1>2. link[g] # None => link[g] \in Apps BY DEF LifeInv, TypeOK
  <1>3. status[g] # "ABSENT" => link[g] # None BY DEF LifeInv, Linked
  <1>4. CASE g \in G
    <2>1. status[g] # "RAISED" BY <1>4
    <2>2. \A t \in Types, i \in Copies : child[<<g, t, i>>] = "NONE"
      BY <2>1, ChildOfRaised DEF LifeInv, Row
    <2>3. ASSUME NEW t \in Types, NEW i \in Copies
          PROVE  child'[<<g, t, i>>] = IF t \in types[g] /\ i = 1 THEN "SM_APPROVAL_PENDING" ELSE "NONE"
      <3>1. <<g, t>> \in Missing(G) <=> t \in types[g]
        BY <1>4, <2>2 DEF Missing
      <3>2. Inserted(<<g, t, i>>, p) <=> t \in types[g] /\ i = 1
        <4>1. (\A k \in Copies : k < i => child[<<g, t, k>>] # "NONE") <=> i = 1
          <5>1. i \in Nat /\ i # 0 /\ 1 \in Copies /\ \A k \in Copies : k \in Nat /\ k # 0
            BY DEF IntakeAssumption
          <5>2. i # 1 => 1 < i BY <5>1
          <5>3. i = 1 => \A k \in Copies : ~(k < i) BY <5>1
          <5> QED BY <5>1, <5>2, <5>3, <2>2
        <4> QED BY <2>2, <3>1, <4>1 DEF Inserted
      <3>3. <<g, t, i>> \in Row BY DEF Row
      <3> QED BY <2>2, <3>2, <3>3, Flushed DEF LifeInv, Nothing
    <2>4. \A r \in Row : r[1] = g =>
            child'[r] = IF r[2] \in types[g] /\ r[3] = 1 THEN "SM_APPROVAL_PENDING" ELSE "NONE"
      <3>1. \A r \in Row : r[2] \in Types /\ r[3] \in Copies /\ r = <<r[1], r[2], r[3]>> BY DEF Row
      <3> QED BY <2>3, <3>1
    <2> QED BY <1>1, <1>3, <1>4, <2>1, <2>4 DEF GateRaised
  <1>5. CASE g \notin G
    <2>1. ASSUME NEW r \in Row, r[1] = g PROVE child'[r] = child[r]
      <3>1. ~Inserted(r, p) BY <1>5, <2>1 DEF Inserted, Missing
      <3> QED BY <3>1, Flushed DEF LifeInv, Nothing
    <2>2. status[g] = "SUBMITTED" => /\ appStatus[link[g]] = "PENDING_APP_OWNER"
                                     /\ details[g] = "COMPLETE" /\ g \in numbered
      BY DEF LifeInv, SubmittedAwaitsAppOwner
    <2>3. ASSUME NEW r \in Row, r[1] = g, child[r] = "SM_APPROVAL_PENDING"
          PROVE  appStatus'[link[g]] # "REJECTED"
      BY <1>2, <2>3 DEF LifeInv, RejectedNameHoldsNoPendingChild, NameOf
    <2> QED BY <1>1, <1>3, <1>5, <2>1, <2>2, <2>3 DEF GateKeeps
  <1> QED BY <1>4, <1>5

\* Creating a request: it has raised nothing.
LEMMA CreateLife ==
  ASSUME IntakeAssumption, LifeInv, NEW n \in Names, NEW g \in Gateways, NEW a \in Apps,
         NEW ts \in SUBSET Types, NEW d \in {"INCOMPLETE", "COMPLETE"},
         CanCreate(g, n, a), Flush(CreateWrites(g, n, a, ts, d)), NEW h \in Gateways
  PROVE  GateKeeps(h)
  <1> DEFINE p == CreateWrites(g, n, a, ts, d)
  <1>1. p \in Plan /\ Flush(p) BY DraftTypes DEF LifeInv
  <1>2. /\ p.status = One(g, "DRAFT") /\ p.link = One(g, a) /\ p.types = One(g, ts)
        /\ p.details = One(g, d) /\ p.insert = Nothing /\ p.child = Nothing
        /\ p.origin = ResolveWrites(n, g, a).origin
        /\ p.appStatus = ResolveWrites(n, g, a).appStatus
    BY DEF CreateWrites, ResolveWrites, NoWrites
  <1>3. ResolvesTo(n, g, a) /\ status[g] = "ABSENT" BY DEF CanCreate
  <1> HIDE DEF p
  <1>4. \A b \in Apps : RowStays(b) \/ RowProposed(b)
    BY <1>1, <1>2, <1>3, ResolveRows DEF LifeInv
  <1>5. CASE h # g BY <1>1, <1>2, <1>4, <1>5, GatesOther DEF One
  <1>6. CASE h = g
    <2>1. status'[g] = "DRAFT" /\ link'[g] = a BY <1>1, <1>2, Flushed DEF LifeInv, One
    <2>2. \A r \in Row : ~Inserted(r, p) BY <1>2 DEF Inserted, Nothing
    <2>3. \A r \in Row : child'[r] = child[r]
      BY <1>1, <1>2, <2>2, Flushed DEF LifeInv, Nothing
    <2>4. \A r \in Row : r[1] = g => child[r] = "NONE"
      BY <1>3, ChildOfRaised DEF LifeInv
    <2>5. a # None BY DEF IntakeAssumption
    <2> QED BY <1>3, <1>6, <2>1, <2>3, <2>4, <2>5 DEF GateKeeps
  <1> QED BY <1>5, <1>6

\* Editing a draft: it has raised nothing, and the row it may delete is its own.
LEMMA EditLife ==
  ASSUME IntakeAssumption, LifeInv, NEW n \in Names, NEW g \in Gateways, NEW a \in Apps,
         NEW ts \in SUBSET Types, NEW d \in {"INCOMPLETE", "COMPLETE"}, NEW u \in Users,
         CanEdit(g, u, n, a), Flush(EditWrites(g, n, a, ts, d)), NEW h \in Gateways
  PROVE  GateKeeps(h)
  <1> DEFINE p == EditWrites(g, n, a, ts, d)
  <1>1. p \in Plan /\ Flush(p) BY DraftTypes DEF LifeInv
  <1>2. /\ p.status = Nothing /\ p.insert = Nothing /\ p.child = Nothing
        /\ p.types = Dirty(types, g, ts) /\ p.details = Dirty(details, g, d)
        /\ n = reqName[g] => p.link = Nothing /\ p.appStatus = Nothing
        /\ n # reqName[g] => /\ p.link = Dirty(link, g, a)
                             /\ p.origin = RelinkWrites(n, g, a).origin
                             /\ p.appStatus = RelinkWrites(n, g, a).appStatus
    BY DEF EditWrites, RelinkWrites, ResolveWrites, NoWrites
  <1>3. status[g] = "DRAFT" /\ (n # reqName[g] => ResolvesTo(n, g, a))
    BY DEF CanEdit, CanEditDraft
  <1> HIDE DEF p
  <1>4. ASSUME NEW b \in Apps, NEW k \in Gateways \ {g}, link[k] = b
        PROVE  RowStays(b) \/ RowProposed(b)
    <2>1. CASE n = reqName[g] BY <1>1, <1>2, <2>1, UntouchedRows DEF LifeInv
    <2>2. CASE n # reqName[g]
      <3>1. ~(Orphaned(link[g], g) /\ b = link[g]) BY <1>4 DEF Orphaned
      <3> QED BY <1>1, <1>2, <1>3, <2>2, <3>1, RelinkRows DEF LifeInv
    <2> QED BY <2>1, <2>2
  <1>5. CASE h # g
    <2>1. /\ DOMAIN p.status \subseteq {g} /\ DOMAIN p.link \subseteq {g}
          /\ DOMAIN p.types \subseteq {g} /\ DOMAIN p.details \subseteq {g}
      BY <1>2 DEF Dirty, One, Nothing
    <2>2. \A b \in Apps : \A k \in Gateways \ {g} : link[k] = b => RowStays(b) \/ RowProposed(b)
      BY <1>4
    <2> QED BY <1>1, <1>2, <1>5, <2>1, <2>2, GatesOther
  <1>6. CASE h = g
    <2>1. status'[g] = "DRAFT" /\ (link'[g] = a \/ link'[g] = link[g])
      BY <1>1, <1>2, <1>3, Flushed DEF LifeInv, Dirty, One, Nothing
    <2>2. \A r \in Row : ~Inserted(r, p) BY <1>2 DEF Inserted, Nothing
    <2>3. \A r \in Row : child'[r] = child[r]
      BY <1>1, <1>2, <2>2, Flushed DEF LifeInv, Nothing
    <2>4. \A r \in Row : r[1] = g => child[r] = "NONE"
      BY <1>3, ChildOfRaised DEF LifeInv
    <2>5. a # None /\ link[g] # None BY <1>3 DEF IntakeAssumption, LifeInv, Linked
    <2> QED BY <1>3, <1>6, <2>1, <2>3, <2>4, <2>5 DEF GateKeeps
  <1> QED BY <1>5, <1>6

\* An admin moves a raised request: never to a row that stays rejected.
LEMMA AdminRelinkLife ==
  ASSUME IntakeAssumption, LifeInv, NEW n \in Names, NEW g \in Gateways, NEW a \in Apps,
         NEW u \in Users, CanAdminRelink(g, u, n, a), Flush(RelinkWrites(n, g, a)),
         NEW h \in Gateways
  PROVE  GateKeeps(h)
  <1> DEFINE p == RelinkWrites(n, g, a)
  <1>1. p \in Plan /\ Flush(p) BY RelinkType DEF LifeInv
  <1>2. /\ p.status = Nothing /\ p.insert = Nothing /\ p.child = Nothing
        /\ p.types = Nothing /\ p.details = Nothing /\ p.link = Dirty(link, g, a)
    BY DEF RelinkWrites, ResolveWrites, NoWrites
  <1>3. ResolvesTo(n, g, a) /\ status[g] = "RAISED"
    <2>1. PICK i \in Copies : child[<<g, FunctionalType, i>>] # "NONE" BY DEF CanAdminRelink
    <2>2. <<g, FunctionalType, i>> \in Row BY DEF Row, IntakeAssumption
    <2>3. status[<<g, FunctionalType, i>>[1]] = "RAISED"
      BY <2>1, <2>2, ChildOfRaised DEF LifeInv
    <2> QED BY <2>3 DEF CanAdminRelink
  <1>4. ASSUME NEW b \in Apps
        PROVE  /\ \/ RowStays(b) \/ RowProposed(b)
                  \/ Orphaned(link[g], g) /\ b = link[g] /\ appStatus'[b] = "DELETED"
               /\ b = a => appStatus'[b] # "REJECTED"
    BY <1>1, <1>3, RelinkRows DEF LifeInv
  <1> HIDE DEF p
  <1>5. CASE h # g
    <2>1. /\ DOMAIN p.status \subseteq {g} /\ DOMAIN p.link \subseteq {g}
          /\ DOMAIN p.types \subseteq {g} /\ DOMAIN p.details \subseteq {g}
      BY <1>2 DEF Dirty, One, Nothing
    <2>2. \A b \in Apps : \A k \in Gateways \ {g} : link[k] = b => RowStays(b) \/ RowProposed(b)
      BY <1>4 DEF Orphaned
    <2> QED BY <1>1, <1>2, <1>5, <2>1, <2>2, GatesOther
  <1>6. CASE h = g
    <2>1. status'[g] = "RAISED" /\ types'[g] = types[g] /\ link'[g] = a
      BY <1>1, <1>2, <1>3, Flushed DEF LifeInv, Dirty, One, Nothing
    <2>2. \A r \in Row : ~Inserted(r, p) BY <1>2 DEF Inserted, Nothing
    <2>3. \A r \in Row : child'[r] = child[r]
      BY <1>1, <1>2, <2>2, Flushed DEF LifeInv, Nothing
    <2>4. a # None /\ appStatus'[a] # "REJECTED" BY <1>4 DEF IntakeAssumption
    <2> QED BY <1>3, <1>6, <2>1, <2>3, <2>4 DEF GateKeeps
  <1> QED BY <1>5, <1>6

\* Cancelling a draft.
LEMMA CancelLife ==
  ASSUME IntakeAssumption, LifeInv, NEW g \in Gateways, NEW u \in Users, Cancel(g, u),
         NEW h \in Gateways
  PROVE  GateKeeps(h)
  <1> DEFINE p == CancelWrites(g)
  <1>1. p \in Plan /\ Flush(p) BY LeaveDraftTypes DEF LifeInv, Cancel
  <1>2. /\ p.status = One(g, "CANCELLED") /\ p.link = Nothing /\ p.types = Nothing
        /\ p.details = Nothing /\ p.insert = Nothing /\ p.child = Nothing
        /\ p.appStatus = Nothing
    BY DEF CancelWrites, NoWrites
  <1>3. status[g] = "DRAFT" BY DEF Cancel, CanCancel, OwnsDraft
  <1> HIDE DEF p
  <1>4. \A b \in Apps : RowStays(b) BY <1>1, <1>2, UntouchedRows DEF LifeInv
  <1>5. CASE h # g BY <1>1, <1>2, <1>4, <1>5, GatesOther DEF One, Nothing
  <1>6. CASE h = g
    <2>1. status'[g] = "CANCELLED" /\ link'[g] = link[g]
      BY <1>1, <1>2, Flushed DEF LifeInv, One, Nothing
    <2>2. \A r \in Row : ~Inserted(r, p) BY <1>2 DEF Inserted, Nothing
    <2>3. \A r \in Row : child'[r] = child[r]
      BY <1>1, <1>2, <2>2, Flushed DEF LifeInv, Nothing
    <2>4. \A r \in Row : r[1] = g => child[r] = "NONE"
      BY <1>3, ChildOfRaised DEF LifeInv
    <2>5. link[g] # None BY <1>3 DEF LifeInv, Linked
    <2> QED BY <1>3, <1>6, <2>1, <2>3, <2>4, <2>5 DEF GateKeeps
  <1> QED BY <1>5, <1>6

\* Submitting a draft: it waits for the Application Owner, or it is raised at once.
LEMMA SubmitLife ==
  ASSUME IntakeAssumption, LifeInv, NEW g \in Gateways, NEW u \in Users, Submit(g, u),
         NEW h \in Gateways
  PROVE  GateKeeps(h) \/ GateRaised(h)
  <1> DEFINE p == SubmitWrites(g)
  <1>1. p \in Plan /\ Flush(p) BY LeaveDraftTypes DEF LifeInv, Submit
  <1>2. /\ status[g] = "DRAFT" /\ details[g] = "COMPLETE" /\ appStatus[link[g]] # "REJECTED"
        /\ link[g] # None
    BY DEF Submit, CanSubmit, OwnsDraft, LifeInv, Linked
  <1>3. p.number = {g} \ numbered /\ p.appStatus = Nothing
    BY DEF SubmitWrites, FinalizeWrites, NoWrites
  <1>4. \A b \in Apps : RowStays(b) BY <1>1, <1>3, UntouchedRows DEF LifeInv
  <1>5. link[g] \in Apps BY <1>2 DEF LifeInv, TypeOK
  <1>6. CASE appStatus[link[g]] = "PENDING_APP_OWNER"
    <2>1. /\ p.status = One(g, "SUBMITTED") /\ p.link = Nothing /\ p.types = Nothing
          /\ p.details = Nothing /\ p.insert = Nothing /\ p.child = Nothing
      BY <1>6 DEF SubmitWrites, NoWrites
    <2> HIDE DEF p
    <2>2. CASE h # g BY <1>1, <1>4, <2>1, <2>2, GatesOther DEF One, Nothing
    <2>3. CASE h = g
      <3>1. status'[g] = "SUBMITTED" /\ link'[g] = link[g] /\ details'[g] = details[g] /\ g \in numbered'
        BY <1>1, <1>3, <2>1, Flushed DEF LifeInv, One, Nothing
      <3>2. \A r \in Row : ~Inserted(r, p) BY <2>1 DEF Inserted, Nothing
      <3>3. \A r \in Row : child'[r] = child[r]
        BY <1>1, <2>1, <3>2, Flushed DEF LifeInv, Nothing
      <3>4. \A r \in Row : r[1] = g => child[r] = "NONE"
        BY <1>2, ChildOfRaised DEF LifeInv
      <3> QED BY <1>2, <1>4, <1>5, <1>6, <2>3, <3>1, <3>3, <3>4 DEF GateKeeps, RowStays
    <2> QED BY <2>2, <2>3
  <1>7. CASE appStatus[link[g]] # "PENDING_APP_OWNER"
    <2>1. /\ p.status = [x \in {g} |-> "RAISED"] /\ p.details = [x \in {g} |-> "CONSUMED"]
          /\ DOMAIN p.insert = Missing({g}) /\ p.child = Nothing /\ p.link = Nothing
          /\ p.types = Nothing
      BY <1>7 DEF SubmitWrites, FinalizeWrites, NoWrites
    <2> HIDE DEF p
    <2>2. \A x \in {g} : status[x] \in {"DRAFT", "SUBMITTED"} /\ appStatus'[link[x]] # "REJECTED"
      BY <1>2, <1>4, <1>5 DEF RowStays
    <2>3. \A b \in Apps : appStatus'[b] = "REJECTED" => appStatus[b] = "REJECTED"
      BY <1>4 DEF RowStays
    <2>4. ASSUME NEW x \in Gateways \ {g}, status[x] = "SUBMITTED"
          PROVE  appStatus'[link[x]] = appStatus[link[x]]
      <3>1. link[x] \in Apps BY <2>4 DEF LifeInv, SubmittedAwaitsAppOwner, TypeOK
      <3> QED BY <1>4, <3>1 DEF RowStays
    <2>5. {g} \in SUBSET Gateways OBVIOUS
    <2> QED BY <1>1, <2>1, <2>2, <2>3, <2>4, <2>5, GatesRaise
  <1> QED BY <1>6, <1>7

\* An approval of any rows raises what waits for them.
LEMMA ApproveLife ==
  ASSUME IntakeAssumption, LifeInv, NEW A \in SUBSET Apps, NEW p \in Plan, Flush(p),
         p.status = [g \in Waiting(A) |-> "RAISED"], p.details = [g \in Waiting(A) |-> "CONSUMED"],
         DOMAIN p.insert = Missing(Waiting(A)), p.child = Nothing, p.link = Nothing,
         p.types = Nothing, \A b \in A : appStatus'[b] = "APPROVED",
         \A b \in Apps \ A : RowStays(b) \/ RowSeeded(b),
         NEW g \in Gateways
  PROVE  GateKeeps(g) \/ GateRaised(g)
  <1>1. Waiting(A) \in SUBSET Gateways BY DEF Waiting
  <1>2. \A h \in Waiting(A) : status[h] \in {"DRAFT", "SUBMITTED"} /\ appStatus'[link[h]] # "REJECTED"
    BY DEF Waiting
  <1>3. \A b \in Apps : appStatus'[b] = "REJECTED" => appStatus[b] = "REJECTED"
    BY DEF RowStays, RowSeeded
  <1>4. ASSUME NEW h \in Gateways \ Waiting(A), status[h] = "SUBMITTED"
        PROVE  appStatus'[link[h]] = appStatus[link[h]]
    <2>1. link[h] \in Apps \ A /\ appStatus[link[h]] = "PENDING_APP_OWNER"
      BY <1>4 DEF LifeInv, SubmittedAwaitsAppOwner, TypeOK, Waiting
    <2> QED BY <2>1 DEF RowStays, RowSeeded
  <1> QED BY <1>1, <1>2, <1>3, <1>4, GatesRaise

\* A rejection gives back what waits and rejects what is at SM under the name.
LEMMA RejectLife ==
  ASSUME IntakeAssumption, LifeInv, NEW a \in Apps, Flush(RejectWrites(a)), NEW g \in Gateways
  PROVE  GateKeeps(g)
  <1> DEFINE p == RejectWrites(a)
  <1>1. p \in Plan /\ Flush(p) BY DecisionTypes DEF LifeInv
  <1>2. /\ p.status = [h \in Waiting({a}) |-> "DRAFT"] /\ p.link = Nothing /\ p.types = Nothing
        /\ p.details = Nothing /\ p.insert = Nothing /\ p.appStatus = One(a, "REJECTED")
        /\ p.child = [r \in AtSM(Using(a) \ Waiting({a})) |-> "SM_REJECTED"]
    BY DEF RejectWrites, NoWrites
  <1> HIDE DEF p
  <1>3. /\ status'[g] = (IF g \in Waiting({a}) THEN "DRAFT" ELSE status[g])
        /\ link'[g] = link[g] /\ types'[g] = types[g] /\ details'[g] = details[g]
        /\ numbered \subseteq numbered'
    <2>1. /\ status' = Over(status, p.status) /\ link' = Over(link, p.link)
          /\ types' = Over(types, p.types) /\ details' = Over(details, p.details)
          /\ numbered' = numbered \cup p.number
      BY <1>1 DEF Flush
    <2> QED BY <1>2, <2>1 DEF LifeInv, TypeOK, Over, Nothing
  <1>4. \A r \in Row : ~Inserted(r, p) BY <1>2 DEF Inserted, Nothing
  <1>5. \A r \in Row : child'[r] = IF r \in AtSM(Using(a) \ Waiting({a})) THEN "SM_REJECTED" ELSE child[r]
    <2>1. \A r \in Row : child'[r] = Over(child, p.child)[r] BY <1>1, <1>4 DEF Flush
    <2> QED BY <1>2, <2>1 DEF LifeInv, TypeOK, Over
  <1>6. \A b \in Apps : appStatus'[b] = IF b = a THEN "REJECTED" ELSE appStatus[b]
    BY <1>1, <1>2, Flushed DEF LifeInv, One
  <1>7. g \in Waiting({a}) <=> link[g] = a /\ status[g] = "SUBMITTED" BY DEF Waiting
  <1>8. status[g] = "SUBMITTED" => /\ appStatus[link[g]] = "PENDING_APP_OWNER" /\ link[g] \in Apps
                                   /\ details[g] = "COMPLETE" /\ g \in numbered
    BY DEF LifeInv, SubmittedAwaitsAppOwner, TypeOK
  <1>9. \A r \in Row : child'[r] = "NONE" <=> child[r] = "NONE" BY <1>5 DEF AtSM
  <1>10. ASSUME NEW r \in Row, r[1] = g, child'[r] = "SM_APPROVAL_PENDING"
         PROVE  appStatus'[link'[g]] # "REJECTED"
    <2>1. child[r] = "SM_APPROVAL_PENDING" /\ r \notin AtSM(Using(a) \ Waiting({a}))
      BY <1>5, <1>10
    <2>2. status[g] = "RAISED" BY <1>10, <2>1, ChildOfRaised DEF LifeInv
    <2>3. link[g] # a BY <1>7, <1>10, <2>1, <2>2 DEF AtSM, Using
    <2>4. link[g] \in Apps /\ appStatus[link[g]] # "REJECTED"
      BY <1>10, <2>1 DEF LifeInv, RejectedNameHoldsNoPendingChild, NameOf, TypeOK
    <2> QED BY <1>3, <1>6, <2>3, <2>4
  <1>11. status[g] # "ABSENT" => link[g] # None BY DEF LifeInv, Linked
  <1> QED BY <1>3, <1>6, <1>7, <1>8, <1>9, <1>10, <1>11 DEF GateKeeps

\* Commits that leave linked requests alone too, and take no name out of the
\* Application Owners' queue.
LEMMA GatesUntouched ==
  ASSUME IntakeAssumption, LifeInv, NEW p \in Plan, Flush(p),
         p.status = Nothing, p.link = Nothing, p.types = Nothing, p.details = Nothing,
         p.insert = Nothing, p.child = Nothing,
         \A b \in Apps : \/ RowStays(b) \/ RowProposed(b)
                         \/ appStatus[b] = "PENDING_SM" /\ appStatus'[b] = "APPROVED",
         NEW g \in Gateways
  PROVE  GateKeeps(g)
  <1>1. \A b \in Apps : appStatus[b] = "PENDING_APP_OWNER" => appStatus'[b] = "PENDING_APP_OWNER"
    BY DEF RowStays, RowProposed
  <1>2. \A r \in Row : child'[r] = child[r]
    <2>1. \A r \in Row : ~Inserted(r, p) BY DEF Inserted, Nothing
    <2> QED BY <2>1, Flushed DEF LifeInv, Nothing
  <1>3. ASSUME NEW r \in Row, link[r[1]] \in Apps, child'[r] = "SM_APPROVAL_PENDING"
        PROVE  appStatus'[link[r[1]]] # "REJECTED"
    <2>1. appStatus[link[r[1]]] # "REJECTED"
      BY <1>2, <1>3 DEF LifeInv, RejectedNameHoldsNoPendingChild, NameOf
    <2> QED BY <1>3, <2>1 DEF RowStays, RowProposed
  <1>4. \A r \in DOMAIN p.child : child[r] # "NONE" /\ p.child[r] # "NONE"
    BY DEF Nothing
  <1> QED BY <1>1, <1>3, <1>4, GatesQuiet

\* Every handler keeps a request as it is raised, or raises it properly.
LEMMA LifeNext ==
  ASSUME IntakeAssumption, LifeInv, [Next]_vars, NEW h \in Gateways
  PROVE  GateKeeps(h) \/ GateRaised(h)
  <1> USE DEF LifeInv
  <1>1. CASE UNCHANGED vars
    <2>1. status[h] # "ABSENT" => link[h] # None BY DEF Linked
    <2>2. \A r \in Row : r[1] = h /\ child[r] = "SM_APPROVAL_PENDING" => appStatus[link[h]] # "REJECTED"
      BY DEF RejectedNameHoldsNoPendingChild, NameOf
    <2> QED BY <1>1, <2>1, <2>2 DEF vars, GateKeeps, SubmittedAwaitsAppOwner
  <1>2. ASSUME NEW g \in Gateways, Create(g) PROVE GateKeeps(h)
    BY <1>2, CreateLife DEF Create
  <1>3. ASSUME NEW g \in Gateways, NEW u \in Users,
               Edit(g, u) \/ Cancel(g, u) \/ Submit(g, u) \/ AdminRelink(g, u)
        PROVE  GateKeeps(h) \/ GateRaised(h)
    <2>1. CASE Edit(g, u) BY <2>1, EditLife DEF Edit
    <2>2. CASE Cancel(g, u) BY <2>2, CancelLife
    <2>3. CASE Submit(g, u) BY <2>3, SubmitLife
    <2>4. CASE AdminRelink(g, u) BY <2>4, AdminRelinkLife DEF AdminRelink
    <2> QED BY <1>3, <2>1, <2>2, <2>3, <2>4
  <1>4. ASSUME NEW t \in Target, NEW u \in Users,
               AssignForInput(t, u) \/ ReturnDelegated(t, u) \/ RecallDelegated(t, u)
        PROVE  GateKeeps(h)
    <2>1. ASSUME NEW v \in Users, NEW p \in {AssignWrites(t, v), CloseWrites(t)}, Flush(p)
          PROVE  GateKeeps(h)
      <3>1. /\ p.status = Nothing /\ p.link = Nothing /\ p.types = Nothing /\ p.details = Nothing
            /\ p.insert = Nothing /\ p.child = Nothing /\ p.appStatus = Nothing
        BY <2>1 DEF AssignWrites, CloseWrites, NoWrites
      <3>2. p \in Plan BY <2>1, DelegationTypes
      <3>3. \A b \in Apps : RowStays(b) BY <2>1, <3>1, <3>2, UntouchedRows
      <3> QED BY <2>1, <3>1, <3>2, <3>3, GatesUntouched
    <2> QED BY <1>4, <2>1 DEF AssignForInput, ReturnDelegated, RecallDelegated
  <1>5. ASSUME NEW a \in Apps, NEW u \in Users, AppOwnerApprove(a, u)
        PROVE  GateKeeps(h) \/ GateRaised(h)
    <2> DEFINE p == ApproveWrites({a})
    <2>1. p \in Plan /\ Flush(p) BY <1>5, DecisionTypes DEF AppOwnerApprove
    <2>2. /\ p.status = [g \in Waiting({a}) |-> "RAISED"]
          /\ p.details = [g \in Waiting({a}) |-> "CONSUMED"]
          /\ DOMAIN p.insert = Missing(Waiting({a})) /\ p.child = Nothing /\ p.link = Nothing
          /\ p.types = Nothing /\ p.appStatus = [b \in {a} |-> "APPROVED"]
      BY DEF ApproveWrites, FinalizeWrites, NoWrites
    <2> HIDE DEF p, LifeInv
    <2>3. \A b \in Apps : appStatus'[b] = IF b = a THEN "APPROVED" ELSE appStatus[b]
      BY <2>1, <2>2, Flushed DEF LifeInv
    <2>4. {a} \in SUBSET Apps /\ \A b \in {a} : appStatus'[b] = "APPROVED" BY <2>3
    <2>5. \A b \in Apps \ {a} : RowStays(b) \/ RowSeeded(b) BY <2>3 DEF RowStays
    <2> QED BY <2>1, <2>2, <2>4, <2>5, ApproveLife
  <1>6. ASSUME NEW a \in Apps, NEW u \in Users, AppOwnerReject(a, u) PROVE GateKeeps(h)
    BY <1>6, RejectLife DEF AppOwnerReject
  <1>7. ASSUME NEW a \in Apps, NEW u \in Users, SMApproveName(a, u) PROVE GateKeeps(h)
    <2> DEFINE p == SMApproveNameWrites(a)
    <2>1. p \in Plan /\ Flush(p) /\ appStatus[a] = "PENDING_SM"
      BY <1>7, DecisionTypes DEF SMApproveName, CanSMDecideName
    <2>2. /\ p.status = Nothing /\ p.link = Nothing /\ p.types = Nothing /\ p.details = Nothing
          /\ p.insert = Nothing /\ p.child = Nothing /\ p.appStatus = One(a, "APPROVED")
      BY DEF SMApproveNameWrites, NoWrites
    <2> HIDE DEF p
    <2>3. \A b \in Apps : appStatus'[b] = IF b = a THEN "APPROVED" ELSE appStatus[b]
      BY <2>1, <2>2, Flushed DEF One
    <2>4. \A b \in Apps : \/ RowStays(b) \/ RowProposed(b)
                          \/ appStatus[b] = "PENDING_SM" /\ appStatus'[b] = "APPROVED"
      BY <2>1, <2>3 DEF RowStays
    <2> QED BY <2>1, <2>2, <2>4, GatesUntouched
  <1>8. ASSUME NEW a \in Apps, NEW u \in Users, SMRejectName(a, u) PROVE GateKeeps(h)
    <2> DEFINE p == SMRejectNameWrites(a)
    <2>1. p \in Plan /\ Flush(p) /\ appStatus[a] = "PENDING_SM"
      BY <1>8, DecisionTypes DEF SMRejectName, CanSMDecideName
    <2>2. /\ p.status = Nothing /\ p.link = Nothing /\ p.types = Nothing /\ p.details = Nothing
          /\ p.insert = Nothing /\ p.appStatus = One(a, "REJECTED")
          /\ p.child = [r \in AtSM(Using(a)) |-> "SM_REJECTED"]
      BY DEF SMRejectNameWrites, NoWrites
    <2> HIDE DEF p
    <2>3. \A b \in Apps : appStatus'[b] = IF b = a THEN "REJECTED" ELSE appStatus[b]
      BY <2>1, <2>2, Flushed DEF One
    <2>4. \A r \in Row : child'[r] = IF r \in AtSM(Using(a)) THEN "SM_REJECTED" ELSE child[r]
      <3>1. \A r \in Row : ~Inserted(r, p) BY <2>2 DEF Inserted, Nothing
      <3> QED BY <2>1, <2>2, <3>1, Flushed
    <2>5. ASSUME NEW r \in Row, link[r[1]] \in Apps, child'[r] = "SM_APPROVAL_PENDING"
          PROVE  appStatus'[link[r[1]]] # "REJECTED"
      <3>1. child[r] = "SM_APPROVAL_PENDING" /\ r \notin AtSM(Using(a)) BY <2>4, <2>5
      <3>2. r[1] \in Gateways BY DEF Row
      <3>3. link[r[1]] # a BY <3>1, <3>2 DEF AtSM, Using
      <3>4. appStatus[link[r[1]]] # "REJECTED"
        BY <3>1 DEF RejectedNameHoldsNoPendingChild, NameOf
      <3> QED BY <2>3, <2>5, <3>3, <3>4
    <2>6. \A b \in Apps : appStatus[b] = "PENDING_APP_OWNER" => appStatus'[b] = "PENDING_APP_OWNER"
      BY <2>1, <2>3
    <2>7. \A r \in DOMAIN p.child : child[r] # "NONE" /\ p.child[r] # "NONE"
      BY <2>2 DEF AtSM
    <2> HIDE DEF LifeInv
    <2> QED BY <2>1, <2>2, <2>5, <2>6, <2>7, GatesQuiet
  <1>9. ASSUME NEW a \in Apps, NEW u \in Users, RenameApplication(a, u) PROVE GateKeeps(h)
    <2>1. PICK n \in Names : Flush(RenameWrites(a, n)) BY <1>9 DEF RenameApplication
    <2> DEFINE p == RenameWrites(a, n)
    <2>2. p \in Plan /\ Flush(p) BY <2>1, RenameType
    <2>3. /\ p.status = Nothing /\ p.link = Nothing /\ p.types = Nothing /\ p.details = Nothing
          /\ p.insert = Nothing /\ p.child = Nothing /\ p.appStatus = Nothing
      BY DEF RenameWrites, NoWrites
    <2> HIDE DEF p
    <2>4. \A b \in Apps : RowStays(b) BY <2>2, <2>3, UntouchedRows
    <2> QED BY <2>2, <2>3, <2>4, GatesUntouched
  <1>10. ASSUME NEW a \in Apps, CreateProject(a) PROVE GateKeeps(h)
    <2> DEFINE p == ProjectWrites(a)
    <2>2. p \in Plan /\ Flush(p) BY <1>10, DecisionTypes DEF CreateProject
    <2>3. /\ p.status = Nothing /\ p.link = Nothing /\ p.types = Nothing /\ p.details = Nothing
          /\ p.insert = Nothing /\ p.child = Nothing /\ p.appStatus = Nothing
      BY DEF ProjectWrites, NoWrites
    <2> HIDE DEF p
    <2>4. \A b \in Apps : RowStays(b) BY <2>2, <2>3, UntouchedRows
    <2> QED BY <2>2, <2>3, <2>4, GatesUntouched
  <1>11. ASSUME NEW u \in Users, BulkSeed(u) PROVE GateKeeps(h) \/ GateRaised(h)
    <2>1. PICK S \in SUBSET Names : \E f \in [S -> Apps] : Flush(BulkSeedWrites(f))
      BY <1>11 DEF BulkSeed
    <2>2. PICK f \in [S -> Apps] : Flush(BulkSeedWrites(f)) BY <2>1
    <2> DEFINE new  == {n \in DOMAIN f : appStatus[f[n]] = "UNUSED"}
               open == {f[n] : n \in {m \in DOMAIN f : appStatus[f[m]] \in Undecided}}
               rows == {f[n] : n \in new}
               p    == BulkSeedWrites(f)
    <2>3. p \in Plan /\ Flush(p) BY <2>2, SeedType
    <2>4. /\ p.status = [g \in Waiting(open) |-> "RAISED"]
          /\ p.details = [g \in Waiting(open) |-> "CONSUMED"]
          /\ DOMAIN p.insert = Missing(Waiting(open)) /\ p.child = Nothing /\ p.link = Nothing
          /\ p.types = Nothing /\ p.appStatus = [b \in rows \cup open |-> "APPROVED"]
      BY DEF BulkSeedWrites, ApproveWrites, FinalizeWrites, NoWrites
    <2>5. open \in SUBSET Apps /\ \A b \in rows : appStatus[b] = "UNUSED" OBVIOUS
    <2> HIDE DEF p, rows, open, new, LifeInv
    <2>6. \A b \in Apps : appStatus'[b] = IF b \in rows \cup open THEN "APPROVED" ELSE appStatus[b]
      BY <2>3, <2>4, Flushed DEF LifeInv
    <2>7. \A b \in open : appStatus'[b] = "APPROVED" BY <2>5, <2>6
    <2>8. \A b \in Apps \ open : RowStays(b) \/ RowSeeded(b)
      BY <2>5, <2>6 DEF RowStays, RowSeeded
    <2> QED BY <2>3, <2>4, <2>5, <2>7, <2>8, ApproveLife
  <1>12. ASSUME NEW r \in Row, NEW u \in Users,
                SMApprove(r, u) \/ SMSendBack(r, u) \/ Resubmit(r, u) \/ AdminRenameScan(r, u)
         PROVE  GateKeeps(h)
    <2>1. CASE SMApprove(r, u) \/ SMSendBack(r, u) \/ Resubmit(r, u)
      <3>1. PICK p \in Plan :
              /\ Flush(p) /\ child[r] # "NONE"
              /\ p.status = Nothing /\ p.link = Nothing /\ p.types = Nothing /\ p.details = Nothing
              /\ p.insert = Nothing /\ p.appStatus = Nothing
              /\ \E s \in ChildStatus \ {"NONE"} :
                   /\ p.child = Nothing \/ p.child = One(r, s)
                   /\ s = "SM_APPROVAL_PENDING" => NameOf(r) # "REJECTED"
        <4>1. \A s : /\ SMDecisionWrites(r, s).status = Nothing /\ SMDecisionWrites(r, s).link = Nothing
                     /\ SMDecisionWrites(r, s).types = Nothing
                     /\ SMDecisionWrites(r, s).details = Nothing
                     /\ SMDecisionWrites(r, s).insert = Nothing
                     /\ SMDecisionWrites(r, s).appStatus = Nothing
                     /\ SMDecisionWrites(r, s).child = One(r, s)
          BY DEF SMDecisionWrites, NoWrites
        <4>2. CASE SMApprove(r, u) \/ SMSendBack(r, u)
          <5>1. PICK s \in Correctable \cup {"DEPARTMENT_HEAD_APPROVAL_PENDING"} :
                  Flush(SMDecisionWrites(r, s)) /\ child[r] = "SM_APPROVAL_PENDING"
            BY <4>2 DEF SMApprove, SMSendBack, CanSMApprove, CanSMDecide
          <5>2. s \in ChildStatus \ {"NONE"} /\ s # "SM_APPROVAL_PENDING"
            BY DEF Correctable, ChildStatus
          <5>3. SMDecisionWrites(r, s) \in Plan BY <5>2, StatusTypes
          <5> QED BY <4>1, <5>1, <5>2, <5>3
        <4>3. CASE Resubmit(r, u)
          <5> DEFINE s == IF NameOf(r) = "REJECTED" THEN "SM_REJECTED" ELSE "SM_APPROVAL_PENDING"
                     p == ResubmitWrites(r)
          <5>1. /\ p.status = Nothing /\ p.link = Nothing /\ p.types = Nothing /\ p.details = Nothing
                /\ p.insert = Nothing /\ p.appStatus = Nothing /\ p.child = Dirty(child, r, s)
            BY DEF ResubmitWrites, NoWrites
          <5>2. p \in Plan BY StatusTypes DEF ChildStatus
          <5>3. Flush(p) /\ child[r] # "NONE"
            BY <4>3 DEF Resubmit, CanResubmit, Correctable
          <5>4. /\ s \in ChildStatus \ {"NONE"} /\ (p.child = Nothing \/ p.child = One(r, s))
                /\ s = "SM_APPROVAL_PENDING" => NameOf(r) # "REJECTED"
            BY <5>1 DEF ChildStatus, Dirty
          <5> HIDE DEF s, p
          <5> QED BY <5>1, <5>2, <5>3, <5>4
        <4> QED BY <2>1, <4>2, <4>3
      <3>2. PICK s \in ChildStatus \ {"NONE"} :
              /\ p.child = Nothing \/ p.child = One(r, s)
              /\ s = "SM_APPROVAL_PENDING" => NameOf(r) # "REJECTED"
        BY <3>1
      <3>3. \A b \in Apps : appStatus'[b] = appStatus[b] BY <3>1, UntouchedRows DEF RowStays
      <3>4. \A x \in Row : child'[x] = child[x] \/ (x = r /\ child'[x] = s)
        <4>1. \A x \in Row : ~Inserted(x, p) BY <3>1 DEF Inserted, Nothing
        <4> QED BY <3>1, <3>2, <4>1, Flushed DEF Nothing, One
      <3>5. ASSUME NEW x \in Row, link[x[1]] \in Apps, child'[x] = "SM_APPROVAL_PENDING"
            PROVE  appStatus'[link[x[1]]] # "REJECTED"
        <4>1. child[x] = "SM_APPROVAL_PENDING" => appStatus[link[x[1]]] # "REJECTED"
          BY DEF RejectedNameHoldsNoPendingChild, NameOf
        <4> QED BY <3>2, <3>3, <3>4, <3>5, <4>1 DEF NameOf
      <3>6. \A x \in DOMAIN p.child : child[x] # "NONE" /\ p.child[x] # "NONE"
        BY <3>1, <3>2 DEF One, Nothing
      <3> HIDE DEF LifeInv
      <3> QED BY <3>1, <3>3, <3>5, <3>6, GatesQuiet
    <2>2. CASE AdminRenameScan(r, u)
      <3>1. PICK n \in Names, a \in Apps :
              CanAdminRenameScan(r, u, n, a) /\ Flush(RenameScanWrites(r, n, a))
        BY <2>2 DEF AdminRenameScan
      <3> DEFINE p == RenameScanWrites(r, n, a)
      <3>2. p \in Plan /\ Flush(p) BY <3>1, RenameScanType
      <3>3. /\ p.status = Nothing /\ p.link = Nothing /\ p.types = Nothing /\ p.details = Nothing
            /\ p.insert = Nothing /\ p.child = Nothing
            /\ p.appStatus = ResolveWrites(n, r[1], a).appStatus
            /\ p.origin = ResolveWrites(n, r[1], a).origin
        BY DEF RenameScanWrites, ResolveWrites, NoWrites
      <3>4. r[1] \in Gateways /\ ResolvesTo(n, r[1], a) BY <3>1 DEF CanAdminRenameScan, Row
      <3> HIDE DEF p
      <3>5. \A b \in Apps : RowStays(b) \/ RowProposed(b) BY <3>2, <3>3, <3>4, ResolveRows
      <3> QED BY <3>2, <3>3, <3>5, GatesUntouched
    <2> QED BY <1>12, <2>1, <2>2
  <1> QED BY <1>1, <1>2, <1>3, <1>4, <1>5, <1>6, <1>7, <1>8, <1>9, <1>10, <1>11, <1>12 DEF Next

\* The invariant of the life cycle holds in every reachable state.
LEMMA LifeInvariant == ASSUME IntakeAssumption PROVE Spec => []LifeInv
  <1>1. Init => LifeInv
    <2> SUFFICES ASSUME Init PROVE LifeInv OBVIOUS
    <2>1. TypeOK BY InitType
    <2>2. \A g \in Gateways : status[g] = "ABSENT" BY DEF Init
    <2>3. \A r \in Row : child[r] = "NONE" BY DEF Init
    <2>4. \A g \in Gateways, t \in Types : Present(g, t) = {}
      BY <2>3 DEF Present, Row
    <2> QED BY <2>1, <2>2, <2>3, <2>4
            DEF LifeInv, Linked, SubmittedAwaitsAppOwner, RejectedNameHoldsNoPendingChild,
                ChildrenExactlyWhenRaised
  <1>2. LifeInv /\ [Next]_vars => LifeInv'
    <2> SUFFICES ASSUME LifeInv, [Next]_vars PROVE LifeInv' OBVIOUS
    <2>1. TypeOK' BY NextType DEF LifeInv
    <2>2. \A g \in Gateways : GateKeeps(g) \/ GateRaised(g) BY LifeNext
    <2> QED BY <2>1, <2>2, LifeStep
  <1> QED BY <1>1, <1>2, PTL DEF Spec

\* Whatever the handlers do, no request waits for a name that is out of the
\* Application Owners' queue, and no linked request waits at SM under a rejected name.
THEOREM NobodyIsEverStranded == ASSUME IntakeAssumption PROVE Spec => []NobodyIsStranded
  <1>1. LifeInv => NobodyIsStranded BY DEF LifeInv, NobodyIsStranded
  <1> QED BY <1>1, LifeInvariant, PTL

\* A raise creates one linked request of each requested kind, and nothing else does.
THEOREM RaisesExactly == ASSUME IntakeAssumption PROVE Spec => []ChildrenExactlyWhenRaised
  <1>1. LifeInv => ChildrenExactlyWhenRaised BY DEF LifeInv
  <1> QED BY <1>1, LifeInvariant, PTL

----------------------------------------------------------------------------
(* The gateway implements GatewayLifecycle. *)

\* The requests G all move from one status to another, and no other one moves.
Moved(G, from, to) ==
  /\ \A g \in G : status[g] \in from
  /\ \A g \in Gateways : status'[g] = IF g \in G THEN to ELSE status[g]

StatusMoves ==
  \/ \E g \in Gateways : \/ Moved({g}, {"ABSENT"}, "DRAFT") \/ Moved({g}, {"DRAFT"}, "CANCELLED")
                         \/ Moved({g}, {"DRAFT"}, "SUBMITTED")
  \/ \E G \in SUBSET Gateways : \/ Moved(G, {"SUBMITTED"}, "DRAFT")
                                \/ Moved(G, {"DRAFT", "SUBMITTED"}, "RAISED")

\* A commit that writes no status moves nothing.
LEMMA NoMove == ASSUME TypeOK, NEW p, Flush(p), p.status = Nothing PROVE StatusMoves
  <1>1. status' = Over(status, p.status) BY DEF Flush
  <1>2. Moved({}, {"SUBMITTED"}, "DRAFT") BY <1>1 DEF Over, Nothing, Moved, TypeOK
  <1> QED BY <1>2 DEF StatusMoves

\* A commit that writes one status to the requests G moves those.
LEMMA MoveAll ==
  ASSUME TypeOK, NEW p, Flush(p), NEW G \in SUBSET Gateways, NEW to, NEW from,
         p.status = [g \in G |-> to], \A g \in G : status[g] \in from
  PROVE  Moved(G, from, to)
  <1>1. status' = Over(status, p.status) BY DEF Flush
  <1> QED BY <1>1 DEF Over, Moved, TypeOK

\* The only moves of a request's status.
LEMMA NextMoves == ASSUME TypeOK, [Next]_vars PROVE StatusMoves
  <1>1. CASE UNCHANGED vars
    <2>1. Moved({}, {"SUBMITTED"}, "DRAFT") BY <1>1 DEF vars, Moved
    <2> QED BY <2>1 DEF StatusMoves
  <1>2. ASSUME NEW g \in Gateways, Create(g) PROVE StatusMoves
    <2>1. PICK n \in Names, a \in Apps, ts \in SUBSET Types, d \in {"INCOMPLETE", "COMPLETE"} :
            CanCreate(g, n, a) /\ Flush(CreateWrites(g, n, a, ts, d))
      BY <1>2 DEF Create
    <2>2. CreateWrites(g, n, a, ts, d).status = [x \in {g} |-> "DRAFT"]
      <3>1. CreateWrites(g, n, a, ts, d).status = One(g, "DRAFT") BY DraftDelegation
      <3> QED BY <3>1 DEF One
    <2>3. Moved({g}, {"ABSENT"}, "DRAFT") BY <2>1, <2>2, MoveAll DEF CanCreate
    <2> QED BY <2>3 DEF StatusMoves
  <1>3. ASSUME NEW g \in Gateways, NEW u \in Users,
               Edit(g, u) \/ Cancel(g, u) \/ Submit(g, u) \/ AdminRelink(g, u)
        PROVE  StatusMoves
    <2>1. CASE Edit(g, u) \/ AdminRelink(g, u)
      BY <2>1, DraftDelegation, RelinkDelegation, NoMove DEF Edit, AdminRelink
    <2>2. CASE Cancel(g, u)
      <3>1. CancelWrites(g).status = [x \in {g} |-> "CANCELLED"] BY DEF CancelWrites, NoWrites, One
      <3>2. Moved({g}, {"DRAFT"}, "CANCELLED")
        BY <2>2, <3>1, MoveAll DEF Cancel, CanCancel, OwnsDraft
      <3> QED BY <3>2 DEF StatusMoves
    <2>3. CASE Submit(g, u)
      <3>1. status[g] = "DRAFT" /\ Flush(SubmitWrites(g))
        BY <2>3 DEF Submit, CanSubmit, OwnsDraft
      <3>2. CASE appStatus[link[g]] = "PENDING_APP_OWNER"
        <4>1. SubmitWrites(g).status = [x \in {g} |-> "SUBMITTED"]
          BY <3>2 DEF SubmitWrites, NoWrites, One
        <4>2. Moved({g}, {"DRAFT"}, "SUBMITTED") BY <3>1, <4>1, MoveAll
        <4> QED BY <4>2 DEF StatusMoves
      <3>3. CASE appStatus[link[g]] # "PENDING_APP_OWNER"
        <4>1. SubmitWrites(g).status = [x \in {g} |-> "RAISED"]
          BY <3>3 DEF SubmitWrites, FinalizeWrites, NoWrites
        <4>2. Moved({g}, {"DRAFT", "SUBMITTED"}, "RAISED") BY <3>1, <4>1, MoveAll
        <4>3. {g} \in SUBSET Gateways OBVIOUS
        <4> QED BY <4>2, <4>3 DEF StatusMoves
      <3> QED BY <3>2, <3>3
    <2> QED BY <1>3, <2>1, <2>2, <2>3
  <1>4. ASSUME NEW t \in Target, NEW u \in Users,
               AssignForInput(t, u) \/ ReturnDelegated(t, u) \/ RecallDelegated(t, u)
        PROVE  StatusMoves
    <2>1. \A v \in Users : AssignWrites(t, v).status = Nothing /\ CloseWrites(t).status = Nothing
      BY DEF AssignWrites, CloseWrites, NoWrites
    <2> QED BY <1>4, <2>1, NoMove DEF AssignForInput, ReturnDelegated, RecallDelegated
  <1>5. ASSUME NEW p, Flush(p), NEW A, p.status = [g \in Waiting(A) |-> "RAISED"]
        PROVE  StatusMoves
    <2>1. Waiting(A) \in SUBSET Gateways /\ \A g \in Waiting(A) : status[g] \in {"DRAFT", "SUBMITTED"}
      BY DEF Waiting
    <2>2. Moved(Waiting(A), {"DRAFT", "SUBMITTED"}, "RAISED") BY <1>5, <2>1, MoveAll
    <2> QED BY <2>1, <2>2 DEF StatusMoves
  <1>6. ASSUME NEW a \in Apps, NEW u \in Users,
               \/ AppOwnerApprove(a, u) \/ AppOwnerReject(a, u)
               \/ SMApproveName(a, u) \/ SMRejectName(a, u) \/ RenameApplication(a, u)
        PROVE  StatusMoves
    <2>1. CASE AppOwnerApprove(a, u)
      <3>1. ApproveWrites({a}).status = [g \in Waiting({a}) |-> "RAISED"]
        BY DEF ApproveWrites, FinalizeWrites, NoWrites
      <3> QED BY <2>1, <3>1, <1>5 DEF AppOwnerApprove
    <2>2. CASE AppOwnerReject(a, u)
      <3>1. RejectWrites(a).status = [g \in Waiting({a}) |-> "DRAFT"] BY DEF RejectWrites, NoWrites
      <3>2. Waiting({a}) \in SUBSET Gateways /\ \A g \in Waiting({a}) : status[g] \in {"SUBMITTED"}
        BY DEF Waiting
      <3>3. Moved(Waiting({a}), {"SUBMITTED"}, "DRAFT")
        BY <2>2, <3>1, <3>2, MoveAll DEF AppOwnerReject
      <3> QED BY <3>2, <3>3 DEF StatusMoves
    <2>3. CASE SMApproveName(a, u) \/ SMRejectName(a, u) \/ RenameApplication(a, u)
      BY <2>3, DecisionDelegation, NoMove DEF SMApproveName, SMRejectName, RenameApplication
    <2> QED BY <1>6, <2>1, <2>2, <2>3
  <1>7. ASSUME NEW a \in Apps, CreateProject(a) PROVE StatusMoves
    BY <1>7, DecisionDelegation, NoMove DEF CreateProject
  <1>8. ASSUME NEW u \in Users, BulkSeed(u) PROVE StatusMoves
    <2>1. PICK S \in SUBSET Names : \E f \in [S -> Apps] : Flush(BulkSeedWrites(f))
      BY <1>8 DEF BulkSeed
    <2>2. PICK f \in [S -> Apps] : Flush(BulkSeedWrites(f)) BY <2>1
    <2> DEFINE open == {f[n] : n \in {m \in DOMAIN f : appStatus[f[m]] \in Undecided}}
    <2>3. BulkSeedWrites(f).status = [g \in Waiting(open) |-> "RAISED"]
      BY DEF BulkSeedWrites, ApproveWrites, FinalizeWrites, NoWrites
    <2> HIDE DEF open
    <2> QED BY <2>2, <2>3, <1>5
  <1>9. ASSUME NEW r \in Row, NEW u \in Users,
               SMApprove(r, u) \/ SMSendBack(r, u) \/ Resubmit(r, u) \/ AdminRenameScan(r, u)
        PROVE  StatusMoves
    BY <1>9, ChildDelegation, NoMove DEF SMApprove, SMSendBack, Resubmit, AdminRenameScan
  <1> QED BY <1>1, <1>2, <1>3, <1>4, <1>6, <1>7, <1>8, <1>9 DEF Next

\* The linked requests of a gateway, as GatewayLifecycle sees them.
Work == [g \in Gateways |-> {x \in Types \X Copies : child[<<g, x[1], x[2]>>] # "NONE"}]

\* A request that keeps what is raised keeps its work; a raised one has one of a kind.
LEMMA WorkStep ==
  ASSUME NEW g \in Gateways
  PROVE  /\ GateKeeps(g) => Work'[g] = Work[g]
         /\ GateRaised(g) => L!OneOfAKind(Work'[g])
  <1>1. \A x \in Types \X Copies : /\ <<g, x[1], x[2]>> \in Row
                                   /\ <<g, x[1], x[2]>>[1] = g /\ <<g, x[1], x[2]>>[3] = x[2]
                                   /\ x = <<x[1], x[2]>>
    BY DEF Row
  <1>2. ASSUME GateKeeps(g) PROVE Work'[g] = Work[g]
    <2>1. \A x \in Types \X Copies : child'[<<g, x[1], x[2]>>] = "NONE" <=> child[<<g, x[1], x[2]>>] = "NONE"
      BY <1>1, <1>2 DEF GateKeeps
    <2> QED BY <2>1 DEF Work
  <1>3. ASSUME GateRaised(g) PROVE L!OneOfAKind(Work'[g])
    <2>1. \A x \in Work'[g] : x \in Types \X Copies /\ x[2] = 1
      BY <1>1, <1>3 DEF GateRaised, Work
    <2> QED BY <2>1, <1>1 DEF L!OneOfAKind
  <1> QED BY <1>2, <1>3

\* Every step of the gateway is a step of its life cycle, or none.
LEMMA LifecycleStep ==
  ASSUME IntakeAssumption, LifeInv, [Next]_vars PROVE [L!LNext]_(L!lvars)
  <1>1. status \in [Gateways -> GatewayStatus] /\ status' \in [Gateways -> GatewayStatus]
    BY NextType DEF LifeInv, TypeOK
  <1>2. \A g \in Gateways : GateKeeps(g) \/ GateRaised(g) BY LifeNext
  <1>3. /\ Work \in [Gateways -> SUBSET (Types \X Copies)]
        /\ Work' \in [Gateways -> SUBSET (Types \X Copies)]
    BY DEF Work
  <1>4. ASSUME NEW G, NEW from, NEW to, Moved(G, from, to)
        PROVE  L!Move(G, from, to)
    BY <1>1, <1>4 DEF Moved, L!Move
  <1>5. ASSUME NEW G, NEW from, NEW to, Moved(G, from, to), to # "RAISED", "RAISED" \notin from
        PROVE  Work' = Work
    <2>1. \A g \in Gateways : status'[g] = "RAISED" => status[g] = "RAISED" BY <1>5 DEF Moved
    <2>2. \A g \in Gateways : GateKeeps(g) BY <1>2, <2>1 DEF GateRaised
    <2>3. \A g \in Gateways : Work'[g] = Work[g] BY <2>2, WorkStep
    <2> QED BY <2>3, <1>3
  <1>6. ASSUME NEW G \in SUBSET Gateways, Moved(G, {"DRAFT", "SUBMITTED"}, "RAISED")
        PROVE  L!Raise(G)
    <2>1. ASSUME NEW g \in Gateways
          PROVE  IF g \in G THEN L!OneOfAKind(Work'[g]) ELSE Work'[g] = Work[g]
      <3>1. CASE g \in G
        <4>1. status'[g] = "RAISED" /\ status[g] # "RAISED" BY <1>6, <3>1 DEF Moved
        <4>2. GateRaised(g) BY <1>2, <4>1 DEF GateKeeps
        <4> QED BY <3>1, <4>2, WorkStep
      <3>2. CASE g \notin G
        <4>1. status'[g] = status[g] BY <1>6, <3>2 DEF Moved
        <4>2. GateKeeps(g) BY <1>2, <4>1 DEF GateRaised
        <4> QED BY <3>2, <4>2, WorkStep
      <3> QED BY <3>1, <3>2
    <2> QED BY <1>3, <1>4, <1>6, <2>1 DEF L!Raise, Work
  <1>7. ASSUME NEW g \in Gateways, Moved({g}, {"ABSENT"}, "DRAFT") PROVE L!Draft(g)
    BY <1>4, <1>5, <1>7 DEF L!Draft, Work
  <1>8. ASSUME NEW g \in Gateways, Moved({g}, {"DRAFT"}, "CANCELLED") PROVE L!Drop(g)
    BY <1>4, <1>5, <1>8 DEF L!Drop, Work
  <1>9. ASSUME NEW g \in Gateways, Moved({g}, {"DRAFT"}, "SUBMITTED") PROVE L!Wait(g)
    BY <1>4, <1>5, <1>9 DEF L!Wait, Work
  <1>10. ASSUME NEW G \in SUBSET Gateways, Moved(G, {"SUBMITTED"}, "DRAFT") PROVE L!GiveBack(G)
    BY <1>4, <1>5, <1>10 DEF L!GiveBack, Work
  <1>11. StatusMoves BY NextMoves DEF LifeInv
  <1> QED BY <1>6, <1>7, <1>8, <1>9, <1>10, <1>11 DEF StatusMoves, L!LNext

\* The gateway keeps the promise of its life cycle: a draft is dropped, or raised at
\* once or after a wait that may also give it back; raising creates the linked
\* requests in one step, one of a kind, and none is added later.
THEOREM GatewayImplementsLifecycle == ASSUME IntakeAssumption PROVE Spec => ImplementsLifecycle
  <1>1. Init => L!LInit
    <2>1. ASSUME Init PROVE \A g \in Gateways : Work[g] = {}
      BY <2>1 DEF Init, Work, Row
    <2> QED BY <2>1 DEF Init, L!LInit, Work
  <1>2. LifeInv /\ [Next]_vars => [L!LNext]_(L!lvars) BY LifecycleStep
  <1> QED BY <1>1, <1>2, LifeInvariant, PTL DEF Spec, ImplementsLifecycle, L!LSpec

----------------------------------------------------------------------------
(* What the page offers. *)

\* Nothing the page offers is refused: the page asks what the handler asks.
LEMMA OffersAccepted == ASSUME IntakeAssumption PROVE GatewayOffersAreAccepted
  <1>1. \A g \in Gateways : Gate(g) \notin Row /\ Gate(g)[1] = g BY GateFacts
  <1>2. ASSUME NEW g \in Gateways, NEW u \in Users, NEW v \in Users, ShowsDelegate(g, u, v)
        PROVE  CanAssign(Gate(g), u, v)
    BY <1>1, <1>2
    DEF ShowsDelegate, IsRequester, HasActiveDelegation, CanAssign, OwnerOrAdmin, WithRequester
  <1>3. ASSUME NEW g \in Gateways, NEW u \in Users
        PROVE  /\ ShowsSubmit(g, u) => CanSubmit(g, u)
               /\ ShowsCancel(g, u) => CanCancel(g, u)
    BY DEF ShowsSubmit, CanSubmit, ShowsCancel, CanCancel, OwnsDraft, OwnerOrAdmin, IsRequester,
           HasActiveDelegation
  <1>4. ASSUME NEW g \in Gateways, NEW u \in Users, ShowsEdit(g, u)
        PROVE  CanEdit(g, u, reqName[g], link[g])
    BY <1>4 DEF ShowsEdit, Writes, CanEdit, CanEditDraft, IsActiveDelegate, HasActiveDelegation
  <1>5. ASSUME NEW g \in Gateways, NEW u \in Users
        PROVE  /\ ShowsRecall(g, u) => CanRecall(Gate(g), u)
               /\ ShowsReturn(g, u) => CanReturn(Gate(g), u)
    BY <1>1 DEF ShowsRecall, ShowsReturn, CanRecall, CanReturn, IsRequester, OwnerOrAdmin,
                IsActiveDelegate, HasActiveDelegation
  <1>6. ASSUME NEW g \in Gateways, NEW u \in Users, ShowsUpload(g, u)
        PROVE  MayUploadDocuments(g, u)
    BY <1>6 DEF ShowsUpload, Writes, MayUploadDocuments, IsActiveDelegate, HasActiveDelegation
  <1>7. ASSUME NEW g \in Gateways, NEW u \in Users, ShowsNameDecision(g, u)
        PROVE  CanAppOwnerDecide(link[g], u) \/ CanSMDecideName(link[g], u)
    BY <1>7 DEF ShowsNameDecision, CanAppOwnerDecide, CanSMDecideName
  <1> QED BY <1>2, <1>3, <1>4, <1>5, <1>6, <1>7 DEF GatewayOffersAreAccepted

\* Whoever a request waits for is offered the next step. That a delegate is somebody,
\* that a waiting name is the Application Owners' and that only a raise creates linked
\* requests are facts about every reachable state, not about the page.
LEMMA SomebodyOffered ==
  ASSUME IntakeAssumption, TypeOK, NobodyIsStranded, ChildrenExactlyWhenRaised
  PROVE  SomebodyIsOffered
  <1>1. ASSUME NEW g \in Gateways, status[g] = "DRAFT"
        PROVE  \E u \in Users : Sees(g, u) /\ ShowsEdit(g, u)
    <2>1. CASE deleg[Gate(g)] = <<>>
      <3>1. Owner[g] \in Users BY DEF IntakeAssumption
      <3> QED BY <1>1, <2>1, <3>1
              DEF Sees, ShowsEdit, Writes, IsRequester, IsActiveDelegate, HasActiveDelegation
    <2>2. CASE deleg[Gate(g)] # <<>>
      <3>1. Gate(g) \in Target BY DEF Target
      <3>2. deleg[Gate(g)] \in Seq(Users) BY <3>1 DEF TypeOK
      <3>3. Head(deleg[Gate(g)]) \in Users BY <2>2, <3>2, HeadTailProperties
      <3> QED BY <1>1, <2>2, <3>3
              DEF Sees, ShowsEdit, Writes, IsActiveDelegate, HasActiveDelegation, Delegate
    <2> QED BY <2>1, <2>2
  <1>2. ASSUME NEW g \in Gateways, HasActiveDelegation(g) PROVE ShowsRecall(g, Owner[g])
    BY <1>2 DEF ShowsRecall, IsRequester
  <1>3. ASSUME NEW g \in Gateways, status[g] = "SUBMITTED", NEW u \in AppOwners
        PROVE  Sees(g, u) /\ ShowsNameDecision(g, u)
    <2>1. appStatus[link[g]] = "PENDING_APP_OWNER"
      BY <1>3 DEF NobodyIsStranded, SubmittedAwaitsAppOwner
    <2> QED BY <1>3, <2>1 DEF Sees, ShowsNameDecision
  <1>4. ASSUME NEW g \in Gateways, LinkedRows(g) # {} PROVE StageIndex(g) = 2
    <2>1. PICK r \in Row : r[1] = g /\ child[r] # "NONE" BY <1>4 DEF LinkedRows
    <2>2. r[2] \in Types /\ r[3] \in Copies /\ r = <<g, r[2], r[3]>> BY <2>1 DEF Row
    <2>3. Present(g, r[2]) # {} BY <2>1, <2>2 DEF Present
    <2>4. status[g] = "RAISED" BY <2>2, <2>3 DEF ChildrenExactlyWhenRaised
    <2> QED BY <2>4 DEF StageIndex
  <1> QED BY <1>1, <1>2, <1>3, <1>4 DEF SomebodyIsOffered

\* The page of a request and the server agree, in every state the handlers lead to:
\* nothing is offered that is refused, and a draft, a delegated draft, a request that
\* waits for its name and a raised one each show somebody the way on.
THEOREM GatewayPageAlwaysAgrees == ASSUME IntakeAssumption PROVE Spec => []GatewayPageAgrees
  <1>1. TypeOK /\ NobodyIsStranded /\ ChildrenExactlyWhenRaised => GatewayPageAgrees
    BY OffersAccepted, SomebodyOffered DEF GatewayPageAgrees
  <1> QED BY <1>1, TypeCorrect, NobodyIsEverStranded, RaisesExactly, PTL

=============================================================================
