------------------------------- MODULE Intake -------------------------------
(***************************************************************************)
(* The QA Request gateway (routers/qa_requests.py), the Application Name   *)
(* Master it depends on (application_names.py, routers/applications.py)    *)
(* and the linked requests a raise creates, up to their SM Approval        *)
(* (routers/functional.py, sast_dast.py, performance.py).                  *)
(*                                                                         *)
(* A variable is a column of the database. A handler is a pair: the        *)
(* condition under which it gets past its HTTPExceptions (Can...) and the  *)
(* write set its SQLAlchemy session flushes at db.commit() (...Writes).    *)
(* Here a handler reads and commits in one step, as it does when no other  *)
(* request runs beside it; IntakeWorkers separates the two.                *)
(***************************************************************************)
EXTENDS Naturals, Sequences

CONSTANTS
  Gateways,       \* QARequest rows that may ever be created
  Apps,           \* ApplicationMaster row ids
  Names,          \* normalised (strip + upper) application names
  Types,          \* kinds of linked request
  Copies,         \* rows of one kind a gateway may have: more than one is a bug
  FunctionalType, \* the kind whose edit form relinks its gateway
  NamedTypes,     \* SAST and Performance: a name column of their own
  Users, Admins, AppOwners, SMs,
  Owner,          \* requester_id of a gateway
  None

ASSUME IntakeAssumption ==
  /\ FunctionalType \in Types
  /\ NamedTypes \subseteq Types
  /\ "QA_REQUEST" \notin Types
  /\ Copies \subseteq Nat \ {0} /\ 1 \in Copies
  /\ Admins \subseteq Users /\ AppOwners \subseteq Users /\ SMs \subseteq Users
  /\ Owner \in [Gateways -> Users]
  /\ None \notin Apps \cup Names \cup Gateways \cup Users

VARIABLES
  status, link, reqName, types, details, numbered, \* qap_requests
  appStatus, appName, origin,                      \* qap_application_master
  child, childName,                                \* the linked requests
  deleg,                                           \* ACTIVE qap_request_delegations
  projects                                         \* rows a TestProject refers to

vars == <<status, link, reqName, types, details, numbered, appStatus, appName,
          origin, child, childName, deleg, projects>>

----------------------------------------------------------------------------
GatewayStatus == {"ABSENT", "DRAFT", "SUBMITTED", "RAISED", "CANCELLED"}

\* draft_child_details: what the wizard stashed. COMPLETE passes every gate of
\* submit_request (mandatory checklist items, environments); a raise consumes it.
Details == {"INCOMPLETE", "COMPLETE", "CONSUMED"}

AppStatus == {"UNUSED", "PENDING_APP_OWNER", "PENDING_SM", "APPROVED",
              "REJECTED", "DELETED"}
Undecided == {"PENDING_APP_OWNER", "PENDING_SM"}

\* The part of a linked request's life that the application name governs.
ChildStatus == {"NONE", "SM_APPROVAL_PENDING", "RETURNED_BY_SM", "SM_REJECTED",
                "DEPARTMENT_HEAD_APPROVAL_PENDING"}
Correctable == {"RETURNED_BY_SM", "SM_REJECTED"}

Row     == Gateways \X Types \X Copies
Gate(g) == <<g, "QA_REQUEST", 0>>
Target  == Row \cup {Gate(g) : g \in Gateways}

Live(a) == appStatus[a] \notin {"UNUSED", "DELETED"}

TypeOK ==
  /\ status    \in [Gateways -> GatewayStatus]
  /\ link      \in [Gateways -> Apps \cup {None}]
  /\ reqName   \in [Gateways -> Names \cup {None}]
  /\ types     \in [Gateways -> SUBSET Types]
  /\ details   \in [Gateways -> Details]
  /\ numbered  \in SUBSET Gateways
  /\ appStatus \in [Apps -> AppStatus]
  /\ appName   \in [Apps -> Names \cup {None}]
  /\ origin    \in [Apps -> Gateways \cup {None}]
  /\ child     \in [Row -> ChildStatus]
  /\ childName \in [Row -> Names \cup {None}]
  /\ deleg     \in [Target -> Seq(Users)]
  /\ projects  \in SUBSET Apps

----------------------------------------------------------------------------
\* A write set: for each column, the rows whose value the session changed.
Nothing == [x \in {} |-> None]
One(k, v) == [x \in {k} |-> v]
Dirty(column, k, v) == IF column[k] = v THEN Nothing ELSE One(k, v)
Over(f, p) == [x \in DOMAIN f |-> IF x \in DOMAIN p THEN p[x] ELSE f[x]]

\* cascade holds (old name, new name) of an UPDATE ... WHERE name = old.
NoWrites ==
  [status |-> Nothing, link |-> Nothing, reqName |-> Nothing, types |-> Nothing,
   details |-> Nothing, number |-> {},
   appStatus |-> Nothing, appName |-> Nothing, origin |-> Nothing,
   insert |-> Nothing, child |-> Nothing, childName |-> Nothing,
   open |-> Nothing, close |-> {}, project |-> {}, cascade |-> Nothing]

Renamed(n, p) == IF n \in DOMAIN p.cascade THEN p.cascade[n] ELSE n

\* The row an INSERT of a linked request fills: the first copy not yet there.
Inserted(r, p) ==
  /\ <<r[1], r[2]>> \in DOMAIN p.insert
  /\ child[r] = "NONE"
  /\ \A i \in Copies : i < r[3] => child[<<r[1], r[2], i>>] # "NONE"

\* The ACTIVE delegations of t: the loaded one closed, a new one added.
DelegationRows(t, p) ==
  LET kept == IF t \in p.close /\ deleg[t] # <<>> THEN Tail(deleg[t]) ELSE deleg[t]
  IN IF t \in DOMAIN p.open THEN Append(kept, p.open[t]) ELSE kept

Flush(p) ==
  /\ status'    = Over(status, p.status)
  /\ link'      = Over(link, p.link)
  /\ reqName'   = [g \in Gateways |-> Renamed(Over(reqName, p.reqName)[g], p)]
  /\ types'     = Over(types, p.types)
  /\ details'   = Over(details, p.details)
  /\ numbered'  = numbered \cup p.number
  /\ appStatus' = Over(appStatus, p.appStatus)
  /\ appName'   = Over(appName, p.appName)
  /\ origin'    = Over(origin, p.origin)
  /\ child'     = [r \in Row |-> IF Inserted(r, p) THEN "SM_APPROVAL_PENDING"
                                 ELSE Over(child, p.child)[r]]
  /\ childName' = [r \in Row |-> IF Inserted(r, p) THEN p.insert[<<r[1], r[2]>>]
                                 ELSE Renamed(Over(childName, p.childName)[r], p)]
  /\ deleg'     = [t \in Target |-> DelegationRows(t, p)]
  /\ projects'  = projects \cup p.project

----------------------------------------------------------------------------
OwnerOrAdmin(g, u) == u = Owner[g] \/ u \in Admins
Delegate(t) == IF deleg[t] = <<>> THEN None ELSE Head(deleg[t])

NamedRow(a, n) == Live(a) /\ appName[a] = n
FreeRow(a, n)  == appStatus[a] = "UNUSED" /\ \A b \in Apps : ~NamedRow(b, n)

\* (Operators named Bug... are not part of the specification: each one is what
\* the definition after it would be with a mistake in the code.)
BugProposesAgain(n, g, a) == NamedRow(a, n) \/ FreeRow(a, n)

\* resolve_application_name: a is the row that name n leads g to. A REJECTED
\* row that g itself introduced is refused.
ResolvesTo(n, g, a) ==
  \/ NamedRow(a, n) /\ ~(appStatus[a] = "REJECTED" /\ origin[a] = g)
  \/ FreeRow(a, n)

\* A new row, or a REJECTED one another request proposes again, waits for the
\* Application Owner; any other row is used as it is.
ResolveWrites(n, g, a) ==
  IF appStatus[a] \in {"UNUSED", "REJECTED"}
  THEN [NoWrites EXCEPT !.appStatus = One(a, "PENDING_APP_OWNER"),
                        !.appName   = Dirty(appName, a, n),
                        !.origin    = Dirty(origin, a, g)]
  ELSE NoWrites

BugOrphanForMe(old, g) == old # None /\ appStatus[old] \in Undecided

\* cleanup_orphaned_application_master: nothing else needs the row g just left.
Orphaned(old, g) ==
  /\ old # None
  /\ appStatus[old] \in Undecided
  /\ \A h \in Gateways \ {g} : link[h] # old
  /\ old \notin projects

RelinkWrites(n, g, a) ==
  LET old == link[g]
      w   == ResolveWrites(n, g, a)
  IN [w EXCEPT !.reqName = One(g, n),
               !.link = Dirty(link, g, a),
               !.appStatus = IF Orphaned(old, g)
                             THEN [x \in {old} \cup DOMAIN w.appStatus |->
                                     IF x = old THEN "DELETED" ELSE w.appStatus[x]]
                             ELSE w.appStatus]

\* _sync_linked_child_requests: "only creates what's missing".
Missing(G) ==
  {c \in G \X Types : /\ c[2] \in types[c[1]]
                      /\ \A i \in Copies : child[<<c[1], c[2], i>>] = "NONE"}

\* _finalize_child_requests for the gateways G. _raise_child_to_sm would start a
\* child at SM_REJECTED under a REJECTED name; both callers rule that out.
FinalizeWrites(G) ==
  [NoWrites EXCEPT
     !.status  = [g \in G |-> "RAISED"],
     !.details = [g \in G |-> "CONSUMED"],
     !.insert  = [c \in Missing(G) |->
                    IF c[2] \in NamedTypes THEN reqName[c[1]] ELSE None]]

Using(a)   == {g \in Gateways : link[g] = a}
Waiting(A) == {g \in Gateways : link[g] \in A /\ status[g] = "SUBMITTED"}

\* _auto_reject_linked_requests for the gateways G.
AtSM(G) == {r \in Row : r[1] \in G /\ child[r] = "SM_APPROVAL_PENDING"}

----------------------------------------------------------------------------
(* The requester's gateway. *)

CanCreate(g, n, a) == status[g] = "ABSENT" /\ ResolvesTo(n, g, a)
CreateWrites(g, n, a, ts, d) ==
  [ResolveWrites(n, g, a) EXCEPT !.status = One(g, "DRAFT"), !.link = One(g, a),
                                 !.reqName = One(g, n), !.types = One(g, ts),
                                 !.details = One(g, d)]

BugEditAnyTime(g, u) ==
  u \in Admins \/ u = IF deleg[Gate(g)] # <<>> THEN Delegate(Gate(g)) ELSE Owner[g]

\* _can_edit_draft: while it is delegated only the delegate (or an admin).
CanEditDraft(g, u) ==
  /\ status[g] = "DRAFT"
  /\ u \in Admins \/ u = IF deleg[Gate(g)] # <<>> THEN Delegate(Gate(g)) ELSE Owner[g]

\* Relinks only when the submitted name differs from the request's own column.
CanEdit(g, u, n, a) ==
  CanEditDraft(g, u) /\ IF n = reqName[g] THEN a = link[g] ELSE ResolvesTo(n, g, a)
EditWrites(g, n, a, ts, d) ==
  [(IF n = reqName[g] THEN NoWrites ELSE RelinkWrites(n, g, a))
     EXCEPT !.types = Dirty(types, g, ts), !.details = Dirty(details, g, d)]

BugIgnoresDelegate(g, u) == OwnerOrAdmin(g, u) /\ status[g] = "DRAFT"
BugIgnoresStatus(g, u)   == OwnerOrAdmin(g, u) /\ deleg[Gate(g)] = <<>>

\* The check cancel_request and submit_request share.
OwnsDraft(g, u) ==
  OwnerOrAdmin(g, u) /\ deleg[Gate(g)] = <<>> /\ status[g] = "DRAFT"

CanCancel(g, u) == OwnsDraft(g, u)
CancelWrites(g) == [NoWrites EXCEPT !.status = One(g, "CANCELLED")]

\* The role the route asks for was asked of the owner when the draft was written; that
\* the source of a bug fix still is one is looked up again, and is left out.
CanSubmit(g, u) ==
  OwnsDraft(g, u) /\ appStatus[link[g]] # "REJECTED" /\ details[g] = "COMPLETE"
SubmitWrites(g) ==
  [(IF appStatus[link[g]] = "PENDING_APP_OWNER"
    THEN [NoWrites EXCEPT !.status = One(g, "SUBMITTED")]
    ELSE FinalizeWrites({g}))
     EXCEPT !.number = {g} \ numbered]

----------------------------------------------------------------------------
(* Delegation, of a gateway or of a linked request. *)

WithRequester(t) ==
  IF t \in Row THEN child[t] \in Correctable ELSE status[t[1]] = "DRAFT"

CanAssign(t, u, v) ==
  OwnerOrAdmin(t[1], u) /\ WithRequester(t) /\ deleg[t] = <<>> /\ v # Owner[t[1]]
AssignWrites(t, v) == [NoWrites EXCEPT !.open = One(t, v)]

CanReturn(t, u) == deleg[t] # <<>> /\ u = Delegate(t)
CanRecall(t, u) == deleg[t] # <<>> /\ OwnerOrAdmin(t[1], u)
CloseWrites(t)  == [NoWrites EXCEPT !.close = {t}]

----------------------------------------------------------------------------
(* The name's decisions. *)

ApproveWrites(A) ==
  [FinalizeWrites(Waiting(A)) EXCEPT !.appStatus = [a \in A |-> "APPROVED"]]

BugLeavesWaiting(a) ==
  [NoWrites EXCEPT !.appStatus = One(a, "REJECTED"),
                   !.child     = [r \in AtSM(Using(a)) |-> "SM_REJECTED"]]

\* A waiting gateway goes back to DRAFT, any other one loses what waits at SM.
RejectWrites(a) ==
  [NoWrites EXCEPT !.appStatus = One(a, "REJECTED"),
                   !.status    = [g \in Waiting({a}) |-> "DRAFT"],
                   !.child     = [r \in AtSM(Using(a) \ Waiting({a})) |-> "SM_REJECTED"]]

CanAppOwnerDecide(a, u) ==
  u \in AppOwners \cup Admins /\ appStatus[a] = "PENDING_APP_OWNER"

\* decide_application_name: rows left at PENDING_SM by the old two-tier flow.
CanSMDecideName(a, u) == u \in SMs \cup Admins /\ appStatus[a] = "PENDING_SM"
SMApproveNameWrites(a) == [NoWrites EXCEPT !.appStatus = One(a, "APPROVED")]
SMRejectNameWrites(a) ==
  [NoWrites EXCEPT !.appStatus = One(a, "REJECTED"),
                   !.child     = [r \in AtSM(Using(a)) |-> "SM_REJECTED"]]

\* bulk_seed_application_names of a workbook that lists the names DOMAIN f: a new
\* row is born APPROVED, an undecided one is approved, any other one untouched.
CanBulkSeed(u, f) ==
  /\ u \in Admins
  /\ \A n \in DOMAIN f : NamedRow(f[n], n) \/ FreeRow(f[n], n)
  /\ \A n, m \in DOMAIN f : f[n] = f[m] => n = m
BulkSeedWrites(f) ==
  LET new  == {n \in DOMAIN f : appStatus[f[n]] = "UNUSED"}
      open == {f[n] : n \in {m \in DOMAIN f : appStatus[f[m]] \in Undecided}}
      rows == {f[n] : n \in new}
  IN [ApproveWrites(open) EXCEPT
        !.appStatus = [a \in rows \cup open |-> "APPROVED"],
        !.appName   = [a \in rows |-> CHOOSE n \in new : f[n] = a],
        !.origin    = [a \in {b \in rows : origin[b] # None} |-> None]]

CanRename(a, n, u) ==
  /\ u \in Admins /\ Live(a) /\ n # appName[a]
  /\ \A b \in Apps \ {a} : ~NamedRow(b, n)
RenameWrites(a, n) ==
  [NoWrites EXCEPT !.appName = One(a, n), !.cascade = One(appName[a], n)]

CanCreateProject(a) == Live(a) /\ a \notin projects
ProjectWrites(a) == [NoWrites EXCEPT !.project = {a}]

----------------------------------------------------------------------------
(* The linked requests, and the two edit forms that touch the name. *)

NameOf(r) == appStatus[link[r[1]]]

CanSMDecide(r, u) ==
  /\ child[r] = "SM_APPROVAL_PENDING"
  /\ u \in Admins \/ (u \in SMs /\ u # Owner[r[1]])
CanSMApprove(r, u) == CanSMDecide(r, u) /\ NameOf(r) = "APPROVED"
SMDecisionWrites(r, s) == [NoWrites EXCEPT !.child = One(r, s)]

CanResubmit(r, u) ==
  OwnerOrAdmin(r[1], u) /\ deleg[r] = <<>> /\ child[r] \in Correctable
BugForgetsRejection(r) == SMDecisionWrites(r, "SM_APPROVAL_PENDING")

ResubmitWrites(r) ==
  [NoWrites EXCEPT !.child = Dirty(child, r, IF NameOf(r) = "REJECTED"
                                             THEN "SM_REJECTED"
                                             ELSE "SM_APPROVAL_PENDING")]

\* update_functional: an admin's edit moves the whole gateway to another name.
CanAdminRelink(g, u, n, a) ==
  /\ u \in Admins /\ n # reqName[g] /\ ResolvesTo(n, g, a)
  /\ \E i \in Copies : child[<<g, FunctionalType, i>>] # "NONE"

\* update_sast, update_performance: the name is resolved but nothing is relinked.
CanAdminRenameScan(r, u, n, a) ==
  /\ u \in Admins /\ r[2] \in NamedTypes /\ child[r] # "NONE"
  /\ n # childName[r] /\ ResolvesTo(n, r[1], a)
RenameScanWrites(r, n, a) ==
  [ResolveWrites(n, r[1], a) EXCEPT !.childName = One(r, n)]

----------------------------------------------------------------------------
\* Rows that predate the one-tier flow may still wait at PENDING_SM.
Init ==
  /\ status = [g \in Gateways |-> "ABSENT"]
  /\ link = [g \in Gateways |-> None]
  /\ reqName = [g \in Gateways |-> None]
  /\ types = [g \in Gateways |-> {}]
  /\ details = [g \in Gateways |-> "INCOMPLETE"]
  /\ numbered = {}
  /\ appStatus \in [Apps -> {"UNUSED", "PENDING_SM"}]
  /\ appName \in [Apps -> Names \cup {None}]
  /\ \A a \in Apps : appName[a] = None <=> appStatus[a] = "UNUSED"
  /\ \A a, b \in Apps : appName[a] = appName[b] /\ appName[a] # None => a = b
  /\ origin = [a \in Apps |-> None]
  /\ child = [r \in Row |-> "NONE"]
  /\ childName = [r \in Row |-> None]
  /\ deleg = [t \in Target |-> <<>>]
  /\ projects = {}

Create(g) ==
  \E n \in Names, a \in Apps, ts \in SUBSET Types, d \in {"INCOMPLETE", "COMPLETE"} :
    CanCreate(g, n, a) /\ Flush(CreateWrites(g, n, a, ts, d))

Edit(g, u) ==
  \E n \in Names, a \in Apps, ts \in SUBSET Types, d \in {"INCOMPLETE", "COMPLETE"} :
    CanEdit(g, u, n, a) /\ Flush(EditWrites(g, n, a, ts, d))

Cancel(g, u) == CanCancel(g, u) /\ Flush(CancelWrites(g))
Submit(g, u) == CanSubmit(g, u) /\ Flush(SubmitWrites(g))

AssignForInput(t, u) == \E v \in Users : CanAssign(t, u, v) /\ Flush(AssignWrites(t, v))
ReturnDelegated(t, u) == CanReturn(t, u) /\ Flush(CloseWrites(t))
RecallDelegated(t, u) == CanRecall(t, u) /\ Flush(CloseWrites(t))

AppOwnerApprove(a, u) == CanAppOwnerDecide(a, u) /\ Flush(ApproveWrites({a}))
AppOwnerReject(a, u)  == CanAppOwnerDecide(a, u) /\ Flush(RejectWrites(a))
SMApproveName(a, u)   == CanSMDecideName(a, u) /\ Flush(SMApproveNameWrites(a))
SMRejectName(a, u)    == CanSMDecideName(a, u) /\ Flush(SMRejectNameWrites(a))

BulkSeed(u) ==
  \E S \in SUBSET Names : \E f \in [S -> Apps] : CanBulkSeed(u, f) /\ Flush(BulkSeedWrites(f))
RenameApplication(a, u) == \E n \in Names : CanRename(a, n, u) /\ Flush(RenameWrites(a, n))
CreateProject(a) == CanCreateProject(a) /\ Flush(ProjectWrites(a))

SMApprove(r, u) ==
  CanSMApprove(r, u) /\ Flush(SMDecisionWrites(r, "DEPARTMENT_HEAD_APPROVAL_PENDING"))
SMSendBack(r, u) ==
  \E s \in Correctable : CanSMDecide(r, u) /\ Flush(SMDecisionWrites(r, s))
Resubmit(r, u) == CanResubmit(r, u) /\ Flush(ResubmitWrites(r))

AdminRelink(g, u) ==
  \E n \in Names, a \in Apps : CanAdminRelink(g, u, n, a) /\ Flush(RelinkWrites(n, g, a))
AdminRenameScan(r, u) ==
  \E n \in Names, a \in Apps :
    CanAdminRenameScan(r, u, n, a) /\ Flush(RenameScanWrites(r, n, a))

Next ==
  \/ \E g \in Gateways : Create(g)
  \/ \E g \in Gateways, u \in Users :
       Edit(g, u) \/ Cancel(g, u) \/ Submit(g, u) \/ AdminRelink(g, u)
  \/ \E t \in Target, u \in Users :
       AssignForInput(t, u) \/ ReturnDelegated(t, u) \/ RecallDelegated(t, u)
  \/ \E a \in Apps, u \in Users :
       \/ AppOwnerApprove(a, u) \/ AppOwnerReject(a, u)
       \/ SMApproveName(a, u) \/ SMRejectName(a, u) \/ RenameApplication(a, u)
  \/ \E a \in Apps : CreateProject(a)
  \/ \E u \in Users : BulkSeed(u)
  \/ \E r \in Row, u \in Users :
       SMApprove(r, u) \/ SMSendBack(r, u) \/ Resubmit(r, u) \/ AdminRenameScan(r, u)

Spec == Init /\ [][Next]_vars

\* Somebody with the Application Owner role works off the queue of pending names.
AppOwnersDecide ==
  \A a \in Apps : WF_vars(\E u \in Users : AppOwnerApprove(a, u) \/ AppOwnerReject(a, u))

----------------------------------------------------------------------------
(* Properties *)

Present(g, t) == {i \in Copies : child[<<g, t, i>>] # "NONE"}

\* A request that waits (SUBMITTED) waits for a decision that can still come: its
\* name is in the Application Owners' queue, and it passed every gate of submit.
\* decide_app_owner_name: "'awaiting approval forever' isn't a real state".
SubmittedAwaitsAppOwner ==
  \A g \in Gateways : status[g] = "SUBMITTED" =>
    /\ link[g] # None /\ appStatus[link[g]] = "PENDING_APP_OWNER"
    /\ details[g] = "COMPLETE" /\ g \in numbered

\* A raise creates one linked request per requested kind and nothing else ever
\* does: none before it, no second one, none of a kind that was not asked for.
ChildrenExactlyWhenRaised ==
  \A g \in Gateways, t \in Types :
    IF status[g] = "RAISED" /\ t \in types[g]
    THEN \E i \in Copies : Present(g, t) = {i}
    ELSE Present(g, t) = {}

\* At most one ACTIVE delegation per target, to somebody else than the requester,
\* and only while the target is with its requester: no handler moves a delegated
\* draft or a delegated correction on.
DelegationMatchesStage ==
  \A t \in Target : deleg[t] # <<>> =>
    /\ Len(deleg[t]) = 1 /\ deleg[t][1] # Owner[t[1]]
    /\ WithRequester(t)

\* No linked request waits at SM under a rejected name (SM could not approve it).
RejectedNameHoldsNoPendingChild ==
  \A r \in Row : child[r] = "SM_APPROVAL_PENDING" =>
    link[r[1]] # None /\ NameOf(r) # "REJECTED"

\* References to the name master never dangle, its names stay unique, and the
\* name a request shows is the name of the row it is linked to, through every
\* relink, orphan cleanup, re-proposal, bulk seed and cascading rename.
NamesAgree ==
  /\ \A g \in Gateways : link[g] # None => NamedRow(link[g], reqName[g])
  /\ \A a \in projects : Live(a)
  /\ \A a, b \in Apps : Live(a) /\ NamedRow(b, appName[a]) => a = b

\* An approval of a name is never undone, by any path that resolves, seeds,
\* cleans up or decides names (models.py, ApplicationMaster: "terminal").
ApprovalIsFinal ==
  [][\A a \in Apps : appStatus[a] = "APPROVED" => appStatus'[a] = "APPROVED"]_vars

\* A rejected name comes back to the queue only through another request than
\* the one that introduced it (resolve_application_name's 400).
RejectionBindsItsRequest ==
  [][\A a \in Apps :
       appStatus[a] = "REJECTED" /\ appStatus'[a] # "REJECTED"
         => /\ appStatus'[a] = "PENDING_APP_OWNER"
            /\ origin'[a] \in Gateways \ {origin[a]}]_vars

\* Nobody waits for ever: neither a request for a name that is not in the Application
\* Owners' queue, nor a linked request at SM under a rejected name.
NobodyIsStranded == SubmittedAwaitsAppOwner /\ RejectedNameHoldsNoPendingChild

\* What was decided of a name stands, against every later resolve, cleanup, seed,
\* rename and decision: an approval for ever, a rejection for the one who asked.
DecisionsBind == ApprovalIsFinal /\ RejectionBindsItsRequest

\* Whoever waits is answered, if the Application Owners keep deciding: nothing
\* else (relinks, cleanups, renames, projects) takes the name out of their hands.
SubmittedIsAnswered ==
  \A g \in Gateways : status[g] = "SUBMITTED" ~> status[g] # "SUBMITTED"

\* The gateway implements GatewayLifecycle.
L == INSTANCE GatewayLifecycle WITH
       stage <- status,
       work  <- [g \in Gateways |-> {x \in Types \X Copies : child[<<g, x[1], x[2]>>] # "NONE"}]

ImplementsLifecycle == L!LSpec

=============================================================================
