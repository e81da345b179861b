--------------------------- MODULE IntakeWorkers ----------------------------
(***************************************************************************)
(* Intake with the request threads told apart. A thread reads what its     *)
(* handler checks and builds its write set from that (READ COMMITTED,      *)
(* autoflush off, no version column), and commits later, when the rows may *)
(* have changed. Until then it holds the rows its statements have written, *)
(* the counter row of every business id it has claimed, and, in the six    *)
(* delegation handlers, the row it decided about (SELECT ... FOR UPDATE).  *)
(***************************************************************************)
EXTENDS Intake

CONSTANT Workers  \* request threads, over all worker processes

VARIABLE txn      \* each thread's open session

wvars == <<vars, txn>>

\* submitting: submit_request past its checks, before it claims a request id.
Phase == {"idle", "submitting", "writing"}

\* What a session can lock.
Lockable == Target \cup Apps \cup {<<"COUNTER", k>> : k \in Types \cup {"TQA-REQ"}}

Closed == [phase |-> "idle", plan |-> NoWrites, locks |-> {}]

Others(w) == Workers \ {w}

\* A row of qap_id_counters: TQA-REQ, and one for each kind of linked request.
Counter(prefix) == <<"COUNTER", prefix>>

\* _sync_linked_child_requests flushes a gateway's linked requests in this order.
SyncOrder == <<"FUNCTIONAL", "SAST", "DAST", "PERFORMANCE">>
Earlier(j, k) ==
  \E m, n \in DOMAIN SyncOrder : m < n /\ SyncOrder[m] = j /\ SyncOrder[n] = k

\* Keys a session takes from a sequence: no other session gets them.
Fresh(p) == {a \in DOMAIN p.appStatus : appStatus[a] = "UNUSED"}
              \cup {g \in DOMAIN p.status : status[g] = "ABSENT"}

\* The rows the UPDATEs of p lock.
Touched(p) ==
  {Gate(g) : g \in (DOMAIN p.status \cup DOMAIN p.link \cup DOMAIN p.reqName
                      \cup DOMAIN p.types \cup DOMAIN p.details \cup p.number) \ Fresh(p)}
    \cup DOMAIN p.child \cup DOMAIN p.childName
    \cup {Gate(g) : g \in {h \in Gateways : reqName[h] \in DOMAIN p.cascade}}
    \cup {r \in Row : childName[r] \in DOMAIN p.cascade}
    \cup ((DOMAIN p.appStatus \cup DOMAIN p.appName \cup DOMAIN p.origin) \ Fresh(p))

\* (Bug...: as in Intake.)
BugNoForUpdate(p) == {}

\* The row a delegation handler reads FOR UPDATE.
ForUpdate(p) == DOMAIN p.open \cup p.close

\* The counters the INSERTs of p's linked requests claim, at their flush.
Counters(p) == {Counter(c[2]) : c \in DOMAIN p.insert}

\* What w has still to lock before it can commit.
Wanted(w) ==
  (ForUpdate(txn[w].plan) \cup Touched(txn[w].plan) \cup Counters(txn[w].plan))
    \ txn[w].locks

\* The counters of one gateway's linked requests are claimed in SyncOrder. The order of
\* the gateways (a query without ORDER BY) and of the rows (the ORM's) is left open.
InTurn(w, l) ==
  l \in Counters(txn[w].plan) =>
    \E c \in DOMAIN txn[w].plan.insert :
      /\ l = Counter(c[2])
      /\ \A d \in DOMAIN txn[w].plan.insert :
           d[1] = c[1] /\ Earlier(d[2], c[2]) => Counter(d[2]) \in txn[w].locks

\* gen_id's counter: a request that was given back to Draft keeps its id.
RequestId(p) == IF p.number # {} THEN {Counter("TQA-REQ")} ELSE {}

\* What w may ask for next.
Asked(w) ==
  CASE txn[w].phase = "writing"    -> {l \in Wanted(w) : InTurn(w, l)}
    [] txn[w].phase = "submitting" -> RequestId(txn[w].plan)
    [] txn[w].phase = "idle"       -> {}

Free(w, l) == \A v \in Others(w) : l \notin txn[v].locks

----------------------------------------------------------------------------
Read(w, phase, p) ==
  /\ txn[w].phase = "idle"
  /\ \A l \in ForUpdate(p) : Free(w, l)
  /\ \A v \in Others(w) : Fresh(txn[v].plan) \cap Fresh(p) = {}
  /\ txn' = [txn EXCEPT ![w] = [phase |-> phase, plan |-> p, locks |-> ForUpdate(p)]]
  /\ UNCHANGED vars

ReadGateway(w, g) ==
  \/ \E n \in Names, a \in Apps, ts \in SUBSET Types, d \in {"INCOMPLETE", "COMPLETE"} :
       \/ CanCreate(g, n, a) /\ Read(w, "writing", CreateWrites(g, n, a, ts, d))
       \/ \E u \in Users :
            CanEdit(g, u, n, a) /\ Read(w, "writing", EditWrites(g, n, a, ts, d))
  \/ \E u \in Users :
       \/ CanCancel(g, u) /\ Read(w, "writing", CancelWrites(g))
       \/ CanSubmit(g, u) /\ Read(w, "submitting", SubmitWrites(g))
       \/ \E n \in Names, a \in Apps :
            CanAdminRelink(g, u, n, a) /\ Read(w, "writing", RelinkWrites(n, g, a))

ReadDelegation(w, t) ==
  \E u \in Users :
    \/ \E v \in Users : CanAssign(t, u, v) /\ Read(w, "writing", AssignWrites(t, v))
    \/ CanReturn(t, u) /\ Read(w, "writing", CloseWrites(t))
    \/ CanRecall(t, u) /\ Read(w, "writing", CloseWrites(t))

ReadName(w, a) ==
  \/ \E u \in Users :
       \/ /\ CanAppOwnerDecide(a, u)
          /\ Read(w, "writing", ApproveWrites({a})) \/ Read(w, "writing", RejectWrites(a))
       \/ /\ CanSMDecideName(a, u)
          /\ \/ Read(w, "writing", SMApproveNameWrites(a))
             \/ Read(w, "writing", SMRejectNameWrites(a))
       \/ \E n \in Names : CanRename(a, n, u) /\ Read(w, "writing", RenameWrites(a, n))
  \/ CanCreateProject(a) /\ Read(w, "writing", ProjectWrites(a))

ReadSeed(w) ==
  \E u \in Users, S \in SUBSET Names : \E f \in [S -> Apps] :
    CanBulkSeed(u, f) /\ Read(w, "writing", BulkSeedWrites(f))

ReadChild(w, r) ==
  \E u \in Users :
    \/ /\ CanSMApprove(r, u)
       /\ Read(w, "writing", SMDecisionWrites(r, "DEPARTMENT_HEAD_APPROVAL_PENDING"))
    \/ \E s \in Correctable :
         CanSMDecide(r, u) /\ Read(w, "writing", SMDecisionWrites(r, s))
    \/ CanResubmit(r, u) /\ Read(w, "writing", ResubmitWrites(r))
    \/ \E n \in Names, a \in Apps :
         CanAdminRenameScan(r, u, n, a) /\ Read(w, "writing", RenameScanWrites(r, n, a))

BugLinksNothing(w) ==
  /\ txn[w].phase = "submitting"
  /\ txn' = [txn EXCEPT ![w].phase = "writing", ![w].plan.insert = Nothing]
  /\ UNCHANGED vars

\* The request id is claimed first, and only then are the existing linked requests
\* looked up.
Claim(w) ==
  LET p == txn[w].plan
      absent == {c \in DOMAIN p.insert : \A i \in Copies : child[<<c[1], c[2], i>>] = "NONE"}
  IN /\ txn[w].phase = "submitting"
     /\ \A l \in RequestId(p) : Free(w, l)
     /\ txn' = [txn EXCEPT ![w] = [phase |-> "writing",
                                   plan |-> [p EXCEPT !.insert = [c \in absent |-> p.insert[c]]],
                                   locks |-> txn[w].locks \cup RequestId(p)]]
     /\ UNCHANGED vars

\* A flush writes the next row, or claims the id of the next linked request: the row
\* or the counter stays locked until the session ends.
Lock(w) ==
  /\ txn[w].phase = "writing"
  /\ \E l \in Asked(w) : /\ Free(w, l)
                         /\ txn' = [txn EXCEPT ![w].locks = @ \cup {l}]
  /\ UNCHANGED vars

\* What the database still refuses at commit: a duplicate name, a reference to a
\* deleted row, an update of a deleted row (StaleDataError).
Consistent(p) ==
  LET newStatus == Over(appStatus, p.appStatus)
      newName   == Over(appName, p.appName)
      newLink   == Over(link, p.link)
      live      == {a \in Apps : newStatus[a] \notin {"UNUSED", "DELETED"}}
  IN /\ \A a, b \in live : newName[a] = newName[b] => a = b
     /\ \A g \in Gateways : newLink[g] \in live \cup {None}
     /\ projects \cup p.project \subseteq live
     /\ \A a \in DOMAIN p.appStatus \cup DOMAIN p.appName \cup DOMAIN p.origin :
          appStatus[a] = "DELETED" => newStatus[a] = "DELETED"

MayWrite(w) == txn[w].phase = "writing" /\ Wanted(w) = {}

Commit(w) ==
  /\ MayWrite(w) /\ Consistent(txn[w].plan)
  /\ Flush(txn[w].plan)
  /\ txn' = [txn EXCEPT ![w] = Closed]

\* (The mistake: get_db without its "finally".)
BugStaysOpen(w) == [Closed EXCEPT !.locks = txn[w].locks]

\* get_db closes the session whatever ended the handler, which gives its locks back.
Ended(w) == Closed

\* The handler ends in an error and its session is closed without a commit.
Rollback(w) ==
  /\ MayWrite(w) /\ ~Consistent(txn[w].plan)
  /\ txn' = [txn EXCEPT ![w] = Ended(w)]
  /\ UNCHANGED vars

\* Sessions that wait for nothing but each other.
Circle(C) ==
  \A v \in C : /\ Asked(v) # {}
              /\ \A l \in Asked(v) : \E x \in C \ {v} : l \in txn[x].locks

\* The database refuses one statement of such a circle (ORA-00060): the handler it
\* belongs to ends in an error.
Refused(w) ==
  /\ \E C \in SUBSET Workers : w \in C /\ Circle(C)
  /\ txn' = [txn EXCEPT ![w] = Ended(w)]
  /\ UNCHANGED vars

WInit == Init /\ txn = [w \in Workers |-> Closed]

WNext ==
  \E w \in Workers :
    \/ \E g \in Gateways : ReadGateway(w, g)
    \/ \E t \in Target : ReadDelegation(w, t)
    \/ \E a \in Apps : ReadName(w, a)
    \/ ReadSeed(w)
    \/ \E r \in Row : ReadChild(w, r)
    \/ Claim(w)
    \/ Lock(w)
    \/ Commit(w)
    \/ Rollback(w)
    \/ Refused(w)

WSpec == WInit /\ [][WNext]_wvars

\* A thread that is running goes on, locks are granted in the order of asking, and
\* the database leaves no circle of waiting sessions alone.
ThreadsRun ==
  /\ \A w \in Workers : /\ SF_wvars(Claim(w))
                        /\ SF_wvars(Lock(w))
                        /\ WF_wvars(Commit(w) \/ Rollback(w))
  /\ WF_wvars(\E w \in Workers : Refused(w))

WTypeOK ==
  TypeOK /\ \A w \in Workers : txn[w].phase \in Phase /\ txn[w].locks \subseteq Lockable

----------------------------------------------------------------------------
(* What the locks guarantee, for any number of threads. *)

\* A row is locked by one session; what a session is about to open is not open,
\* what it is about to close is still open. So a return and a recall of one
\* delegation never both close it.
LocksHold ==
  /\ \A v, w \in Workers : v # w => txn[v].locks \cap txn[w].locks = {}
  /\ \A w \in Workers : /\ ForUpdate(txn[w].plan) \subseteq txn[w].locks
                        /\ \A t \in DOMAIN txn[w].plan.open : deleg[t] = <<>>
                        /\ \A t \in txn[w].plan.close : deleg[t] # <<>>

\* Two assignments of one target never both succeed, whoever makes them and
\* whatever the other handlers do meanwhile (assign_for_input, FOR UPDATE).
OneActiveDelegation == \A t \in Target : Len(deleg[t]) <= 1

\* The rows locked FOR UPDATE protect the delegations under any interleaving of the
\* threads: exclusive locks, plans that stay true until their commit, one delegation.
RowLocksSuffice == WTypeOK /\ LocksHold /\ OneActiveDelegation

\* Sessions that hold rows and counters can wait for each other in a circle: a submit
\* and a decision that raises several requests claim the counters of the kinds in
\* opposite orders. The handlers close their sessions however they end, so every request
\* ends all the same, with its answer or with an error.
EveryRequestEnds == \A w \in Workers : txn[w].phase # "idle" ~> txn[w].phase = "idle"

=============================================================================
