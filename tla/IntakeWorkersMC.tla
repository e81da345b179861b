-------------------------- MODULE IntakeWorkersMC ---------------------------
(* An instance of IntakeSerial for TLC. *)
EXTENDS IntakeSerial, TLC

CONSTANTS g1, g2, g3, a1, a2, n1, n2, ana, root, w1, w2

OwnedByAna == [g \in Gateways |-> ana]

\* Which handlers may start keeps the graph small; what a thread has started it may
\* finish. Threads are interchangeable: w1 is the one that starts when none runs. So
\* are the name rows: a1 is the one used first.
Quiet == \A w \in Workers : txn[w].phase = "idle"

\* One request g1 for the name n1: every handler, but no test project, and no request
\* without kinds or with unfinished details, and SM rejects what it sends back.
SmallPlan(p) ==
  /\ \A g \in Gateways \ {g1} : status[g] = "ABSENT" /\ g \notin DOMAIN p.status
  /\ \A a \in Apps : appName[a] # n2
  /\ \A w \in Workers : \A a \in DOMAIN txn[w].plan.appName : txn[w].plan.appName[a] # n2
  /\ appStatus[a2] # "PENDING_SM"
  /\ a2 \in Fresh(p) => appStatus[a1] # "UNUSED" \/ \E w \in Workers : a1 \in Fresh(txn[w].plan)
  /\ \A f \in {p.appName, p.reqName, p.cascade} : \A x \in DOMAIN f : f[x] # n2
  /\ \A g \in DOMAIN p.types : p.types[g] = {"FUNCTIONAL"}
  /\ \A g \in DOMAIN p.details : p.details[g] # "INCOMPLETE"
  /\ \A r \in DOMAIN p.child : p.child[r] # "RETURNED_BY_SM"
  /\ p.project = {} /\ p # NoWrites

\* Three requests: g1 and g2 wait for the name n1, one with each kind; g3 asks for both
\* kinds under the approved name n2. Then the handlers that raise or decide.
Kinds == (g1 :> {"SAST"}) @@ (g2 :> {"FUNCTIONAL"}) @@ (g3 :> {"FUNCTIONAL", "SAST"})
FirstPlan(p) ==
  /\ Quiet /\ \A g \in Gateways : status[g] = "ABSENT"
  /\ \A a \in Apps : appStatus[a] = "UNUSED"
  /\ p = BulkSeedWrites([n \in {n2} |-> a2])
RaisingPlan(p) ==
  /\ appName[a2] = n2 /\ appStatus[a2] = "APPROVED"
  /\ \/ /\ Quiet
        /\ \/ p = CreateWrites(g1, n1, a1, Kinds[g1], "COMPLETE")
           \/ status[g1] # "ABSENT" /\ p = CreateWrites(g2, n1, a1, Kinds[g2], "COMPLETE")
           \/ status[g2] # "ABSENT" /\ p = CreateWrites(g3, n2, a2, Kinds[g3], "COMPLETE")
           \/ status[g3] # "ABSENT" /\ p = SubmitWrites(g1)
           \/ g1 \in numbered /\ p = SubmitWrites(g2)
     \/ /\ {g1, g2} \subseteq numbered
        /\ \/ p \in {SubmitWrites(g3), RejectWrites(a1), ApproveWrites({a1})}
           \/ p = BulkSeedWrites([n \in {n1, n2} |-> IF n = n1 THEN a1 ELSE a2])

Started ==
  \A w \in Workers : txn[w].phase = "idle" /\ txn'[w].phase # "idle" =>
    /\ Quiet => w = w1
    /\ \/ SmallPlan(txn'[w].plan) \/ FirstPlan(txn'[w].plan) \/ RaisingPlan(txn'[w].plan)

=============================================================================
