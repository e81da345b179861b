---------------------------- MODULE IntakeSerial ----------------------------
(* IntakeWorkers with a history: which threads run as if they were alone. It is *)
(* what connects the threads with Intake, where a handler is one step.          *)
EXTENDS IntakeWorkers

VARIABLE undisturbed  \* history: the threads that nobody's commit came between

swvars == <<wvars, undisturbed>>

Goes(w)   == UNCHANGED undisturbed
Starts(w) == undisturbed' = undisturbed \cup {w}
Ends(w)   == undisturbed' = {v \in Workers : txn'[v].phase = "idle"}

SerialInit == WInit /\ undisturbed = Workers

SerialNext ==
  \E w \in Workers :
    \/ \E g \in Gateways : ReadGateway(w, g) /\ Starts(w)
    \/ \E t \in Target : ReadDelegation(w, t) /\ Starts(w)
    \/ \E a \in Apps : ReadName(w, a) /\ Starts(w)
    \/ ReadSeed(w) /\ Starts(w)
    \/ \E r \in Row : ReadChild(w, r) /\ Starts(w)
    \/ (Claim(w) \/ Lock(w)) /\ Goes(w)
    \/ Commit(w) /\ Ends(w)
    \/ (Rollback(w) \/ Refused(w)) /\ Goes(w)

SerialSpec == SerialInit /\ [][SerialNext]_swvars /\ ThreadsRun

\* A thread that no other one's commit came between, from its reads to its own
\* commit, does what Intake's handlers do: the error and locking paths of the
\* threads, and the late lookup of submit, add nothing to Intake and lose nothing.
CommitsAreSerial ==
  [][\A w \in undisturbed : txn[w].phase # "idle" /\ txn'[w].phase = "idle" =>
       Next \/ UNCHANGED vars]_swvars

=============================================================================
