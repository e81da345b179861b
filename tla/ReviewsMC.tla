----------------------------- MODULE ReviewsMC -----------------------------
(* Instances of the SAST, DAST and Performance Testing requests for TLC. *)
EXTENDS ReviewsPage, TLC

CONSTANTS r1, p1, p2, ana, dev, lea, eng, agm, root

OfAna == [r \in Requests |-> ana]

\* The name changes before QA has the request: that is where it is asked for.
NameAtTheFront ==
  \A r \in Requests : nameStatus'[r] # nameStatus[r] =>
    status[r] \in NotYetAtQA \ {"RETURNED_BY_LEAD"}

\* Suppressions are raised beside a request that may be scanned, once QA has it; beside
\* the others they have nothing to do with it.
RaisedAtWork ==
  (\E p \in Suppressions : supStatus[p] = "ABSENT" /\ supStatus'[p] # "ABSENT") =>
    \E r \in Requests : IsSecurity(r) /\ status[r] \notin NotYetAtQA

Instance == NameAtTheFront /\ RaisedAtWork

SuppressionSymmetry == Permutations(Suppressions)

=============================================================================
