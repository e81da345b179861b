--------------------------- MODULE ReviewRequests ---------------------------
(* SAST, DAST and Performance Testing requests, with their suppressions, whoever *)
(* calls which handler of theirs.                                                *)
EXTENDS Security, Performance

RequestsInit == ReviewsInit /\ SecurityInit

RequestsNext ==
  \/ \E r \in Requests : Raise(r) \/ NameDecided(r)
  \/ \E r \in Requests, u \in Users : FrontStep(r, u) \/ SecurityStep(r, u) \/ PerformanceStep(r, u)
  \/ \E p \in Suppressions, u \in Users : SuppressionStep(p, u)

ReviewsSpec == RequestsInit /\ [][RequestsNext]_reviewVars

=============================================================================
