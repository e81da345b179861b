---------------------------- MODULE FunctionalMC ----------------------------
(* Instances of Functional for TLC. *)
EXTENDS FunctionalPage, TLC

CONSTANTS r1, r2, y1, y2, ana, dev, lea, eng, agm, root

OfAna == [r \in Requests |-> ana]

CycleSymmetry == Permutations(Cycles)

=============================================================================
