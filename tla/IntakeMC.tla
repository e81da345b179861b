------------------------------ MODULE IntakeMC ------------------------------
(* Instances of Intake for TLC. *)
EXTENDS IntakePage, TLC

CONSTANTS g1, g2, a1, a2, a3, n1, n2, ana, bob, cem, root

OneOwner  == (g1 :> ana)
SameOwner == [g \in Gateways |-> root]

\* Row ids are interchangeable; so are names.
NameSymmetry == Permutations(Apps) \cup Permutations(Names)

\* Keeps the graph of the liveness instance small: a test project for one row only,
\* no request without a kind. No step that decides a name is ruled out.
Quiet    == projects' \subseteq {a1} /\ \A g \in Gateways : status'[g] # "ABSENT" => types'[g] # {}
FairSpec == Spec /\ AppOwnersDecide

=============================================================================
