-------------------------- MODULE GatewayLifecycle --------------------------
(***************************************************************************)
(* What a QA Request gateway promises, without names, people or handlers:  *)
(* a draft is cancelled, or raised, at once or after waiting for a name    *)
(* decision that may also give it back; raising creates all its linked     *)
(* requests in one step, one of a kind, and nothing is added later.        *)
(* GatewayStatus, constants.py; the docstring of submit_request.           *)
(***************************************************************************)
CONSTANTS Gateways, Types, Copies

VARIABLES
  stage,  \* of each gateway
  work    \* the linked requests of each gateway, as pairs <<kind, copy>>

lvars == <<stage, work>>

LInit == /\ stage = [g \in Gateways |-> "ABSENT"]
         /\ work  = [g \in Gateways |-> {}]

Move(G, from, to) ==
  /\ \A g \in G : stage[g] \in from
  /\ stage' = [g \in Gateways |-> IF g \in G THEN to ELSE stage[g]]

Draft(g)  == Move({g}, {"ABSENT"}, "DRAFT") /\ UNCHANGED work
Drop(g)   == Move({g}, {"DRAFT"}, "CANCELLED") /\ UNCHANGED work
Wait(g)   == Move({g}, {"DRAFT"}, "SUBMITTED") /\ UNCHANGED work
GiveBack(G) == Move(G, {"SUBMITTED"}, "DRAFT") /\ UNCHANGED work

OneOfAKind(W) == \A x, y \in W : x[1] = y[1] => x = y

Raise(G) ==
  /\ Move(G, {"DRAFT", "SUBMITTED"}, "RAISED")
  /\ work' \in [Gateways -> SUBSET (Types \X Copies)]
  /\ \A g \in Gateways : IF g \in G THEN OneOfAKind(work'[g]) ELSE work'[g] = work[g]

LNext ==
  \/ \E g \in Gateways : Draft(g) \/ Drop(g) \/ Wait(g)
  \/ \E G \in SUBSET Gateways : GiveBack(G) \/ Raise(G)

LSpec == LInit /\ [][LNext]_lvars

=============================================================================
