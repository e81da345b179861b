---------------------------- MODULE RepositoryMC ----------------------------
(* Instances of the test projects and of the repository of one of them for TLC. *)
EXTENDS Workspace

CONSTANTS c1, c2, eve, eli, root, p1, p2, a1

\* Bound of the instance: a second case keeps to a part of its life, so that there
\* is a selection of two at every stage. Eve writes and submits its one
\* version, nobody checks it out, Eli recommends it, only the first stage returns
\* it, and no form is open beside it.
Companion ==
  c2 \in Cases =>
    /\ holder[c2] = None /\ past[c2] = {} /\ place[c2] # "bin"
    /\ HasDraft(c2) => /\ draft[c2].author = eve /\ draft[c2].submitter \in {eve, None}
                       /\ draft[c2].reviewer \in {eli, None}
                       /\ draft[c2].status # "Returned by QA Lead"
                       /\ ~HasBaseline(c2)
    /\ place[c2] = "absent" \/ \A u \in Readers : form[u] = NoForm

\* Bound of the instance: a second project is Eve's, nobody asks to switch it and its
\* card stays closed; one dialog is open at a time.
SecondProject ==
  /\ \A p \in Projects \ {Home} : owner[p] \in {eve, None} /\ request[p] = None
  /\ \A u \in Viewers : dialog[u] # None =>
       dialog[u].of = Home /\ \A v \in Viewers \ {u} : dialog[v] = None

\* Bound of the instance: beside cases the project is Eve's, alone, not archived, and
\* only switched on and off.
SettledProject ==
  (\E c \in Cases : place[c] # "absent") =>
    /\ owner = [p \in Projects |-> IF p = Home THEN eve ELSE None]
    /\ ~archived[Home] /\ request[Home] = None /\ application[Home] = None
    /\ \A u \in Viewers : dialog[u] = None

Instance == Companion /\ SecondProject /\ SettledProject

Next ==
  \E u \in Users :
    \/ CaseStep(u) /\ Instance'
    \/ SuspendedStep(u) /\ Instance'
    \/ CardStep(u) /\ Instance'
    \/ OtherProjectStep(u) /\ Instance'

RepositorySpec == WorkspaceInit /\ [][Next]_workspaceVars

=============================================================================
