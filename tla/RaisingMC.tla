----------------------------- MODULE RaisingMC -----------------------------
(* Instances of Raising for TLC. *)
EXTENDS Raising, TLC

CONSTANTS d1, d2, i1, i2, f1

\* Bounds of the instance, for the size of its graph. What is typed, ticked and picked
\* is settled in the first wizard; the second one is about evidence. The checklist
\* changes between two wizards, or under a blank one: the first item is switched off and
\* the second moves up. A wizard reads it, old or new, before anything is ticked or
\* attached; a page reads the new one. One file is deleted by hand, of a save that runs.
SecondIsShort ==
  opened = 2 /\ wizard # None /\ wizard' # None =>
    wizard'.body = wizard.body /\ wizard'.wrong = wizard.wrong /\ wizard'.files = wizard.files
NoSecondThoughts ==
  wizard # None /\ wizard' # None =>
    /\ wizard'.wrong \subseteq wizard.wrong /\ wizard.body.types \subseteq wizard'.body.types
    /\ wizard.body.ticked \subseteq wizard'.body.ticked /\ wizard.files \subseteq wizard'.files
ChangesInBetween ==
  edits' # edits =>
    /\ air = {} /\ template' = Tail(template)
    /\ wizard = None \/ (opened = 1 /\ wizard.body.ticked = {} /\ wizard.files = {})
ReadsOnce ==
  /\ wizard # None /\ wizard' # None /\ wizard'.shown # wizard.shown =>
       wizard.staged = {} /\ (opened = 1 => wizard.body.ticked = {})
  /\ page = None /\ page' # None => page'.items = template
Gone == UNION {draft[d].gone : d \in {q \in Drafts : draft[q] # None}}
DeletesOne == Gone' # Gone => Gone = {} /\ \A x \in Gone' : x.by \in Running

AnyDraft == Permutations(Drafts)

Instance == SecondIsShort /\ NoSecondThoughts /\ ChangesInBetween /\ ReadsOnce /\ DeletesOne

=============================================================================
