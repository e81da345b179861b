----------------------------- MODULE ExecutionMC -----------------------------
(* An instance of cycles, slots, defects and their pages for TLC. *)
EXTENDS ExecutionPage

CONSTANTS k1, c1, c2, d1, d2, tess, eli, agm, root, dev, own

\* Bounds of the instance, beside those of the constants.  The second slot is a
\* companion, so that there are selections of two and a home for the second defect:
\* added by and for Tess, of its only version, executed at most once, and passed or
\* failed.  The second defect, minor and found there, is to be named by attempts,
\* linked, duplicated, or in the way of completion: it is not assigned.
Companion ==
  LET s == <<k1, c2>> IN
  /\ approved[c2] = 1 /\ ~archived[c2]
  /\ InCycle(s) => slot[s].adder = tess /\ slot[s].runner = tess /\ Len(Runs(s)) <= 1
  /\ Executed(s) /\ LastRun(s).result = "Fail" => LastRun(s).key # d1 /\ (Known(d1) => Known(d2))
  /\ Known(d2) => /\ defect[d2].reporter = tess /\ ~defect[d2].severe /\ ~defect[d2].evidence
                  /\ defect[d2].home = s /\ defect[d2].status \in {"New", "Triaged", "Deferred"}

\* The first slot was added by Eli, and loses its runner only unexecuted.  Its defect
\* is reported by Olga, and named by its attempts through her; the other by Tess.
Principal ==
  LET s == <<k1, c1>> IN
  /\ InCycle(s) =>
       /\ slot[s].adder = eli /\ slot[s].runner \in {tess, eli, None}
       /\ Executed(s) => slot[s].runner # None
       /\ \A i \in DOMAIN Runs(s) :
            Runs(s)[i].by = CASE Runs(s)[i].key = d1 -> own [] Runs(s)[i].key = d2 -> tess [] OTHER -> None
  /\ Known(d1) => /\ defect[d1].reporter = own
                  /\ defect[d1].home \in {s, None} /\ defect[d1].links = {}
                  /\ defect[d1].assignee \in {None, dev, eli}
                  /\ ~(defect[d1].target /\ defect[d1].evidence)
                  /\ defect[d1].assignee = eli => defect[d1].severe /\ ~defect[d1].evidence
                  /\ Exists(k1) /\ ~At(d1, s) => defect[d1].status \in {"New", "Assigned", "Deferred", "Closed"}

\* What varies less together: revisions with defects, open panels with revisions and
\* the second defect, an archived version with a cycle under way, a blocked cycle with
\* the second defect, and that with what else becomes of the first.
Apart ==
  /\ approved[c1] > 1 => \A d \in Defects : ~Known(d)
  /\ (\E u \in Readers : panel[u] # None) => ~Known(d2) /\ approved[c1] = 1 /\ ~archived[c1]
  /\ archived[c1] => cycle[k1] \in {"Absent", "Draft", "Ready"}
  /\ cycle[k1] = "Blocked" => ~Known(d2)
  /\ Known(d1) /\ Known(d2) => /\ defect[d1].status \in {"New", "Triaged", "Duplicate"}
                               /\ ~defect[d1].evidence /\ ~defect[d1].severe

Instance == Companion /\ Principal /\ Apart

Next ==
  \/ \E u \in Users, k \in Cycles : CycleStep(u, k) /\ Instance'
  \/ \E u \in Users, s \in Slots : SlotStep(u, s) /\ Instance'
  \/ \E u \in Users, d \in Defects : DefectStep(u, d) /\ Instance'
  \/ \E u \in Readers : PanelStep(u) /\ Instance'
  \/ \E c \in Cases : RepositoryStep(c) /\ Instance'

ExecutionSpec == PagesInit /\ [][Next]_executionPageVars

=============================================================================
