---------------------------- MODULE Performance ----------------------------
(* The work of a Performance Testing request (routers/performance.py), from its  *)
(* feasibility to the requester's verdict.                                       *)
EXTENDS Reviews

\* One handler per phase, from the one status to the other.
LeadPhases == {<<"FEASIBILITY", "PLANNING">>, <<"RESULT_ANALYSIS", "REPORT">>,
               <<"RESULT_ANALYSIS", "DEFECT_FIX_RETEST">>, <<"REPORT", "SIGNOFF_PENDING">>,
               <<"SIGNOFF_PENDING", "REQUESTER_VERIFICATION">>}

OwnerPhases == {<<"ENVIRONMENT_SETUP", "SCRIPT_DEVELOPMENT">>, <<"SCRIPT_DEVELOPMENT", "BASELINE">>,
                <<"BASELINE", "LOAD_TEST_EXECUTION">>, <<"LOAD_TEST_EXECUTION", "RESULT_ANALYSIS">>,
                <<"DEFECT_FIX_RETEST", "LOAD_TEST_EXECUTION">>}

\* complete_feasibility, result_analysis_decision, complete_report, sign_off
CanLead(r, u, s) ==
  ~IsSecurity(r) /\ HasRole(u, LeadGroup) /\ <<status[r], s>> \in LeadPhases

LeadCompletes(r, u) == \E s \in PerformanceStatus : CanLead(r, u, s) /\ OnlyMoves(r, s)

\* _require_performance_execution_owner
IsExecutionOwner(r, u) == HasRole(u, LeadGroup) \/ (u \in assignees[r] \cap Engineers)

\* complete_environment_setup, _script_development, _baseline, _load_test and
\* _defect_fix_retest
CanExecute(r, u, s) ==
  ~IsSecurity(r) /\ IsExecutionOwner(r, u) /\ <<status[r], s>> \in OwnerPhases

OwnerCompletes(r, u) == \E s \in PerformanceStatus : CanExecute(r, u, s) /\ OnlyMoves(r, s)

TestersReassignable == PerformanceStatus \ {"FEASIBILITY", "PLANNING", "SIGNOFF_PENDING",
                                            "REQUESTER_VERIFICATION", "CLOSED"}

CanAssignTesters(r, u) ==
  /\ ~IsSecurity(r) /\ HasRole(u, LeadGroup \cup Engineers)
  /\ \/ status[r] = "PLANNING" /\ u \in Admins \cup LeadGroup \cup assignees[r]
     \/ /\ status[r] \in TestersReassignable
        /\ u \in Admins \cup assignees[r] \cup QALeads \cup (QAStaff \cap Executives)

Testers == {v \in QAStaff : HasRole(v, Engineers)}
Teams == (SUBSET Testers) \ {{}}

\* complete_planning: the testers, and the end of planning.
CompletePlanning(r, u) ==
  /\ CanAssignTesters(r, u)
  /\ \E T \in Teams : assignees' = [assignees EXCEPT ![r] = T]
  /\ status' = [status EXCEPT ![r] = IF @ = "PLANNING" THEN "ENVIRONMENT_SETUP" ELSE @]
  /\ UNCHANGED <<reapproval, owed, kind, headId, declared, verified, delegate, nameStatus, scans>>

CanDecideResult(r, u) ==
  ~IsSecurity(r) /\ OwnedBy(r, u) /\ status[r] = "REQUESTER_VERIFICATION"

RequesterDecision(r, u) ==
  CanDecideResult(r, u) /\ \E s \in {"CLOSED", "LOAD_TEST_EXECUTION"} : OnlyMoves(r, s)

PerformanceStep(r, u) ==
  LeadCompletes(r, u) \/ OwnerCompletes(r, u) \/ CompletePlanning(r, u) \/ RequesterDecision(r, u)

=============================================================================
