-------------------------- MODULE Workspace_proofs --------------------------
(***************************************************************************)
(* What holds of every test case of the repository, for any number of      *)
(* cases, versions and people, whether they call the single handlers or    *)
(* the bulk ones; of every test project; and of the two pages and their    *)
(* servers together: whatever is done on the pages is a call of the        *)
(* repository's router, or of the projects' router, so that what is proved *)
(* of these holds of the whole.                                            *)
(***************************************************************************)
EXTENDS Workspace, TLAPS

------------------------------------------------------------------------------
(* The test cases (TestCases). *)

(* The calls by what they do: single and bulk handlers come to the same few. *)

Reserves(c, u) ==
  /\ u = None \/ (u \in Users /\ Exists(c) /\ ~Pending(c))
  /\ holder' = [holder EXCEPT ![c] = u]
  /\ UNCHANGED <<draft, baseline, past, place>>

Bins(S, to) ==
  /\ to \in {"bin", "repository"} /\ \A c \in S : Exists(c)
  /\ place' = With(place, S, to)
  /\ UNCHANGED <<draft, baseline, past, holder>>

Recommends(S, u) ==
  (\A c \in S : Stage1By(u, c)) /\ Reviewed(S, u, "QA Lead Approval Pending")

Declined == {"Returned by QA", "Returned by QA Lead", "Rejected"}

Declines(S, s) ==
  /\ s \in Declined /\ \A c \in S : Pending(c)
  /\ \E r \in [S -> Users] :
       draft' = [c \in Cases |-> IF c \in S THEN [draft[c] EXCEPT !.status = s, !.reviewer = r[c]]
                                 ELSE draft[c]]
  /\ UNCHANGED <<baseline, past, holder, place>>

\* The number a draft is approved under: its own, or the next major one.
ApprovedAs(c, no) == no = draft[c].no \/ (no = MajorNumber(c) /\ Free(c, no))

Approves(S, u) ==
  /\ \A c \in S : Exists(c) /\ Stage2By(u, c)
  /\ \E no \in [S -> Numbers] :
       /\ \A c \in S : ApprovedAs(c, no[c])
       /\ baseline' = [c \in Cases |-> IF c \in S
                                       THEN [no |-> no[c], archived |-> FALSE, approver |-> u]
                                       ELSE baseline[c]]
  /\ past' = [c \in Cases |-> IF c \in S /\ HasBaseline(c) THEN past[c] \cup {baseline[c].no}
                              ELSE past[c]]
  /\ draft' = With(draft, S, None)
  /\ UNCHANGED <<holder, place>>

Archives(S, yes) == (\A c \in S : HasBaseline(c)) /\ SetArchived(S, yes)

\* A stage acts on a draft that is pending.
LEMMA StagesArePending ==
  ASSUME NEW c \in Cases, NEW u \in Users, Stage1By(u, c) \/ Stage2By(u, c)
  PROVE  Pending(c)
  BY DEF Stage1By, Stage2By, Pending, InStatus, PendingDecision

LEMMA SingleDecline ==
  ASSUME TCTypeOK, NEW c \in Cases, NEW u \in Users, NEW s \in Declined,
         Stage1By(u, c) \/ Stage2By(u, c), Decided(c, u, s)
  PROVE  Declines({c}, s)
<1>1. Pending(c)
  BY StagesArePending
<1>2. draft[c] \in Drafts
  BY <1>1 DEF TCTypeOK, Pending, InStatus, HasDraft
<1> DEFINE r == [x \in {c} |-> IF draft[c].reviewer = None THEN u ELSE draft[c].reviewer]
<1>3. r \in [{c} -> Users]
  BY <1>2 DEF Drafts
<1>4. draft' = [x \in Cases |-> IF x \in {c} THEN [draft[x] EXCEPT !.status = s, !.reviewer = r[x]]
                                ELSE draft[x]]
  BY <1>2 DEF Decided, TCTypeOK, Drafts
<1> QED
  BY <1>1, <1>3, <1>4 DEF Declines, Decided

LEMMA BulkDecline ==
  ASSUME NEW S \in SUBSET Cases, NEW u \in Users, NEW s \in Declined,
         OneStageBy(u, S), Reviewed(S, u, s)
  PROVE  Declines(S, s)
<1>1. \A c \in S : Pending(c)
  BY StagesArePending DEF OneStageBy
<1> DEFINE r == [x \in S |-> u]
<1>2. r \in [S -> Users] /\ \A x \in S : r[x] = u
  OBVIOUS
<1>3. draft' = [x \in Cases |-> IF x \in S THEN [draft[x] EXCEPT !.status = s, !.reviewer = r[x]]
                                ELSE draft[x]]
  BY <1>2 DEF Reviewed
<1> QED
  BY <1>1, <1>2, <1>3 DEF Declines, Reviewed

LEMMA SingleApproval ==
  ASSUME NEW c \in Cases, NEW u \in Users, NEW no \in Numbers,
         Exists(c), Stage2By(u, c), ApprovedAs(c, no),
         baseline' = [x \in Cases |-> IF x \in {c} THEN [no |-> no, archived |-> FALSE, approver |-> u]
                                      ELSE baseline[x]],
         past' = [x \in Cases |-> IF x \in {c} /\ HasBaseline(x) THEN past[x] \cup {baseline[x].no}
                                  ELSE past[x]],
         draft' = With(draft, {c}, None), UNCHANGED <<holder, place>>
  PROVE  Approves({c}, u)
<1> DEFINE n == [x \in {c} |-> no]
<1>1. n \in [{c} -> Numbers] /\ n[c] = no
  OBVIOUS
<1>2. baseline' = [x \in Cases |-> IF x \in {c} THEN [no |-> n[x], archived |-> FALSE, approver |-> u]
                                   ELSE baseline[x]]
  BY <1>1
<1> QED
  BY <1>1, <1>2 DEF Approves

LEMMA BulkApproval ==
  ASSUME TCTypeOK, NEW S \in SUBSET Cases, NEW u \in Users, BulkApprove(u, S)
  PROVE  Approves(S, u)
<1>1. \A c \in S : Exists(c) /\ Stage2By(u, c)
  BY DEF BulkApprove, CanBulkApprove, OneStageBy, InRepository, Exists
<1> DEFINE n == [x \in S |-> draft[x].no]
<1>2. n \in [S -> Numbers]
  BY <1>1 DEF TCTypeOK, Drafts, Stage2By, InStatus, HasDraft
<1>3. baseline' = [x \in Cases |-> IF x \in S THEN [no |-> n[x], archived |-> FALSE, approver |-> u]
                                   ELSE baseline[x]]
  BY DEF BulkApprove, Activated
<1> QED
  BY <1>1, <1>2, <1>3 DEF Approves, ApprovedAs, BulkApprove, Activated

\* Every step is a stutter or one of these.
LEMMA CaseCalls ==
  ASSUME TCTypeOK, [CasesNext]_caseVars
  PROVE  \/ UNCHANGED caseVars
         \/ \E S \in SUBSET Cases, u \in Users, h \in Users \cup {None} : FirstDrafts(S, u, h)
         \/ \E c \in Cases, u \in Users \cup {None} : Reserves(c, u)
         \/ \E c \in Cases, u \in Users : Update(u, c)
         \/ \E S \in SUBSET Cases, u \in Users : BulkUpdate(u, S)
         \/ \E S \in SUBSET Cases, to \in {"bin", "repository"} : Bins(S, to)
         \/ \E S \in SUBSET Cases, u \in Users : Purge(u, S)
         \/ \E S \in SUBSET Cases, u \in Users : SubmitAll(u, S)
         \/ \E S \in SUBSET Cases, u \in Users : Recommends(S, u)
         \/ \E S \in SUBSET Cases, s \in Declined : Declines(S, s)
         \/ \E S \in SUBSET Cases, u \in Users : Approves(S, u)
         \/ \E S \in SUBSET Cases, yes \in BOOLEAN : Archives(S, yes)
<1> DEFINE Goal ==
         \/ \E S \in SUBSET Cases, u \in Users, h \in Users \cup {None} : FirstDrafts(S, u, h)
         \/ \E c \in Cases, u \in Users \cup {None} : Reserves(c, u)
         \/ \E c \in Cases, u \in Users : Update(u, c)
         \/ \E S \in SUBSET Cases, u \in Users : BulkUpdate(u, S)
         \/ \E S \in SUBSET Cases, to \in {"bin", "repository"} : Bins(S, to)
         \/ \E S \in SUBSET Cases, u \in Users : Purge(u, S)
         \/ \E S \in SUBSET Cases, u \in Users : SubmitAll(u, S)
         \/ \E S \in SUBSET Cases, u \in Users : Recommends(S, u)
         \/ \E S \in SUBSET Cases, s \in Declined : Declines(S, s)
         \/ \E S \in SUBSET Cases, u \in Users : Approves(S, u)
         \/ \E S \in SUBSET Cases, yes \in BOOLEAN : Archives(S, yes)
<1>1. ASSUME NEW u \in Users, NEW c \in Cases, CaseCall(u, c) PROVE Goal
  <2>0. {c} \in SUBSET Cases /\ \A x \in {c} : x = c
    OBVIOUS
  <2>1. CASE Create(u, c) \/ \E d \in Cases : Clone(u, c, d)
    BY <2>0, <2>1 DEF Create, Clone
  <2>2. CASE Checkout(u, c) \/ CheckoutOverride(u, c) \/ Checkin(u, c)
    BY <2>2 DEF Checkout, CanCheckout, HeldBy, CheckoutOverride, CanOverride, Checkin, CanCheckin,
                Reserves, InRepository, Exists
  <2>3. CASE Update(u, c)
    BY <2>3
  <2>4. CASE Submit(u, c)
    BY <2>0, <2>4 DEF Submit
  <2>5. CASE Recommend(u, c)
    BY <2>0, <2>5 DEF Recommend, CanRecommend, Recommends
  <2>6. CASE Approve(u, c)
    <3>1. draft[c].no \in Numbers /\ ApprovedAs(c, draft[c].no)
      BY <2>6 DEF Approve, CanApprove, ApprovedAs, TCTypeOK, Drafts, Stage2By, InStatus, HasDraft
    <3>2. baseline' = [x \in Cases |-> IF x \in {c} THEN [no |-> draft[c].no, archived |-> FALSE, approver |-> u]
                                       ELSE baseline[x]]
      BY <2>6 DEF Approve, Activated
    <3>3. Approves({c}, u)
      BY <2>6, <3>1, <3>2, SingleApproval DEF Approve, CanApprove, Activated
    <3> QED
      BY <2>0, <3>3
  <2>7. CASE ApproveMajor(u, c)
    <3>1. MajorNumber(c) \in Numbers /\ ApprovedAs(c, MajorNumber(c))
      BY <2>7 DEF ApproveMajor, CanApprove, ApprovedAs, Free, TCTypeOK, Drafts, Stage2By, InStatus,
                  HasDraft
    <3>2. baseline' = [x \in Cases |-> IF x \in {c} THEN [no |-> MajorNumber(c), archived |-> FALSE, approver |-> u]
                                       ELSE baseline[x]]
      BY <2>7 DEF ApproveMajor, Activated
    <3>3. Approves({c}, u)
      BY <2>7, <3>1, <3>2, SingleApproval DEF ApproveMajor, CanApprove, Activated
    <3> QED
      BY <2>0, <3>3
  <2>8. CASE Return(u, c) \/ Reject(u, c)
    <3>1. \E s \in Declined : (Stage1By(u, c) \/ Stage2By(u, c)) /\ Decided(c, u, s)
      BY <2>8 DEF Return, CanDecline, Reject, Declined
    <3> QED
      BY <2>0, <3>1, SingleDecline
  <2>9. CASE Archive(u, c) \/ Restore(u, c)
    BY <2>0, <2>9 DEF Archive, CanArchive, Restore, CanRestore, Archived, Archives
  <2> QED
    BY <1>1, <2>1, <2>2, <2>3, <2>4, <2>5, <2>6, <2>7, <2>8, <2>9 DEF CaseCall
<1>2. ASSUME NEW u \in Users, NEW S \in SUBSET Cases, SelectionCall(u, S) PROVE Goal
  <2>1. CASE Import(u, S) \/ BulkUpdate(u, S) \/ Purge(u, S) \/ BulkSubmit(u, S)
    BY <2>1 DEF Import, BulkSubmit
  <2>2. CASE Delete(u, S) \/ RestoreFromRecycleBin(u, S)
    BY <2>2 DEF Delete, CanDelete, RestoreFromRecycleBin, Bins, InRepository, Exists
  <2>3. CASE BulkRecommend(u, S)
    BY <2>3 DEF BulkRecommend, CanBulkRecommend, Recommends
  <2>4. CASE BulkApprove(u, S)
    BY <2>4, BulkApproval
  <2>5. CASE BulkReturn(u, S) \/ BulkReject(u, S)
    <3>1. \E s \in Declined : OneStageBy(u, S) /\ Reviewed(S, u, s)
      BY <2>5 DEF BulkReturn, BulkReject, Declined
    <3> QED
      BY <3>1, BulkDecline
  <2>6. CASE BulkArchive(u, S)
    BY <2>6 DEF BulkArchive, CanBulkArchive, Archives
  <2>7. CASE BulkRestore(u, S)
    <3>1. Archives({c \in S : Archived(c)}, FALSE)
      BY <2>7 DEF BulkRestore, Archives, Archived
    <3> QED
      BY <3>1
  <2> QED
    BY <1>2, <2>1, <2>2, <2>3, <2>4, <2>5, <2>6, <2>7 DEF SelectionCall
<1> QED
  BY <1>1, <1>2 DEF CasesNext

----------------------------------------------------------------------------
LEMMA NewDraftTypes ==
  ASSUME NEW u \in Users, NEW no \in Numbers
  PROVE  /\ NewDraft(no, u) \in Drafts /\ NewDraft(no, u) # None
         /\ NewDraft(no, u).no = no /\ NewDraft(no, u).status = "Draft"
<1>1. NewDraft(no, u) \in Drafts
  BY DEF NewDraft, Drafts, Submittable
<1> QED
  BY <1>1, NoneIsNoVersion DEF NewDraft

\* A decision writes the status and the reviewer, and nothing else.
Outcome(d, s, r) == [d EXCEPT !.status = s, !.reviewer = r]

LEMMA OutcomeTypes ==
  \A d \in Drafts, r \in Users, s \in Declined \cup {"QA Lead Approval Pending"} :
    /\ Outcome(d, s, r) \in Drafts
    /\ Outcome(d, s, r).status = s
    /\ Outcome(d, s, r).reviewer = r
    /\ Outcome(d, s, r).no = d.no
    /\ Outcome(d, s, r).author = d.author
    /\ Outcome(d, s, r).submitter = d.submitter
<1> TAKE d \in Drafts, r \in Users, s \in Declined \cup {"QA Lead Approval Pending"}
<1>1. s \in PendingDecision \cup Submittable \cup {"Rejected"}
  BY DEF PendingDecision, Submittable, Declined
<1> QED
  BY <1>1 DEF Outcome, Drafts

\* Every call of the repository's router keeps the types.
LEMMA TCTypeKeeps ==
  ASSUME TCTypeOK, [CasesNext]_caseVars
  PROVE  TCTypeOK'
<1>1. CASE UNCHANGED caseVars
  BY <1>1 DEF caseVars, TCTypeOK, Exists, HasDraft, HasBaseline
<1>2. ASSUME NEW S \in SUBSET Cases, NEW u \in Users, NEW h \in Users \cup {None},
             FirstDrafts(S, u, h)
      PROVE  TCTypeOK'
  <2>1. <<1, 0>> \in Numbers
    BY CasesAssumption DEF Numbers
  <2> QED
    BY <1>2, <2>1, NewDraftTypes DEF FirstDrafts, With, TCTypeOK, Exists, HasDraft, HasBaseline
<1>3. ASSUME NEW c \in Cases, NEW u \in Users \cup {None}, Reserves(c, u) PROVE TCTypeOK'
  BY <1>3 DEF Reserves, TCTypeOK, Exists, HasDraft, HasBaseline
<1>4. ASSUME NEW c \in Cases, NEW u \in Users, Update(u, c) PROVE TCTypeOK'
  <2>1. CASE UNCHANGED <<draft, past>>
    BY <1>4, <2>1 DEF Update, TCTypeOK, Exists, HasDraft, HasBaseline
  <2>2. CASE ~UNCHANGED <<draft, past>>
    <3>1. NextProvisional(c) \in Numbers
      BY <1>4, <2>2 DEF Update, Free
    <3>2. HasDraft(c) => draft[c].no \in Numbers
      BY DEF HasDraft, TCTypeOK, Drafts
    <3>3. draft' = [draft EXCEPT ![c] = NewDraft(NextProvisional(c), u)]
      BY <1>4, <2>2 DEF Update
    <3>4. past' \in [Cases -> SUBSET Numbers]
      BY <1>4, <2>2, <3>2 DEF Update, TCTypeOK
    <3>5. draft' \in [Cases -> Drafts \cup {None}]
      BY <3>1, <3>3, NewDraftTypes DEF TCTypeOK
    <3>6. \A d \in Cases : HasDraft(d)' <=> HasDraft(d) \/ d = c
      BY <3>1, <3>3, NewDraftTypes DEF TCTypeOK, HasDraft
    <3>7. Exists(c) /\ UNCHANGED <<baseline, holder, place>>
      BY <1>4 DEF Update, InRepository, Exists
    <3> QED
      BY <3>4, <3>5, <3>6, <3>7 DEF TCTypeOK, Exists, HasBaseline
  <2> QED
    BY <2>1, <2>2
<1>5. ASSUME NEW S \in SUBSET Cases, NEW u \in Users, BulkUpdate(u, S) PROVE TCTypeOK'
  <2> DEFINE fresh == {c \in S : ~HasDraft(c)}
  <2>1. draft' = [c \in Cases |-> IF c \in fresh THEN NewDraft(NextProvisional(c), u) ELSE draft[c]]
    BY <1>5 DEF BulkUpdate
  <2>2. \A c \in fresh : Exists(c) /\ NewDraft(NextProvisional(c), u) \in Drafts
    BY <1>5, NewDraftTypes DEF BulkUpdate, CanBulkUpdate, Free, InRepository, Exists
  <2>3. \A c \in Cases : HasDraft(c)' <=> HasDraft(c) \/ c \in fresh
    BY <2>1, <2>2, NoneIsNoVersion DEF HasDraft
  <2>4. draft' \in [Cases -> Drafts \cup {None}]
    BY <2>1, <2>2 DEF TCTypeOK
  <2> QED
    BY <1>5, <2>2, <2>3, <2>4 DEF BulkUpdate, TCTypeOK, Exists, HasBaseline
<1>6. ASSUME NEW S \in SUBSET Cases, NEW to \in {"bin", "repository"}, Bins(S, to)
      PROVE  TCTypeOK'
  BY <1>6 DEF Bins, With, TCTypeOK, Exists, HasDraft, HasBaseline
<1>7. ASSUME NEW S \in SUBSET Cases, NEW u \in Users, Purge(u, S) PROVE TCTypeOK'
  BY <1>7 DEF Purge, With, TCTypeOK, Exists, HasDraft, HasBaseline
<1>8. ASSUME NEW S \in SUBSET Cases, NEW u \in Users, SubmitAll(u, S) PROVE TCTypeOK'
  <2>1. \A c \in S : HasDraft(c) /\ Submitted(draft[c], u) \in Drafts
    BY <1>8 DEF SubmitAll, CanSubmitAll, MaySubmit, InStatus, HasDraft, TCTypeOK, Submitted, Drafts,
                PendingDecision
  <2> QED
    BY <1>8, <2>1, NoneIsNoVersion DEF SubmitAll, With, TCTypeOK, Exists, HasDraft, HasBaseline
<1>9. ASSUME NEW S \in SUBSET Cases, NEW u \in Users, Recommends(S, u) PROVE TCTypeOK'
  <2>1. \A c \in S : HasDraft(c) /\ draft[c] \in Drafts
    BY <1>9 DEF Recommends, Stage1By, InStatus, HasDraft, TCTypeOK
  <2>2. draft' = [c \in Cases |-> IF c \in S THEN Outcome(draft[c], "QA Lead Approval Pending", u)
                                  ELSE draft[c]]
    BY <1>9 DEF Recommends, Reviewed, Outcome
  <2>3. draft' \in [Cases -> Drafts \cup {None}]
    BY <2>1, <2>2, OutcomeTypes DEF TCTypeOK
  <2>4. \A c \in Cases : HasDraft(c)' <=> HasDraft(c)
    <3>1. \A c \in S : Outcome(draft[c], "QA Lead Approval Pending", u) \in Drafts
      BY <2>1, OutcomeTypes
    <3> QED
      BY <2>1, <2>2, <3>1, NoneIsNoVersion DEF HasDraft
  <2> QED
    BY <1>9, <2>3, <2>4 DEF Recommends, Reviewed, TCTypeOK, Exists, HasBaseline
<1>10. ASSUME NEW S \in SUBSET Cases, NEW s \in Declined, Declines(S, s)
       PROVE  TCTypeOK'
  <2>1. PICK r \in [S -> Users] :
          draft' = [c \in Cases |-> IF c \in S THEN Outcome(draft[c], s, r[c]) ELSE draft[c]]
    BY <1>10 DEF Declines, Outcome
  <2>2. \A c \in S : HasDraft(c) /\ draft[c] \in Drafts
    BY <1>10 DEF Declines, Pending, InStatus, HasDraft, TCTypeOK
  <2>3. draft' \in [Cases -> Drafts \cup {None}]
    BY <2>1, <2>2, OutcomeTypes DEF TCTypeOK
  <2>4. \A c \in Cases : HasDraft(c)' <=> HasDraft(c)
    <3>1. ASSUME NEW c \in S PROVE Outcome(draft[c], s, r[c]) \in Drafts
      <4>1. r[c] \in Users /\ draft[c] \in Drafts
        BY <2>2
      <4> QED
        BY <4>1, OutcomeTypes
    <3> QED
      BY <2>1, <2>2, <3>1, NoneIsNoVersion DEF HasDraft
  <2> QED
    BY <1>10, <2>3, <2>4 DEF Declines, TCTypeOK, Exists, HasBaseline
<1>11. ASSUME NEW S \in SUBSET Cases, NEW u \in Users, Approves(S, u) PROVE TCTypeOK'
  <2>1. PICK no \in [S -> Numbers] :
          baseline' = [c \in Cases |-> IF c \in S
                                       THEN [no |-> no[c], archived |-> FALSE, approver |-> u]
                                       ELSE baseline[c]]
    BY <1>11 DEF Approves
  <2>2. \A c \in S : [no |-> no[c], archived |-> FALSE, approver |-> u] \in Baselines
    BY DEF Baselines
  <2>3. \A c \in Cases : HasBaseline(c) => baseline[c].no \in Numbers
    BY DEF TCTypeOK, HasBaseline, Baselines
  <2>4. baseline' \in [Cases -> Baselines \cup {None}]
    BY <2>1, <2>2 DEF TCTypeOK
  <2>5. past' \in [Cases -> SUBSET Numbers]
    BY <1>11, <2>3 DEF Approves, TCTypeOK
  <2>6. \A c \in Cases : /\ HasBaseline(c)' <=> HasBaseline(c) \/ c \in S
                         /\ HasDraft(c)' <=> HasDraft(c) /\ c \notin S
    BY <1>11, <2>1, <2>2, NoneIsNoVersion DEF Approves, With, HasBaseline, HasDraft
  <2>7. draft' \in [Cases -> Drafts \cup {None}] /\ UNCHANGED <<holder, place>>
    BY <1>11 DEF Approves, With, TCTypeOK
  <2>8. \A c \in S : Exists(c)
    BY <1>11 DEF Approves
  <2> QED
    BY <2>4, <2>5, <2>6, <2>7, <2>8 DEF TCTypeOK, Exists
<1>12. ASSUME NEW S \in SUBSET Cases, NEW yes \in BOOLEAN, Archives(S, yes) PROVE TCTypeOK'
  <2>1. \A c \in S : HasBaseline(c) /\ [baseline[c] EXCEPT !.archived = yes] \in Baselines
    BY <1>12 DEF Archives, HasBaseline, TCTypeOK, Baselines
  <2> QED
    BY <1>12, <2>1, NoneIsNoVersion DEF Archives, SetArchived, TCTypeOK, Exists, HasDraft, HasBaseline
<1> QED
  BY CaseCalls, <1>1, <1>2, <1>3, <1>4, <1>5, <1>6, <1>7, <1>8, <1>9, <1>10, <1>11, <1>12

\* Every reachable state has its type: a case has a version exactly as long as it exists.
THEOREM TCTypeCorrect == CasesSpec => []TCTypeOK
<1>1. CasesInit => TCTypeOK
  BY DEF CasesInit, TCTypeOK, Exists, HasDraft, HasBaseline
<1>2. TCTypeOK /\ [CasesNext]_caseVars => TCTypeOK'
  BY TCTypeKeeps
<1> QED
  BY <1>1, <1>2, PTL DEF CasesSpec

----------------------------------------------------------------------------
(* What the review rests on, case by case: nobody holds a case under review;  *)
(* the reviewer of a recommended draft is a second person; the number of a    *)
(* draft is new, and above that of the approved version.                      *)

Sound(c) ==
  /\ Pending(c) => holder[c] = None
  /\ InStatus(c, {"QA Lead Approval Pending"}) =>
       draft[c].reviewer \notin {None, draft[c].author, draft[c].submitter}
  /\ HasDraft(c) => draft[c].no \notin past[c]
  /\ HasDraft(c) /\ HasBaseline(c) => Above(draft[c].no, baseline[c].no)
  /\ ~Exists(c) => past[c] = {}

\* The three action properties, of one case.
ThirdApproves(c) ==
  Activates(c) =>
    /\ draft[c].reviewer \notin {None, draft[c].author, draft[c].submitter}
    /\ baseline'[c].approver \notin {draft[c].author, draft[c].submitter, draft[c].reviewer}

MovesUp(c) ==
  Activates(c) =>
    /\ HasBaseline(c) => Above(baseline'[c].no, baseline[c].no)
    /\ baseline'[c].no \notin past'[c]

Frozen(c) ==
  Pending(c)' =>
    /\ holder'[c] = None
    /\ Pending(c) => /\ draft'[c].no = draft[c].no
                     /\ draft'[c].author = draft[c].author
                     /\ draft'[c].submitter = draft[c].submitter

Good(c) == Sound(c)' /\ ThirdApproves(c) /\ MovesUp(c) /\ Frozen(c)

\* A case whose versions a step leaves alone, and that nobody checks out while it
\* is reviewed.
LEMMA LeftAlone ==
  ASSUME NEW c \in Cases, Sound(c), draft'[c] = draft[c], baseline'[c] = baseline[c],
         past'[c] = past[c], holder'[c] = holder[c] \/ holder'[c] = None \/ ~Pending(c),
         Exists(c)' <=> Exists(c)
  PROVE  Good(c)
<1>1. /\ HasDraft(c)' <=> HasDraft(c)
      /\ HasBaseline(c)' <=> HasBaseline(c)
      /\ Pending(c)' <=> Pending(c)
      /\ InStatus(c, {"QA Lead Approval Pending"})' <=> InStatus(c, {"QA Lead Approval Pending"})
  BY DEF HasDraft, HasBaseline, Pending, InStatus
<1>2. Sound(c)'
  BY <1>1 DEF Sound
<1>3. ~Activates(c)
  BY <1>1 DEF Activates
<1>4. Frozen(c)
  BY <1>1 DEF Frozen, Sound
<1> QED
  BY <1>2, <1>3, <1>4 DEF Good, ThirdApproves, MovesUp

\* A case that gets a new draft.
LEMMA NewlyDrafted ==
  ASSUME TCTypeOK, NEW c \in Cases, Sound(c), NEW u \in Users, NEW no \in Numbers,
         draft'[c] = NewDraft(no, u), no \notin past'[c], Exists(c)',
         baseline'[c] = baseline[c], HasBaseline(c) => Above(no, baseline[c].no)
  PROVE  Good(c)
<1>1. HasDraft(c)' /\ draft'[c].no = no /\ draft'[c].status = "Draft"
  BY NewDraftTypes DEF HasDraft
<1>2. ~Pending(c)' /\ ~InStatus(c, {"QA Lead Approval Pending"})'
  BY <1>1 DEF Pending, InStatus, PendingDecision
<1>3. Sound(c)'
  BY <1>1, <1>2 DEF Sound, HasBaseline
<1> QED
  BY <1>1, <1>2, <1>3 DEF Good, ThirdApproves, MovesUp, Frozen, Activates

LEMMA NextIsAbove ==
  ASSUME TCTypeOK, NEW c \in Cases, HasBaseline(c)
  PROVE  Above(NextProvisional(c), baseline[c].no)
<1>1. baseline[c].no \in Numbers
  BY DEF TCTypeOK, HasBaseline, Baselines
<1>2. baseline[c].no[1] \in Nat /\ baseline[c].no[2] \in Nat
  BY <1>1, CasesAssumption DEF Numbers
<1> QED
  BY <1>2 DEF NextProvisional, Above

\* A case that stays with its draft and its number, whose status changes.
LEMMA Moved ==
  ASSUME NEW c \in Cases, Sound(c), HasDraft(c), HasDraft(c)', draft'[c].no = draft[c].no,
         baseline'[c] = baseline[c], past'[c] = past[c], Exists(c)',
         Pending(c)' => holder'[c] = None,
         Pending(c)' /\ Pending(c) => /\ draft'[c].author = draft[c].author
                                     /\ draft'[c].submitter = draft[c].submitter,
         draft'[c].status = "QA Lead Approval Pending" =>
           draft'[c].reviewer \notin {None, draft'[c].author, draft'[c].submitter}
  PROVE  Good(c)
<1>1. Sound(c)'
  BY DEF Sound, InStatus, HasBaseline
<1> QED
  BY <1>1 DEF Good, ThirdApproves, MovesUp, Frozen, Activates

\* Every step is good for every case.
LEMMA StepsAreGood ==
  ASSUME TCTypeOK, TCTypeOK', \A c \in Cases : Sound(c), [CasesNext]_caseVars
  PROVE  \A c \in Cases : Good(c)
<1> SUFFICES ASSUME NEW c \in Cases PROVE Good(c)
  OBVIOUS
<1>0. Sound(c) /\ (Exists(c) <=> HasDraft(c) \/ HasBaseline(c))
  BY DEF TCTypeOK
<1>1. CASE UNCHANGED caseVars
  BY <1>0, <1>1, LeftAlone DEF caseVars, Exists
<1>2. ASSUME NEW S \in SUBSET Cases, NEW u \in Users, NEW h \in Users \cup {None},
             FirstDrafts(S, u, h)
      PROVE  Good(c)
  <2>1. CASE c \notin S
    BY <1>0, <1>2, <2>1, LeftAlone DEF FirstDrafts, With, Exists, TCTypeOK
  <2>2. CASE c \in S
    <3>1. <<1, 0>> \in Numbers
      BY CasesAssumption DEF Numbers
    <3>2. ~Exists(c) /\ ~HasBaseline(c) /\ past[c] = {}
      BY <1>0, <1>2, <2>2 DEF FirstDrafts, Exists, Sound
    <3>3. draft'[c] = NewDraft(<<1, 0>>, u) /\ Exists(c)' /\ baseline' = baseline /\ past' = past
      BY <1>2, <2>2 DEF FirstDrafts, With, Exists
    <3> QED
      BY <1>0, <3>1, <3>2, <3>3, NewlyDrafted
  <2> QED
    BY <2>1, <2>2
<1>3. ASSUME NEW d \in Cases, NEW u \in Users \cup {None}, Reserves(d, u) PROVE Good(c)
  <2>1. holder'[c] = holder[c] \/ holder'[c] = None \/ ~Pending(c)
    BY <1>3 DEF Reserves, TCTypeOK
  <2> QED
    BY <1>0, <1>3, <2>1, LeftAlone DEF Reserves, Exists
<1>4. ASSUME NEW d \in Cases, NEW u \in Users, Update(u, d) PROVE Good(c)
  <2>1. UNCHANGED <<baseline, holder, place>>
    BY <1>4 DEF Update
  <2>2. CASE draft'[c] = draft[c] /\ past'[c] = past[c]
    BY <1>0, <2>1, <2>2, LeftAlone DEF Exists
  <2>3. CASE ~(draft'[c] = draft[c] /\ past'[c] = past[c])
    <3>1. /\ c = d /\ Free(c, NextProvisional(c))
          /\ draft' = [draft EXCEPT ![d] = NewDraft(NextProvisional(d), u)]
          /\ past' = [past EXCEPT ![d] = @ \cup (IF HasDraft(d) THEN {draft[d].no} ELSE {})]
      BY <1>4, <2>3 DEF Update, TCTypeOK
    <3>2. /\ draft'[c] = NewDraft(NextProvisional(c), u)
          /\ past'[c] = past[c] \cup (IF HasDraft(c) THEN {draft[c].no} ELSE {})
      BY <3>1 DEF TCTypeOK
    <3>3. NextProvisional(c) \in Numbers /\ NextProvisional(c) \notin past'[c]
      BY <3>1, <3>2 DEF Free, Used
    <3>4. Exists(c)'
      BY <1>4, <2>1, <3>1 DEF Update, InRepository, Exists
    <3> QED
      BY <1>0, <2>1, <3>2, <3>3, <3>4, NewlyDrafted, NextIsAbove
  <2> QED
    BY <2>2, <2>3
<1>5. ASSUME NEW S \in SUBSET Cases, NEW u \in Users, BulkUpdate(u, S) PROVE Good(c)
  <2>1. UNCHANGED <<baseline, past, holder, place>>
    BY <1>5 DEF BulkUpdate
  <2>2. CASE c \in S /\ ~HasDraft(c)
    <3>1. draft'[c] = NewDraft(NextProvisional(c), u) /\ Free(c, NextProvisional(c)) /\ Exists(c)'
      BY <1>5, <2>1, <2>2 DEF BulkUpdate, CanBulkUpdate, InRepository, Exists
    <3>2. NextProvisional(c) \in Numbers /\ NextProvisional(c) \notin past'[c]
      BY <2>1, <3>1 DEF Free, Used
    <3> QED
      BY <1>0, <2>1, <3>1, <3>2, NewlyDrafted, NextIsAbove
  <2>3. CASE ~(c \in S /\ ~HasDraft(c))
    <3>1. draft'[c] = draft[c]
      BY <1>5, <2>3 DEF BulkUpdate
    <3> QED
      BY <1>0, <2>1, <3>1, LeftAlone DEF Exists
  <2> QED
    BY <2>2, <2>3
<1>6. ASSUME NEW S \in SUBSET Cases, NEW to \in {"bin", "repository"}, Bins(S, to) PROVE Good(c)
  <2>1. Exists(c)' <=> Exists(c)
    BY <1>6 DEF Bins, With, Exists
  <2> QED
    BY <1>0, <1>6, <2>1, LeftAlone DEF Bins
<1>7. ASSUME NEW S \in SUBSET Cases, NEW u \in Users, Purge(u, S) PROVE Good(c)
  <2>1. CASE c \notin S
    BY <1>0, <1>7, <2>1, LeftAlone DEF Purge, With, Exists
  <2>2. CASE c \in S
    <3>1. draft'[c] = None /\ baseline'[c] = None /\ past'[c] = {}
      BY <1>7, <2>2 DEF Purge, With
    <3> QED
      BY <3>1 DEF Good, Sound, Pending, InStatus, HasDraft, HasBaseline, ThirdApproves, MovesUp,
                  Frozen, Activates
  <2> QED
    BY <2>1, <2>2
<1>8. ASSUME NEW S \in SUBSET Cases, NEW u \in Users, SubmitAll(u, S) PROVE Good(c)
  <2>1. CASE c \notin S
    BY <1>0, <1>8, <2>1, LeftAlone DEF SubmitAll, With, Exists
  <2>2. CASE c \in S
    <3>1. HasDraft(c) /\ draft[c] \in Drafts /\ ~Pending(c)
      BY <1>8, <2>2 DEF SubmitAll, CanSubmitAll, MaySubmit, InStatus, HasDraft, TCTypeOK, Pending,
                       Submittable, PendingDecision
    <3>2. draft'[c] = Submitted(draft[c], u) /\ holder'[c] = None
      BY <1>8, <2>2 DEF SubmitAll, With
    <3>3. draft'[c].no = draft[c].no /\ draft'[c].status = "Recommendation Pending"
      BY <3>1, <3>2 DEF Submitted, Drafts
    <3>4. draft'[c] \in Drafts
      BY <3>1, <3>2 DEF Submitted, Drafts, PendingDecision
    <3>5. HasDraft(c)' /\ Exists(c)' /\ baseline'[c] = baseline[c] /\ past'[c] = past[c]
      BY <1>0, <1>8, <3>1, <3>4, NoneIsNoVersion DEF SubmitAll, HasDraft, Exists
    <3> QED
      BY <1>0, <3>1, <3>2, <3>3, <3>5, Moved
  <2> QED
    BY <2>1, <2>2
<1>9. ASSUME NEW S \in SUBSET Cases, NEW u \in Users, Recommends(S, u) PROVE Good(c)
  <2>1. UNCHANGED <<baseline, past, holder, place>>
    BY <1>9 DEF Recommends, Reviewed
  <2>2. CASE c \notin S
    <3>1. draft'[c] = draft[c]
      BY <1>9, <2>2 DEF Recommends, Reviewed
    <3> QED
      BY <1>0, <2>1, <3>1, LeftAlone DEF Exists
  <2>3. CASE c \in S
    <3>1. HasDraft(c) /\ draft[c] \in Drafts /\ Pending(c) /\ u \notin {draft[c].author, draft[c].submitter}
      BY <1>9, <2>3, StagesArePending DEF Recommends, Stage1By, InStatus, HasDraft, TCTypeOK
    <3>2. draft'[c] = Outcome(draft[c], "QA Lead Approval Pending", u)
      BY <1>9, <2>3 DEF Recommends, Reviewed, Outcome
    <3>3. /\ draft'[c].no = draft[c].no /\ draft'[c].author = draft[c].author
          /\ draft'[c].submitter = draft[c].submitter /\ draft'[c].reviewer = u
          /\ draft'[c] \in Drafts
      <4>1. "QA Lead Approval Pending" \in Declined \cup {"QA Lead Approval Pending"}
        OBVIOUS
      <4>2. PICK d \in Drafts : d = draft[c]
        BY <3>1
      <4>3. PICK o : o = Outcome(d, "QA Lead Approval Pending", u)
        OBVIOUS
      <4>4. /\ o \in Drafts /\ o.no = d.no /\ o.author = d.author
            /\ o.submitter = d.submitter /\ o.reviewer = u
        BY <4>1, <4>3, OutcomeTypes
      <4> QED
        BY <3>2, <4>2, <4>3, <4>4
    <3>4. HasDraft(c)' /\ Exists(c)'
      BY <1>0, <2>1, <3>1, <3>3, NoneIsNoVersion DEF HasDraft, Exists
    <3>5. u # None /\ holder'[c] = None
      BY <1>0, <2>1, <3>1, StaffAssumption DEF Sound
    <3> QED
      BY <1>0, <2>1, <3>1, <3>3, <3>4, <3>5, Moved
  <2> QED
    BY <2>2, <2>3
<1>10. ASSUME NEW S \in SUBSET Cases, NEW s \in Declined, Declines(S, s) PROVE Good(c)
  <2>1. UNCHANGED <<baseline, past, holder, place>>
    BY <1>10 DEF Declines
  <2>2. PICK r \in [S -> Users] :
          draft' = [x \in Cases |-> IF x \in S THEN Outcome(draft[x], s, r[x]) ELSE draft[x]]
    BY <1>10 DEF Declines, Outcome
  <2>3. CASE c \notin S
    <3>1. draft'[c] = draft[c]
      BY <2>2, <2>3
    <3> QED
      BY <1>0, <2>1, <3>1, LeftAlone DEF Exists
  <2>4. CASE c \in S
    <3>1. HasDraft(c) /\ draft[c] \in Drafts /\ r[c] \in Users
      BY <1>10, <2>4 DEF Declines, Pending, InStatus, HasDraft, TCTypeOK
    <3>2. draft'[c] = Outcome(draft[c], s, r[c])
      BY <2>2, <2>4
    <3>3. draft'[c].no = draft[c].no /\ draft'[c].status = s /\ draft'[c] \in Drafts
      <4>1. PICK d \in Drafts, v \in Users : d = draft[c] /\ v = r[c]
        BY <3>1
      <4>2. PICK o : o = Outcome(d, s, v)
        OBVIOUS
      <4>3. s \in Declined \cup {"QA Lead Approval Pending"}
        OBVIOUS
      <4>4. o \in Drafts /\ o.no = d.no /\ o.status = s
        BY <4>2, <4>3, OutcomeTypes
      <4> QED
        BY <3>2, <4>1, <4>2, <4>4
    <3>4. HasDraft(c)' /\ Exists(c)'
      BY <1>0, <2>1, <3>1, <3>3, NoneIsNoVersion DEF HasDraft, Exists
    <3>5. ~Pending(c)' /\ draft'[c].status # "QA Lead Approval Pending"
      BY <3>3 DEF Pending, InStatus, PendingDecision, Declined
    <3> QED
      BY <1>0, <2>1, <3>1, <3>3, <3>4, <3>5, Moved
  <2> QED
    BY <2>3, <2>4
<1>11. ASSUME NEW S \in SUBSET Cases, NEW u \in Users, Approves(S, u) PROVE Good(c)
  <2>1. CASE c \notin S
    <3>1. draft'[c] = draft[c] /\ baseline'[c] = baseline[c] /\ past'[c] = past[c]
      BY <1>11, <2>1 DEF Approves, With
    <3>2. holder' = holder /\ place' = place
      BY <1>11 DEF Approves
    <3> QED
      BY <1>0, <3>1, <3>2, LeftAlone DEF Exists
  <2>2. CASE c \in S
    <3>1. PICK no \in Numbers :
            ApprovedAs(c, no) /\ baseline'[c] = [no |-> no, archived |-> FALSE, approver |-> u]
      BY <1>11, <2>2 DEF Approves
    <3>2. Stage2By(u, c) /\ HasDraft(c) /\ InStatus(c, {"QA Lead Approval Pending"})
      BY <1>11, <2>2 DEF Approves, Stage2By, InStatus
    <3>3. /\ ~HasDraft(c)' /\ Exists(c)' /\ ~Pending(c)'
          /\ past'[c] = past[c] \cup (IF HasBaseline(c) THEN {baseline[c].no} ELSE {})
      BY <1>0, <1>11, <2>2, <3>2 DEF Approves, With, HasDraft, Exists, Pending, InStatus
    <3>4. Sound(c)'
      BY <3>3 DEF Sound, InStatus
    <3>5. ThirdApproves(c)
      <4>1. draft[c].reviewer \notin {None, draft[c].author, draft[c].submitter}
        BY <1>0, <3>2 DEF Sound
      <4>2. u \notin {draft[c].author, draft[c].submitter, draft[c].reviewer}
        BY <3>2 DEF Stage2By
      <4>3. baseline'[c].approver = u
        BY <3>1
      <4> QED
        BY <4>1, <4>2, <4>3 DEF ThirdApproves
    <3>6. HasBaseline(c) => Above(no, baseline[c].no)
      <4>1. CASE no = draft[c].no
        BY <1>0, <3>2, <4>1 DEF Sound
      <4>2. CASE HasBaseline(c) /\ no = MajorNumber(c)
        <5>1. baseline[c].no \in Numbers
          BY <4>2 DEF TCTypeOK, HasBaseline, Baselines
        <5>2. baseline[c].no[1] \in Nat
          BY <5>1, CasesAssumption DEF Numbers
        <5> QED
          BY <4>2, <5>2 DEF MajorNumber, Above
      <4> QED
        BY <3>1, <4>1, <4>2 DEF ApprovedAs
    <3>7. no \notin past'[c]
      <4>1. no \notin past[c]
        BY <1>0, <3>1, <3>2 DEF Sound, ApprovedAs, Free, Used
      <4>2. HasBaseline(c) => no # baseline[c].no
        <5>1. HasBaseline(c) => baseline[c].no \in Numbers
          BY DEF TCTypeOK, HasBaseline, Baselines
        <5>2. \A m \in Numbers : ~Above(m, m)
          BY CasesAssumption DEF Numbers, Above
        <5> QED
          BY <3>6, <5>1, <5>2
      <4> QED
        BY <3>3, <4>1, <4>2
    <3>8. MovesUp(c) /\ Frozen(c)
      BY <3>1, <3>3, <3>6, <3>7 DEF MovesUp, Frozen
    <3> QED
      BY <3>4, <3>5, <3>8 DEF Good
  <2> QED
    BY <2>1, <2>2
<1>12. ASSUME NEW S \in SUBSET Cases, NEW yes \in BOOLEAN, Archives(S, yes) PROVE Good(c)
  <2>1. UNCHANGED <<draft, past, holder, place>>
    BY <1>12 DEF Archives, SetArchived
  <2>2. CASE c \notin S
    <3>1. baseline'[c] = baseline[c]
      BY <1>12, <2>2 DEF Archives, SetArchived
    <3> QED
      BY <1>0, <2>1, <3>1, LeftAlone DEF Exists
  <2>3. CASE c \in S
    <3>1. HasBaseline(c) /\ baseline[c] \in Baselines
      BY <1>12, <2>3 DEF Archives, HasBaseline, TCTypeOK
    <3>2. baseline'[c] = [baseline[c] EXCEPT !.archived = yes]
      BY <1>12, <2>3 DEF Archives, SetArchived
    <3>3. baseline'[c].no = baseline[c].no
      BY <3>1, <3>2 DEF Baselines
    <3>4. Sound(c)'
      BY <1>0, <2>1, <3>1, <3>3 DEF Sound, Pending, InStatus, HasDraft, Exists
    <3> QED
      BY <1>0, <2>1, <3>4 DEF Good, Sound, ThirdApproves, MovesUp, Frozen, Activates, HasDraft, Pending,
                             InStatus
  <2> QED
    BY <2>2, <2>3
<1> QED
  BY CaseCalls, <1>1, <1>2, <1>3, <1>4, <1>5, <1>6, <1>7, <1>8, <1>9, <1>10, <1>11, <1>12

\* The case-by-case facts hold in every reachable state.
LEMMA AllSound == CasesSpec => [](TCTypeOK /\ \A c \in Cases : Sound(c))
<1>1. CasesInit => \A c \in Cases : Sound(c)
  BY DEF CasesInit, Sound, Pending, InStatus, HasDraft
<1>2. /\ TCTypeOK /\ TCTypeOK' /\ (\A c \in Cases : Sound(c)) /\ [CasesNext]_caseVars
      => (\A c \in Cases : Sound(c))'
  BY StepsAreGood DEF Good
<1> QED
  BY <1>1, <1>2, TCTypeCorrect, PTL DEF CasesSpec

\* A version is approved by a third person, on the recommendation of a second one.
THEOREM AlwaysApprovedByAThird == CasesSpec => ApprovedByAThird
<1>1. /\ TCTypeOK /\ TCTypeOK' /\ (\A c \in Cases : Sound(c)) /\ [CasesNext]_caseVars
      => \A c \in Cases : ThirdApproves(c)
  BY StepsAreGood DEF Good
<1> QED
  BY <1>1, AllSound, PTL DEF CasesSpec, ApprovedByAThird, ThirdApproves

\* The approved version's number goes up and is never used twice.
THEOREM BaselineAlwaysMovesUp == CasesSpec => BaselineMovesUp
<1>1. /\ TCTypeOK /\ TCTypeOK' /\ (\A c \in Cases : Sound(c)) /\ [CasesNext]_caseVars
      => \A c \in Cases : MovesUp(c)
  BY StepsAreGood DEF Good
<1> QED
  BY <1>1, AllSound, PTL DEF CasesSpec, BaselineMovesUp, MovesUp

\* What is submitted for review stays as it is until it is decided.
THEOREM PendingStaysFrozen == CasesSpec => PendingIsFrozen
<1>1. /\ TCTypeOK /\ TCTypeOK' /\ (\A c \in Cases : Sound(c)) /\ [CasesNext]_caseVars
      => \A c \in Cases : Frozen(c)
  BY StepsAreGood DEF Good
<1> QED
  BY <1>1, AllSound, PTL DEF CasesSpec, PendingIsFrozen, Frozen

\* Versions stand, for any cases, people and numbers.
THEOREM VersionsAlwaysStand == CasesSpec => VersionsStand
  BY BaselineAlwaysMovesUp, PendingStaysFrozen DEF VersionsStand

-----------------------------------------------------------------------------
(* The test projects, for any number of projects and applications and any *)
(* people: whatever they create, edit, switch, ask, decide, archive and   *)
(* bring back, in any order.                                              *)

ProjectsNext == \E p \in Projects, u \in Users : ProjectStep(p, u)

\* Every step is a stutter or one call.
LEMMA ProjectCalls ==
  ASSUME [ProjectsNext]_projectVars
  PROVE  \/ UNCHANGED projectVars
         \/ \E p \in Projects, u \in Users, a \in Applications \cup {None},
               o \in Users \cup {None} : CreateProject(p, u, a, o)
         \/ \E p \in Projects, u \in Users, a \in Applications \cup {None},
               o \in Users \cup {None} : UpdateProject(p, u, a, o)
         \/ \E p \in Projects, u \in Users, b \in BOOLEAN : SetActive(p, u, b)
         \/ \E p \in Projects, u \in Users, b \in BOOLEAN : ReviewActivation(p, u, b)
         \/ \E p \in Projects, u \in Users : ArchiveProject(p, u)
         \/ \E p \in Projects, u \in Users : UnarchiveProject(p, u)
  BY DEF ProjectsNext, ProjectStep

\* Every call of the projects' router keeps the types.
LEMMA PTypeKeeps ==
  ASSUME PTypeOK, [ProjectsNext]_projectVars
  PROVE  PTypeOK'
<1> USE StaffAssumption DEF PTypeOK, Created
<1>1. UNCHANGED projectVars => PTypeOK'
  BY DEF projectVars
<1>2. ASSUME NEW p \in Projects, NEW u \in Users, NEW a \in Applications \cup {None},
             NEW o \in Users \cup {None}, CreateProject(p, u, a, o)
      PROVE  PTypeOK'
  BY <1>2 DEF CreateProject
<1>3. ASSUME NEW p \in Projects, NEW u \in Users, NEW a \in Applications \cup {None},
             NEW o \in Users \cup {None}, UpdateProject(p, u, a, o)
      PROVE  PTypeOK'
  BY <1>3 DEF UpdateProject
<1>4. ASSUME NEW p \in Projects, NEW b \in BOOLEAN, Settled(p, b), Created(p) PROVE PTypeOK'
  BY <1>4 DEF Settled
<1>5. ASSUME NEW p \in Projects, NEW u \in Users, NEW b \in BOOLEAN, SetActive(p, u, b)
      PROVE  PTypeOK'
  <2>1. CASE Settled(p, b)
    BY <1>4, <1>5, <2>1 DEF SetActive, CanSetActive, Settles
  <2>2. CASE ~Settled(p, b)
    <3>1. [active |-> b, by |-> u] \in Asked
      BY DEF Asked
    <3> QED
      BY <1>5, <2>2, <3>1 DEF SetActive, CanSetActive, Settles
  <2> QED
    BY <2>1, <2>2
<1>6. ASSUME NEW p \in Projects, NEW u \in Users, NEW b \in BOOLEAN, ReviewActivation(p, u, b)
      PROVE  PTypeOK'
  <2>1. request[p].active \in BOOLEAN
    BY <1>6 DEF ReviewActivation, CanReviewActivation, Asked
  <2> QED
    BY <1>4, <1>6, <2>1 DEF ReviewActivation, CanReviewActivation
<1>7. ASSUME NEW p \in Projects, NEW u \in Users, ArchiveProject(p, u) PROVE PTypeOK'
  BY <1>7 DEF ArchiveProject, CanArchiveProject, Live
<1>8. ASSUME NEW p \in Projects, NEW u \in Users, UnarchiveProject(p, u) PROVE PTypeOK'
  BY <1>8 DEF UnarchiveProject
<1> QED
  BY ProjectCalls, <1>1, <1>2, <1>3, <1>5, <1>6, <1>7, <1>8

----------------------------------------------------------------------------
\* Every reachable state has its type, and a project that was never created is
\* neither active, nor archived, nor asked about.
THEOREM PTypeCorrect == ProjectsSpec => []PTypeOK
<1>1. ProjectsInit => PTypeOK
  BY DEF ProjectsInit, PTypeOK, Created
<1>2. PTypeOK /\ [ProjectsNext]_projectVars => PTypeOK'
  BY PTypeKeeps
<1> QED
  BY <1>1, <1>2, PTL DEF ProjectsSpec, ProjectsNext

----------------------------------------------------------------------------
(* One live project each: what a step does to a pair of projects, of which  *)
(* it changes at most one.                                                  *)

Apart(p, q) == Live(p) /\ Live(q) /\ application[p] = application[q] => application[p] = None

\* An application that is free for p is of no other live project.
LEMMA FreeIsApart ==
  ASSUME NEW p \in Projects, NEW a, ApplicationFree(a, p), NEW q \in Projects \ {p}, Live(q)
  PROVE  a = None \/ application[q] # a
  BY DEF ApplicationFree

\* No application has two projects that are not archived.
THEOREM OneLiveAlways == ProjectsSpec => []OneLiveProject
<1>1. ProjectsInit => OneLiveProject
  BY DEF ProjectsInit, OneLiveProject, Live, Created
<1>2. PTypeOK /\ OneLiveProject /\ [ProjectsNext]_projectVars => OneLiveProject'
  <2> SUFFICES ASSUME PTypeOK, OneLiveProject, [ProjectsNext]_projectVars,
                      NEW r \in Projects, NEW s \in Projects, r # s
               PROVE  Apart(r, s)'
    BY DEF OneLiveProject, Apart
  <2>0. Apart(r, s)
    BY DEF OneLiveProject, Apart
  <2> USE StaffAssumption DEF PTypeOK, Created, Live, Apart
  <2>1. UNCHANGED projectVars => Apart(r, s)'
    BY <2>0 DEF projectVars
  <2>2. ASSUME NEW p \in Projects, NEW u \in Users, NEW a \in Applications \cup {None},
               NEW o \in Users \cup {None}, CreateProject(p, u, a, o)
        PROVE  Apart(r, s)'
    <3>1. application' = [application EXCEPT ![p] = a] /\ archived' = archived
      BY <2>2 DEF CreateProject
    <3>2. \A q \in Projects \ {p} : owner'[q] = owner[q]
      BY <2>2 DEF CreateProject
    <3>3. \A q \in Projects \ {p} : Live(q) => a = None \/ application[q] # a
      BY <2>2, FreeIsApart DEF CreateProject
    <3> QED
      BY <2>0, <3>1, <3>2, <3>3
  <2>3. ASSUME NEW p \in Projects, NEW u \in Users, NEW a \in Applications \cup {None},
               NEW o \in Users \cup {None}, UpdateProject(p, u, a, o)
        PROVE  Apart(r, s)'
    <3>1. application' = [application EXCEPT ![p] = a] /\ archived' = archived
      BY <2>3 DEF UpdateProject
    <3>2. \A q \in Projects \ {p} : owner'[q] = owner[q]
      BY <2>3 DEF UpdateProject
    <3>3. owner[p] # None
      BY <2>3 DEF UpdateProject, CanUpdateProject
    <3>4. CASE a = application[p]
      BY <2>0, <3>1, <3>2, <3>3, <3>4
    <3>5. CASE ApplicationFree(a, p)
      <4>1. \A q \in Projects \ {p} : Live(q) => a = None \/ application[q] # a
        BY <3>5, FreeIsApart
      <4> QED
        BY <2>0, <3>1, <3>2, <4>1
    <3> QED
      BY <2>3, <3>4, <3>5 DEF UpdateProject, CanUpdateProject
  <2>4. ASSUME NEW p \in Projects, NEW u \in Users, NEW b \in BOOLEAN, SetActive(p, u, b)
        PROVE  Apart(r, s)'
    BY <2>0, <2>4 DEF SetActive, Settled
  <2>5. ASSUME NEW p \in Projects, NEW u \in Users, NEW b \in BOOLEAN, ReviewActivation(p, u, b)
        PROVE  Apart(r, s)'
    BY <2>0, <2>5 DEF ReviewActivation, Settled
  <2>6. ASSUME NEW p \in Projects, NEW u \in Users, ArchiveProject(p, u) PROVE Apart(r, s)'
    BY <2>0, <2>6 DEF ArchiveProject
  <2>7. ASSUME NEW p \in Projects, NEW u \in Users, UnarchiveProject(p, u) PROVE Apart(r, s)'
    <3>1. archived' = [archived EXCEPT ![p] = FALSE] /\ UNCHANGED <<application, owner>>
      BY <2>7 DEF UnarchiveProject
    <3>2. \A q \in Projects \ {p} :
            Live(q) => application[p] = None \/ application[q] # application[p]
      BY <2>7, FreeIsApart DEF UnarchiveProject, CanUnarchiveProject
    <3> QED
      BY <2>0, <3>1, <3>2
  <2> HIDE DEF PTypeOK, Created, Live, Apart
  <2> QED
    BY ProjectCalls, <2>1, <2>2, <2>3, <2>4, <2>5, <2>6, <2>7
<1> QED
  BY <1>1, <1>2, PTypeCorrect, PTL DEF ProjectsSpec, ProjectsNext

----------------------------------------------------------------------------
\* A request that waits for a QA Lead always asks for a change.
THEOREM RequestsAreChanges == ProjectsSpec => []RequestIsAChange
<1>1. ProjectsInit => RequestIsAChange
  BY DEF ProjectsInit, RequestIsAChange
<1>2. PTypeOK /\ RequestIsAChange /\ [ProjectsNext]_projectVars => RequestIsAChange'
  <2> SUFFICES ASSUME PTypeOK, RequestIsAChange, [ProjectsNext]_projectVars
               PROVE  RequestIsAChange'
    OBVIOUS
  <2> USE StaffAssumption DEF PTypeOK, Created, RequestIsAChange
  <2>1. UNCHANGED projectVars => RequestIsAChange'
    BY DEF projectVars
  <2>2. ASSUME NEW p \in Projects, NEW u \in Users, NEW a \in Applications \cup {None},
               NEW o \in Users \cup {None}, CreateProject(p, u, a, o)
        PROVE  RequestIsAChange'
    BY <2>2 DEF CreateProject
  <2>3. ASSUME NEW p \in Projects, NEW u \in Users, NEW a \in Applications \cup {None},
               NEW o \in Users \cup {None}, UpdateProject(p, u, a, o)
        PROVE  RequestIsAChange'
    BY <2>3 DEF UpdateProject
  <2>4. ASSUME NEW p \in Projects, NEW b, Settled(p, b) PROVE RequestIsAChange'
    BY <2>4 DEF Settled
  <2>5. ASSUME NEW p \in Projects, NEW u \in Users, NEW b \in BOOLEAN, SetActive(p, u, b)
        PROVE  RequestIsAChange'
    <3>1. CASE Settled(p, b)
      BY <2>4, <3>1
    <3>2. CASE ~Settled(p, b)
      BY <2>5, <3>2 DEF SetActive, CanSetActive, Settles
    <3> QED
      BY <3>1, <3>2
  <2>6. ASSUME NEW p \in Projects, NEW u \in Users, NEW b \in BOOLEAN, ReviewActivation(p, u, b)
        PROVE  RequestIsAChange'
    BY <2>4, <2>6 DEF ReviewActivation
  <2>7. ASSUME NEW p \in Projects, NEW u \in Users, ArchiveProject(p, u) PROVE RequestIsAChange'
    BY <2>7 DEF ArchiveProject
  <2>8. ASSUME NEW p \in Projects, NEW u \in Users, UnarchiveProject(p, u)
        PROVE  RequestIsAChange'
    BY <2>8 DEF UnarchiveProject
  <2> HIDE DEF PTypeOK, Created, RequestIsAChange
  <2> QED
    BY ProjectCalls, <2>1, <2>2, <2>3, <2>5, <2>6, <2>7, <2>8
<1> QED
  BY <1>1, <1>2, PTypeCorrect, PTL DEF ProjectsSpec, ProjectsNext

\* The projects are sound, for any number of them.
THEOREM ProjectsAlwaysSound == ProjectsSpec => []ProjectsAreSound
  BY PTypeCorrect, OneLiveAlways, RequestsAreChanges, PTL DEF ProjectsAreSound

-----------------------------------------------------------------------------
(* The workspace. *)

FormOK == form \in [Readers -> Copies \cup {NoForm}]

\* A form is of a case, or there is none.
LEMMA FormsAreOfCases ==
  ASSUME FormOK, NEW u \in Readers, form[u] # NoForm
  PROVE  u \in Users /\ form[u] \in Copies /\ form[u].case \in Cases
  BY ReadersAssumption DEF FormOK, Copies

\* What a step of the workspace is to the page: nothing, a call that may take
\* reservations away, an edit, a purge, or a step of an open page.
LEMMA PageCalls ==
  ASSUME WorkspaceNext
  PROVE  \/ UNCHANGED pageVars
         \/ CasesNext /\ form' = Released
         \/ \E u \in Users, S \in SUBSET Cases :
              /\ \A c \in S : LockAllows(c, u)
              /\ CasesNext /\ UNCHANGED <<holder, place>> /\ form' = Outdated(S, u)
         \/ \E u \in Users, S \in SUBSET Cases : Purge(u, S) /\ form' = Closed(S)
         \/ \E u \in Readers : OpenPage(u)
<1> DEFINE Edits ==
      \E u \in Users, S \in SUBSET Cases :
        /\ \A c \in S : LockAllows(c, u)
        /\ CasesNext /\ UNCHANGED <<holder, place>> /\ form' = Outdated(S, u)
<1>1. PICK u \in Users : CaseStep(u) \/ SuspendedStep(u) \/ CardStep(u) \/ OtherProjectStep(u)
  BY DEF WorkspaceNext
<1>2. ASSUME NEW c \in Cases, RowStep(u, c) \/ CheckinCase(u, c) PROVE CasesNext /\ form' = Released
  <2>1. CaseCall(u, c) /\ form' = Released
    BY <1>2 DEF RowStep, TestCaseReviewModal, TestCaseArchiveModal, RestoreButton, TestCaseCloneModal,
                CheckinCase, Watched, CaseCall
  <2> QED
    BY <2>1 DEF CasesNext
<1>3. ASSUME NEW c \in Cases, OtherStep(u, c) PROVE (CasesNext /\ form' = Released) \/ Edits
  <2>1. CASE Update(u, c) /\ form' = Outdated({c}, u)
    <3>1. CasesNext /\ LockAllows(c, u) /\ UNCHANGED <<holder, place>>
      BY <2>1 DEF CasesNext, CaseCall, Update
    <3> QED
      BY <2>1, <3>1
  <2>2. CASE ~(Update(u, c) /\ form' = Outdated({c}, u))
    <3>1. CaseCall(u, c) /\ form' = Released
      BY <1>3, <2>2 DEF OtherStep, Watched, CaseCall
    <3> QED
      BY <3>1 DEF CasesNext
  <2> QED
    BY <2>1, <2>2
<1>4. ASSUME NEW S \in SUBSET Cases, BulkStep(u, S)
      PROVE  \/ CasesNext /\ form' = Released
             \/ Edits
             \/ Purge(u, S) /\ form' = Closed(S)
  <2>1. CASE BulkUpdateModal(u, S)
    <3>1. CasesNext /\ (\A c \in S : LockAllows(c, u)) /\ UNCHANGED <<holder, place>>
      BY <2>1 DEF BulkUpdateModal, BulkUpdate, CanBulkUpdate, CasesNext, SelectionCall
    <3> QED
      BY <2>1, <3>1 DEF BulkUpdateModal
  <2>2. CASE ~BulkUpdateModal(u, S) /\ ~(Purge(u, S) /\ form' = Closed(S))
    <3>1. SelectionCall(u, S) /\ form' = Released
      BY <1>4, <2>2 DEF BulkStep, BulkSubmitModal, BulkRecommendModal, BulkApproveModal, BulkDecisionModal,
                        BulkArchiveModal, BulkRestoreFromArchiveModal, BulkDelete, ImportModal,
                        RecycleBinPanel, Watched, SelectionCall
    <3> QED
      BY <3>1 DEF CasesNext
  <2> QED
    BY <2>1, <2>2
<1>5. CASE CaseStep(u)
  BY <1>2, <1>3, <1>4, <1>5 DEF CaseStep, Authoring
<1>6. CASE SuspendedStep(u)
  BY <1>2, <1>6 DEF SuspendedStep, Reading, OpenPage
<1>7. CASE CardStep(u) \/ OtherProjectStep(u)
  BY <1>7 DEF CardStep, OtherProjectStep
<1> QED
  BY <1>1, <1>5, <1>6, <1>7

LEMMA OpenPageCalls ==
  ASSUME FormOK, NEW u \in Readers, OpenPage(u)
  PROVE  CasesNext \/ UNCHANGED caseVars
<1>0. u \in Users
  BY ReadersAssumption
<1>1. CASE StartEditing(u) \/ FinishEditing(u) \/ OverrideCheckout(u) \/ Save(u)
  <2>1. form[u].case \in Cases
    BY <1>1, FormsAreOfCases DEF StartEditing, FinishEditing, OverrideCheckout, Save, MaySave
  <2>2. CaseCall(u, form[u].case)
    BY <1>1 DEF StartEditing, FinishEditing, OverrideCheckout, Save, CaseCall
  <2> QED
    BY <1>0, <2>1, <2>2 DEF CasesNext
<1>2. CASE CloseCase(u)
  BY <1>2 DEF CloseCase
<1>3. ASSUME NEW c \in Cases, OpenCase(u, c) \/ CheckoutCase(u, c) \/ SaveNew(u, c)
      PROVE  CasesNext \/ UNCHANGED caseVars
  BY <1>0, <1>3 DEF OpenCase, CheckoutCase, SaveNew, CasesNext, CaseCall
<1> QED
  BY <1>1, <1>2, <1>3 DEF OpenPage

----------------------------------------------------------------------------
(* The dialogs of the project cards: of a project, and the one that switches *)
(* it announces a state to switch it to.                                     *)

Offers  == {"edit", "approve", "reject", "status", "archive", "unarchive"}
Dialogs == [offer : Offers, of : Projects, value : BOOLEAN \cup {None}]

DialogOK ==
  /\ dialog \in [Viewers -> Dialogs \cup {None}]
  /\ \A u \in Viewers : dialog[u] # None /\ dialog[u].offer = "status" => dialog[u].value \in BOOLEAN

LEMMA AnnouncedTypes ==
  ASSUME PTypeOK, NEW u \in Users, NEW p \in Projects, NEW o \in CardOffers(u, p)
  PROVE  /\ o \in Offers /\ Announced(o, p) \in BOOLEAN \cup {None}
         /\ o = "status" => Announced(o, p) \in BOOLEAN
<1>1. o \in Offers
  BY DEF CardOffers, Offers
<1>2. CASE o = "status"
  BY <1>1, <1>2 DEF Announced, PTypeOK
<1>3. CASE o \in {"approve", "reject"}
  <2>1. request[p] # None
    BY <1>3 DEF CardOffers
  <2>2. request[p].active \in BOOLEAN
    BY <2>1 DEF PTypeOK, Asked
  <2> QED
    BY <1>1, <1>3, <2>2 DEF Announced
<1>4. CASE o \notin {"status", "approve", "reject"}
  BY <1>1, <1>4 DEF Announced
<1> QED
  BY <1>1, <1>2, <1>3, <1>4

\* What a card's dialog does is a call of the projects' router.
LEMMA CardCalls ==
  ASSUME DialogOK, NEW u \in Users, CardStep(u)
  PROVE  [ProjectsNext]_projectVars
<1>1. CASE \E p \in Projects : NewProjectModal(u, p)
  BY <1>1 DEF NewProjectModal, ProjectsNext, ProjectStep
<1>2. CASE \E p \in Projects : OpenDialog(u, p)
  BY <1>2 DEF OpenDialog
<1>3. CASE u \in Viewers /\ DialogStep(u)
  <2>1. CASE CloseDialog(u)
    BY <2>1 DEF CloseDialog
  <2>2. CASE ~CloseDialog(u)
    <3>1. dialog[u] # None
      BY <1>3, <2>2 DEF DialogStep, EditProjectModal, ChangeProjectStatus, SubmitActivationReview,
                        ArchiveProjectModal, UnarchiveProjectModal, Confirms
    <3>2. dialog[u].of \in Projects
      BY <1>3, <3>1 DEF DialogOK, Dialogs
    <3>3. ChangeProjectStatus(u) => dialog[u].value \in BOOLEAN
      BY <1>3, <3>1 DEF DialogOK, ChangeProjectStatus, Confirms
    <3>4. ProjectStep(dialog[u].of, u)
      BY <1>3, <2>2, <3>2, <3>3
      DEF DialogStep, EditProjectModal, ChangeProjectStatus, SubmitActivationReview,
          ArchiveProjectModal, UnarchiveProjectModal, ProjectStep
    <3> QED
      BY <3>2, <3>4 DEF ProjectsNext
  <2> QED
    BY <2>1, <2>2
<1> QED
  BY <1>1, <1>2, <1>3 DEF CardStep

LEMMA DialogsKeepType ==
  ASSUME PTypeOK, DialogOK, [WorkspaceNext]_workspaceVars
  PROVE  DialogOK'
<1>1. CASE UNCHANGED dialog
  BY <1>1 DEF DialogOK
<1>2. ASSUME NEW u \in Viewers, dialog' = [dialog EXCEPT ![u] = None] PROVE DialogOK'
  BY <1>2 DEF DialogOK
<1>3. ASSUME NEW u \in Viewers, NEW p \in Projects, OpenDialog(u, p) PROVE DialogOK'
  <2>1. PICK o \in CardOffers(u, p) :
          dialog' = [dialog EXCEPT ![u] = [offer |-> o, of |-> p, value |-> Announced(o, p)]]
    BY <1>3 DEF OpenDialog
  <2>2. PICK v \in BOOLEAN \cup {None} : v = Announced(o, p) /\ (o = "status" => v \in BOOLEAN)
    BY AnnouncedTypes, ViewersAssumption
  <2>3. o \in Offers
    BY AnnouncedTypes, ViewersAssumption
  <2>4. dialog' = [dialog EXCEPT ![u] = [offer |-> o, of |-> p, value |-> v]]
    BY <2>1, <2>2
  <2> QED
    BY <2>2, <2>3, <2>4 DEF DialogOK, Dialogs
<1>4. ASSUME NEW u \in Users, CardStep(u) PROVE DialogOK'
  <2>1. CASE \E p \in Projects : NewProjectModal(u, p)
    BY <1>1, <2>1 DEF NewProjectModal
  <2>2. CASE \E p \in Projects : u \in Viewers /\ OpenDialog(u, p)
    BY <1>3, <2>2
  <2>3. CASE u \in Viewers /\ DialogStep(u)
    BY <1>2, <2>3 DEF DialogStep, CloseDialog, EditProjectModal, ChangeProjectStatus, SubmitActivationReview,
                     ArchiveProjectModal, UnarchiveProjectModal, Confirms
  <2> QED
    BY <1>4, <2>1, <2>2, <2>3 DEF CardStep
<1>5. ASSUME NEW u \in Users, CaseStep(u) \/ SuspendedStep(u) \/ OtherProjectStep(u)
      PROVE  UNCHANGED dialog
  BY <1>5 DEF CaseStep, SuspendedStep, OtherProjectStep, Authoring, Reading, projectPageVars
<1>6. UNCHANGED workspaceVars => UNCHANGED dialog
  BY DEF workspaceVars, projectPageVars
<1> QED
  BY <1>1, <1>4, <1>5, <1>6 DEF WorkspaceNext

\* Every step of the workspace is a call of the repository's router or leaves the
\* cases alone, and so it is with the projects.
LEMMA StepsAreCalls ==
  ASSUME FormOK, DialogOK, [WorkspaceNext]_workspaceVars
  PROVE  [CasesNext]_caseVars /\ [ProjectsNext]_projectVars
<1>1. CASE UNCHANGED workspaceVars
  BY <1>1 DEF workspaceVars, pageVars, projectPageVars, caseVars, projectVars
<1>2. CASE WorkspaceNext
  <2>1. [CasesNext]_caseVars
    <3>1. ASSUME NEW u \in Users, NEW S \in SUBSET Cases, Purge(u, S) PROVE CasesNext
      BY <3>1 DEF CasesNext, SelectionCall
    <3>2. UNCHANGED pageVars => UNCHANGED caseVars
      BY DEF pageVars, caseVars
    <3> QED
      BY <1>2, <3>1, <3>2, PageCalls, OpenPageCalls
  <2>2. [ProjectsNext]_projectVars
    <3>1. PICK u \in Users : CaseStep(u) \/ SuspendedStep(u) \/ CardStep(u) \/ OtherProjectStep(u)
      BY <1>2 DEF WorkspaceNext
    <3>2. CASE CaseStep(u) \/ SuspendedStep(u)
      BY <3>2 DEF CaseStep, SuspendedStep, Authoring, Reading, projectPageVars, projectVars
    <3>3. CASE OtherProjectStep(u)
      BY <3>1, <3>3 DEF OtherProjectStep, ProjectsNext
    <3>4. CASE CardStep(u)
      BY <3>4, CardCalls
    <3> QED
      BY <3>1, <3>2, <3>3, <3>4
  <2> QED
    BY <2>1, <2>2
<1> QED
  BY <1>1, <1>2

----------------------------------------------------------------------------
(* The open forms. A case that does not exist is held by nobody: one that is *)
(* created, or created again, is reserved for no form that was open before.  *)

FormSound(v) == form[v] # NoForm /\ form[v].reserved => holder[form[v].case] = v /\ form[v].fresh

FormsInv ==
  /\ FormOK
  /\ \A v \in Readers : FormSound(v)
  /\ \A c \in Cases : ~Exists(c) => holder[c] = None

LEMMA CopyTypes ==
  ASSUME NEW c \in Cases, NEW u, NEW h, NEW fresh \in BOOLEAN, NEW reserved \in BOOLEAN
  PROVE  /\ Copy(c, u, h, fresh, reserved) \in Copies
         /\ Copy(c, u, h, fresh, reserved).case = c
         /\ Copy(c, u, h, fresh, reserved).fresh = fresh
         /\ Copy(c, u, h, fresh, reserved).reserved = reserved
<1>1. Pending(c) \in BOOLEAN
  BY DEF Pending, InStatus
<1> QED
  BY <1>1 DEF Copy, Copies

LEMMA UnheldWhenGone ==
  ASSUME TCTypeOK, TCTypeOK', \A c \in Cases : ~Exists(c) => holder[c] = None, [CasesNext]_caseVars
  PROVE  \A c \in Cases : ~Exists(c)' => holder'[c] = None
<1> SUFFICES ASSUME NEW c \in Cases, ~Exists(c)' PROVE holder'[c] = None
  OBVIOUS
<1>1. CASE UNCHANGED caseVars
  BY <1>1 DEF caseVars, Exists
<1>2. ASSUME NEW S \in SUBSET Cases, NEW u \in Users, NEW h \in Users \cup {None},
             FirstDrafts(S, u, h)
      PROVE  holder'[c] = None
  BY <1>2 DEF FirstDrafts, With, Exists
<1>3. ASSUME NEW d \in Cases, NEW u \in Users \cup {None}, Reserves(d, u) PROVE holder'[c] = None
  BY <1>3 DEF Reserves, Exists, TCTypeOK
<1>4. ASSUME NEW S \in SUBSET Cases, NEW u \in Users, Purge(u, S) PROVE holder'[c] = None
  BY <1>4 DEF Purge, With, Exists
<1>5. CASE UNCHANGED <<holder, place>>
  BY <1>5 DEF Exists
<1>6. ASSUME NEW S \in SUBSET Cases, NEW to \in {"bin", "repository"}, Bins(S, to)
      PROVE  holder'[c] = None
  BY <1>6 DEF Bins, With, Exists
<1>7. ASSUME NEW S \in SUBSET Cases, NEW u \in Users, SubmitAll(u, S) PROVE holder'[c] = None
  BY <1>7 DEF SubmitAll, With, Exists
<1>8. ASSUME \/ \E d \in Cases, u \in Users : Update(u, d)
             \/ \E S \in SUBSET Cases, u \in Users : BulkUpdate(u, S)
             \/ \E S \in SUBSET Cases, u \in Users : Recommends(S, u)
             \/ \E S \in SUBSET Cases, s \in Declined : Declines(S, s)
             \/ \E S \in SUBSET Cases, u \in Users : Approves(S, u)
             \/ \E S \in SUBSET Cases, yes \in BOOLEAN : Archives(S, yes)
      PROVE  UNCHANGED <<holder, place>>
  BY <1>8 DEF Update, BulkUpdate, Recommends, Reviewed, Declines, Approves, Archives, SetArchived
<1> QED
  BY CaseCalls, <1>1, <1>2, <1>3, <1>4, <1>5, <1>6, <1>7, <1>8

\* A case that is reserved for a reader is written to by nobody else, but for
\* administrators.
LEMMA NoStrangersWrite ==
  ASSUME NEW v \in Readers, NEW u \in Users, NEW c \in Cases, holder[c] = v, LockAllows(c, u)
  PROVE  u = v \/ u \in Admins
  BY ReadersAssumption, StaffAssumption DEF LockAllows

LEMMA NoFormIsNoCopy == NoForm \notin Copies /\ NoForm.case \notin Cases
  BY ReadersAssumption DEF NoForm, Copies

\* What becomes of the form of one reader: FormKept(v).
FormKept(v) == form'[v] \in Copies \cup {NoForm} /\ FormSound(v)'

LEMMA KeptByCalls ==
  ASSUME FormsInv, NEW v \in Readers, form'[v] = Released[v]
  PROVE  FormKept(v)
<1>1. CASE form[v] # NoForm /\ holder'[form[v].case] # v
  <2>1. form'[v] = [form[v] EXCEPT !.reserved = FALSE]
    BY <1>1 DEF Released
  <2>2. form[v] \in Copies
    BY <1>1, FormsAreOfCases DEF FormsInv
  <2>3. form'[v] \in Copies /\ form'[v].reserved = FALSE
    BY <2>1, <2>2 DEF Copies
  <2> QED
    BY <2>3 DEF FormKept, FormSound
<1>2. CASE ~(form[v] # NoForm /\ holder'[form[v].case] # v)
  BY <1>2 DEF Released, FormsInv, FormOK, FormSound, FormKept
<1> QED
  BY <1>1, <1>2

LEMMA KeptByEdits ==
  ASSUME FormsInv, NEW v \in Readers, NEW u \in Users, NEW S \in SUBSET Cases,
         \A c \in S : LockAllows(c, u), UNCHANGED holder, form'[v] = Outdated(S, u)[v]
  PROVE  FormKept(v)
<1>1. CASE v # u /\ form[v].case \in S
  <2>1. form[v] # NoForm
    BY <1>1, NoFormIsNoCopy
  <2>2. form[v] \in Copies /\ form[v].case \in Cases
    BY <2>1, FormsAreOfCases DEF FormsInv
  <2>3. form[v].reserved => u \in Admins
    BY <1>1, <2>1, <2>2, NoStrangersWrite DEF FormsInv, FormSound
  <2>4. form'[v] = [form[v] EXCEPT !.fresh = FALSE, !.reserved = @ /\ u \notin Admins]
    BY <1>1 DEF Outdated
  <2>5. form'[v] \in Copies /\ form'[v].reserved = FALSE
    BY <2>2, <2>3, <2>4 DEF Copies
  <2> QED
    BY <2>5 DEF FormKept, FormSound
<1>2. CASE ~(v # u /\ form[v].case \in S)
  BY <1>2 DEF Outdated, FormsInv, FormOK, FormSound, FormKept
<1> QED
  BY <1>1, <1>2

LEMMA KeptByPurges ==
  ASSUME FormsInv, NEW v \in Readers, NEW u \in Users, NEW S \in SUBSET Cases,
         Purge(u, S), form' = Closed(S)
  PROVE  FormKept(v)
<1>1. CASE form[v].case \in S \/ form[v] = NoForm
  BY <1>1 DEF Closed, FormSound, FormKept
<1>2. CASE form[v].case \notin S /\ form[v] # NoForm
  <2>1. form'[v] = form[v] /\ form[v].case \in Cases /\ form[v] \in Copies
    BY <1>2, FormsAreOfCases DEF Closed, FormsInv
  <2>2. holder'[form[v].case] = holder[form[v].case]
    BY <1>2, <2>1 DEF Purge, With
  <2> QED
    BY <2>1, <2>2 DEF FormsInv, FormSound, FormKept
<1> QED
  BY <1>1, <1>2

\* Somebody takes a case that nobody else holds.
LEMMA KeptByOthers ==
  ASSUME TCTypeOK, FormsInv, NEW v \in Readers, form'[v] = form[v],
         \/ UNCHANGED holder
         \/ \E c \in Cases, u \in Users : /\ v # u /\ holder[c] \in {None, u}
                                         /\ holder' = [holder EXCEPT ![c] = u]
  PROVE  FormKept(v)
<1>1. CASE form[v] = NoForm
  BY <1>1 DEF FormKept, FormSound
<1>2. CASE form[v] # NoForm
  <2>1. form[v].case \in Cases /\ v \in Users /\ v # None /\ form[v] \in Copies
    BY <1>2, FormsAreOfCases, StaffAssumption DEF FormsInv
  <2>2. holder[form[v].case] = v => holder'[form[v].case] = v
    BY <2>1 DEF TCTypeOK
  <2> QED
    BY <2>1, <2>2 DEF FormKept, FormsInv, FormSound
<1> QED
  BY <1>1, <1>2

\* The reader whose step it is gets a new copy.
LEMMA KeptByReader ==
  ASSUME NEW u \in Readers, NEW c \in Cases, NEW h, NEW fresh \in BOOLEAN, NEW reserved \in BOOLEAN,
         form'[u] = Copy(c, u, h, fresh, reserved), reserved => holder'[c] = u /\ fresh
  PROVE  FormKept(u)
<1>1. PICK k : k = Copy(c, u, h, fresh, reserved)
  OBVIOUS
<1>2. k \in Copies /\ k.case = c /\ k.fresh = fresh /\ k.reserved = reserved
  BY <1>1, CopyTypes
<1> QED
  BY <1>1, <1>2 DEF FormKept, FormSound

LEMMA KeptByOpenPages ==
  ASSUME TCTypeOK, FormsInv, NEW v \in Readers, NEW u \in Readers, OpenPage(u)
  PROVE  FormKept(v)
<1>0. u \in Users /\ FormOK /\ FormSound(u)
  BY ReadersAssumption DEF FormsInv
<1>1. CASE CloseCase(u)
  <2>1. CASE v = u
    BY <1>0, <1>1, <2>1 DEF CloseCase, FormKept, FormSound, FormOK
  <2>2. CASE v # u
    BY <1>0, <1>1, <2>2, KeptByOthers DEF CloseCase, caseVars, FormOK
  <2> QED
    BY <2>1, <2>2
<1>2. ASSUME NEW c \in Cases, OpenCase(u, c) PROVE FormKept(v)
  <2>1. CASE v = u
    BY <1>0, <1>2, <2>1, KeptByReader DEF OpenCase, caseVars, FormOK
  <2>2. CASE v # u
    BY <1>0, <1>2, <2>2, KeptByOthers DEF OpenCase, caseVars, FormOK
  <2> QED
    BY <2>1, <2>2
<1>3. ASSUME NEW c \in Cases, CheckoutCase(u, c) \/ SaveNew(u, c) PROVE FormKept(v)
  <2>1. /\ form' = [form EXCEPT ![u] = Copy(c, u, u, TRUE, TRUE)]
        /\ holder' = [holder EXCEPT ![c] = u] /\ holder[c] \in {None, u}
    <3>1. CASE CheckoutCase(u, c)
      BY <3>1 DEF CheckoutCase, Checkout, CanCheckout, HeldBy
    <3>2. CASE SaveNew(u, c)
      <4>1. ~Exists(c)
        BY <3>2 DEF SaveNew, Create, FirstDrafts, Exists
      <4>2. holder' = [holder EXCEPT ![c] = u]
        BY <3>2 DEF SaveNew, Create, FirstDrafts, With, TCTypeOK
      <4> QED
        BY <3>2, <4>1, <4>2 DEF SaveNew, FormsInv
    <3> QED
      BY <1>3, <3>1, <3>2
  <2>2. CASE v = u
    BY <1>0, <2>1, <2>2, KeptByReader DEF TCTypeOK, FormOK
  <2>3. CASE v # u
    BY <1>0, <2>1, <2>3, KeptByOthers DEF FormOK
  <2> QED
    BY <2>2, <2>3
<1>4. CASE StartEditing(u) \/ FinishEditing(u) \/ OverrideCheckout(u) \/ Save(u)
  <2> DEFINE c == form[u].case
  <2>0. form[u] # NoForm
    BY <1>4 DEF StartEditing, FinishEditing, OverrideCheckout, Save, MaySave
  <2>1. c \in Cases /\ form[u] \in Copies /\ form[u].fresh \in BOOLEAN /\ form[u].reserved \in BOOLEAN
    BY <1>0, <2>0, FormsAreOfCases DEF Copies
  <2>2. CASE StartEditing(u)
    <3>1. /\ form' = [form EXCEPT ![u] = Copy(c, u, u, form[u].fresh, form[u].reserved)]
          /\ holder' = [holder EXCEPT ![c] = u] /\ holder[c] \in {None, u}
      BY <1>0, <2>2 DEF StartEditing, Checkout, CanCheckout, HeldBy, FormOK
    <3>2. CASE v = u
      BY <1>0, <2>0, <2>1, <3>1, <3>2, KeptByReader DEF TCTypeOK, FormOK, FormSound
    <3>3. CASE v # u
      BY <1>0, <2>1, <3>1, <3>3, KeptByOthers DEF FormOK
    <3> QED
      BY <3>2, <3>3
  <2>3. CASE FinishEditing(u) \/ OverrideCheckout(u)
    <3>1. CASE v = u
      <4>1. Released[u].fresh \in BOOLEAN
        BY <2>0, <2>1 DEF Released, Copies
      <4>2. ASSUME NEW h, form' = [Released EXCEPT ![u] = Copy(c, u, h, @.fresh, FALSE)]
            PROVE  form'[u] = Copy(c, u, h, Released[u].fresh, FALSE)
        BY <4>2 DEF Released
      <4>3. \E h : form'[u] = Copy(c, u, h, Released[u].fresh, FALSE)
        BY <2>3, <4>2 DEF FinishEditing, OverrideCheckout
      <4>4. PICK h : form'[u] = Copy(c, u, h, Released[u].fresh, FALSE)
        BY <4>3
      <4> QED
        BY <2>1, <3>1, <4>1, <4>4, KeptByReader
    <3>2. CASE v # u
      <4>1. form'[v] = Released[v]
        BY <2>3, <3>2 DEF FinishEditing, OverrideCheckout, Released
      <4> QED
        BY <4>1, KeptByCalls
    <3> QED
      BY <3>1, <3>2
  <2>4. CASE Save(u)
    <3>1. LockAllows(c, u) /\ UNCHANGED holder
      BY <2>4 DEF Save, Update
    <3>2. CASE v = u
      <4>1. form'[u] = Copy(c, u, holder[c], TRUE, holder[c] = u)
        BY <2>4 DEF Save, Outdated
      <4> QED
        BY <2>1, <3>1, <3>2, <4>1, KeptByReader
    <3>3. CASE v # u
      <4>1. form'[v] = Outdated({c}, u)[v]
        BY <2>4, <3>3 DEF Save, Outdated
      <4>2. {c} \in SUBSET Cases /\ \A x \in {c} : LockAllows(x, u)
        BY <2>1, <3>1
      <4> QED
        BY <1>0, <3>1, <4>1, <4>2, KeptByEdits
    <3> QED
      BY <3>2, <3>3
  <2> QED
    BY <1>4, <2>2, <2>3, <2>4
<1> QED
  BY <1>1, <1>2, <1>3, <1>4 DEF OpenPage

\* An open page leaves the form of each reader a copy, or none.
LEMMA PagesKeepForms ==
  ASSUME FormOK, NEW u \in Readers, OpenPage(u)
  PROVE  form' = [v \in Readers |-> form'[v]]
  BY DEF FormOK, OpenPage, CloseCase, OpenCase, CheckoutCase, SaveNew, StartEditing, FinishEditing,
         OverrideCheckout, Save, Released, Outdated

\* FormsInv is inductive.
LEMMA FormsKeep ==
  ASSUME TCTypeOK, TCTypeOK', DialogOK, FormsInv, [WorkspaceNext]_workspaceVars
  PROVE  FormsInv'
<1>1. (\A c \in Cases : ~Exists(c) => holder[c] = None)'
  BY StepsAreCalls, UnheldWhenGone DEF FormsInv
<1>2. form' = [v \in Readers |-> form'[v]] /\ \A v \in Readers : FormKept(v)
  <2>1. CASE UNCHANGED <<holder, form>>
    BY <2>1 DEF FormsInv, FormOK, FormSound, FormKept
  <2>2. CASE form' = Released
    BY <2>2, KeptByCalls DEF Released
  <2>3. ASSUME NEW u \in Users, NEW S \in SUBSET Cases, \A c \in S : LockAllows(c, u),
               UNCHANGED <<holder, place>>, form' = Outdated(S, u)
        PROVE  form' = [v \in Readers |-> form'[v]] /\ \A v \in Readers : FormKept(v)
    <3>1. form' = [v \in Readers |-> form'[v]]
      BY <2>3 DEF Outdated
    <3> QED
      BY <2>3, <3>1, KeptByEdits
  <2>4. ASSUME NEW u \in Users, NEW S \in SUBSET Cases, Purge(u, S), form' = Closed(S)
        PROVE  form' = [v \in Readers |-> form'[v]] /\ \A v \in Readers : FormKept(v)
    <3>1. form' = [v \in Readers |-> form'[v]]
      BY <2>4 DEF Closed
    <3> QED
      BY <2>4, <3>1, KeptByPurges
  <2>5. ASSUME NEW u \in Readers, OpenPage(u)
        PROVE  form' = [v \in Readers |-> form'[v]] /\ \A v \in Readers : FormKept(v)
    BY <2>5, PagesKeepForms, KeptByOpenPages DEF FormsInv
  <2>6. UNCHANGED workspaceVars \/ UNCHANGED pageVars => UNCHANGED <<holder, form>>
    BY DEF workspaceVars, pageVars
  <2> QED
    BY <2>1, <2>2, <2>3, <2>4, <2>5, <2>6, PageCalls
<1> QED
  BY <1>1, <1>2 DEF FormsInv, FormOK, FormKept

WorkspaceInv == TCTypeOK /\ PTypeOK /\ DialogOK /\ FormsInv

\* The two routers, the dialogs and the forms are proved together: that a step of a
\* page is a call needs its form or dialog to be of a case or project, and back.
LEMMA WorkspaceAlways == WorkspaceSpec => []WorkspaceInv
<1>1. WorkspaceInit => WorkspaceInv
  BY DEF WorkspaceInit, WorkspaceInv, CasesInit, PageInit, ProjectsInit, DialogInit,
         TCTypeOK, Exists, HasDraft, HasBaseline, PTypeOK, Created, DialogOK,
         FormsInv, FormOK, FormSound
<1>2. WorkspaceInv /\ [WorkspaceNext]_workspaceVars => WorkspaceInv'
  BY StepsAreCalls, TCTypeKeeps, PTypeKeeps, DialogsKeepType, FormsKeep DEF WorkspaceInv, FormsInv
<1> QED
  BY <1>1, <1>2, PTL DEF WorkspaceSpec

\* The pages implement the routers' specifications: whatever the users do on them,
\* the cases and the projects go through steps of the two routers only.
THEOREM WorkspaceIsCases == WorkspaceSpec => CasesSpec
<1>1. WorkspaceInit => CasesInit
  BY DEF WorkspaceInit
<1>2. WorkspaceInv /\ [WorkspaceNext]_workspaceVars => [CasesNext]_caseVars
  BY StepsAreCalls DEF WorkspaceInv, FormsInv
<1> QED
  BY <1>1, <1>2, WorkspaceAlways, PTL DEF WorkspaceSpec, CasesSpec

\* The same for the cards of the projects and their router.
THEOREM WorkspaceIsProjects == WorkspaceSpec => ProjectsSpec
<1>1. WorkspaceInit => ProjectsInit
  BY DEF WorkspaceInit
<1>2. WorkspaceInv /\ [WorkspaceNext]_workspaceVars => [ProjectsNext]_projectVars
  BY StepsAreCalls DEF WorkspaceInv, FormsInv
<1> QED
  BY <1>1, <1>2, WorkspaceAlways, PTL DEF WorkspaceSpec, ProjectsSpec, ProjectsNext

\* A form that is reserved is held by its user and shows what the case is: nobody
\* writes to the case of a reserved form but its user (test_repository.py, _check_lock).
THEOREM ReservedFormStaysFresh == WorkspaceSpec => []ReservedFormIsFresh
<1>1. WorkspaceInv => ReservedFormIsFresh
  BY DEF WorkspaceInv, FormsInv, FormOK, FormSound, ReservedFormIsFresh
<1> QED
  BY <1>1, WorkspaceAlways, PTL


\* The dialog that switches a project does what it said when it was opened, for any
\* number of leads and engineers who switch, ask, decide and archive meanwhile: the
\* server is asked for a state and not for a change (TestProjects.tsx, is_active).
THEOREM StatusDialogIsKept == WorkspaceSpec => StatusDialogDoesWhatItSays
<1> DEFINE Kept(u) ==
      LET p == dialog[u].of IN
      /\ MayReviewProjects(u) => active'[p] = dialog[u].value /\ request'[p] = None
      /\ ~MayReviewProjects(u) => active'[p] = active[p]
<1>1. ASSUME WorkspaceInv, NEW u \in Viewers, ChangeProjectStatus(u) PROVE Kept(u)
  <2>1. PICK p \in Projects : p = dialog[u].of
    BY <1>1 DEF WorkspaceInv, DialogOK, Dialogs, ChangeProjectStatus, Confirms
  <2>2. SetActive(p, u, dialog[u].value)
    BY <1>1, <2>1 DEF ChangeProjectStatus
  <2>3. CASE Settled(p, dialog[u].value)
    <3>1. active'[p] = dialog[u].value /\ request'[p] = None
      BY <1>1, <2>3 DEF Settled, WorkspaceInv, PTypeOK
    <3>2. ~MayReviewProjects(u) => dialog[u].value = active[p]
      BY <1>1, <2>1, <2>2, <2>3, <3>1 DEF SetActive, CanSetActive, Settles
    <3> QED
      BY <2>1, <3>1, <3>2
  <2>4. CASE ~Settled(p, dialog[u].value)
    BY <2>1, <2>2, <2>4 DEF SetActive, CanSetActive, Settles
  <2> QED
    BY <2>3, <2>4
<1>2. WorkspaceInv /\ [WorkspaceNext]_workspaceVars =>
        [\A u \in Viewers : ChangeProjectStatus(u) => Kept(u)]_projectPageVars
  BY <1>1
<1> QED
  BY <1>2, WorkspaceAlways, PTL DEF WorkspaceSpec, StatusDialogDoesWhatItSays

----------------------------------------------------------------------------
(* The pages and the routers: what a row, a selection, the modal, the list of  *)
(* pending approvals and a project's card offer, against the conditions of the *)
(* handlers, in any state of the right type.                                   *)

\* The status that the list shows, and what it stands for.
LEMMA StatusShown ==
  ASSUME TCTypeOK, NEW c \in Cases, Exists(c)
  PROVE  /\ \A s \in PendingDecision \cup Submittable \cup {"Rejected"} :
              Status(c) = s <=> InStatus(c, {s})
         /\ Status(c) = "Approved" <=> ~HasDraft(c) /\ ~Archived(c)
         /\ Status(c) = "Archived" <=> ~HasDraft(c) /\ Archived(c)
         /\ ~HasDraft(c) => HasBaseline(c)
         /\ Archived(c) => HasBaseline(c)
<1>1. HasDraft(c) => draft[c].status \in PendingDecision \cup Submittable \cup {"Rejected"}
  BY DEF HasDraft, TCTypeOK, Drafts
<1>2. Archived(c) => HasBaseline(c)
  BY DEF Archived
<1>3. ~HasDraft(c) => HasBaseline(c)
  BY DEF TCTypeOK
<1>4. HasDraft(c) => Status(c) = draft[c].status
  BY DEF Status
<1>5. ~HasDraft(c) => Status(c) = IF Archived(c) THEN "Archived" ELSE "Approved"
  BY DEF Status
<1>6. \A s \in PendingDecision \cup Submittable \cup {"Rejected"} : s \notin {"Archived", "Approved"}
  BY DEF PendingDecision, Submittable
<1> QED
  BY <1>1, <1>2, <1>3, <1>4, <1>5, <1>6 DEF InStatus

\* The row's stage is the handler's: the same statuses, groups and exclusions.
LEMMA StagesShown ==
  ASSUME TCTypeOK, NEW c \in Cases, Exists(c), NEW u \in Users
  PROVE  /\ Status(c) = "Recommendation Pending" /\ HasRole(u, Engineers) /\ ~IsBlockedFromStage1(c, u)
              <=> Stage1By(u, c)
         /\ Status(c) = "QA Lead Approval Pending" /\ Governs(u) /\ ~IsBlockedFromStage2(c, u)
              <=> Stage2By(u, c)
         /\ CanActOnPendingStage(c, u) <=> Stage1By(u, c) \/ Stage2By(u, c)
         /\ Stage1By(u, c) => Status(c) = "Recommendation Pending"
         /\ Stage2By(u, c) => Status(c) = "QA Lead Approval Pending"
         /\ Pending(c) <=> Status(c) \in PendingDecision
<1>1. /\ Status(c) = "Recommendation Pending" <=> InStatus(c, {"Recommendation Pending"})
      /\ Status(c) = "QA Lead Approval Pending" <=> InStatus(c, {"QA Lead Approval Pending"})
  BY StatusShown DEF PendingDecision
<1>2. InStatus(c, {"Recommendation Pending"}) \/ InStatus(c, {"QA Lead Approval Pending"}) => HasDraft(c)
  BY DEF InStatus
<1>3. Pending(c) <=> InStatus(c, {"Recommendation Pending"}) \/ InStatus(c, {"QA Lead Approval Pending"})
  BY DEF Pending, InStatus, PendingDecision
<1> QED
  BY <1>1, <1>2, <1>3 DEF Stage1By, Stage2By, IsBlockedFromStage1, IsBlockedFromStage2,
                          CanActOnPendingStage, PendingDecision

\* The bulk bar: each command for its rows.
LEMMA BulkBarAccepted ==
  ASSUME TCTypeOK, LeadGroup # {}
  PROVE  BulkOffersAreAccepted
<1> SUFFICES ASSUME NEW u \in Users, NEW S \in Selections(u), NEW o \in BulkBar(S, u), ~KnownRefusal(u, o)
             PROVE  Accepted(u, o)
  BY DEF BulkOffersAreAccepted
<1>1. /\ MayAuthor(u) /\ S \in SUBSET Cases
      /\ \A c \in S : InRepository(c) /\ CheckboxEligibility(c, u)
  BY DEF Selections
<1>2. o.rows # {}
  BY DEF BulkBar
<1>3. \A c \in S : c \in Cases /\ Exists(c)
  BY <1>1 DEF InRepository, Exists
<1>4. CASE o = [command |-> "submit", rows |-> SubmittableSelectedIds(S)]
  <2>1. \A c \in o.rows : c \in S /\ InStatus(c, Submittable)
    <3> SUFFICES ASSUME NEW c \in S, Status(c) \in Submittable PROVE InStatus(c, Submittable)
      BY <1>4 DEF SubmittableSelectedIds
    <3> QED
      BY <1>3, StatusShown DEF InStatus
  <2>2. \A c \in o.rows : Engineers \ {draft[c].author} # {}
    BY <1>4 DEF KnownRefusal
  <2> QED
    BY <1>1, <1>2, <1>4, <2>1, <2>2 DEF Accepted, CanBulkSubmit, CanSubmitAll, MaySubmit
<1>5. CASE o = [command |-> "recommend", rows |-> RecommendSelectedIds(S, u)]
  <2>1. \A c \in o.rows : c \in S /\ Stage1By(u, c)
    BY <1>3, <1>5, StagesShown DEF RecommendSelectedIds
  <2> QED
    BY <1>1, <1>2, <1>5, <2>1 DEF Accepted, CanBulkRecommend, OneStageBy
<1>6. CASE o = [command |-> "approve", rows |-> FinalApproveSelectedIds(S, u)]
  <2>1. \A c \in o.rows : c \in S /\ Stage2By(u, c)
    BY <1>3, <1>6, StagesShown DEF FinalApproveSelectedIds
  <2> QED
    BY <1>1, <1>2, <1>6, <2>1 DEF Accepted, CanBulkApprove, OneStageBy
<1>7. CASE o \in {[command |-> "return", rows |-> ReturnRejectSelectedIds(S, u)],
                  [command |-> "reject", rows |-> ReturnRejectSelectedIds(S, u)]}
  <2>1. \A c \in o.rows : c \in S /\ (Stage1By(u, c) \/ Stage2By(u, c))
    <3>1. o.rows = RecommendSelectedIds(S, u) \cup FinalApproveSelectedIds(S, u)
      BY <1>7 DEF ReturnRejectSelectedIds
    <3>2. \A c \in RecommendSelectedIds(S, u) : c \in S /\ Stage1By(u, c)
      BY <1>3, StagesShown DEF RecommendSelectedIds
    <3>3. \A c \in FinalApproveSelectedIds(S, u) : c \in S /\ Stage2By(u, c)
      BY <1>3, StagesShown DEF FinalApproveSelectedIds
    <3> QED
      BY <3>1, <3>2, <3>3
  <2>2. PICK s \in PendingDecision : \A c \in o.rows : Status(c) = s
    <3>1. o.command = "return" \/ o.command = "reject"
      BY <1>7
    <3>2. ~\A s \in PendingDecision : \E c \in o.rows : Status(c) # s
      BY <3>1 DEF KnownRefusal
    <3> QED
      BY <3>2
  <2>3. (\A c \in o.rows : Stage1By(u, c)) \/ (\A c \in o.rows : Stage2By(u, c))
    BY <1>3, <2>1, <2>2, StagesShown DEF PendingDecision
  <2>4. OneStageBy(u, o.rows)
    BY <1>1, <1>2, <2>1, <2>3 DEF OneStageBy
  <2>5. o.command = "return" \/ o.command = "reject"
    BY <1>7
  <2> QED
    BY <2>4, <2>5 DEF Accepted
<1>8. CASE o = [command |-> "update", rows |-> IF CanOpenBulkUpdate(S) THEN S ELSE {}]
  <2>1. o.rows = S /\ \A c \in S : ~Pending(c)
    BY <1>2, <1>8 DEF CanOpenBulkUpdate
  <2>2. \A c \in S : LockAllows(c, u) /\ (~HasDraft(c) => Free(c, NextProvisional(c)))
    <3>1. o.command = "update"
      BY <1>8
    <3>2. ~\E c \in o.rows : ~LockAllows(c, u) \/ (~HasDraft(c) /\ ~Free(c, NextProvisional(c)))
      BY <3>1 DEF KnownRefusal
    <3> QED
      BY <2>1, <3>2
  <2>3. CanBulkUpdate(u, o.rows)
    BY <1>1, <1>2, <2>1, <2>2 DEF CanBulkUpdate
  <2> QED
    BY <1>8, <2>3 DEF Accepted
<1>9. CASE o = [command |-> "delete", rows |-> DeletableSelectedIds(S)]
  <2>1. \A c \in o.rows : LockAllows(c, u) /\ past[c] = {}
    <3>1. o.command = "delete"
      BY <1>9
    <3>2. ~\E c \in o.rows : ~LockAllows(c, u) \/ past[c] # {}
      BY <3>1 DEF KnownRefusal
    <3> QED
      BY <3>2
  <2>2. \A c \in o.rows : c \in S /\ ~HasBaseline(c) /\ Status(c) # "Rejected"
    BY <1>9 DEF DeletableSelectedIds, GovernedSelectedIds
  <2>3. \A c \in o.rows : ~EverDecided(c)
    BY <1>3, <2>1, <2>2, StatusShown DEF EverDecided
  <2> QED
    BY <1>1, <1>2, <1>9, <2>1, <2>2, <2>3 DEF Accepted, CanDelete
<1>10. CASE o = [command |-> "archive", rows |-> ArchivableSelectedIds(S, u)]
  <2>1. Governs(u) /\ \A c \in o.rows : c \in S /\ Status(c) = "Approved"
    BY <1>2, <1>10 DEF ArchivableSelectedIds
  <2>2. \A c \in o.rows : HasBaseline(c)
    BY <1>3, <2>1, StatusShown
  <2> QED
    BY <1>1, <1>2, <1>10, <2>1, <2>2 DEF Accepted, CanBulkArchive
<1>11. CASE o = [command |-> "restore", rows |-> RestorableSelectedIds(S, u)]
  <2>1. Governs(u) /\ \A c \in o.rows : c \in S
    BY <1>2, <1>11 DEF RestorableSelectedIds
  <2> QED
    BY <1>1, <1>2, <1>11, <2>1 DEF Accepted, CanBulkRestore
<1> QED
  BY <1>4, <1>5, <1>6, <1>7, <1>8, <1>9, <1>10, <1>11 DEF BulkBar

\* The modal and the buttons of the rows.
LEMMA ModalAccepted ==
  ASSUME TCTypeOK
  PROVE  ModalOffersAreAccepted
<1> SUFFICES ASSUME NEW u \in Users, NEW c \in Cases, Exists(c)
             PROVE
    /\ ("RETURN" \in DecisionButtons(c, u)) <=> CanDecline(u, c)
    /\ ("RECOMMEND" \in DecisionButtons(c, u) /\ HasApprover(c)) <=> CanRecommend(u, c)
    /\ ("APPROVE" \in DecisionButtons(c, u)) <=> CanApprove(u, c)
    /\ (PendingLockContext(c, u) = "decision mode") <=> (DecisionButtons(c, u) # {})
    /\ DecisionButtons(c, u) # {} => u \in PendingWith(c) \cup Admins
    /\ InRepository(c) /\ ShowsStartEditing(c, u) => CanCheckout(u, c)
    /\ ShowsRowCheckin(c, u) => CanCheckin(u, c)
    /\ ShowsOverride(c, u) => CanOverride(u, c)
    /\ InRepository(c) /\ ShowsDelete(c, u) /\ past[c] = {} => CanDelete(u, {c})
    /\ ShowsArchive(c, u) => CanArchive(u, c)
    /\ ShowsRestore(c, u) => CanRestore(u, c)
  BY DEF ModalOffersAreAccepted
<1>1. /\ "RETURN" \in DecisionButtons(c, u) <=> Stage1By(u, c) \/ Stage2By(u, c)
      /\ "RECOMMEND" \in DecisionButtons(c, u) <=> Stage1By(u, c)
      /\ "APPROVE" \in DecisionButtons(c, u) <=> Stage2By(u, c)
      /\ DecisionButtons(c, u) # {} <=> Stage1By(u, c) \/ Stage2By(u, c)
  <2>1. ~(Stage1By(u, c) /\ Stage2By(u, c))
    BY StagesShown
  <2> QED
    BY <2>1, StagesShown DEF DecisionButtons
<1>2. PendingLockContext(c, u) = "decision mode" <=> Stage1By(u, c) \/ Stage2By(u, c)
  <2>1. Stage1By(u, c) \/ Stage2By(u, c) => Pending(c)
    BY StagesArePending
  <2>2. Pending(c) => HasDraft(c)
    BY DEF Pending, InStatus
  <2>3. IsBlockedFromStage1(c, u) => IsBlockedFromStage2(c, u)
    BY DEF IsBlockedFromStage2
  <2>4. Pending(c) /\ u = draft[c].author => IsBlockedFromStage1(c, u)
    BY <2>2 DEF IsBlockedFromStage1
  <2> QED
    BY <2>1, <2>3, <2>4, StagesShown DEF PendingLockContext, PendingDecision
<1>3. Stage1By(u, c) \/ Stage2By(u, c) => u \in PendingWith(c) \cup Admins
  <2>1. Stage1By(u, c) => PendingWith(c) = Engineers
    BY StagesShown DEF PendingWith, Submittable
  <2>2. Stage2By(u, c) => PendingWith(c) = LeadGroup
    BY StagesShown DEF PendingWith, Submittable
  <2>3. Stage1By(u, c) => u \in Engineers \cup Admins
    BY DEF Stage1By, HasRole
  <2>4. Stage2By(u, c) => u \in LeadGroup \cup Admins
    BY DEF Stage2By, HasRole, Governs
  <2> QED
    BY <2>1, <2>2, <2>3, <2>4
<1>4. InRepository(c) /\ ShowsDelete(c, u) /\ past[c] = {} => CanDelete(u, {c})
  <2>1. Status(c) # "Rejected" => ~InStatus(c, {"Rejected"})
    BY StatusShown
  <2> QED
    BY <2>1 DEF ShowsDelete, Editing, CanDelete, LockAllows, EverDecided
<1>5. ShowsRestore(c, u) => CanRestore(u, c)
  BY StatusShown DEF ShowsRestore, CanRestore
<1>6. /\ InRepository(c) /\ ShowsStartEditing(c, u) => CanCheckout(u, c)
      /\ ShowsRowCheckin(c, u) => CanCheckin(u, c)
      /\ ShowsOverride(c, u) => CanOverride(u, c)
      /\ ShowsArchive(c, u) => CanArchive(u, c)
  BY DEF ShowsStartEditing, CanCheckout, ShowsRowCheckin, CanCheckin, LockAllows, ShowsOverride,
         CanOverride, ShowsArchive, CanArchive
<1> QED
  BY <1>1, <1>2, <1>3, <1>4, <1>5, <1>6 DEF CanDecline, CanRecommend, CanApprove

\* The list of pending approvals.
LEMMA PendingExact ==
  ASSUME TCTypeOK
  PROVE  PendingCasesAreExact
<1> SUFFICES ASSUME NEW c \in Cases, NEW u \in Users
             PROVE  /\ PendingCase(c, u) <=> CanDecline(u, c)
                    /\ PendingCase(c, u) <=> DecisionButtons(c, u) # {}
  BY DEF PendingCasesAreExact
<1>1. PendingCase(c, u) <=> Stage1By(u, c) \/ Stage2By(u, c)
  BY DEF PendingCase, Stage1By, Stage2By
<1>2. CASE Exists(c)
  <2>1. DecisionButtons(c, u) # {} <=> Stage1By(u, c) \/ Stage2By(u, c)
    BY <1>2, StagesShown DEF DecisionButtons
  <2> QED
    BY <1>1, <1>2, <2>1 DEF CanDecline
<1>3. CASE ~Exists(c)
  <2>1. ~HasDraft(c) /\ ~HasBaseline(c)
    BY <1>3 DEF TCTypeOK
  <2>2. ~Stage1By(u, c) /\ ~Stage2By(u, c)
    BY <2>1 DEF Stage1By, Stage2By, InStatus
  <2>3. Status(c) = "Approved"
    BY <2>1 DEF Status, Archived
  <2>4. DecisionButtons(c, u) = {}
    BY <2>3 DEF DecisionButtons, CanActOnPendingStage
  <2> QED
    BY <1>1, <1>3, <2>2, <2>4 DEF CanDecline
<1> QED
  BY <1>2, <1>3

\* The cards of the projects.
LEMMA CardsAccepted == ProjectOffersAreAccepted
<1> SUFFICES ASSUME NEW p \in Projects, NEW u \in Users, Created(p)
             PROVE
    /\ MayManageProjects(u) /\ "edit" \in CardOffers(u, p) =>
         CanUpdateProject(p, u, application[p])
    /\ MayManageProjects(u) /\ "status" \in CardOffers(u, p) =>
         CanSetActive(p, u, ~active[p])
    /\ "approve" \in CardOffers(u, p) <=> ~archived[p] /\ CanReviewActivation(p, u)
    /\ "archive" \in CardOffers(u, p) <=> CanArchiveProject(p, u)
    /\ "unarchive" \in CardOffers(u, p) /\ ApplicationFree(application[p], p) <=>
         CanUnarchiveProject(p, u)
  BY DEF ProjectOffersAreAccepted
<1>1. /\ "edit" \in CardOffers(u, p) => CanEditProjectDetails(u, p)
      /\ "status" \in CardOffers(u, p) => request[p] = None
      /\ "approve" \in CardOffers(u, p) <=> ~archived[p] /\ request[p] # None /\ MayReviewProjects(u)
      /\ "archive" \in CardOffers(u, p) <=> ~archived[p] /\ MayReviewProjects(u)
      /\ "unarchive" \in CardOffers(u, p) <=> archived[p] /\ MayReviewProjects(u)
  BY DEF CardOffers
<1> QED
  BY <1>1 DEF CanEditProjectDetails, CanUpdateProject, ManagesProject, CanSetActive,
              CanReviewActivation, CanArchiveProject, Live, CanUnarchiveProject

\* Rows, selections, the modal, the list of pending approvals and the cards agree with the
\* routers in every reachable state, for any cases, projects and people among whom there is
\* a QA Lead: the bulk recommendation asks for one, and the bar does not
\* (TestRepository.tsx and test_repository.py, TestProjects.tsx and test_projects.py).
THEOREM PagesAlwaysAgree ==
  ASSUME LeadGroup # {}
  PROVE  WorkspaceSpec => []PagesAgree
<1>1. WorkspaceInv => PagesAgree
  BY BulkBarAccepted, ModalAccepted, PendingExact, CardsAccepted DEF WorkspaceInv, PagesAgree
<1> QED
  BY <1>1, WorkspaceAlways, PTL

=============================================================================
