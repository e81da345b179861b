----------------------------- MODULE TestCases -----------------------------
(***************************************************************************)
(* The test repository (routers/test_repository.py) of an active test      *)
(* project: versions of test cases, the checkout that reserves a case for  *)
(* one editor, two-stage review, archive and recycle bin, in the single    *)
(* handlers and in the bulk ones, which take every selected case or none.  *)
(* Rows on the statuses of before "Simplified Test Management" (In Review, *)
(* Review Completed, Returned) are not modelled: no handler makes one.     *)
(***************************************************************************)
EXTENDS Staff, FiniteSets

CONSTANTS
  Cases,
  MaxMajor, MaxMinor  \* bounds of the model: the highest version number used

VARIABLES
  draft,     \* current_draft_version
  baseline,  \* current_approved_version
  past,      \* the numbers of its other versions
  holder,    \* checked_out_by
  place      \* "absent", "repository" or "bin" (is_deleted)

caseVars == <<draft, baseline, past, holder, place>>

ASSUME CasesAssumption == MaxMajor \in Nat \ {0} /\ MaxMinor \in Nat

PendingDecision == {"Recommendation Pending", "QA Lead Approval Pending"}
Submittable     == {"Draft", "Returned by QA", "Returned by QA Lead"}

Numbers == (1 .. MaxMajor) \X (0 .. MaxMinor)
Drafts ==
  [no : Numbers, status : PendingDecision \cup Submittable \cup {"Rejected"},
   author : Users, submitter : Users \cup {None}, reviewer : Users \cup {None}]
Baselines == [no : Numbers, archived : BOOLEAN, approver : Users]

\* None stands for no version.
ASSUME NoneIsNoVersion == None \notin Drafts /\ None \notin Baselines

NewDraft(no, u) ==
  [no |-> no, status |-> "Draft", author |-> u, submitter |-> None, reviewer |-> None]

MayAuthor(u) == HasRole(u, Engineers \cup LeadGroup)
Governs(u)   == HasRole(u, LeadGroup)

InRepository(c) == place[c] = "repository"
Exists(c)       == place[c] # "absent"
HasDraft(c)     == draft[c] # None
HasBaseline(c)  == baseline[c] # None
InStatus(c, S)  == HasDraft(c) /\ draft[c].status \in S
Pending(c)      == InStatus(c, PendingDecision)
Archived(c)     == IF HasBaseline(c) THEN baseline[c].archived ELSE FALSE

\* (Operators named Bug... are not part of the specification: each one is what
\* the definition after it would be with a mistake in the code.)

\* _enforce_checkout_lock
BugIgnoresCheckout(c, u) == Exists(c)

LockAllows(c, u) == holder[c] \in {None, u} \/ u \in Admins

\* A version of it was ever Approved, Archived or Rejected.
EverDecided(c) == HasBaseline(c) \/ InStatus(c, {"Rejected"}) \/ past[c] # {}

Used(c) ==
  past[c] \cup (IF HasDraft(c) THEN {draft[c].no} ELSE {})
          \cup (IF HasBaseline(c) THEN {baseline[c].no} ELSE {})

Above(m, n) == m[1] > n[1] \/ (m[1] = n[1] /\ m[2] > n[2])
Highest(S)  == CHOOSE m \in S : \A n \in S \ {m} : Above(m, n)

\* _next_provisional_version_numbers
NextProvisional(c) ==
  LET from == IF HasBaseline(c) THEN baseline[c].no ELSE Highest(Used(c))
  IN  <<from[1], from[2] + 1>>

\* uq_qap_tcv_case_version: a number in use makes the commit fail.
Free(c, no) == no \in Numbers \ Used(c)

CasesInit ==
  /\ draft = [c \in Cases |-> None]
  /\ baseline = [c \in Cases |-> None]
  /\ past = [c \in Cases |-> {}]
  /\ holder = [c \in Cases |-> None]
  /\ place = [c \in Cases |-> "absent"]

With(f, S, x) == [c \in Cases |-> IF c \in S THEN x ELSE f[c]]

----------------------------------------------------------------------------
(* Authoring. *)

FirstDrafts(S, u, h) ==
  /\ MayAuthor(u) /\ S # {} /\ \A c \in S : place[c] = "absent"
  /\ draft' = With(draft, S, NewDraft(<<1, 0>>, u))
  /\ holder' = With(holder, S, h)
  /\ place' = With(place, S, "repository")
  /\ UNCHANGED <<baseline, past>>

\* The creator goes on to edit: the new case is checked out already.
Create(u, c) == FirstDrafts({c}, u, u)

\* An imported case has only got its first draft; so has a clone.
Import(u, S)        == FirstDrafts(S, u, None)
Clone(u, c, source) == Exists(source) /\ FirstDrafts({c}, u, None)

\* What a handler asks for before it changes anything is its Can...

HeldBy(c, u) == holder' = [holder EXCEPT ![c] = u] /\ UNCHANGED <<draft, baseline, past, place>>

BugWhilePending(u, c) == MayAuthor(u) /\ InRepository(c) /\ holder[c] \in {None, u}

CanCheckout(u, c) == MayAuthor(u) /\ InRepository(c) /\ ~Pending(c) /\ holder[c] \in {None, u}
Checkout(u, c)    == CanCheckout(u, c) /\ HeldBy(c, u)

CanOverride(u, c)      == Governs(u) /\ Exists(c) /\ ~Pending(c)
CheckoutOverride(u, c) == CanOverride(u, c) /\ HeldBy(c, u)

CanCheckin(u, c) == MayAuthor(u) /\ Exists(c) /\ LockAllows(c, u)
Checkin(u, c)    == CanCheckin(u, c) /\ HeldBy(c, None)

\* An edit changes the current draft, or starts the next one: nothing asks that
\* the editor has checked the case out, only that nobody else has.
Update(u, c) ==
  /\ MayAuthor(u) /\ InRepository(c) /\ LockAllows(c, u) /\ ~Pending(c)
  /\ ~(Archived(c) /\ ~HasDraft(c))
  /\ IF InStatus(c, Submittable) THEN UNCHANGED <<draft, past>>
     ELSE /\ Free(c, NextProvisional(c))
          /\ draft' = [draft EXCEPT ![c] = NewDraft(NextProvisional(c), u)]
          /\ past' = [past EXCEPT ![c] = @ \cup (IF HasDraft(c) THEN {draft[c].no} ELSE {})]
  /\ UNCHANGED <<baseline, holder, place>>

\* Priority, test type or module: a draft is edited whatever became of it, a
\* rejected one included, and an archived baseline gets a new one.
CanBulkUpdate(u, S) ==
  /\ MayAuthor(u) /\ S # {}
  /\ \A c \in S : InRepository(c) /\ LockAllows(c, u) /\ ~Pending(c)
  /\ \A c \in S : ~HasDraft(c) => Free(c, NextProvisional(c))

BulkUpdate(u, S) ==
  /\ CanBulkUpdate(u, S)
  /\ draft' = [c \in Cases |-> IF c \in S /\ ~HasDraft(c) THEN NewDraft(NextProvisional(c), u)
                               ELSE draft[c]]
  /\ UNCHANGED <<baseline, past, holder, place>>

\* A deletion asks for no status: a case under review may go as well.
CanDelete(u, S) ==
  /\ MayAuthor(u) /\ S # {}
  /\ \A c \in S : InRepository(c) /\ LockAllows(c, u) /\ ~EverDecided(c)

Delete(u, S) ==
  /\ CanDelete(u, S)
  /\ place' = With(place, S, "bin")
  /\ UNCHANGED <<draft, baseline, past, holder>>

RestoreFromRecycleBin(u, S) ==
  /\ MayAuthor(u) /\ S # {} /\ \A c \in S : place[c] = "bin"
  /\ place' = With(place, S, "repository")
  /\ UNCHANGED <<draft, baseline, past, holder>>

Purge(u, S) ==
  /\ Governs(u) /\ S # {} /\ \A c \in S : place[c] = "bin"
  /\ draft' = With(draft, S, None)
  /\ baseline' = With(baseline, S, None)
  /\ past' = With(past, S, {})
  /\ holder' = With(holder, S, None)
  /\ place' = With(place, S, "absent")

----------------------------------------------------------------------------
(* Review: stage 1 by the QA group, stage 2 by the QA Lead group. *)

\* _submit_draft: whoever submits, the decisions of an earlier round are cleared.
Submitted(d, u) == [d EXCEPT !.status = "Recommendation Pending", !.submitter = u, !.reviewer = None]

MaySubmit(c) == InStatus(c, Submittable) /\ Engineers \ {draft[c].author} # {}

CanSubmitAll(u, S) == MayAuthor(u) /\ S # {} /\ \A c \in S : MaySubmit(c)

SubmitAll(u, S) ==
  /\ CanSubmitAll(u, S)
  /\ draft' = [c \in Cases |-> IF c \in S THEN Submitted(draft[c], u) ELSE draft[c]]
  /\ holder' = With(holder, S, None)
  /\ UNCHANGED <<baseline, past, place>>

\* The single handler looks neither at the checkout nor at the recycle bin.
Submit(u, c)        == Exists(c) /\ SubmitAll(u, {c})
CanBulkSubmit(u, S) == (\A c \in S : InRepository(c)) /\ CanSubmitAll(u, S)
BulkSubmit(u, S)    == CanBulkSubmit(u, S) /\ SubmitAll(u, S)

\* GOV-002: nobody acts twice on one draft.
Stage1By(u, c) ==
  /\ InStatus(c, {"Recommendation Pending"}) /\ HasRole(u, Engineers)
  /\ u \notin {draft[c].author, draft[c].submitter}

BugAuthorOnly(u, c) ==
  /\ InStatus(c, {"QA Lead Approval Pending"}) /\ Governs(u)
  /\ u # draft[c].author

Stage2By(u, c) ==
  /\ InStatus(c, {"QA Lead Approval Pending"}) /\ Governs(u)
  /\ u \notin {draft[c].author, draft[c].submitter, draft[c].reviewer}

\* _bulk_new_path_decision_rows: one stage at a time.
OneStageBy(u, S) ==
  /\ S # {} /\ \A c \in S : InRepository(c)
  /\ (\A c \in S : Stage1By(u, c)) \/ (\A c \in S : Stage2By(u, c))

Reviewed(S, u, status) ==
  /\ draft' = [c \in Cases |-> IF c \in S THEN [draft[c] EXCEPT !.status = status, !.reviewer = u]
                               ELSE draft[c]]
  /\ UNCHANGED <<baseline, past, holder, place>>

\* RETURN and REJECT of the single handler leave the stage 1 reviewer's name in
\* place at stage 2, where the bulk ones write the approver's over it.
Decided(c, u, status) ==
  /\ draft' = [draft EXCEPT ![c].status = status,
                            ![c].reviewer = IF @ = None THEN u ELSE @]
  /\ UNCHANGED <<baseline, past, holder, place>>

Activated(S, u, number(_)) ==
  /\ baseline' = [c \in Cases |-> IF c \in S
                                  THEN [no |-> number(c), archived |-> FALSE, approver |-> u]
                                  ELSE baseline[c]]
  /\ past' = [c \in Cases |-> IF c \in S /\ HasBaseline(c) THEN past[c] \cup {baseline[c].no}
                              ELSE past[c]]
  /\ draft' = With(draft, S, None)
  /\ UNCHANGED <<holder, place>>

\* version_bump "major": after the approved one, or 1.0.
MajorNumber(c) == IF HasBaseline(c) THEN <<baseline[c].no[1] + 1, 0>> ELSE <<1, 0>>

\* review_test_case; a recommendation needs a QA Lead to go to, and only the single
\* handler asks for one who is not the author.
HasApprover(c)     == LeadGroup \ {draft[c].author} # {}
CanRecommend(u, c) == Exists(c) /\ Stage1By(u, c) /\ HasApprover(c)
Recommend(u, c)    == CanRecommend(u, c) /\ Reviewed({c}, u, "QA Lead Approval Pending")

CanApprove(u, c) == Exists(c) /\ Stage2By(u, c)
Approve(u, c)    == CanApprove(u, c) /\ Activated({c}, u, LAMBDA x : draft[x].no)

ApproveMajor(u, c) ==
  /\ CanApprove(u, c)
  /\ MajorNumber(c) = draft[c].no \/ Free(c, MajorNumber(c))
  /\ Activated({c}, u, MajorNumber)

CanDecline(u, c) == Exists(c) /\ (Stage1By(u, c) \/ Stage2By(u, c))

Return(u, c) ==
  /\ CanDecline(u, c)
  /\ Decided(c, u, IF Stage1By(u, c) THEN "Returned by QA" ELSE "Returned by QA Lead")

Reject(u, c) == CanDecline(u, c) /\ Decided(c, u, "Rejected")

CanBulkRecommend(u, S) == OneStageBy(u, S) /\ LeadGroup # {} /\ \A c \in S : Stage1By(u, c)
BulkRecommend(u, S)    == CanBulkRecommend(u, S) /\ Reviewed(S, u, "QA Lead Approval Pending")

CanBulkApprove(u, S) == OneStageBy(u, S) /\ \A c \in S : Stage2By(u, c)
BulkApprove(u, S)    == CanBulkApprove(u, S) /\ Activated(S, u, LAMBDA x : draft[x].no)

BulkReturn(u, S) ==
  /\ OneStageBy(u, S)
  /\ Reviewed(S, u, IF \A c \in S : Stage1By(u, c) THEN "Returned by QA" ELSE "Returned by QA Lead")

BulkReject(u, S) == OneStageBy(u, S) /\ Reviewed(S, u, "Rejected")

----------------------------------------------------------------------------
(* Archive: of the approved version, beside a draft of the next one or not. *)

SetArchived(S, yes) ==
  /\ baseline' = [c \in Cases |-> IF c \in S THEN [baseline[c] EXCEPT !.archived = yes] ELSE baseline[c]]
  /\ UNCHANGED <<draft, past, holder, place>>

CanArchive(u, c) == Governs(u) /\ HasBaseline(c)
Archive(u, c)    == CanArchive(u, c) /\ SetArchived({c}, TRUE)

CanRestore(u, c) == Governs(u) /\ Archived(c)
Restore(u, c)    == CanRestore(u, c) /\ SetArchived({c}, FALSE)

CanBulkArchive(u, S) == Governs(u) /\ S # {} /\ \A c \in S : InRepository(c) /\ HasBaseline(c)
BulkArchive(u, S)    == CanBulkArchive(u, S) /\ SetArchived(S, TRUE)

\* The rows with nothing to restore are left out, not refused.
CanBulkRestore(u, S) == Governs(u) /\ S # {} /\ \A c \in S : InRepository(c)
BulkRestore(u, S)    == CanBulkRestore(u, S) /\ SetArchived({c \in S : Archived(c)}, FALSE)

\* What the router does for one case, and for a selection.
CaseCall(u, c) ==
  \/ Create(u, c) \/ \E d \in Cases : Clone(u, c, d)
  \/ Checkout(u, c) \/ CheckoutOverride(u, c) \/ Checkin(u, c) \/ Update(u, c)
  \/ Submit(u, c) \/ Recommend(u, c) \/ Approve(u, c) \/ ApproveMajor(u, c)
  \/ Return(u, c) \/ Reject(u, c) \/ Archive(u, c) \/ Restore(u, c)

SelectionCall(u, S) ==
  \/ Import(u, S) \/ BulkUpdate(u, S) \/ Delete(u, S) \/ RestoreFromRecycleBin(u, S)
  \/ Purge(u, S) \/ BulkSubmit(u, S) \/ BulkRecommend(u, S) \/ BulkApprove(u, S)
  \/ BulkReturn(u, S) \/ BulkReject(u, S) \/ BulkArchive(u, S) \/ BulkRestore(u, S)

CasesNext ==
  \E u \in Users : \/ \E c \in Cases : CaseCall(u, c)
                   \/ \E S \in SUBSET Cases : SelectionCall(u, S)

CasesSpec == CasesInit /\ [][CasesNext]_caseVars

----------------------------------------------------------------------------
(* Properties. *)

\* Type invariant: the records of a case exist only while the case does, and a
\* case has a version as long as it exists.
TCTypeOK ==
  /\ draft \in [Cases -> Drafts \cup {None}]
  /\ baseline \in [Cases -> Baselines \cup {None}]
  /\ past \in [Cases -> SUBSET Numbers]
  /\ holder \in [Cases -> Users \cup {None}]
  /\ place \in [Cases -> {"absent", "repository", "bin"}]
  /\ \A c \in Cases : Exists(c) <=> (HasDraft(c) \/ HasBaseline(c))

Activates(c) == HasDraft(c) /\ HasBaseline(c)' /\ ~HasDraft(c)' /\ Exists(c)'

\* Maker and checkers: a version becomes the approved one by the hand of somebody
\* who neither wrote, nor submitted, nor recommended it, on the recommendation of
\* somebody who neither wrote nor submitted it, whatever returns, resubmissions,
\* single and bulk decisions it went through (GOV-002).
ApprovedByAThird ==
  [][\A c \in Cases : Activates(c) =>
       LET d == draft[c] IN
       /\ d.reviewer \notin {None, d.author, d.submitter}
       /\ baseline'[c].approver \notin {d.author, d.submitter, d.reviewer}]_caseVars

\* The approved version of a case only ever moves to a number above every version
\* approved before, and never to the number of another version, also through
\* rejections, revisions, archives and major bumps.
BaselineMovesUp ==
  [][\A c \in Cases : Activates(c) =>
       /\ HasBaseline(c) => Above(baseline'[c].no, baseline[c].no)
       /\ baseline'[c].no \notin past'[c]]_caseVars

\* What is submitted stays as it was submitted: until its decision nobody holds
\* the case, so that nothing can be written to it, and no step replaces the draft
\* that was submitted by another one.
PendingIsFrozen ==
  [][\A c \in Cases : Pending(c)' =>
       /\ holder'[c] = None
       /\ Pending(c) => /\ draft'[c].no = draft[c].no
                        /\ draft'[c].author = draft[c].author
                        /\ draft'[c].submitter = draft[c].submitter]_caseVars

\* Versions stand: the approved ones among the numbers, the pending ones in what
\* is under review.
VersionsStand == BaselineMovesUp /\ PendingIsFrozen

\* "Rejected by QA Lead -- edit to start a new draft revision": a rejected draft
\* can be revised. (It cannot, once there is an approved version.)
RejectedCanBeRevised ==
  \A c \in Cases : InStatus(c, {"Rejected"}) /\ NextProvisional(c) \in Numbers =>
    Free(c, NextProvisional(c))

=============================================================================
