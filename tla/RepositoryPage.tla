--------------------------- MODULE RepositoryPage ---------------------------
(* What TestRepository.tsx offers on the rows of its list, one by one and for  *)
(* a selection, and its test case modal: a copy of the case and a form filled  *)
(* when the modal opens, which is not filled again when "Start editing" checks *)
(* the case out from inside it. `fresh` says of a form that nobody changed the *)
(* case after it was filled; `reserved`, that the user of the form has held    *)
(* the case ever since.                                                        *)
EXTENDS TestCases

CONSTANT Readers  \* the users whose open page is followed

VARIABLE form

ASSUME ReadersAssumption == Readers \subseteq Users /\ None \notin Cases

pageVars == <<draft, baseline, past, holder, place, form>>

NoForm == [case |-> None]
Copies == [case : Cases, by : {"nobody", "me", "other"}, pending : BOOLEAN,
           fresh : BOOLEAN, reserved : BOOLEAN]

----------------------------------------------------------------------------
(* Offers on rows as they are. *)

\* The status shown: _sync_case_mirror keeps it with the current version.
Status(c) ==
  IF HasDraft(c) THEN draft[c].status
  ELSE IF Archived(c) THEN "Archived" ELSE "Approved"

IsBlockedFromStage1(c, u) == HasDraft(c) /\ u \in {draft[c].author, draft[c].submitter}
BugReviewerForgotten(c, u) == IsBlockedFromStage1(c, u)

IsBlockedFromStage2(c, u) == IsBlockedFromStage1(c, u) \/ (HasDraft(c) /\ u = draft[c].reviewer)

CanActOnPendingStage(c, u) ==
  \/ Status(c) = "Recommendation Pending" /\ HasRole(u, Engineers) /\ ~IsBlockedFromStage1(c, u)
  \/ Status(c) = "QA Lead Approval Pending" /\ Governs(u) /\ ~IsBlockedFromStage2(c, u)

\* The "Workflow" cell: the group, or the author, that a case is pending with.
PendingWith(c) ==
  CASE Status(c) = "Recommendation Pending"   -> Engineers
    [] Status(c) = "QA Lead Approval Pending" -> LeadGroup
    [] Status(c) \in Submittable              -> {draft[c].author}
    [] OTHER                                  -> {}

\* A checkbox: disabled on a pending row for whoever may not decide on it.
CheckboxEligibility(c, u) == Pending(c) => CanActOnPendingStage(c, u)

Selections(u) ==
  IF ~MayAuthor(u) THEN {}
  ELSE {S \in SUBSET {c \in Cases : InRepository(c) /\ CheckboxEligibility(c, u)} : S # {}}

RecommendSelectedIds(S, u) ==
  {c \in S : Status(c) = "Recommendation Pending" /\ HasRole(u, Engineers) /\ ~IsBlockedFromStage1(c, u)}
FinalApproveSelectedIds(S, u) ==
  {c \in S : Status(c) = "QA Lead Approval Pending" /\ Governs(u) /\ ~IsBlockedFromStage2(c, u)}
ReturnRejectSelectedIds(S, u) == RecommendSelectedIds(S, u) \cup FinalApproveSelectedIds(S, u)

SubmittableSelectedIds(S) == {c \in S : Status(c) \in Submittable}
GovernedSelectedIds(S)    == {c \in S : HasBaseline(c) \/ Status(c) = "Rejected"}
DeletableSelectedIds(S)   == S \ GovernedSelectedIds(S)
ArchivableSelectedIds(S, u) == IF Governs(u) THEN {c \in S : Status(c) = "Approved"} ELSE {}
RestorableSelectedIds(S, u) == IF Governs(u) THEN {c \in S : Status(c) = "Archived"} ELSE {}
CanOpenBulkUpdate(S)        == \A c \in S : ~Pending(c)

\* The bulk bar: the commands it offers for a selection, with the rows of each.
BulkBar(S, u) ==
  {o \in {[command |-> "submit",    rows |-> SubmittableSelectedIds(S)],
          [command |-> "recommend", rows |-> RecommendSelectedIds(S, u)],
          [command |-> "approve",   rows |-> FinalApproveSelectedIds(S, u)],
          [command |-> "return",    rows |-> ReturnRejectSelectedIds(S, u)],
          [command |-> "reject",    rows |-> ReturnRejectSelectedIds(S, u)],
          [command |-> "update",    rows |-> IF CanOpenBulkUpdate(S) THEN S ELSE {}],
          [command |-> "delete",    rows |-> DeletableSelectedIds(S)],
          [command |-> "archive",   rows |-> ArchivableSelectedIds(S, u)],
          [command |-> "restore",   rows |-> RestorableSelectedIds(S, u)]} : o.rows # {}}

----------------------------------------------------------------------------
(* The modal, on a case as it is (its copy of it is one below). *)

\* readOnly, negated; and why it is, as the banner puts it.
Editing(c, u) == MayAuthor(u) /\ holder[c] = u /\ ~Pending(c)

PendingLockContext(c, u) ==
  IF ~Pending(c) THEN "none"
  ELSE IF \/ u = draft[c].author
          \/ Status(c) = "Recommendation Pending" /\ IsBlockedFromStage1(c, u)
          \/ Status(c) = "QA Lead Approval Pending" /\ IsBlockedFromStage2(c, u)
       THEN "maker-checker lock"
  ELSE IF \/ Status(c) = "Recommendation Pending" /\ HasRole(u, Engineers)
          \/ Status(c) = "QA Lead Approval Pending" /\ Governs(u)
       THEN "decision mode" ELSE "awaiting"

DecisionButtons(c, u) ==
  IF ~CanActOnPendingStage(c, u) THEN {}
  ELSE IF Status(c) = "Recommendation Pending" THEN {"RECOMMEND", "RETURN", "REJECT"}
  ELSE {"APPROVE", "RETURN", "REJECT"}

ShowsStartEditing(c, u) == MayAuthor(u) /\ ~Pending(c) /\ holder[c] = None
ShowsOverride(c, u)     == Governs(u) /\ ~Pending(c) /\ holder[c] \notin {None, u}
\* The editing access column of the list: the same button, and the way back.
ShowsRowCheckin(c, u)   == MayAuthor(u) /\ ~Pending(c) /\ holder[c] = u
ShowsDelete(c, u)       == Editing(c, u) /\ ~HasBaseline(c) /\ Status(c) # "Rejected"
ShowsArchive(c, u)      == Governs(u) /\ HasBaseline(c) /\ Status(c) # "Archived"
ShowsRestore(c, u)      == Governs(u) /\ Status(c) = "Archived"

\* _test_case_items: the cases in the list "Pending Approvals", wherever they are.
PendingCase(c, u) ==
  \/ /\ InStatus(c, {"Recommendation Pending"}) /\ HasRole(u, Engineers)
     /\ u # draft[c].author /\ u # draft[c].submitter
  \/ /\ InStatus(c, {"QA Lead Approval Pending"}) /\ Governs(u)
     /\ u # draft[c].author /\ u \notin {draft[c].submitter, draft[c].reviewer}

----------------------------------------------------------------------------
(* The modal as it lives: steps of the users, and what the steps of others do  *)
(* to their copies.                                                            *)

Copy(c, u, h, fresh, reserved) ==
  [case |-> c, by |-> IF h = None THEN "nobody" ELSE IF h = u THEN "me" ELSE "other",
   pending |-> Pending(c), fresh |-> fresh, reserved |-> reserved]

\* A step of somebody gave cases away, or back.
Released ==
  [v \in Readers |-> IF form[v] # NoForm /\ holder'[form[v].case] # v
                     THEN [form[v] EXCEPT !.reserved = FALSE] ELSE form[v]]

\* u wrote to the cases of S; an administrator may, over a reservation.
Outdated(S, u) ==
  [v \in Readers |-> IF v # u /\ form[v].case \in S
                     THEN [form[v] EXCEPT !.fresh = FALSE, !.reserved = @ /\ u \notin Admins]
                     ELSE form[v]]

\* The cases of S are no more (404).
Closed(S) == [v \in Readers |-> IF form[v].case \in S THEN NoForm ELSE form[v]]

PageInit == form = [v \in Readers |-> NoForm]

\* openCase, by a click on a row: the copy and the form are from one answer.
OpenCase(u, c) ==
  /\ form[u] = NoForm /\ Exists(c)
  /\ form' = [form EXCEPT ![u] = Copy(c, u, holder[c], TRUE, holder[c] = u)]
  /\ UNCHANGED caseVars

CloseCase(u) ==
  form[u] # NoForm /\ form' = [form EXCEPT ![u] = NoForm] /\ UNCHANGED caseVars

\* "Start editing" of a row opens the modal with the case checked out.
CheckoutCase(u, c) ==
  /\ form[u] = NoForm /\ Checkout(u, c)
  /\ form' = [form EXCEPT ![u] = Copy(c, u, u, TRUE, TRUE)]

\* toggleCheckout: the modal gets a new copy, its form stays as it was filled.
StartEditing(u) ==
  LET c == form[u].case IN
  /\ form[u] # NoForm /\ form[u].by = "nobody" /\ ~form[u].pending
  /\ Checkout(u, c)
  /\ form' = [form EXCEPT ![u] = Copy(c, u, u, @.fresh, @.reserved)]

FinishEditing(u) ==
  LET c == form[u].case IN
  /\ form[u] # NoForm /\ form[u].by = "me" /\ ~form[u].pending
  /\ Checkin(u, c)
  /\ form' = [Released EXCEPT ![u] = Copy(c, u, None, @.fresh, FALSE)]

OverrideCheckout(u) ==
  LET c == form[u].case IN
  /\ form[u] # NoForm /\ form[u].by = "other" /\ ~form[u].pending
  /\ CheckoutOverride(u, c)
  /\ form' = [Released EXCEPT ![u] = Copy(c, u, u, @.fresh, FALSE)]

MaySave(u) == form[u] # NoForm /\ form[u].by = "me" /\ ~form[u].pending

\* submit: the whole form is sent, and what is shown then is what was saved.
Save(u) ==
  LET c == form[u].case IN
  /\ MaySave(u) /\ Update(u, c)
  /\ form' = [Outdated({c}, u) EXCEPT ![u] = Copy(c, u, holder[c], TRUE, holder[c] = u)]

SaveNew(u, c) ==
  /\ form[u] = NoForm /\ Create(u, c)
  /\ form' = [form EXCEPT ![u] = Copy(c, u, u, TRUE, TRUE)]

\* The dialogs. Each keeps the rows it was opened for, which others may have
\* changed since: the server takes all of them as they are then, or none.
Watched == form' = Released

BulkSubmitModal(u, S)             == BulkSubmit(u, S) /\ Watched
BulkRecommendModal(u, S)          == BulkRecommend(u, S) /\ Watched
BulkApproveModal(u, S)            == BulkApprove(u, S) /\ Watched
BulkDecisionModal(u, S)           == (BulkReturn(u, S) \/ BulkReject(u, S)) /\ Watched
BulkArchiveModal(u, S)            == BulkArchive(u, S) /\ Watched
BulkRestoreFromArchiveModal(u, S) == BulkRestore(u, S) /\ Watched
BulkUpdateModal(u, S)             == BulkUpdate(u, S) /\ form' = Outdated(S, u)
BulkDelete(u, S)                  == Delete(u, S) /\ Watched
ImportModal(u, S)                 == Import(u, S) /\ Watched

RecycleBinPanel(u, S) ==
  \/ RestoreFromRecycleBin(u, S) /\ Watched
  \/ Purge(u, S) /\ form' = Closed(S)

TestCaseReviewModal(u, c) ==
  \/ Recommend(u, c) /\ Watched
  \/ Approve(u, c) /\ Watched
  \/ Return(u, c) /\ Watched
  \/ Reject(u, c) /\ Watched

TestCaseArchiveModal(u, c) == Archive(u, c) /\ Watched
RestoreButton(u, c)        == Restore(u, c) /\ Watched
TestCaseCloneModal(u, c)   == (\E d \in Cases : Clone(u, c, d)) /\ Watched
CheckinCase(u, c)          == (u \in Readers => form[u] = NoForm) /\ Checkin(u, c) /\ Watched

OpenPage(u) ==
  \/ CloseCase(u) \/ StartEditing(u) \/ FinishEditing(u) \/ OverrideCheckout(u) \/ Save(u)
  \/ \E c \in Cases : OpenCase(u, c) \/ CheckoutCase(u, c) \/ SaveNew(u, c)

RowStep(u, c) ==
  \/ TestCaseReviewModal(u, c) \/ TestCaseArchiveModal(u, c) \/ RestoreButton(u, c)
  \/ TestCaseCloneModal(u, c) \/ CheckinCase(u, c)

BulkStep(u, S) ==
  \/ BulkSubmitModal(u, S) \/ BulkRecommendModal(u, S) \/ BulkApproveModal(u, S)
  \/ BulkDecisionModal(u, S) \/ BulkArchiveModal(u, S) \/ BulkRestoreFromArchiveModal(u, S)
  \/ BulkUpdateModal(u, S) \/ BulkDelete(u, S) \/ ImportModal(u, S) \/ RecycleBinPanel(u, S)

\* Steps of users whose page is not followed, and calls no page makes.
OtherStep(u, c) ==
  \/ Create(u, c) /\ Watched
  \/ Checkout(u, c) /\ Watched
  \/ CheckoutOverride(u, c) /\ Watched
  \/ Submit(u, c) /\ Watched
  \/ ApproveMajor(u, c) /\ Watched
  \/ Update(u, c) /\ form' = Outdated({c}, u)

----------------------------------------------------------------------------
(* Properties. *)

\* A reservation does what it is for: as long as the user of an open form holds
\* the case since before the form was filled, nobody else writes to the case, by
\* single edits, bulk updates, overrides or otherwise, so that saving the form
\* writes over nothing unseen. (An administrator may break the reservation.)
ReservedFormIsFresh ==
  \A u \in Readers : form[u] # NoForm =>
    /\ form[u].reserved => holder[form[u].case] = u /\ form[u].fresh
    /\ form[u] \in Copies

\* Two refusals that the page's comments leave to the server (a selection of both
\* stages, the deletion of a case that was rejected before it was revised), and two
\* it does not know of: the checkout of somebody else, and a number in use.
KnownRefusal(u, o) ==
  CASE o.command \in {"return", "reject"} -> \A s \in PendingDecision : \E c \in o.rows : Status(c) # s
    [] o.command = "delete" -> \E c \in o.rows : ~LockAllows(c, u) \/ past[c] # {}
    [] o.command = "update" -> \E c \in o.rows :
                                 ~LockAllows(c, u) \/ (~HasDraft(c) /\ ~Free(c, NextProvisional(c)))
    [] o.command = "submit" -> \E c \in o.rows : Engineers \subseteq {draft[c].author}
    [] OTHER -> FALSE

Accepted(u, o) ==
  CASE o.command = "submit"    -> CanBulkSubmit(u, o.rows)
    [] o.command = "recommend" -> CanBulkRecommend(u, o.rows)
    [] o.command = "approve"   -> CanBulkApprove(u, o.rows)
    [] o.command \in {"return", "reject"} -> OneStageBy(u, o.rows)
    [] o.command = "update"    -> CanBulkUpdate(u, o.rows)
    [] o.command = "delete"    -> CanDelete(u, o.rows)
    [] o.command = "archive"   -> CanBulkArchive(u, o.rows)
    [] o.command = "restore"   -> CanBulkRestore(u, o.rows)

\* What the bulk bar offers for a selection that the checkboxes allow, the server
\* accepts for all of its rows, as they are now (but for the known refusals).
BulkOffersAreAccepted ==
  \A u \in Users : \A S \in Selections(u) : \A o \in BulkBar(S, u) :
    KnownRefusal(u, o) \/ Accepted(u, o)

\* The modal agrees with the server on who may decide on a pending case: it offers
\* a decision to exactly those whom the server lets decide, who all belong to the
\* group that the list names, and explains its lock to the others as what it is.
\* What else it offers is accepted.
ModalOffersAreAccepted ==
  \A u \in Users : \A c \in Cases : Exists(c) =>
    /\ ("RETURN" \in DecisionButtons(c, u)) <=> CanDecline(u, c)
    /\ ("RECOMMEND" \in DecisionButtons(c, u) /\ HasApprover(c)) <=> CanRecommend(u, c)
    /\ ("APPROVE" \in DecisionButtons(c, u)) <=> CanApprove(u, c)
    /\ (PendingLockContext(c, u) = "decision mode") <=> (DecisionButtons(c, u) # {})
    /\ DecisionButtons(c, u) # {} => u \in PendingWith(c) \cup Admins
    /\ InRepository(c) /\ ShowsStartEditing(c, u) => CanCheckout(u, c)
    /\ ShowsRowCheckin(c, u) => CanCheckin(u, c)
    /\ ShowsOverride(c, u) => CanOverride(u, c)
    /\ InRepository(c) /\ ShowsDelete(c, u) /\ past[c] = {} => CanDelete(u, {c})
    /\ ShowsArchive(c, u) => CanArchive(u, c)
    /\ ShowsRestore(c, u) => CanRestore(u, c)

\* The list "Pending Approvals" names a case to exactly those who may decide on it now
\* (pending_approvals.py:29), through bulk and single decisions, resubmissions by others
\* and deletions: nobody is asked to check their own version, or to check one twice.
PendingCasesAreExact ==
  \A c \in Cases, u \in Users :
    /\ PendingCase(c, u) <=> CanDecline(u, c)
    /\ PendingCase(c, u) <=> DecisionButtons(c, u) # {}

=============================================================================
