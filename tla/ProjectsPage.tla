---------------------------- MODULE ProjectsPage ----------------------------
(* The cards of TestProjects.tsx: what they offer to whom, and the dialogs that *)
(* are opened from a card, keep what it said then, and are confirmed later.     *)
(* Everybody is of the projects' department (view_only hides all of it).        *)
EXTENDS Projects

CONSTANT Viewers  \* the users whose dialog is followed

VARIABLE dialog   \* dialog[u]: [offer, of, value] as it was opened, or None

ASSUME ViewersAssumption == Viewers \subseteq Users

projectPageVars == <<application, owner, active, archived, request, dialog>>

CanEditProjectDetails(u, p) ==
  HasRole(u, LeadGroup) \/ (HasRole(u, Engineers) /\ owner[p] = u)

\* The menu of a card.
CardOffers(u, p) ==
  {o \in {"edit", "approve", "reject", "status", "archive", "unarchive"} :
     CASE o = "edit"      -> ~archived[p] /\ CanEditProjectDetails(u, p)
       [] o = "unarchive" -> archived[p] /\ MayReviewProjects(u)
       [] o = "archive"   -> ~archived[p] /\ MayReviewProjects(u)
       [] o = "status"    -> /\ ~archived[p] /\ request[p] = None
                             /\ MayReviewProjects(u) \/ MayManageProjects(u)
       [] OTHER           -> ~archived[p] /\ request[p] # None /\ MayReviewProjects(u)}

\* What its dialog announces, where that is a state of the project.
Announced(o, p) ==
  CASE o = "status"              -> ~active[p]
    [] o \in {"approve", "reject"} -> request[p].active
    [] OTHER                     -> None

DialogInit == dialog = [u \in Viewers |-> None]

OpenDialog(u, p) ==
  /\ dialog[u] = None /\ Created(p)
  /\ \E o \in CardOffers(u, p) :
       dialog' = [dialog EXCEPT ![u] = [offer |-> o, of |-> p, value |-> Announced(o, p)]]
  /\ UNCHANGED projectVars

CloseDialog(u) ==
  dialog[u] # None /\ dialog' = [dialog EXCEPT ![u] = None] /\ UNCHANGED projectVars

\* The dialog closes on a success; an error leaves it open.
Confirms(u, o) ==
  dialog[u] # None /\ dialog[u].offer = o /\ dialog' = [dialog EXCEPT ![u] = None]

EditProjectModal(u) ==
  /\ Confirms(u, "edit")
  /\ \E a \in Applications \cup {None}, o \in Users : UpdateProject(dialog[u].of, u, a, o)

ChangeProjectStatus(u) ==
  Confirms(u, "status") /\ SetActive(dialog[u].of, u, dialog[u].value)

SubmitActivationReview(u) ==
  \/ Confirms(u, "approve") /\ ReviewActivation(dialog[u].of, u, TRUE)
  \/ Confirms(u, "reject") /\ ReviewActivation(dialog[u].of, u, FALSE)

ArchiveProjectModal(u) == Confirms(u, "archive") /\ ArchiveProject(dialog[u].of, u)

UnarchiveProjectModal(u) == Confirms(u, "unarchive") /\ UnarchiveProject(dialog[u].of, u)

NewProjectModal(u, p) ==
  /\ \E a \in Applications \cup {None}, o \in Users \cup {None} : CreateProject(p, u, a, o)
  /\ UNCHANGED dialog

DialogStep(u) ==
  \/ CloseDialog(u) \/ EditProjectModal(u) \/ ChangeProjectStatus(u)
  \/ SubmitActivationReview(u) \/ ArchiveProjectModal(u) \/ UnarchiveProjectModal(u)

----------------------------------------------------------------------------
\* What a card offers, the server accepts, for owners, engineers and leads, in every
\* state of requests and archives. Known exceptions: editing and switching for an
\* executive, whom the router does not let in; an application taken meanwhile.
ProjectOffersAreAccepted ==
  \A p \in Projects, u \in Users : Created(p) =>
    /\ MayManageProjects(u) /\ "edit" \in CardOffers(u, p) =>
         CanUpdateProject(p, u, application[p])
    /\ MayManageProjects(u) /\ "status" \in CardOffers(u, p) =>
         CanSetActive(p, u, ~active[p])
    /\ "approve" \in CardOffers(u, p) <=> ~archived[p] /\ CanReviewActivation(p, u)
    /\ "archive" \in CardOffers(u, p) <=> CanArchiveProject(p, u)
    /\ "unarchive" \in CardOffers(u, p) /\ ApplicationFree(application[p], p) <=>
         CanUnarchiveProject(p, u)

\* A lead's dialog does what it says: after "Deactivate" the project is inactive and
\* after "Reactivate" active, whoever switched, asked, approved or archived since the
\* dialog was opened; and an engineer's never changes it.
StatusDialogDoesWhatItSays ==
  [][\A u \in Viewers : ChangeProjectStatus(u) =>
       LET p == dialog[u].of IN
       /\ MayReviewProjects(u) => active'[p] = dialog[u].value /\ request'[p] = None
       /\ ~MayReviewProjects(u) => active'[p] = active[p]]_projectPageVars

=============================================================================
