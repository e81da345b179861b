----------------------------- MODULE Workspace -----------------------------
(* The test repository within its test project: the two pages side by side. The *)
(* cases are those of the project Home.                                         *)
EXTENDS RepositoryPage, ProjectsPage

CONSTANT Home

ASSUME HomeAssumption == Home \in Projects

workspaceVars == <<pageVars, projectPageVars>>

WorkspaceInit == CasesInit /\ PageInit /\ ProjectsInit /\ DialogInit

\* _require_active_project
Authoring(A) == active[Home] /\ A /\ UNCHANGED projectPageVars

\* Reading, and giving a case back, ask for nothing.
Reading(A) == ~active[Home] /\ A /\ UNCHANGED projectPageVars

CaseStep(u) ==
  \/ \E c \in Cases : Authoring(RowStep(u, c)) \/ Authoring(OtherStep(u, c))
  \/ \E S \in SUBSET Cases : Authoring(BulkStep(u, S))
  \/ u \in Readers /\ Authoring(OpenPage(u))

SuspendedStep(u) ==
  \/ \E c \in Cases : Reading(CheckinCase(u, c))
  \/ u \in Readers /\ (Reading(CloseCase(u)) \/ Reading(FinishEditing(u)))
  \/ u \in Readers /\ \E c \in Cases : Reading(OpenCase(u, c))

CardStep(u) ==
  /\ \/ u \in Viewers /\ DialogStep(u)
     \/ \E p \in Projects : NewProjectModal(u, p) \/ (u \in Viewers /\ OpenDialog(u, p))
  /\ UNCHANGED pageVars

\* Calls of users whose dialog is not followed, or that no card makes by now.
OtherProjectStep(u) ==
  /\ \E p \in Projects : ProjectStep(p, u)
  /\ UNCHANGED dialog /\ UNCHANGED pageVars

WorkspaceNext ==
  \E u \in Users : CaseStep(u) \/ SuspendedStep(u) \/ CardStep(u) \/ OtherProjectStep(u)

WorkspaceSpec == WorkspaceInit /\ [][WorkspaceNext]_workspaceVars

----------------------------------------------------------------------------
\* Rows, selections, the modal, the list of pending approvals and the project cards
\* agree with the two routers, in every state of cases and projects.
PagesAgree ==
  /\ BulkOffersAreAccepted /\ ModalOffersAreAccepted /\ PendingCasesAreExact
  /\ ProjectOffersAreAccepted

=============================================================================
