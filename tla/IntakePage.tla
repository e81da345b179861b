----------------------------- MODULE IntakePage -----------------------------
(* What the page of a QA request (QARequests/RequestDetail.tsx, with the banner *)
(* ApplicationNameBanner.tsx) offers to whom, beside the handlers of Intake its *)
(* buttons call. The page has rules of its own, which it applies to the copy it *)
(* has loaded; these are the rules, for a fresh copy.                           *)
EXTENDS Intake

HasActiveDelegation(g) == deleg[Gate(g)] # <<>>
IsActiveDelegate(g, u) == HasActiveDelegation(g) /\ Delegate(Gate(g)) = u
IsRequester(g, u) == u = Owner[g] \/ u \in Admins

\* The list and the page show a private request to those who work on it.
Sees(g, u) ==
  /\ status[g] # "ABSENT"
  /\ status[g] \in {"DRAFT", "CANCELLED"} => IsRequester(g, u) \/ IsActiveDelegate(g, u)

\* The button is there, but disabled under a rejected name and until every mandatory
\* criterion is declared.
ShowsSubmit(g, u) ==
  /\ IsRequester(g, u) /\ status[g] = "DRAFT" /\ ~HasActiveDelegation(g)
  /\ appStatus[link[g]] # "REJECTED" /\ details[g] = "COMPLETE"

ShowsCancel(g, u) == IsRequester(g, u) /\ ~HasActiveDelegation(g) /\ status[g] = "DRAFT"

\* canEditRequest and canUploadDocuments ask who writes, in one and the same way.
Writes(g, u) ==
  \/ u \in Admins \/ IsActiveDelegate(g, u)
  \/ u = Owner[g] /\ ~HasActiveDelegation(g)

ShowsEdit(g, u) == status[g] = "DRAFT" /\ Writes(g, u)
ShowsUpload(g, u) == status[g] # "CANCELLED" /\ Writes(g, u)

\* canAssignForInput, and whom the picker lists.
ShowsDelegate(g, u, v) ==
  IsRequester(g, u) /\ ~HasActiveDelegation(g) /\ status[g] = "DRAFT" /\ v # Owner[g]

ShowsRecall(g, u) == IsRequester(g, u) /\ HasActiveDelegation(g)
ShowsReturn(g, u) == IsActiveDelegate(g, u)

\* The handler asks for the same people, and for a request that is not cancelled.
MayUploadDocuments(g, u) ==
  /\ u \in Admins \/ u = IF HasActiveDelegation(g) THEN Delegate(Gate(g)) ELSE Owner[g]
  /\ status[g] # "CANCELLED"

BugRaisedOnly(g, u) ==
  /\ status[g] = "RAISED"
  /\ \/ appStatus[link[g]] = "PENDING_APP_OWNER" /\ u \in AppOwners \cup Admins
     \/ appStatus[link[g]] = "PENDING_SM" /\ u \in SMs \cup Admins

\* The banner on the name: no longer a draft, and the reader owns the tier.
ShowsNameDecision(g, u) ==
  /\ status[g] # "DRAFT"
  /\ \/ appStatus[link[g]] = "PENDING_APP_OWNER" /\ u \in AppOwners \cup Admins
     \/ appStatus[link[g]] = "PENDING_SM" /\ u \in SMs \cup Admins

\* gatewayStageIndex, for what the stepper has filled in.
StageIndex(g) ==
  CASE status[g] = "SUBMITTED" -> 1 [] status[g] = "RAISED" -> 2 [] OTHER -> 0

\* linkedRows, and the sections "Request Raised" sends the requester to.
LinkedRows(g) == {r \in Row : r[1] = g /\ child[r] # "NONE"}

----------------------------------------------------------------------------
\* Nobody who sees a request is offered a step the server refuses: the page and the
\* handlers state the same rules of ownership, delegation, stage and name twice.
GatewayOffersAreAccepted ==
  \A g \in Gateways, u \in Users : Sees(g, u) =>
    /\ ShowsSubmit(g, u) => CanSubmit(g, u)
    /\ ShowsCancel(g, u) => CanCancel(g, u)
    /\ ShowsEdit(g, u) => CanEdit(g, u, reqName[g], link[g])
    /\ \A v \in Users : ShowsDelegate(g, u, v) => CanAssign(Gate(g), u, v)
    /\ ShowsRecall(g, u) => CanRecall(Gate(g), u)
    /\ ShowsReturn(g, u) => CanReturn(Gate(g), u)
    /\ ShowsUpload(g, u) => MayUploadDocuments(g, u)
    /\ ShowsNameDecision(g, u) =>
         CanAppOwnerDecide(link[g], u) \/ CanSMDecideName(link[g], u)

\* A request is never left where nobody can take it on from its page: a draft has
\* somebody who may write it, one that is delegated somebody who can end that, one that
\* waits for its name an Application Owner who is offered the decision; and the
\* stepper's last stage is reached exactly when there are linked requests to go to.
SomebodyIsOffered ==
  \A g \in Gateways :
    /\ status[g] = "DRAFT" => \E u \in Users : Sees(g, u) /\ ShowsEdit(g, u)
    /\ HasActiveDelegation(g) => ShowsRecall(g, Owner[g])
    /\ status[g] = "SUBMITTED" => \A u \in AppOwners : Sees(g, u) /\ ShowsNameDecision(g, u)
    /\ LinkedRows(g) # {} => StageIndex(g) = 2

\* The page of a request and the server agree: nothing is offered that is refused, and
\* no request is left without a next step for somebody.
GatewayPageAgrees == GatewayOffersAreAccepted /\ SomebodyIsOffered

=============================================================================
