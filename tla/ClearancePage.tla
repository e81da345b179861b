---------------------------- MODULE ClearancePage ----------------------------
(* What the pages of a QA Clearance Certificate (SignOff.tsx) and the end of a  *)
(* request's page (Functional.tsx) show to whom, beside the handlers they call. *)
EXTENDS Clearance, FunctionalPage

CONSTANT AppOwners    \* APPLICATION_OWNER

\* Who the detail page takes for the author, and for a checker of an earlier stage.
IsRaiser(c, u) == u \in Admins \cup {certBy[c]}
IsOwnCertificate(c, u) == u = certBy[c] /\ u \notin Admins

BugPriorStageForgotten(c, u) == FALSE

IsPriorStageApprover(c, u) == u = reviewedBy[c] /\ u \notin Admins

ShowsCertSubmit(c, u)   == IsRaiser(c, u) /\ certStatus[c] = "DRAFT"
ShowsCertResubmit(c, u) ==
  /\ IsRaiser(c, u)
  /\ certStatus[c] \in {"RETURNED_BY_SM", "SM_REJECTED", "RETURNED_BY_DEPT_HEAD_COE",
                        "RETURNED_BY_REQUESTER"}

ShowsQALeadDecision(c, u) ==
  /\ HasRole(u, LeadGroup) /\ InQA(u) /\ certStatus[c] = "SM_APPROVAL_PENDING"
  /\ ~IsOwnCertificate(c, u)

ShowsExecutiveDecision(c, u) ==
  /\ HasRole(u, Executives) /\ InQA(u) /\ certStatus[c] = "DEPT_HEAD_QA_APPROVAL_PENDING"
  /\ ~IsOwnCertificate(c, u) /\ ~IsPriorStageApprover(c, u)

\* EditSignOffModal: the text it saves.
TextChoices(c, u) ==
  IF \/ IsRaiser(c, u) /\ certStatus[c] \in Editable
     \/ HasRole(u, LeadGroup) /\ InQA(u) /\ certStatus[c] = "SM_APPROVAL_PENDING"
  THEN Texts ELSE {}

\* canManageDocuments, and _can_upload_documents behind it.
ShowsCertUpload(c, u) ==
  \/ u \in Admins
  \/ certStatus[c] \in Editable /\ IsRaiser(c, u)
  \/ ShowsQALeadDecision(c, u)
  \/ ShowsExecutiveDecision(c, u)

MayUploadToCertificate(c, u) ==
  \/ u \in Admins
  \/ certStatus[c] \in Editable /\ u = certBy[c]
  \/ certStatus[c] = "SM_APPROVAL_PENDING" /\ HasRole(u, LeadGroup) /\ InQA(u)
  \/ /\ certStatus[c] = "DEPT_HEAD_QA_APPROVAL_PENDING" /\ HasRole(u, Executives) /\ InQA(u)
     /\ u # reviewedBy[c]

\* The decisions of the panels, by the status they lead to.
CertDecisionButtons(c, u) ==
  CASE ShowsQALeadDecision(c, u) ->
         {"DEPT_HEAD_QA_APPROVAL_PENDING", "RETURNED_BY_SM", "SM_REJECTED"}
    [] ShowsExecutiveDecision(c, u) -> {"ISSUED"} \cup SentBack
    [] OTHER -> {}

\* The register's "New" button, and what its form may be for (SIGNOFF_ELIGIBLE_STATUSES):
\* a request QA has completed. The request's own button opens the form for that one.
ShowsNewCertificate(u) ==
  u \in Admins \/ (HasRole(u, Engineers \cup LeadGroup) /\ InQA(u))

SubjectChoices(u) ==
  {r \in Requests : \/ ShowsNewCertificate(u) /\ fstatus[r] \in Finished
                    \/ ShowsRequestSignoff(r, u)}

\* canRequesterDecide
ShowsRequesterDecision(r, u) ==
  /\ OwnedBy(r, u) \/ u \in AppOwners
  /\ fstatus[r] = "REQUESTER_VERIFICATION"

\* _signoff_items: the certificates in the list "Pending Approvals".
PendingCertificate(c, u) ==
  /\ InQA(u) /\ NotRequester(u, certBy[c])
  /\ \/ HasRole(u, LeadGroup) /\ certStatus[c] = "SM_APPROVAL_PENDING"
     \/ /\ HasRole(u, Executives) /\ certStatus[c] = "DEPT_HEAD_QA_APPROVAL_PENDING"
        /\ NotRequester(u, reviewedBy[c])

----------------------------------------------------------------------------
\* Whatever the pages of certificates offer somebody on a fresh copy, the server does
\* for them: the maker-checker rules of the two agree in every state, whoever raised,
\* approved, returned or reopened the certificate before.
CertificateOffersAreAccepted ==
  /\ \A c \in {d \in Certs : certStatus[d] # "ABSENT"}, u \in Users :
       /\ \A s \in CertDecisionButtons(c, u) :
            \/ CanQALeadDecide(c, u) /\ s \in QALeadVerdicts
            \/ CanExecutiveDecide(c, u) /\ s \in {"ISSUED"} \cup SentBack
       /\ ShowsCertSubmit(c, u)   => CanSubmitSignoff(c, u)
       /\ ShowsCertResubmit(c, u) => CanResubmitSignoff(c, u)
       /\ \A t \in TextChoices(c, u) : CanUpdate(c, u) /\ t \in Texts
       /\ ShowsCertUpload(c, u) => MayUploadToCertificate(c, u)
  /\ \A u \in Users : SubjectChoices(u) # {} => MayCertify(u)
  /\ \A r \in Requests, u \in Users :
       ShowsRequesterDecision(r, u) /\ OwnedBy(r, u) => CanVerdict(r, u)

\* The list "Pending Approvals" names a certificate to exactly those who may decide on
\* it now, and each of them finds the buttons on its page (pending_approvals.py:29): a
\* lead who approved the first stage is never asked for the second.
PendingCertificatesAreExact ==
  \A c \in Certs, u \in Users :
    /\ PendingCertificate(c, u) <=> CanQALeadDecide(c, u) \/ CanExecutiveDecide(c, u)
    /\ PendingCertificate(c, u) <=> CertDecisionButtons(c, u) # {}

\* The pages of certificates and the list of pending approvals agree with the server.
CertificatePageAgrees == CertificateOffersAreAccepted /\ PendingCertificatesAreExact

=============================================================================
