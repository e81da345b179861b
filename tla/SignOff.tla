------------------------------ MODULE SignOff ------------------------------
(***************************************************************************)
(* The QA Clearance Certificate (routers/signoff.py): raised by QA,        *)
(* approved by a QA Lead and issued by an executive, with the returns and  *)
(* reopenings between them. Clearance.tla relates it to the requests it    *)
(* clears; here the requester who reopens an issued one is the             *)
(* environment.                                                            *)
(***************************************************************************)
EXTENDS Staff

CONSTANTS
  Certs,
  Subjects,     \* what a testing_request_id may name
  Texts         \* what the certificate says

ASSUME SignOffAssumption == None \notin Certs \cup Subjects \cup Texts /\ Texts # {}

VARIABLES
  certStatus,   \* qap_signoffs.status
  certFor,      \* testing_request_id
  certBy,       \* requester_id: who raised it
  reviewedBy,   \* who approved it as QA Lead, last
  approvedBy,   \* who issued it, last
  text,         \* the fields update_signoff may change
  seen          \* history: the text put before the executives, or by an admin

signOffVars == <<certStatus, certFor, certBy, reviewedBy, approvedBy, text, seen>>

----------------------------------------------------------------------------
Editable == {"DRAFT", "RETURNED_BY_SM", "SM_REJECTED", "RETURNED_BY_DEPT_HEAD_COE",
             "RETURNED_BY_REQUESTER"}
CertStatus == {"ABSENT", "SM_APPROVAL_PENDING", "DEPT_HEAD_QA_APPROVAL_PENDING",
               "DEPT_HEAD_COE_REJECTED", "ISSUED"} \cup Editable
Someone == Users \cup {None}

STypeOK ==
  /\ certStatus \in [Certs -> CertStatus]
  /\ certFor    \in [Certs -> Subjects \cup {None}]
  /\ certBy     \in [Certs -> Someone]
  /\ \A c \in Certs : certStatus[c] = "ABSENT" <=> certBy[c] = None
  /\ reviewedBy \in [Certs -> Someone]
  /\ approvedBy \in [Certs -> Someone]
  /\ text       \in [Certs -> Texts \cup {None}]
  /\ seen       \in [Certs -> Texts \cup {None}]

SignOffInit ==
  /\ certStatus = [c \in Certs |-> "ABSENT"]
  /\ certFor    = [c \in Certs |-> None]
  /\ certBy     = [c \in Certs |-> None]
  /\ reviewedBy = [c \in Certs |-> None]
  /\ approvedBy = [c \in Certs |-> None]
  /\ text       = [c \in Certs |-> None]
  /\ seen       = [c \in Certs |-> None]

\* Certificate c goes to status s. Only approval by the QA Lead, or a resubmission to
\* the executives, puts a text before the executives.
Passes(c, s) ==
  /\ certStatus' = [certStatus EXCEPT ![c] = s]
  /\ seen' = IF s = "DEPT_HEAD_QA_APPROVAL_PENDING"
             THEN [seen EXCEPT ![c] = text[c]] ELSE seen

Raised(c, u) == u \in Admins \cup {certBy[c]}

----------------------------------------------------------------------------
MayCertify(u) == HasRole(u, LeadGroup \cup Engineers) /\ InQA(u)

CreateSignoff(c, u, r) ==
  /\ MayCertify(u) /\ certStatus[c] = "ABSENT"
  /\ certStatus' = [certStatus EXCEPT ![c] = "DRAFT"]
  /\ certBy'  = [certBy EXCEPT ![c] = u]
  /\ certFor' = [certFor EXCEPT ![c] = r]
  /\ \E t \in Texts : text' = [text EXCEPT ![c] = t]
  /\ UNCHANGED <<reviewedBy, approvedBy, seen>>

\* The windows of update_signoff, in its order: a QA Lead while it waits for QA
\* Lead approval, an admin always, whoever raised it while it is editable.
CanUpdate(c, u) ==
  \/ HasRole(u, LeadGroup) /\ InQA(u) /\ certStatus[c] = "SM_APPROVAL_PENDING"
  \/ u \in Admins /\ certStatus[c] # "ABSENT"
  \/ u = certBy[c] /\ certStatus[c] \in Editable

UpdateSignoff(c, u) ==
  /\ CanUpdate(c, u)
  /\ \E t \in Texts : text' = [text EXCEPT ![c] = t]
  /\ seen' = IF u \in Admins THEN [seen EXCEPT ![c] = text'[c]] ELSE seen
  /\ UNCHANGED <<certStatus, certFor, certBy, reviewedBy, approvedBy>>

\* (_validate_rich_text_before_progress refuses texts longer than a create or an
\* update accepts: it binds only certificates older than that limit.)
CanSubmitSignoff(c, u) == Raised(c, u) /\ certStatus[c] = "DRAFT"

SubmitSignoff(c, u) ==
  /\ CanSubmitSignoff(c, u) /\ Passes(c, "SM_APPROVAL_PENDING")
  /\ UNCHANGED <<certFor, certBy, reviewedBy, approvedBy, text>>

CanResubmitSignoff(c, u) == Raised(c, u) /\ certStatus[c] \in Editable \ {"DRAFT"}

ResubmitSignoff(c, u) ==
  /\ CanResubmitSignoff(c, u)
  /\ Passes(c, IF certStatus[c] = "RETURNED_BY_DEPT_HEAD_COE"
               THEN "DEPT_HEAD_QA_APPROVAL_PENDING" ELSE "SM_APPROVAL_PENDING")
  /\ UNCHANGED <<certFor, certBy, reviewedBy, approvedBy, text>>

CanQALeadDecide(c, u) ==
  /\ HasRole(u, LeadGroup) /\ InQA(u) /\ NotRequester(u, certBy[c])
  /\ certStatus[c] = "SM_APPROVAL_PENDING"

QALeadVerdicts == {"DEPT_HEAD_QA_APPROVAL_PENDING", "RETURNED_BY_SM", "SM_REJECTED"}

QALeadDecision(c, u) ==
  /\ CanQALeadDecide(c, u)
  /\ \E s \in QALeadVerdicts :
       /\ Passes(c, s)
       /\ reviewedBy' = IF s = "DEPT_HEAD_QA_APPROVAL_PENDING"
                        THEN [reviewedBy EXCEPT ![c] = u] ELSE reviewedBy
  /\ UNCHANGED <<certFor, certBy, approvedBy, text>>

\* (Operators named Bug... are not part of the specification: each one is what
\* the definition after it would be with a mistake in the code.)
BugTwoHats(c, u) ==
  /\ HasRole(u, Executives) /\ InQA(u) /\ NotRequester(u, certBy[c])
  /\ certStatus[c] = "DEPT_HEAD_QA_APPROVAL_PENDING"

CanExecutiveDecide(c, u) ==
  /\ HasRole(u, Executives) /\ InQA(u) /\ NotRequester(u, certBy[c])
  /\ u \in Admins \/ u # reviewedBy[c]
  /\ certStatus[c] = "DEPT_HEAD_QA_APPROVAL_PENDING"

ExecutiveIssues(c, u) ==
  /\ CanExecutiveDecide(c, u)
  /\ Passes(c, "ISSUED")
  /\ approvedBy' = [approvedBy EXCEPT ![c] = u]
  /\ UNCHANGED <<certFor, certBy, reviewedBy, text>>

SentBack == {"RETURNED_BY_DEPT_HEAD_COE", "DEPT_HEAD_COE_REJECTED"}

ExecutiveSendsBack(c, u) ==
  /\ CanExecutiveDecide(c, u)
  /\ \E s \in SentBack : Passes(c, s)
  /\ UNCHANGED <<certFor, certBy, reviewedBy, approvedBy, text>>

\* requester_decision of a request it cleared: changes required.
ReturnedByRequester(c) ==
  /\ certStatus[c] = "ISSUED" /\ Passes(c, "RETURNED_BY_REQUESTER")
  /\ UNCHANGED <<certFor, certBy, reviewedBy, approvedBy, text>>

CertificateStep(c, u) ==
  \/ UpdateSignoff(c, u) \/ SubmitSignoff(c, u) \/ ResubmitSignoff(c, u)
  \/ QALeadDecision(c, u) \/ ExecutiveSendsBack(c, u)

SignOffNext ==
  \/ \E c \in Certs, u \in Users, r \in Subjects \cup {None} : CreateSignoff(c, u, r)
  \/ \E c \in Certs, u \in Users : CertificateStep(c, u) \/ ExecutiveIssues(c, u)
  \/ \E c \in Certs : ReturnedByRequester(c)

SignOffSpec == SignOffInit /\ [][SignOffNext]_signOffVars

----------------------------------------------------------------------------
\* Maker-checker separation: whoever raised an issued certificate, whoever
\* approved it as QA Lead and whoever issued it are three people, an admin's
\* oversight excepted; also when it was returned, reopened and issued again, and
\* when one person holds all the roles.
FourEyes ==
  \A c \in Certs : certStatus[c] = "ISSUED" =>
    /\ reviewedBy[c] # None /\ approvedBy[c] # None
    /\ reviewedBy[c] \in Admins \/ reviewedBy[c] # certBy[c]
    /\ approvedBy[c] \in Admins \/ approvedBy[c] \notin {certBy[c], reviewedBy[c]}

\* While the executives decide on a certificate, and once they have issued it, it
\* says what was put before them: neither QA nor whoever raised it changes it
\* under them. (An admin may, at any status, and then it says what the admin wrote.)
IssuedAsSeen ==
  \A c \in Certs : certStatus[c] \in {"DEPT_HEAD_QA_APPROVAL_PENDING", "ISSUED"} =>
    text[c] = seen[c]

\* An issued certificate is the work of three people, and says what they saw.
IssuedRightly == FourEyes /\ IssuedAsSeen

=============================================================================
