----------------------------- MODULE Clearance -----------------------------
(***************************************************************************)
(* A Functional Testing Request from QA Completed to Closed, with the QA   *)
(* Clearance Certificates that clear it: routers/functional.py asks for a  *)
(* certificate and takes the requester's verdict, routers/signoff.py moves *)
(* the requests of a certificate it issues.                                *)
(*                                                                         *)
(* ClearanceSpec is what the API accepts; PortalSpec is the part of it     *)
(* that the pages of the frontend use.                                     *)
(***************************************************************************)
EXTENDS Functional, SignOff

ASSUME ClearanceAssumption == Subjects = Requests

VARIABLE signoff    \* signoff_id of a request: the certificate linked to it

clearanceVars == <<functionalVars, signOffVars, signoff>>

ClearanceInit ==
  /\ FunctionalInit /\ SignOffInit
  /\ signoff = [r \in Requests |-> None]

Cleared == {"REQUESTER_VERIFICATION", "CLOSED"}

----------------------------------------------------------------------------
\* The optional signoff_id of two handlers: c, or the link as it was.
Links(r, c) ==
  /\ c # None => certStatus[c] # "ABSENT"
  /\ signoff' = IF c = None THEN signoff ELSE [signoff EXCEPT ![r] = c]

RequestSignoff(r, u, c) ==
  /\ HasRole(u, QALeads \cup Engineers)
  /\ HasRole(u, LeadGroup) \/ u \in testers[r]
  /\ fstatus[r] = "QA_COMPLETED" /\ OnlyMoves(r, "QA_SIGNOFF_PENDING")
  /\ Links(r, c)
  /\ UNCHANGED signOffVars

\* The manual fallback; QA_SIGNED_OFF is overwritten before the commit.
ConfirmSignoff(r, u, c) ==
  /\ HasRole(u, LeadGroup)
  /\ fstatus[r] = "QA_SIGNOFF_PENDING" /\ OnlyMoves(r, "REQUESTER_VERIFICATION")
  /\ Links(r, c)
  /\ UNCHANGED signOffVars

\* (Operators named Bug... are not part of the specification: each one is what
\* the definition after it would be with a mistake in the code.)
BugReleasesByName(c) ==
  [r \in Requests |-> IF certFor[c] = r /\ fstatus[r] = "QA_SIGNOFF_PENDING"
                      THEN "REQUESTER_VERIFICATION" ELSE fstatus[r]]

\* _sync_linked_functional_request, when certificate c is issued.
Released(c) ==
  [r \in Requests |-> IF signoff[r] = c /\ fstatus[r] = "QA_SIGNOFF_PENDING"
                      THEN "REQUESTER_VERIFICATION" ELSE fstatus[r]]

Issue(c, u) ==
  /\ ExecutiveIssues(c, u)
  /\ fstatus' = Released(c)
  /\ UNCHANGED <<reapproval, owed, byHand, testing, cycles, signoff>>

\* The role of the caller is the one its request was raised with.
CanVerdict(r, u) == OwnedBy(r, u) /\ fstatus[r] = "REQUESTER_VERIFICATION"

Accept(r, u) ==
  /\ CanVerdict(r, u) /\ OnlyMoves(r, "CLOSED")
  /\ UNCHANGED <<signOffVars, signoff>>

BugReopensAny(r) ==
  /\ certStatus' = [c \in Certs |-> IF c = signoff[r] THEN "RETURNED_BY_REQUESTER" ELSE certStatus[c]]
  /\ UNCHANGED <<certFor, certBy, reviewedBy, approvedBy, text, seen>>

\* The certificate of the request is reopened, if it has one and it is issued.
ReopensCertificate(r) ==
  IF signoff[r] # None /\ certStatus[signoff[r]] = "ISSUED"
  THEN ReturnedByRequester(signoff[r]) ELSE UNCHANGED signOffVars

RequireChanges(r, u) ==
  /\ CanVerdict(r, u) /\ OnlyMoves(r, "QA_SIGNOFF_PENDING")
  /\ ReopensCertificate(r)
  /\ UNCHANGED signoff

----------------------------------------------------------------------------
\* What neither side notices of the other.
Apart ==
  \/ FunctionalNext /\ UNCHANGED <<signOffVars, signoff>>
  \/ \E c \in Certs, u \in Users : CertificateStep(c, u) /\ UNCHANGED <<functionalVars, signoff>>

Together ==
  \/ \E c \in Certs, u \in Users : Issue(c, u)
  \/ \E r \in Requests, u \in Users : Accept(r, u) \/ RequireChanges(r, u)

ClearanceNext ==
  \/ Apart \/ Together
  \/ \E c \in Certs, u \in Users, r \in Subjects \cup {None} :
       CreateSignoff(c, u, r) /\ UNCHANGED <<functionalVars, signoff>>
  \/ \E r \in Requests, u \in Users, c \in Certs \cup {None} :
       RequestSignoff(r, u, c) \/ ConfirmSignoff(r, u, c)

ClearanceSpec == ClearanceInit /\ [][ClearanceNext]_clearanceVars

\* The pages offer a certificate for a request QA has completed (the register's
\* "New" button, the request's own modal).
NewCertificate(r, u, c) ==
  /\ fstatus[r] \in Finished
  /\ CreateSignoff(c, u, r)
  /\ UNCHANGED <<functionalVars, signoff>>

\* The modal links the certificate it has just created. This second call may be
\* refused or lost, or come after other steps; it is assumed to come before the
\* certificate has been through both its approvals.
LinkCertificate(r, u, c) ==
  /\ certFor[c] = r /\ certBy[c] = u /\ certStatus[c] # "ISSUED"
  /\ RequestSignoff(r, u, c)

PortalNext ==
  \/ Apart \/ Together
  \/ \E r \in Requests, u \in Users, c \in Certs :
       NewCertificate(r, u, c) \/ LinkCertificate(r, u, c)

PortalSpec == ClearanceInit /\ [][PortalNext]_clearanceVars

----------------------------------------------------------------------------
\* A request and its certificate never part: it waits for clearance exactly while
\* its certificate is not issued (so that issuing it moves the request on), it is
\* cleared exactly while it is, through any number of changes required, with
\* other certificates raised for it on the side.
InStep ==
  \A r \in Requests :
    /\ fstatus[r] = "QA_SIGNOFF_PENDING" =>
         signoff[r] \in Certs /\ certStatus[signoff[r]] # "ISSUED"
    /\ fstatus[r] \in Cleared =>
         signoff[r] \in Certs /\ certStatus[signoff[r]] = "ISSUED"

=============================================================================
