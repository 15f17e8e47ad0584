-------------------------- MODULE DocumentContract --------------------------
(***************************************************************************)
(* What the certificate contract does to one document, as the in-process   *)
(* contract of services/sorobanAdapter/stub.js defines it.  A document is  *)
(*   [status, expiry, reviews, anchored]                                   *)
(* with status "Absent" until it is stored and expiry 0 until it is issued.*)
(* reviews holds each reviewer's newest review; anchored is history: all   *)
(* the reviews whose transactions were applied.                            *)
(* Each operation is a guard (the conditions under which the contract does *)
(* not throw) and a function from document to document.                    *)
(***************************************************************************)
EXTENDS Integers

StoredStatuses == {"Absent", "Submitted", "Issued", "Revoked"}

\* document_exists and duplicate checks of storeDocument.
CanStore(doc) == doc.status = "Absent"
Store(doc)    == [doc EXCEPT !.status = "Submitted"]

\* issueCertificate looks at the lifecycle only: it asks for no review.
CanIssue(doc)      == doc.status = "Submitted"
Issue(doc, expiry) == [doc EXCEPT !.status = "Issued", !.expiry = expiry]

\* One review per reviewer, the newest replacing the one before, whatever the
\* document's status is.
SubmitReview(doc, officer, opinion) ==
  [doc EXCEPT !.reviews[officer] = opinion, !.anchored[officer] = @ \cup {opinion}]

\* The RevokeCertificate action of an executed proposal.
CanRevoke(doc) == doc.status # "Absent"
Revoke(doc)    == [doc EXCEPT !.status = "Revoked"]

\* verify_document reports an issued certificate past its expiry as Expired.
EffectiveStatus(doc, now) ==
  IF doc.status = "Issued" /\ now > doc.expiry THEN "Expired" ELSE doc.status
=============================================================================
