------------------------- MODULE CertificateHistory -------------------------
(***************************************************************************)
(* What the pair of contract and database promises about one document, in  *)
(* two variables: the lifecycles it has had on chain, and the one its      *)
(* Certificate shows.  The chain only adds to the first, in the order the  *)
(* contract allows; the database may show any lifecycle the document has   *)
(* had, and no other.  It may be behind, it is never ahead.                *)
(***************************************************************************)
VARIABLES held,  \* the lifecycles the document has had
          shown  \* the Certificate's lifecycle, "Absent" while there is none

vars == <<held, shown>>

Init == held = {} /\ shown = "Absent"

\* What the contract and the clock may make of a history h: nothing precedes the
\* submission, only an issued certificate expires, a revoked document is not issued.
Extends(h, new) ==
  /\ h \subseteq new
  /\ new \subseteq {"Submitted", "Issued", "Revoked", "Expired"}
  /\ new # {} => "Submitted" \in new
  /\ "Expired" \in new => "Issued" \in new
  /\ "Revoked" \in h /\ "Issued" \in new => "Issued" \in h

Grow == Extends(held, held') /\ UNCHANGED shown

Show == shown' \in held /\ UNCHANGED held

Next == Grow \/ Show

Spec == Init /\ [][Next]_vars
=============================================================================
