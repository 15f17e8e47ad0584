--------------------------- MODULE DocumentStatus ---------------------------
(***************************************************************************)
(* The pure rules of utils/composeStatus.js and utils/statusMap.js, and one*)
(* of utils/serializers.js: which of a document's embedded reviews counts, *)
(* what status is shown for a lifecycle and a review, which documents may  *)
(* be issued.                                                              *)
(*                                                                         *)
(* A review is a record with at least the fields decision, score and date. *)
(* "none" stands for JavaScript's null where a string is expected, NoScore *)
(* where a number is.                                                      *)
(***************************************************************************)
EXTENDS Integers, Sequences

ReviewDecisions ==
  {"approved", "approved_with_recommendations", "requires_changes", "rejected"}

\* The four values of the contract's CertificateStatus enum.
Lifecycles == {"Submitted", "Issued", "Revoked", "Expired"}

DocStatuses ==
  ReviewDecisions \cup {"submitted", "under_review", "issued", "expired", "revoked"}

NoScore == -1

(***************************************************************************)
(* The spellings the two normalizers accept.  A lifecycle is recognised by *)
(* its lower-cased name and anything unknown is Submitted; a decision may  *)
(* also be the contract's DocumentStatus name and anything unknown is null.*)
(***************************************************************************)
NormalizeLifecycle(raw) ==
  CASE raw \in {"Issued", "issued"}   -> "Issued"
    [] raw \in {"Revoked", "revoked"} -> "Revoked"
    [] raw \in {"Expired", "expired"} -> "Expired"
    [] OTHER                          -> "Submitted"

\* Mutant: the two approving decisions share one contract name.
DecisionToContractCoarse(d) ==
  CASE d \in {"approved", "approved_with_recommendations"} -> "Approved"
    [] d = "requires_changes"                              -> "RequiresChanges"
    [] d = "rejected"                                      -> "Rejected"
    [] OTHER                                               -> "none"

DecisionToContract(d) ==
  CASE d = "approved"                      -> "Approved"
    [] d = "approved_with_recommendations" -> "ApprovedWithRecommendations"
    [] d = "requires_changes"              -> "RequiresChanges"
    [] d = "rejected"                      -> "Rejected"
    [] OTHER                               -> "none"

NormalizeDecision(raw) ==
  IF raw \in ReviewDecisions THEN raw
  ELSE CASE raw = "Approved"                    -> "approved"
         [] raw = "ApprovedWithRecommendations" -> "approved_with_recommendations"
         [] raw = "RequiresChanges"             -> "requires_changes"
         [] raw = "Rejected"                    -> "rejected"
         [] OTHER                               -> "none"

(***************************************************************************)
(* latestReview: the last entry, in array order, among those of the newest *)
(* date.  The set of its positions is empty or a singleton.                *)
(***************************************************************************)
\* Mutant: > for >= in the reduce, so that the first of the newest entries wins.
FirstOfLatestPositions(reviews) ==
  {i \in DOMAIN reviews :
     \A j \in DOMAIN reviews :
        \/ reviews[j].date < reviews[i].date
        \/ reviews[j].date = reviews[i].date /\ j >= i}

LatestPositions(reviews) ==
  {i \in DOMAIN reviews :
     \A j \in DOMAIN reviews :
        \/ reviews[j].date < reviews[i].date
        \/ reviews[j].date = reviews[i].date /\ j <= i}

LatestDecision(reviews) ==
  IF LatestPositions(reviews) = {} THEN "none"
  ELSE reviews[CHOOSE i \in LatestPositions(reviews) : TRUE].decision

OverallComplianceScore(reviews) ==
  IF LatestPositions(reviews) = {} THEN NoScore
  ELSE reviews[CHOOSE i \in LatestPositions(reviews) : TRUE].score

(***************************************************************************)
(* A reduce over the array as the code runs it, from left to right: the    *)
(* position kept so far (0 for none) gives way to the next one or stays.   *)
(***************************************************************************)
LastKept(length, givesWay) ==
  LET kept[n \in 0..length] ==
        IF n = 0 THEN 0
        ELSE IF kept[n - 1] = 0 \/ <<kept[n - 1], n>> \in givesWay THEN n ELSE kept[n - 1]
  IN kept[length]

\* That of latestReview: an entry gives way to one that is not older.
Reduced(reviews) ==
  LastKept(Len(reviews),
           {p \in (1..Len(reviews)) \X (1..Len(reviews)) : reviews[p[2]].date >= reviews[p[1]].date})

\* The reviewStatus of a DocItem (utils/serializers.js) comes from a reduce of its own:
\* an entry gives way to a newer one only, so the first of several newest is shown.
ShownDecision(reviews) ==
  LET newer == {p \in (1..Len(reviews)) \X (1..Len(reviews)) : reviews[p[2]].date > reviews[p[1]].date}
  IN IF reviews = <<>> THEN "none" ELSE reviews[LastKept(Len(reviews), newer)].decision

(***************************************************************************)
(* composeStatus: Revoked, Expired and Issued win outright; a Submitted    *)
(* document shows its latest decision.  No caller ever sets the inReview   *)
(* flag (the Certificate schema has no such path), so it is left out here  *)
(* and "under_review" is never composed.                                   *)
(***************************************************************************)
ComposeStatus(lifecycle, decision) ==
  LET life == NormalizeLifecycle(lifecycle)
      d    == NormalizeDecision(decision)
  IN CASE life = "Revoked" -> "revoked"
       [] life = "Expired" -> "expired"
       [] life = "Issued"  -> "issued"
       [] OTHER            -> IF d \in ReviewDecisions THEN d ELSE "submitted"

\* Mutant: the gate forgets approvals with recommendations.
IsIssuableIfApproved(decision) == NormalizeDecision(decision) = "approved"

\* The issuing gate (gap #2).
IsIssuable(decision) ==
  NormalizeDecision(decision) \in {"approved", "approved_with_recommendations"}
=============================================================================
