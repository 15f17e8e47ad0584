----------------------------- MODULE StatusRules -----------------------------
(***************************************************************************)
(* The rules of DocumentStatus on every small reviews array: entries are   *)
(* replaced in place or pushed as mirrorReview does, with any dates (the   *)
(* instances' clocks need not agree), while the lifecycle moves on.        *)
(***************************************************************************)
EXTENDS AdapterCodec

CONSTANTS Authors, \* who may review
          Dates,   \* bound: the dates a review may carry
          Scores   \* bound: the scores a review may carry

ASSUME InputsAssumption == Dates \subseteq Nat /\ Scores \subseteq 0..100

VARIABLES reviews, lifecycle

rulesVars == <<reviews, lifecycle>>

GivenEntry == [by : Authors, decision : ReviewDecisions, score : Scores, date : Dates]

RulesInit == reviews = <<>> /\ lifecycle = "Submitted"

\* The reviewer's entry is replaced where it stands, or pushed.
Put(e) ==
  /\ reviews' = IF \E i \in DOMAIN reviews : reviews[i].by = e.by
                THEN [i \in DOMAIN reviews |-> IF reviews[i].by = e.by THEN e ELSE reviews[i]]
                ELSE Append(reviews, e)
  /\ UNCHANGED lifecycle

Move == lifecycle' \in Lifecycles \ {lifecycle} /\ UNCHANGED reviews

RulesNext == (\E e \in GivenEntry : Put(e)) \/ Move

RulesSpec == RulesInit /\ [][RulesNext]_rulesVars

-----------------------------------------------------------------------------
(***************************************************************************)
(* The declarative reading the models use (the last of the newest entries) *)
(* selects exactly the review that the code's loop selects, also when      *)
(* dates repeat or come in any order.                                      *)
(***************************************************************************)
LatestIsReduce ==
  IF Reduced(reviews) = 0
  THEN LatestDecision(reviews) = "none" /\ OverallComplianceScore(reviews) = NoScore
  ELSE /\ LatestDecision(reviews) = reviews[Reduced(reviews)].decision
       /\ OverallComplianceScore(reviews) = reviews[Reduced(reviews)].score

(***************************************************************************)
(* The status clients see and the gate that issueDocument applies agree,   *)
(* although they are computed by different functions: a submitted document *)
(* shows an approving status exactly when it may be issued.  The review    *)
(* status shown beside it agrees as long as one review is the newest, but  *)
(* need not when two have the same date.                                   *)
(***************************************************************************)
Newest == {i \in DOMAIN reviews : \A j \in DOMAIN reviews : reviews[j].date <= reviews[i].date}

GateMatchesStatus ==
  LET approving == {"approved", "approved_with_recommendations"}
      issuable  == IsIssuable(LatestDecision(reviews))
  IN /\ ComposeStatus("Submitted", LatestDecision(reviews)) \in approving <=> issuable
     /\ (\A i, j \in Newest : i = j) => (ShownDecision(reviews) \in approving <=> issuable)

(***************************************************************************)
(* Spelling does not matter: the contract's names of lifecycle and decision*)
(* compose to the same status and pass the same gate as the frontend's, and*)
(* translating a decision to the contract's name and back is lossless.     *)
(***************************************************************************)
LowerCase == [l \in Lifecycles |->
  CASE l = "Submitted" -> "submitted" [] l = "Issued" -> "issued"
    [] l = "Revoked" -> "revoked" [] l = "Expired" -> "expired"]

SpellingDoesNotMatter ==
  LET d == LatestDecision(reviews)
      c == DecisionToContract(d)
  IN /\ NormalizeDecision(c) = d
     /\ IsIssuable(c) = IsIssuable(d)
     /\ ComposeStatus(LowerCase[lifecycle], c) = ComposeStatus(lifecycle, d)

(***************************************************************************)
(* The rest of the program cannot tell the adapters apart: for every       *)
(* document, review and proposal the real one returns, through all its     *)
(* conversions, what the stub returns, to the type of each field; and      *)
(* decoding once more changes nothing.                                     *)
(***************************************************************************)
SameAnswer(Decode(_), contract, stub) ==
  /\ Decode(FetchValue(contract)) = stub
  /\ Decode(stub) = stub

AdaptersAgree ==
  LET signers == [i \in DOMAIN reviews |-> reviews[i].by]
      target  == [revocation |-> "document", governance_rule |-> 2, contract_upgrade |-> "code"]
  IN /\ \A expiry \in Dates \cup {0}, time \in Dates :
          /\ SameAnswer(DecodeDocument, ContractDocument("document", lifecycle, expiry, time),
                                        StubDocument("document", lifecycle, expiry, time))
          /\ SameAnswer(DecodeVerifiedDocument, ContractVerified("document", lifecycle, expiry, time),
                                                StubVerified("document", lifecycle, expiry, time))
     /\ \A i \in DOMAIN reviews :
          LET r == reviews[i]
              status == DecisionToContract(r.decision)
          IN SameAnswer(DecodeReview, ContractReview(r.by, status, r.score, r.date),
                                      StubReview(r.by, status, r.score, r.date))
     /\ \A type \in DOMAIN target, executed \in BOOLEAN :
          LET action == MapProposalAction(type, target[type])
          IN SameAnswer(DecodeProposal, ContractProposal(1, action, signers, executed),
                                        StubProposal(1, action, signers, executed))
=============================================================================
