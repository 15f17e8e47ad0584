---------------------------- MODULE BallotHistory ----------------------------
(***************************************************************************)
(* What the contract and the database promise about one proposal.  Officers*)
(* sign it one at a time, nobody twice, until it is carried out: with the  *)
(* signature that reaches the quorum of that moment, and with no other.    *)
(* What clients are shown, who has signed, that it was executed, that its  *)
(* effect is there, may be behind; it is never ahead, and never goes back. *)
(***************************************************************************)
EXTENDS Integers, FiniteSets

CONSTANT Officers

VARIABLES signers, \* who has signed, according to the contract
          carried, \* the contract has executed it
          quorum,  \* how many signatures the contract asks for
          shown    \* what the database says: [signers, executed, effect]

vars == <<signers, carried, quorum, shown>>

Init ==
  /\ signers = {}
  /\ carried = FALSE
  /\ quorum \in Nat \ {0}
  /\ shown = [signers |-> {}, executed |-> FALSE, effect |-> FALSE]

\* Carrying it out may change the quorum itself.
Sign ==
  /\ ~carried
  /\ \E o \in Officers \ signers : signers' = signers \cup {o}
  /\ carried' = (Cardinality(signers') >= quorum)
  /\ IF carried' THEN quorum' \in Nat \ {0} ELSE UNCHANGED quorum
  /\ UNCHANGED shown

Show ==
  /\ shown.signers \subseteq shown'.signers /\ shown'.signers \subseteq signers
  /\ shown.executed => shown'.executed
  /\ shown.effect => shown'.effect
  /\ shown'.executed \/ shown'.effect => carried
  /\ UNCHANGED <<signers, carried, quorum>>

\* The quorum is set, or set back, by other means.
Govern == quorum' \in Nat \ {0} /\ UNCHANGED <<signers, carried, shown>>

Next == Sign \/ Show \/ Govern

Spec == Init /\ [][Next]_vars
=============================================================================
