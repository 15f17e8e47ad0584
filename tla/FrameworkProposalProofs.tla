----------------------- MODULE FrameworkProposalProofs -----------------------
(***************************************************************************)
(* Off-chain execution is exclusive and backed by a quorum, for any number *)
(* of officers, requests and failures.                                     *)
(***************************************************************************)
EXTENDS FrameworkProposal, FiniteSetTheorems, TLAPS

ProposalInv ==
  /\ TypeOK
  /\ OneInFlight
  /\ StillToApply
  /\ QuorumBehindClaim
  /\ AppliedOnce
  /\ QuorumBehindChange

(* A signature added to a set of officers' signatures does not lower the   *)
(* tally.                                                                  *)
LEMMA TallyGrows ==
  ASSUME NEW S \in SUBSET Officers, NEW o \in Officers
  PROVE  /\ S \cup {o} \in SUBSET Officers
         /\ Cardinality(S) \in Nat
         /\ Cardinality(S \cup {o}) \in Nat
         /\ Cardinality(S \cup {o}) >= Cardinality(S)
<1>1. IsFiniteSet(S)
  BY OfficersAssumption, FS_Subset
<1>2. Cardinality(S) \in Nat
  BY <1>1, FS_CardinalityType
<1>3. IF o \in S THEN Cardinality(S \cup {o}) = Cardinality(S)
      ELSE Cardinality(S \cup {o}) = Cardinality(S) + 1
  BY <1>1, FS_AddElement
<1> QED
  BY <1>2, <1>3

(* A new proposal satisfies the invariant.                                 *)
LEMMA InitProposal == Init => ProposalInv
<1> USE BoundsAssumption
<1> SUFFICES ASSUME Init PROVE ProposalInv
  OBVIOUS
<1>1. TypeOK
  BY DEF Init, TypeOK, Idle
<1>2. OneInFlight /\ StillToApply /\ QuorumBehindClaim
  BY DEF Init, OneInFlight, StillToApply, QuorumBehindClaim, InFlight, Idle
<1>3. AppliedOnce /\ QuorumBehindChange
  BY DEF Init, AppliedOnce, QuorumBehindChange
<1> QED
  BY <1>1, <1>2, <1>3 DEF ProposalInv

(* Every step of a request preserves the types.                            *)
LEMMA StepType == TypeOK /\ [Next]_vars => TypeOK'
<1> SUFFICES ASSUME TypeOK, [Next]_vars PROVE TypeOK'
  OBVIOUS
<1>1. CASE UNCHANGED vars
  BY <1>1 DEF vars, TypeOK
<1>2. ASSUME NEW a \in Actors,
             SignRequest(a) \/ SignConflict(a) \/ RejectRequest(a) \/ Crash(a)
                \/ ApplyFails(a) \/ ApplyUnacknowledged(a) \/ Apply(a)
      PROVE  TypeOK'
  BY <1>2 DEF SignRequest, SignConflict, RejectRequest, Crash, ApplyFails,
              ApplyUnacknowledged, Apply, GoTo, Finish, Idle, TypeOK
<1>3. ASSUME NEW a \in Actors, AddSigner(a) PROVE TypeOK'
  <2>1. task[a].by \in Officers
    BY <1>3 DEF AddSigner, TypeOK
  <2>2. proposal' \in [status : {"pending", "executed", "rejected"}, executed : BOOLEAN,
                       signers : SUBSET Officers, found : BOOLEAN]
    BY <1>3, <2>1 DEF AddSigner, TypeOK
  <2>3. task' \in [Actors ->
          [pc : {"sign"}, by : Officers] \cup
          [pc : {"idle", "claim", "apply", "revert", "reject"}, by : Officers \cup {Nobody}]]
    BY <1>3, <2>1 DEF AddSigner, GoTo, Finish, Idle, TypeOK
  <2> QED
    BY <1>3, <2>2, <2>3 DEF AddSigner, TypeOK
<1>4. ASSUME NEW a \in Actors, Claim(a) \/ Revert(a) \/ SaveRejected(a)
      PROVE  TypeOK'
  <2>1. proposal' \in [status : {"pending", "executed", "rejected"}, executed : BOOLEAN,
                       signers : SUBSET Officers, found : BOOLEAN]
    BY <1>4 DEF Claim, Revert, SaveRejected, TypeOK
  <2>2. task' \in [Actors ->
          [pc : {"sign"}, by : Officers] \cup
          [pc : {"idle", "claim", "apply", "revert", "reject"}, by : Officers \cup {Nobody}]]
    BY <1>4 DEF Claim, Revert, SaveRejected, GoTo, Finish, Idle, TypeOK
  <2> QED
    BY <1>4, <2>1, <2>2 DEF Claim, Revert, SaveRejected, TypeOK
<1> QED
  BY <1>1, <1>2, <1>3, <1>4 DEF Next

(* Only the request that claimed the execution is applying or reverting,   *)
(* and the count of applications stays within its bound.                   *)
LEMMA ExclusionStep ==
  ASSUME ProposalInv, [Next]_vars
  PROVE  OneInFlight' /\ StillToApply' /\ AppliedOnce'
<1> USE BoundsAssumption
<1>0. /\ TypeOK /\ OneInFlight /\ StillToApply /\ AppliedOnce
      /\ applied \in Nat /\ left.lost \in Nat
  BY DEF ProposalInv, TypeOK
(* What neither changes the flag nor starts an application changes nothing here. *)
<1>1. ASSUME proposal'.executed = proposal.executed, applied' = applied,
             left'.lost = left.lost, \A b \in Actors : InFlight(b)' => InFlight(b)
      PROVE  OneInFlight' /\ StillToApply' /\ AppliedOnce'
  BY <1>0, <1>1 DEF OneInFlight, StillToApply, AppliedOnce
<1>2. CASE UNCHANGED vars
  BY <1>1, <1>2 DEF vars, InFlight
<1>3. ASSUME NEW a \in Actors,
             SignRequest(a) \/ SignConflict(a) \/ RejectRequest(a) \/ AddSigner(a)
                \/ SaveRejected(a) \/ Crash(a)
      PROVE  OneInFlight' /\ StillToApply' /\ AppliedOnce'
  <2>1. proposal'.executed = proposal.executed /\ applied' = applied /\ left'.lost = left.lost
    BY <1>0, <1>3 DEF TypeOK, SignRequest, SignConflict, RejectRequest, AddSigner, SaveRejected, Crash
  <2>2. \A b \in Actors : InFlight(b)' => InFlight(b)
    BY <1>0, <1>3 DEF TypeOK, SignRequest, SignConflict, RejectRequest, AddSigner, SaveRejected, Crash,
                      GoTo, Finish, Idle, InFlight
  <2> QED
    BY <1>1, <2>1, <2>2
<1>4. ASSUME NEW a \in Actors, ApplyFails(a)
      PROVE  OneInFlight' /\ StillToApply' /\ AppliedOnce'
  <2>1. proposal'.executed = proposal.executed /\ applied' = applied /\ left'.lost = left.lost
    BY <1>0, <1>4 DEF TypeOK, ApplyFails
  <2>2. \A b \in Actors : InFlight(b)' => InFlight(b)
    BY <1>0, <1>4 DEF TypeOK, ApplyFails, GoTo, InFlight
  <2> QED
    BY <1>1, <2>1, <2>2
<1>5. ASSUME NEW a \in Actors, Claim(a)
      PROVE  OneInFlight' /\ StillToApply' /\ AppliedOnce'
  <2>1. CASE proposal.executed
    <3>1. \A b \in Actors : InFlight(b)' => InFlight(b)
      BY <1>0, <1>5, <2>1 DEF TypeOK, Claim, Finish, Idle, InFlight
    <3> QED
      BY <1>1, <1>5, <2>1, <3>1 DEF Claim
  <2>2. CASE ~proposal.executed
    <3>1. proposal'.executed /\ applied' = applied /\ left' = left
      BY <1>0, <1>5, <2>2 DEF TypeOK, Claim
    <3>2. \A b \in Actors : InFlight(b)' => b = a
      BY <1>0, <1>5, <2>2 DEF TypeOK, Claim, GoTo, InFlight, OneInFlight
    <3>3. applied + left.lost <= MaxLost
      BY <1>0, <2>2 DEF StillToApply
    <3> QED
      BY <1>0, <3>1, <3>2, <3>3 DEF OneInFlight, StillToApply, AppliedOnce
  <2> QED BY <2>1, <2>2
<1>6. ASSUME NEW a \in Actors, Apply(a)
      PROVE  OneInFlight' /\ StillToApply' /\ AppliedOnce'
  <2>1. InFlight(a) /\ proposal.executed /\ applied + left.lost <= MaxLost
    BY <1>0, <1>6 DEF TypeOK, Apply, InFlight, OneInFlight, StillToApply
  <2>2. \A b \in Actors : ~InFlight(b)'
    BY <1>0, <1>6, <2>1 DEF TypeOK, Apply, Finish, Idle, InFlight, OneInFlight
  <2>3. proposal' = proposal /\ left' = left /\ applied' \in {applied, applied + 1}
    BY <1>6 DEF Apply
  <2> QED
    BY <1>0, <2>1, <2>2, <2>3 DEF OneInFlight, StillToApply, AppliedOnce
<1>7. ASSUME NEW a \in Actors, ApplyUnacknowledged(a)
      PROVE  OneInFlight' /\ StillToApply' /\ AppliedOnce'
  <2>1. InFlight(a) /\ proposal.executed /\ applied + left.lost <= MaxLost
    BY <1>0, <1>7 DEF TypeOK, ApplyUnacknowledged, InFlight, OneInFlight, StillToApply
  <2>2. \A b \in Actors : InFlight(b)' => InFlight(b)
    BY <1>0, <1>7 DEF TypeOK, ApplyUnacknowledged, GoTo, InFlight
  <2>3. proposal' = proposal /\ applied' = applied + 1 /\ left'.lost = left.lost - 1
    BY <1>0, <1>7 DEF TypeOK, ApplyUnacknowledged
  <2> QED
    BY <1>0, <2>1, <2>2, <2>3 DEF OneInFlight, StillToApply, AppliedOnce
<1>8. ASSUME NEW a \in Actors, Revert(a)
      PROVE  OneInFlight' /\ StillToApply' /\ AppliedOnce'
  <2>1. InFlight(a) /\ applied + left.lost <= MaxLost
    BY <1>0, <1>8 DEF TypeOK, Revert, InFlight, StillToApply
  <2>2. \A b \in Actors : ~InFlight(b)'
    BY <1>0, <1>8, <2>1 DEF TypeOK, Revert, Finish, Idle, InFlight, OneInFlight
  <2>3. left' = left /\ applied' = applied
    BY <1>8 DEF Revert
  <2> QED
    BY <1>0, <2>1, <2>2, <2>3 DEF OneInFlight, StillToApply, AppliedOnce
<1> QED
  BY <1>2, <1>3, <1>4, <1>5, <1>6, <1>7, <1>8 DEF Next

(* An execution is claimed, and so the framework changed, only once the    *)
(* tally has reached the threshold; the tally never falls.                 *)
LEMMA QuorumStep ==
  ASSUME ProposalInv, [Next]_vars
  PROVE  QuorumBehindClaim' /\ QuorumBehindChange'
<1> USE BoundsAssumption
<1>0. /\ TypeOK /\ OneInFlight /\ QuorumBehindClaim /\ QuorumBehindChange
      /\ Cardinality(proposal.signers) \in Nat
  BY OfficersAssumption, FS_Subset, FS_CardinalityType DEF ProposalInv, TypeOK
(* A step that keeps the signatures, and claims nothing new. *)
<1>1. ASSUME proposal'.signers = proposal.signers,
             proposal'.executed => \/ proposal.executed
                                   \/ \E b \in Actors : task[b].pc = "claim",
             \A b \in Actors : (task[b].pc = "claim")' => task[b].pc = "claim",
             applied' > 0 => applied > 0 \/ proposal.executed
      PROVE  QuorumBehindClaim' /\ QuorumBehindChange'
  BY <1>0, <1>1 DEF QuorumBehindClaim, QuorumBehindChange
<1>2. CASE UNCHANGED vars
  BY <1>1, <1>2 DEF vars
<1>3. ASSUME NEW a \in Actors,
             SignRequest(a) \/ SignConflict(a) \/ RejectRequest(a) \/ Crash(a) \/ ApplyFails(a)
                \/ SaveRejected(a) \/ Revert(a)
      PROVE  QuorumBehindClaim' /\ QuorumBehindChange'
  <2>1. /\ proposal'.signers = proposal.signers
        /\ proposal'.executed => proposal.executed
        /\ applied' = applied
    BY <1>0, <1>3 DEF SignRequest, SignConflict, RejectRequest, Crash, ApplyFails, SaveRejected,
                      Revert, TypeOK
  <2>2. \A b \in Actors : (task[b].pc = "claim")' => task[b].pc = "claim"
    BY <1>0, <1>3 DEF SignRequest, SignConflict, RejectRequest, Crash, ApplyFails, SaveRejected,
                      Revert, GoTo, Finish, Idle, TypeOK
  <2> QED
    BY <1>1, <2>1, <2>2
<1>4. ASSUME NEW a \in Actors, Claim(a)
      PROVE  QuorumBehindClaim' /\ QuorumBehindChange'
  <2>1. proposal'.signers = proposal.signers /\ applied' = applied /\ task[a].pc = "claim"
    BY <1>0, <1>4 DEF Claim, TypeOK
  <2>2. \A b \in Actors : (task[b].pc = "claim")' => task[b].pc = "claim"
    BY <1>0, <1>4 DEF Claim, GoTo, Finish, Idle, TypeOK
  <2> QED
    BY <1>1, <2>1, <2>2
<1>5. ASSUME NEW a \in Actors, Apply(a) \/ ApplyUnacknowledged(a)
      PROVE  QuorumBehindClaim' /\ QuorumBehindChange'
  <2>1. proposal' = proposal /\ proposal.executed
    BY <1>0, <1>5 DEF Apply, ApplyUnacknowledged, OneInFlight, InFlight
  <2>2. \A b \in Actors : (task[b].pc = "claim")' => task[b].pc = "claim"
    BY <1>0, <1>5 DEF Apply, ApplyUnacknowledged, GoTo, Finish, Idle, TypeOK
  <2> QED
    BY <1>1, <2>1, <2>2
<1>6. ASSUME NEW a \in Actors, AddSigner(a)
      PROVE  QuorumBehindClaim' /\ QuorumBehindChange'
  <2>1. task[a].by \in Officers /\ proposal.signers \in SUBSET Officers
    BY <1>0, <1>6 DEF AddSigner, TypeOK
  <2>2. /\ proposal'.signers = proposal.signers \cup {task[a].by}
        /\ proposal'.executed = proposal.executed
        /\ applied' = applied
    BY <1>0, <1>6 DEF AddSigner, TypeOK
  <2>3. /\ Cardinality(proposal'.signers) \in Nat
        /\ Cardinality(proposal'.signers) >= Cardinality(proposal.signers)
    BY <2>1, <2>2, TallyGrows
  <2>4. \/ \A b \in Actors : (task[b].pc = "claim")' => task[b].pc = "claim"
        \/ Cardinality(proposal'.signers) >= Threshold
    BY <1>0, <1>6 DEF AddSigner, GoTo, Finish, Idle, TypeOK
  <2> QED
    BY <1>0, <2>2, <2>3, <2>4 DEF QuorumBehindClaim, QuorumBehindChange
<1> QED
  BY <1>2, <1>3, <1>4, <1>5, <1>6 DEF Next

(* Every reachable state satisfies the invariant.                          *)
LEMMA ProposalInvariant == Spec => []ProposalInv
<1>1. ProposalInv /\ [Next]_vars => ProposalInv'
  BY StepType, ExclusionStep, QuorumStep DEF ProposalInv
<1> QED
  BY InitProposal, <1>1, PTL DEF Spec

(***************************************************************************)
(* TypeOK holds in every reachable state.                                  *)
(***************************************************************************)
THEOREM ProposalTypeCorrect == Spec => []TypeOK
<1>1. ProposalInv => TypeOK
  BY DEF ProposalInv
<1> QED
  BY ProposalInvariant, <1>1, PTL

(***************************************************************************)
(* The framework change takes effect at most once, plus once for each      *)
(* success that was reported as a failure: the executed flag excludes.     *)
(***************************************************************************)
THEOREM AppliedOnceCorrect == Spec => []AppliedOnce
<1>1. ProposalInv => AppliedOnce
  BY DEF ProposalInv
<1> QED
  BY ProposalInvariant, <1>1, PTL

(***************************************************************************)
(* The framework never changes without a quorum of different officers.     *)
(***************************************************************************)
THEOREM QuorumCorrect == Spec => []QuorumBehindChange
<1>1. ProposalInv => QuorumBehindChange
  BY DEF ProposalInv
<1> QED
  BY ProposalInvariant, <1>1, PTL

-----------------------------------------------------------------------------
(* What becomes of a proposal that nobody works on any more.               *)

\* A revert follows a failure, and what failed is off the bounds.
FailuresCounted ==
  /\ left.failures <= MaxFailures /\ left.lost <= MaxLost /\ left.crashes <= MaxCrashes
  /\ \A a \in Actors : task[a].pc = "revert" => left.failures < MaxFailures \/ left.lost < MaxLost

\* Without failures only a claim under way leaves a full tally pending.
ClaimFollows ==
  NothingFailed =>
    /\ proposal.executed => proposal.status # "pending"
    /\ proposal.status = "pending" /\ Cardinality(proposal.signers) >= Threshold
         => \E a \in Actors : task[a].pc = "claim"

\* Without a crash what was claimed is being applied, or reverted, or was applied.
ChangeFollows ==
  left.crashes = MaxCrashes /\ proposal.executed /\ proposal.found
    => applied > 0 \/ \E a \in Actors : InFlight(a)

RestInv == FailuresCounted /\ ClaimFollows /\ ChangeFollows

LEMMA InitRest == Init => RestInv
<1> SUFFICES ASSUME Init PROVE RestInv
  OBVIOUS
<1> USE BoundsAssumption
<1>1. proposal.signers = {} /\ Cardinality({}) = 0
  BY FS_EmptySet DEF Init
<1>2. FailuresCounted /\ ChangeFollows
  BY DEF Init, Idle, FailuresCounted, ChangeFollows
<1>3. ClaimFollows
  BY <1>1 DEF Init, ClaimFollows
<1> QED
  BY <1>2, <1>3 DEF RestInv

LEMMA RestStep ==
  ASSUME ProposalInv, RestInv, [Next]_vars
  PROVE  RestInv'
<1> USE BoundsAssumption
<1>0. /\ TypeOK /\ OneInFlight /\ FailuresCounted /\ ClaimFollows /\ ChangeFollows
      /\ applied \in Nat /\ left.failures \in Nat /\ left.lost \in Nat /\ left.crashes \in Nat
      /\ left \in [failures : Nat, lost : Nat, crashes : Nat]
      /\ \A b \in Actors : task[b].pc \in {"idle", "sign", "claim", "apply", "revert", "reject"}
  BY DEF ProposalInv, RestInv, TypeOK
<1>1. NothingFailed <=> /\ left.failures = MaxFailures /\ left.lost = MaxLost
                        /\ left.crashes = MaxCrashes
  BY <1>0 DEF NothingFailed
<1>2. CASE UNCHANGED vars
  BY <1>0, <1>2 DEF vars, RestInv, FailuresCounted, ClaimFollows, ChangeFollows, NothingFailed, InFlight
(* Requests that begin, or end without a claim or a change, touch nothing of it. *)
<1>3. ASSUME NEW a \in Actors, SignRequest(a) \/ SignConflict(a) \/ RejectRequest(a)
      PROVE  RestInv'
  <2>1. UNCHANGED <<proposal, applied, left>> /\ task[a].pc \in {"idle", "sign"}
    BY <1>3 DEF SignRequest, SignConflict, RejectRequest
  <2>2. \A b \in Actors : \/ task'[b].pc = task[b].pc
                          \/ b = a /\ task'[b].pc \in {"sign", "reject", "idle"}
    BY <1>0, <1>3 DEF SignRequest, SignConflict, RejectRequest, GoTo, Finish, Idle, TypeOK
  <2> QED
    BY <1>0, <2>1, <2>2 DEF RestInv, FailuresCounted, ClaimFollows, ChangeFollows, NothingFailed, InFlight
<1>4. ASSUME NEW a \in Actors, AddSigner(a) PROVE RestInv'
  <2>1. /\ UNCHANGED <<applied, left>> /\ task[a].pc = "sign" /\ proposal.status = "pending"
        /\ proposal'.status = proposal.status /\ proposal'.executed = proposal.executed
        /\ proposal'.found = proposal.found
    BY <1>0, <1>4 DEF AddSigner, Signable, TypeOK
  <2>2. /\ ~proposal.executed /\ Cardinality(proposal'.signers) >= Threshold => task'[a].pc = "claim"
        /\ task'[a].pc \in {"claim", "idle"}
        /\ \A b \in Actors : b # a => task'[b].pc = task[b].pc
    BY <1>0, <1>4 DEF AddSigner, GoTo, Finish, Idle, TypeOK
  <2>3. FailuresCounted' /\ ChangeFollows'
    BY <1>0, <2>1, <2>2 DEF FailuresCounted, ChangeFollows, InFlight
  <2>4. ClaimFollows'
    BY <1>0, <2>1, <2>2 DEF ClaimFollows, NothingFailed
  <2> QED
    BY <2>3, <2>4 DEF RestInv
<1>5. ASSUME NEW a \in Actors, Claim(a) PROVE RestInv'
  <2>1. UNCHANGED <<applied, left>> /\ task[a].pc = "claim"
    BY <1>5 DEF Claim
  <2>2. CASE proposal.executed
    <3>1. proposal' = proposal /\ \A b \in Actors : IF b = a THEN task'[b].pc = "idle" ELSE task'[b] = task[b]
      BY <1>0, <1>5, <2>2 DEF Claim, Finish, Idle, TypeOK
    <3>2. FailuresCounted' /\ ChangeFollows'
      BY <1>0, <2>1, <3>1 DEF FailuresCounted, ChangeFollows, InFlight
    <3>3. ClaimFollows'
      BY <1>0, <2>1, <2>2, <3>1 DEF ClaimFollows, NothingFailed
    <3> QED
      BY <3>2, <3>3 DEF RestInv
  <2>3. CASE ~proposal.executed
    <3>0. /\ proposal' = [proposal EXCEPT !.executed = TRUE, !.status = "executed"]
          /\ task' = [task EXCEPT ![a].pc = "apply"]
      BY <1>5, <2>3, Zenon DEF Claim, GoTo
    <3>1. /\ proposal'.status = "executed" /\ proposal'.found = proposal.found
          /\ task'[a].pc = "apply" /\ \A b \in Actors : b # a => task'[b] = task[b]
      BY <1>0, <3>0 DEF TypeOK
    <3>2. FailuresCounted' /\ ChangeFollows'
      BY <1>0, <2>1, <3>1 DEF FailuresCounted, ChangeFollows, InFlight
    <3>3. ClaimFollows'
      BY <3>1 DEF ClaimFollows
    <3> QED
      BY <3>2, <3>3 DEF RestInv
  <2> QED
    BY <2>2, <2>3
<1>6. ASSUME NEW a \in Actors, Apply(a) PROVE RestInv'
  <2>1. /\ UNCHANGED <<proposal, left>> /\ task[a].pc = "apply"
        /\ IF proposal.found THEN applied' = applied + 1 ELSE applied' = applied
    BY <1>6 DEF Apply
  <2>2. \A b \in Actors : IF b = a THEN task'[b].pc = "idle" ELSE task'[b] = task[b]
    BY <1>0, <1>6 DEF Apply, Finish, Idle, TypeOK
  <2>3. FailuresCounted' /\ ChangeFollows'
    BY <1>0, <2>1, <2>2 DEF FailuresCounted, ChangeFollows, InFlight
  <2>4. ClaimFollows'
    BY <1>0, <2>1, <2>2 DEF ClaimFollows, NothingFailed
  <2> QED
    BY <2>3, <2>4 DEF RestInv
<1>7. ASSUME NEW a \in Actors, ApplyFails(a) \/ ApplyUnacknowledged(a) PROVE RestInv'
  <2>1. /\ proposal' = proposal /\ applied' \in Nat /\ applied' >= applied /\ left'.crashes = left.crashes
        /\ left'.failures <= left.failures /\ left'.lost <= left.lost
        /\ left'.failures < left.failures \/ left'.lost < left.lost
        /\ left'.failures \in Nat /\ left'.lost \in Nat
    BY <1>0, <1>7 DEF ApplyFails, ApplyUnacknowledged
  <2>2. task'[a].pc = "revert" /\ \A b \in Actors : b # a => task'[b] = task[b]
    BY <1>0, <1>7 DEF ApplyFails, ApplyUnacknowledged, GoTo, TypeOK
  <2>3. FailuresCounted' /\ ChangeFollows'
    BY <1>0, <2>1, <2>2 DEF FailuresCounted, ChangeFollows, InFlight
  <2>4. ~(left'.failures = MaxFailures /\ left'.lost = MaxLost)
    BY <1>0, <2>1 DEF FailuresCounted
  <2>5. ClaimFollows'
    BY <2>4 DEF ClaimFollows, NothingFailed
  <2> QED
    BY <2>3, <2>5 DEF RestInv
<1>8. ASSUME NEW a \in Actors, Revert(a) PROVE RestInv'
  <2>1. UNCHANGED <<applied, left>> /\ ~proposal'.executed /\ task[a].pc = "revert"
    BY <1>0, <1>8 DEF Revert, TypeOK
  <2>2. \A b \in Actors : IF b = a THEN task'[b].pc = "idle" ELSE task'[b] = task[b]
    BY <1>0, <1>8 DEF Revert, Finish, Idle, TypeOK
  <2>3. FailuresCounted' /\ ChangeFollows'
    BY <1>0, <2>1, <2>2 DEF FailuresCounted, ChangeFollows
  <2>4. ~(left'.failures = MaxFailures /\ left'.lost = MaxLost)
    BY <1>0, <2>1 DEF FailuresCounted
  <2>5. ClaimFollows'
    BY <2>4 DEF ClaimFollows, NothingFailed
  <2> QED
    BY <2>3, <2>5 DEF RestInv
<1>9. ASSUME NEW a \in Actors, SaveRejected(a) PROVE RestInv'
  <2>1. /\ UNCHANGED <<applied, left>> /\ proposal'.executed = proposal.executed
        /\ proposal'.status = "rejected" /\ proposal'.found = proposal.found
        /\ task[a].pc = "reject"
    BY <1>0, <1>9 DEF SaveRejected, TypeOK
  <2>2. \A b \in Actors : IF b = a THEN task'[b].pc = "idle" ELSE task'[b] = task[b]
    BY <1>0, <1>9 DEF SaveRejected, Finish, Idle, TypeOK
  <2>3. FailuresCounted' /\ ChangeFollows'
    BY <1>0, <2>1, <2>2 DEF FailuresCounted, ChangeFollows, InFlight
  <2>4. ClaimFollows'
    BY <2>1 DEF ClaimFollows
  <2> QED
    BY <2>3, <2>4 DEF RestInv
<1>10. ASSUME NEW a \in Actors, Crash(a) PROVE RestInv'
  <2>1. /\ left'.failures = left.failures /\ left'.lost = left.lost /\ left'.crashes = left.crashes - 1
        /\ left'.crashes < MaxCrashes
    BY <1>0, <1>10 DEF Crash, FailuresCounted
  <2>2. \A b \in Actors : IF b = a THEN task'[b].pc = "idle" ELSE task'[b] = task[b]
    BY <1>0, <1>10 DEF Crash, Finish, Idle, TypeOK
  <2>3. FailuresCounted'
    BY <1>0, <2>1, <2>2 DEF FailuresCounted
  <2>4. left'.crashes # MaxCrashes
    BY <1>0, <2>1
  <2>5. ChangeFollows' /\ ClaimFollows'
    BY <2>4 DEF ChangeFollows, ClaimFollows, NothingFailed
  <2> QED
    BY <2>3, <2>5 DEF RestInv
<1> QED
  BY <1>2, <1>3, <1>4, <1>5, <1>6, <1>7, <1>8, <1>9, <1>10 DEF Next

LEMMA RestInvariant == Spec => []RestInv
<1> QED
  BY InitRest, RestStep, ProposalInvariant, PTL DEF Spec

(***************************************************************************)
(* When every request has ended and none failed, a full tally is not left  *)
(* pending, for any number of officers and requests.                       *)
(***************************************************************************)
THEOREM QuorumNoticedCorrect == Spec => []QuorumIsNoticed
<1>1. RestInv => QuorumIsNoticed
  BY DEF RestInv, ClaimFollows, QuorumIsNoticed, AtRest
<1> QED
  BY RestInvariant, <1>1, PTL

(***************************************************************************)
(* A proposal at rest that is executed has changed the framework it names, *)
(* if there is one, unless a process crashed: whatever failed, was         *)
(* reverted, claimed again or rejected before.                             *)
(***************************************************************************)
THEOREM ExecutedAppliedCorrect == Spec => []ExecutedIsApplied
<1>1. RestInv => ExecutedIsApplied
  BY DEF RestInv, ChangeFollows, ExecutedIsApplied, AtRest, InFlight
<1> QED
  BY RestInvariant, <1>1, PTL

(***************************************************************************)
(* No request adds a signature to a rejected proposal.                     *)
(***************************************************************************)
THEOREM RejectBlocksCorrect == Spec => RejectBlocksSigning
<1>1. TypeOK /\ [Next]_vars =>
        [proposal.status = "rejected" => proposal'.signers = proposal.signers]_vars
  <2> SUFFICES ASSUME TypeOK, [Next]_vars, proposal.status = "rejected"
               PROVE  proposal'.signers = proposal.signers
    OBVIOUS
  <2>1. CASE UNCHANGED vars
    BY <2>1 DEF vars
  <2>2. ASSUME NEW a \in Actors,
               SignRequest(a) \/ SignConflict(a) \/ Claim(a) \/ Apply(a) \/ ApplyFails(a)
                 \/ ApplyUnacknowledged(a) \/ Revert(a) \/ RejectRequest(a) \/ SaveRejected(a) \/ Crash(a)
        PROVE  proposal'.signers = proposal.signers
    BY <2>2 DEF TypeOK, SignRequest, SignConflict, Claim, Apply, ApplyFails, ApplyUnacknowledged,
                Revert, RejectRequest, SaveRejected, Crash
  <2>3. \A a \in Actors : ~AddSigner(a)
    BY DEF AddSigner, Signable
  <2> QED
    BY <2>1, <2>2, <2>3 DEF Next
<1> QED
  BY ProposalTypeCorrect, <1>1, PTL DEF Spec, RejectBlocksSigning
=============================================================================
