-------------------------- MODULE FrameworkProposal --------------------------
(***************************************************************************)
(* One framework_update proposal (services/proposal.service.js): it exists *)
(* in MongoDB alone, sub-admins sign it, the signature that completes the  *)
(* threshold claims its execution and changes the Framework collection; the*)
(* main admin may reject it.                                               *)
(*                                                                         *)
(* A member of Actors is one execution of signProposal or rejectProposal;  *)
(* between two awaits of one, anything else may run.  An officer may have  *)
(* several requests in progress.                                           *)
(***************************************************************************)
EXTENDS Integers, FiniteSets

CONSTANTS
  Actors,      \* concurrent requests
  Officers,    \* the active sub-admins
  Nobody,      \* the signer of a request that signs nothing
  Threshold,   \* the proposal's snapshot of GovernanceConfig.required
  MaxFailures, \* bound: framework changes that fail
  MaxLost,     \* bound: framework changes that succeed and are reported as failed
  MaxCrashes   \* bound: crashes, and other database calls that fail

ASSUME OfficersAssumption == IsFiniteSet(Officers) /\ Nobody \notin Officers
ASSUME BoundsAssumption ==
  /\ Threshold \in Nat \ {0}
  /\ MaxFailures \in Nat
  /\ MaxLost \in Nat
  /\ MaxCrashes \in Nat

VARIABLES
  proposal, \* the Proposal: [status, executed, signers, found]; found: there is the
            \* framework it names, or it makes one
  applied,  \* how often the framework change has taken effect
  task,     \* [pc, by]: where each request is suspended, and whose it is
  left      \* what the bounds still allow: [failures, lost, crashes]

vars == <<proposal, applied, task, left>>

Idle == [pc |-> "idle", by |-> Nobody]

Init ==
  /\ \E found \in BOOLEAN :  \* createProposal does not look the framework up
       proposal = [status |-> "pending", executed |-> FALSE, signers |-> {}, found |-> found]
  /\ applied = 0
  /\ task = [a \in Actors |-> Idle]
  /\ left = [failures |-> MaxFailures, lost |-> MaxLost, crashes |-> MaxCrashes]

GoTo(a, pc) == task' = [task EXCEPT ![a].pc = pc]
Finish(a)   == task' = [task EXCEPT ![a] = Idle]

-----------------------------------------------------------------------------
(* signProposal *)

\* The proposal is loaded and looks pending and unsigned; then the signer is resolved.
SignRequest(a) ==
  /\ task[a].pc = "idle"
  /\ proposal.status = "pending"
  /\ \E o \in Officers \ proposal.signers : task' = [task EXCEPT ![a] = [pc |-> "sign", by |-> o]]
  /\ UNCHANGED <<proposal, applied, left>>

\* Mutant: the update no longer asks for a pending proposal.
SignableAnyStatus(a) == task[a].by \notin proposal.signers

\* What the update of a signature asks of the stored proposal.
Signable(a) == proposal.status = "pending" /\ task[a].by \notin proposal.signers

\* Mutant: the signature itself is not counted.
SignedBefore(a) ==
  /\ task[a].pc = "sign"
  /\ Signable(a)
  /\ proposal' = [proposal EXCEPT !.signers = @ \cup {task[a].by}]
  /\ IF ~proposal.executed /\ Cardinality(proposal.signers) >= Threshold
     THEN GoTo(a, "claim")
     ELSE Finish(a)
  /\ UNCHANGED <<applied, left>>

\* Mutant: one signature too few is enough.
SignedEarly(a) ==
  /\ task[a].pc = "sign"
  /\ Signable(a)
  /\ proposal' = [proposal EXCEPT !.signers = @ \cup {task[a].by}]
  /\ IF ~proposal.executed /\ Cardinality(proposal'.signers) >= Threshold - 1
     THEN GoTo(a, "claim")
     ELSE Finish(a)
  /\ UNCHANGED <<applied, left>>

\* The guarded $addToSet; the tally is taken on the document it returns.
AddSigner(a) ==
  /\ task[a].pc = "sign"
  /\ Signable(a)
  /\ proposal' = [proposal EXCEPT !.signers = @ \cup {task[a].by}]
  /\ IF ~proposal.executed /\ Cardinality(proposal'.signers) >= Threshold
     THEN GoTo(a, "claim")
     ELSE Finish(a)
  /\ UNCHANGED <<applied, left>>

\* The update matches nothing: 409.
SignConflict(a) ==
  /\ task[a].pc = "sign"
  /\ ~Signable(a)
  /\ Finish(a)
  /\ UNCHANGED <<proposal, applied, left>>

\* Mutant: the flip is not guarded by executed: false.
ClaimUnguarded(a) ==
  /\ task[a].pc = "claim"
  /\ proposal' = [proposal EXCEPT !.executed = TRUE, !.status = "executed"]
  /\ GoTo(a, "apply")
  /\ UNCHANGED <<applied, left>>

\* The flip asks for executed: false alone; whatever the status is by now.
Claim(a) ==
  /\ task[a].pc = "claim"
  /\ IF proposal.executed
     THEN Finish(a) /\ UNCHANGED proposal
     ELSE /\ proposal' = [proposal EXCEPT !.executed = TRUE, !.status = "executed"]
          /\ GoTo(a, "apply")
  /\ UNCHANGED <<applied, left>>

\* findByIdAndUpdate answers null when there is no such framework, and nobody asks.
Apply(a) ==
  /\ task[a].pc = "apply"
  /\ applied' = IF proposal.found THEN applied + 1 ELSE applied
  /\ Finish(a)
  /\ UNCHANGED <<proposal, left>>

\* applyFrameworkUpdate throws, having changed nothing.
ApplyFails(a) ==
  /\ task[a].pc = "apply"
  /\ left.failures > 0
  /\ left' = [left EXCEPT !.failures = @ - 1]
  /\ GoTo(a, "revert")
  /\ UNCHANGED <<proposal, applied>>

\* It throws although the database has made the change (the reply was lost).
ApplyUnacknowledged(a) ==
  /\ task[a].pc = "apply"
  /\ proposal.found
  /\ left.lost > 0
  /\ left' = [left EXCEPT !.lost = @ - 1]
  /\ applied' = applied + 1
  /\ GoTo(a, "revert")
  /\ UNCHANGED proposal

\* Mutant: only the status is put back.
RevertStatusOnly(a) ==
  /\ task[a].pc = "revert"
  /\ proposal' = [proposal EXCEPT !.status = "pending"]
  /\ Finish(a)
  /\ UNCHANGED <<applied, left>>

\* Back to pending, also when the proposal has been rejected meanwhile.
Revert(a) ==
  /\ task[a].pc = "revert"
  /\ proposal' = [proposal EXCEPT !.executed = FALSE, !.status = "pending"]
  /\ Finish(a)
  /\ UNCHANGED <<applied, left>>

-----------------------------------------------------------------------------
(* rejectProposal: load, check, save.  The save writes the status alone.    *)

RejectRequest(a) ==
  /\ task[a].pc = "idle"
  /\ proposal.status = "pending"
  /\ GoTo(a, "reject")
  /\ UNCHANGED <<proposal, applied, left>>

SaveRejected(a) ==
  /\ task[a].pc = "reject"
  /\ proposal' = [proposal EXCEPT !.status = "rejected"]
  /\ Finish(a)
  /\ UNCHANGED <<applied, left>>

-----------------------------------------------------------------------------
\* The process dies, or a call other than the framework change throws.
Crash(a) ==
  /\ task[a].pc # "idle"
  /\ left.crashes > 0
  /\ left' = [left EXCEPT !.crashes = @ - 1]
  /\ Finish(a)
  /\ UNCHANGED <<proposal, applied>>

Next ==
  \E a \in Actors :
    \/ SignRequest(a)
    \/ AddSigner(a)
    \/ SignConflict(a)
    \/ Claim(a)
    \/ Apply(a)
    \/ ApplyFails(a)
    \/ ApplyUnacknowledged(a)
    \/ Revert(a)
    \/ RejectRequest(a)
    \/ SaveRejected(a)
    \/ Crash(a)

Spec == Init /\ [][Next]_vars

-----------------------------------------------------------------------------
TypeOK ==
  /\ proposal \in [status : {"pending", "executed", "rejected"}, executed : BOOLEAN,
                   signers : SUBSET Officers, found : BOOLEAN]
  /\ applied \in Nat
  /\ task \in [Actors ->
        [pc : {"sign"}, by : Officers] \cup
        [pc : {"idle", "claim", "apply", "revert", "reject"}, by : Officers \cup {Nobody}]]
  /\ left \in [failures : Nat, lost : Nat, crashes : Nat]

AtRest == \A a \in Actors : task[a].pc = "idle"

(***************************************************************************)
(* "The framework change applies exactly once": however many signatures    *)
(* cross the threshold together, are rejected, fail and are retried, the   *)
(* change takes effect at most once, plus once for each time its success   *)
(* was reported as a failure.                                              *)
(***************************************************************************)
AppliedOnce == applied + left.lost <= MaxLost + 1

(***************************************************************************)
(* The framework changes only with a quorum behind it, and the quorum is   *)
(* of different officers.                                                  *)
(***************************************************************************)
QuorumBehindChange == applied > 0 => Cardinality(proposal.signers) >= Threshold

(***************************************************************************)
(* A quorum never goes unnoticed: when every request has ended and none    *)
(* failed or crashed, a proposal with enough signatures is not pending.    *)
(***************************************************************************)
NothingFailed == left = [failures |-> MaxFailures, lost |-> MaxLost, crashes |-> MaxCrashes]

QuorumIsNoticed ==
  AtRest /\ NothingFailed /\ Cardinality(proposal.signers) >= Threshold
  => proposal.status # "pending"

(***************************************************************************)
(* The revert "avoids executed-but-not-applied": unless a process crashed, *)
(* a proposal at rest that is executed has changed the framework, failures *)
(* and rejections in between notwithstanding; provided there is the        *)
(* framework it names.  One that names none is executed all the same, with *)
(* nothing applied: no step of the code looks for it.                      *)
(***************************************************************************)
ExecutedIsApplied ==
  AtRest /\ left.crashes = MaxCrashes /\ proposal.executed /\ proposal.found => applied > 0

(***************************************************************************)
(* Rejecting "blocks further signing": no request adds a signature to a    *)
(* rejected proposal, also one that found it pending before.               *)
(***************************************************************************)
RejectBlocksSigning ==
  [][proposal.status = "rejected" => proposal'.signers = proposal.signers]_vars

-----------------------------------------------------------------------------
(***************************************************************************)
(* Why AppliedOnce holds: executed is a lock, held by the one request that *)
(* is applying or reverting; and as long as the change can still be made   *)
(* it has only been made unacknowledged.                                   *)
(***************************************************************************)
InFlight(a) == task[a].pc \in {"apply", "revert"}

OneInFlight ==
  \A a, b \in Actors : InFlight(a) => /\ proposal.executed
                                      /\ InFlight(b) => a = b

StillToApply ==
  ~proposal.executed \/ (\E a \in Actors : InFlight(a)) => applied + left.lost <= MaxLost

QuorumBehindClaim ==
  (\E a \in Actors : task[a].pc = "claim") \/ proposal.executed
  => Cardinality(proposal.signers) >= Threshold
=============================================================================
