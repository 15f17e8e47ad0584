--------------------------- MODULE OnChainProposal ---------------------------
(***************************************************************************)
(* One proposal that the contract settles: a revocation, a governance_rule *)
(* or a contract_upgrade (services/proposal.service.js).  The contract     *)
(* keeps the approvals and executes the action with the approval that      *)
(* reaches the threshold; the Proposal in MongoDB mirrors both, and the    *)
(* effect is mirrored into the Certificate or the GovernanceConfig.        *)
(* reconcileProposals (services/reconcile.service.js) repairs the mirror.  *)
(*                                                                         *)
(* A member of Actors is a request or a run of the reconcile job; between  *)
(* two awaits of one, anything else may run.                               *)
(***************************************************************************)
EXTENDS Governance, SequencesExt

CONSTANTS
  Kinds,     \* the types of proposal to be considered
  Crowds,    \* the values of crowded to be considered
  RuleValue, \* the threshold a governance_rule asks for
  Nobody     \* the signer of an actor that signs nothing

ASSUME ProposalAssumption ==
  /\ Kinds \subseteq {"revocation", "governance_rule", "contract_upgrade"}
  /\ Crowds \subseteq SUBSET {"certificates", "proposals"}
  /\ RuleValue \in Nat \ {0}
  /\ Nobody \notin Officers

VARIABLES
  kind,     \* the proposal's type
  crowded,  \* the lists of the reconcile job that are longer than its limits
  ballot,   \* the contract's proposal: [exists, approvals, executed]
  proposal, \* the Proposal: [status, executed, signers, version]; version is __v
  revoked,  \* the target's Certificate says Revoked
  task      \* what each actor is doing here

propVars == <<kind, crowded, ballot, proposal, revoked, task>>
vars == <<propVars, govVars>>

Ballot == [exists : BOOLEAN, approvals : Seq(Officers), executed : BOOLEAN]
NoBallot == [exists |-> FALSE, approvals |-> <<>>, executed |-> FALSE]

Proposal == [status : {"absent", "pending", "executed", "rejected"}, executed : BOOLEAN,
             signers : Seq(Officers), version : Nat]
NoProposal == [status |-> "absent", executed |-> FALSE, signers |-> <<>>, version |-> 0]

\* loaded: the document as it was read; view: the contract's proposal as it was
\* read back, NoBallot if it was not.
Task == [pc : {"idle", "record", "approve", "readback", "effect", "sync", "save", "reject",
               "certificates", "governance", "proposals", "compare", "repair", "revoke"},
         by : Officers \cup {Nobody}, loaded : Proposal, view : Ballot]
Idle == [pc |-> "idle", by |-> Nobody, loaded |-> NoProposal, view |-> NoBallot]

Init ==
  /\ GovInit
  /\ active = Officers
  /\ kind \in Kinds
  /\ crowded \in Crowds
  /\ ballot = NoBallot
  /\ proposal = NoProposal
  /\ revoked = FALSE
  /\ task = [a \in Actors |-> Idle]

Free(a) == task[a].pc = "idle" /\ desk[a].pc = "away"
GoTo(a, pc) == task' = [task EXCEPT ![a].pc = pc]
Finish(a) == task' = [task EXCEPT ![a] = Idle]

-----------------------------------------------------------------------------
(* createProposal; one proposal is created. *)

\* The contract's create_proposal: no approvals yet.
Propose(a) ==
  /\ Free(a)
  /\ ~ballot.exists
  /\ ballot' = [NoBallot EXCEPT !.exists = TRUE]
  /\ GoTo(a, "record")
  /\ UNCHANGED <<kind, crowded, proposal, revoked, govVars>>

Record(a) ==
  /\ task[a].pc = "record"
  /\ proposal' = [NoProposal EXCEPT !.status = "pending"]
  /\ Finish(a)
  /\ UNCHANGED <<kind, crowded, ballot, revoked, govVars>>

-----------------------------------------------------------------------------
(* signProposal *)

\* The Proposal is loaded: pending, and not signed by this active sub-admin.
SignRequest(a) ==
  /\ Free(a)
  /\ proposal.status = "pending"
  /\ \E o \in active :
       /\ ~Contains(proposal.signers, o)
       /\ task' = [task EXCEPT ![a] = [Idle EXCEPT !.pc = "approve", !.by = o, !.loaded = proposal]]
  /\ UNCHANGED <<kind, crowded, ballot, proposal, revoked, govVars>>

\* What the contract accepts.
CanApprove(o) == ~ballot.executed /\ ~Contains(ballot.approvals, o)

\* approve_proposal executes at the threshold of this moment.
Approve(a) ==
  /\ task[a].pc = "approve"
  /\ CanApprove(task[a].by)
  /\ LET approvals == Append(ballot.approvals, task[a].by)
         executes  == Len(approvals) >= threshold
     IN /\ ballot' = [ballot EXCEPT !.approvals = approvals, !.executed = executes]
        /\ threshold' = IF executes /\ kind = "governance_rule" THEN RuleValue ELSE threshold
  /\ GoTo(a, "readback")
  /\ UNCHANGED <<kind, crowded, proposal, revoked, active, config, desk, left>>

\* Mutant: the refusal is swallowed and the signer recorded.
RefusalIgnored(a) ==
  /\ task[a].pc = "approve"
  /\ ~CanApprove(task[a].by)
  /\ GoTo(a, "save")
  /\ UNCHANGED <<kind, crowded, ballot, proposal, revoked, govVars>>

\* The contract throws: executed already, or approved by this sub-admin.
ApproveRefused(a) ==
  /\ task[a].pc = "approve"
  /\ ~CanApprove(task[a].by)
  /\ Finish(a)
  /\ UNCHANGED <<kind, crowded, ballot, proposal, revoked, govVars>>

\* An execution is mirrored first.
AfterReadback ==
  CASE ballot.executed /\ kind = "revocation"      -> "effect"
    [] ballot.executed /\ kind = "governance_rule" -> "sync"
    [] OTHER                                       -> "save"

\* The contract's proposal is read back.
Readback(a) ==
  /\ task[a].pc = "readback"
  /\ task' = [task EXCEPT ![a] = [@ EXCEPT !.view = ballot, !.pc = AfterReadback]]
  /\ desk' = IF ballot.executed /\ kind = "governance_rule"
             THEN [desk EXCEPT ![a] = [Away EXCEPT !.pc = "sync"]] ELSE desk
  /\ UNCHANGED <<kind, crowded, ballot, proposal, revoked, threshold, active, config, left>>

\* The readback fails: the signer is recorded without it.
ReadbackFails(a) ==
  /\ task[a].pc = "readback"
  /\ GovFault
  /\ GoTo(a, "save")
  /\ UNCHANGED <<kind, crowded, ballot, proposal, revoked, threshold, active, config, desk>>

MirrorRevocation(a) ==
  /\ task[a].pc = "effect"
  /\ revoked' = TRUE
  /\ GoTo(a, "save")
  /\ UNCHANGED <<kind, crowded, ballot, proposal, govVars>>

\* A failing mirror is logged and forgotten.
MirrorRevocationFails(a) ==
  /\ task[a].pc = "effect"
  /\ GovFault
  /\ GoTo(a, "save")
  /\ UNCHANGED <<kind, crowded, ballot, proposal, revoked, threshold, active, config, desk>>

\* The GovernanceConfig has been brought up to date (Governance: SyncSave).
Synced(a) ==
  /\ task[a].pc = "sync"
  /\ desk[a].pc = "away"
  /\ GoTo(a, "save")
  /\ UNCHANGED <<kind, crowded, ballot, proposal, revoked, govVars>>

\* Mutant: without the version an older list of signers overwrites a newer one.
StoreUnversioned(a) ==
  LET view == task[a].view
  IN proposal' = [status   |-> IF view.executed THEN "executed" ELSE proposal.status,
                  executed |-> view.executed,
                  signers  |-> view.approvals,
                  version  |-> proposal.version]

\* An assigned array is saved over the version that was loaded only.
SignersChange(a) == task[a].view.approvals # task[a].loaded.signers
SaveThrows(a) == SignersChange(a) /\ proposal.version # task[a].loaded.version

\* save() after signers, executed and status were assigned from the contract's
\* proposal writes the paths that changed, or throws and writes nothing.
Store(a) ==
  LET view == task[a].view
  IN proposal' =
       IF SaveThrows(a) THEN proposal
       ELSE [status   |-> IF view.executed THEN "executed" ELSE proposal.status,
             executed |-> view.executed \/ proposal.executed,
             signers  |-> IF SignersChange(a) THEN view.approvals ELSE proposal.signers,
             version  |-> IF SignersChange(a) THEN proposal.version + 1 ELSE proposal.version]

SaveSigned(a) ==
  /\ task[a].pc = "save"
  /\ task[a].view.exists
  /\ Store(a)
  /\ Finish(a)
  /\ UNCHANGED <<kind, crowded, ballot, revoked, govVars>>

\* Without a readback the signer is pushed onto the stored list, whatever it holds by now.
PushSigner(a) ==
  /\ task[a].pc = "save"
  /\ ~task[a].view.exists
  /\ proposal' = [proposal EXCEPT !.signers = Append(@, task[a].by), !.version = @ + 1]
  /\ Finish(a)
  /\ UNCHANGED <<kind, crowded, ballot, revoked, govVars>>

-----------------------------------------------------------------------------
(* rejectProposal: the contract has no such thing. *)

RejectRequest(a) ==
  /\ Free(a)
  /\ proposal.status = "pending"
  /\ GoTo(a, "reject")
  /\ UNCHANGED <<kind, crowded, ballot, proposal, revoked, govVars>>

SaveRejected(a) ==
  /\ task[a].pc = "reject"
  /\ proposal' = [proposal EXCEPT !.status = "rejected"]
  /\ Finish(a)
  /\ UNCHANGED <<kind, crowded, ballot, revoked, govVars>>

-----------------------------------------------------------------------------
(* The reconcile job: certificates, governance, proposals (services/        *)
(* scheduler.js; the admin API starts it too).  It looks at 500 certificates*)
(* and at 200 pending proposals, in no order and with no memory of the last *)
(* time: of a longer list, it may leave out this one every time.            *)

LooksAt(list) == IF list \in crowded THEN BOOLEAN ELSE {TRUE}

StartReconcile(a) ==
  /\ Free(a)
  /\ GoTo(a, "certificates")
  /\ UNCHANGED <<kind, crowded, ballot, proposal, revoked, govVars>>

\* Mutant: it trusts the Proposal instead of the contract.
ReconcileFromProposal(a) ==
  /\ task[a].pc = "certificates"
  /\ \E found \in LooksAt("certificates") :
       revoked' = (revoked \/ (found /\ kind = "revocation" /\ proposal.status = "executed"))
  /\ GoTo(a, "governance")
  /\ UNCHANGED <<kind, crowded, ballot, proposal, govVars>>

\* reconcileAllCertificates, as far as it concerns the revocation; its own
\* races are CertificateMirror's.
ReconcileCertificates(a) ==
  /\ task[a].pc = "certificates"
  /\ \E found \in LooksAt("certificates") :
       revoked' = (revoked \/ (found /\ kind = "revocation" /\ ballot.executed))
  /\ GoTo(a, "governance")
  /\ UNCHANGED <<kind, crowded, ballot, proposal, govVars>>

\* reconcileGovernance takes over, and comes back "away".
ReconcileThreshold(a) ==
  /\ task[a].pc = "governance"
  /\ ReconcileGovernance(a)
  /\ GoTo(a, "proposals")
  /\ UNCHANGED <<kind, crowded, ballot, proposal, revoked>>

\* Mutant: only proposals nobody has signed yet are looked at.
FindUnsigned(a) ==
  /\ task[a].pc = "proposals"
  /\ desk[a].pc = "away"
  /\ \E found \in LooksAt("proposals") :
       IF found /\ proposal.status = "pending" /\ proposal.signers = <<>>
       THEN task' = [task EXCEPT ![a].pc = "compare", ![a].loaded = proposal]
       ELSE Finish(a)
  /\ UNCHANGED <<kind, crowded, ballot, proposal, revoked, govVars>>

\* reconcileProposals finds pending proposals.
FindPending(a) ==
  /\ task[a].pc = "proposals"
  /\ desk[a].pc = "away"
  /\ \E found \in LooksAt("proposals") :
       IF found /\ proposal.status = "pending"
       THEN task' = [task EXCEPT ![a].pc = "compare", ![a].loaded = proposal]
       ELSE Finish(a)
  /\ UNCHANGED <<kind, crowded, ballot, proposal, revoked, govVars>>

\* Drift: another flag, or another NUMBER of signers.
Drifted(loaded) ==
  \/ ballot.executed # loaded.executed
  \/ Len(ballot.approvals) # Len(loaded.signers)

ComparePending(a) ==
  /\ task[a].pc = "compare"
  /\ IF Drifted(task[a].loaded)
     THEN task' = [task EXCEPT ![a] = [@ EXCEPT !.view = ballot, !.pc = "repair"]]
     ELSE Finish(a)
  /\ UNCHANGED <<kind, crowded, ballot, proposal, revoked, govVars>>

\* The proposal cannot be read: it is left for the next run.
CompareFails(a) ==
  /\ task[a].pc = "compare"
  /\ GovFault
  /\ Finish(a)
  /\ UNCHANGED <<kind, crowded, ballot, proposal, revoked, threshold, active, config, desk>>

\* The repair of a revocation that has become executed goes on to mirror it,
\* unless the save threw.
RepairPending(a) ==
  /\ task[a].pc = "repair"
  /\ Store(a)
  /\ IF ~SaveThrows(a) /\ task[a].view.executed /\ kind = "revocation"
     THEN GoTo(a, "revoke")
     ELSE Finish(a)
  /\ UNCHANGED <<kind, crowded, ballot, revoked, govVars>>

\* It may fail, which is logged.
RevokeRepaired(a) ==
  /\ task[a].pc = "revoke"
  /\ \/ revoked' = TRUE /\ UNCHANGED govVars
     \/ GovFault /\ UNCHANGED <<revoked, threshold, active, config, desk>>
  /\ Finish(a)
  /\ UNCHANGED <<kind, crowded, ballot, proposal>>

-----------------------------------------------------------------------------
\* The process dies, or a call not handled above throws; at the desk, too.
Crash(a) ==
  /\ ~Free(a)
  /\ GovFault
  /\ Finish(a)
  /\ Leave(a)
  /\ UNCHANGED <<kind, crowded, ballot, proposal, revoked, threshold, active, config>>

Proceed(a) ==
  \/ GovProceed(a) /\ UNCHANGED propVars
  \/ Record(a)
  \/ Approve(a)
  \/ ApproveRefused(a)
  \/ Readback(a)
  \/ MirrorRevocation(a)
  \/ Synced(a)
  \/ SaveSigned(a)
  \/ PushSigner(a)
  \/ SaveRejected(a)
  \/ ReconcileCertificates(a)
  \/ ReconcileThreshold(a)
  \/ FindPending(a)
  \/ ComparePending(a)
  \/ RepairPending(a)
  \/ RevokeRepaired(a)

Start(a) ==
  \/ Free(a) /\ (GetGovernance(a) \/ SetGovernance(a)) /\ UNCHANGED propVars
  \/ Propose(a)
  \/ SignRequest(a)
  \/ RejectRequest(a)
  \/ StartReconcile(a)

\* The officers stay; Governance lets them come and go.
Next ==
  \E a \in Actors :
    \/ Start(a)
    \/ Proceed(a)
    \/ ReadThresholdFails(a) /\ UNCHANGED propVars
    \/ ReadbackFails(a)
    \/ MirrorRevocationFails(a)
    \/ CompareFails(a)
    \/ Crash(a)

Spec == Init /\ [][Next]_vars

\* Handlers go on while the process lives; the reconcile job is on a timer.
FairSpec ==
  /\ Spec
  /\ \A a \in Actors : WF_vars(Proceed(a))
  /\ SF_vars(\E a \in Actors : StartReconcile(a))

-----------------------------------------------------------------------------
TypeOK ==
  /\ GovTypeOK
  /\ kind \in Kinds
  /\ crowded \in Crowds
  /\ ballot \in Ballot
  /\ proposal \in Proposal
  /\ revoked \in BOOLEAN
  /\ task \in [Actors -> Task]

(***************************************************************************)
(* "Chain is the source of truth": no reply, retry or repair makes MongoDB *)
(* show a signature, an execution or a revocation the contract has not.    *)
(***************************************************************************)
NeverAhead ==
  /\ ToSet(proposal.signers) \subseteq ToSet(ballot.approvals)
  /\ proposal.executed => ballot.executed
  /\ proposal.status = "executed" => proposal.executed
  /\ revoked => kind = "revocation" /\ ballot.executed

(***************************************************************************)
(* What clients have been shown stays: no handler, however old the data it *)
(* works on, takes back an execution or a signer that was recorded.        *)
(***************************************************************************)
NothingTakenBack ==
  [][/\ proposal.executed => proposal'.executed
     /\ ToSet(proposal.signers) \subseteq ToSet(proposal'.signers)]_vars

(***************************************************************************)
(* Contract and MongoDB together implement BallotHistory: the contract     *)
(* executes with the signature that completes a quorum of different        *)
(* officers, at the threshold of that moment, and takes none afterwards;   *)
(* signers, execution and revocation shown to clients follow, and none is  *)
(* taken back, however old the data a handler or a repair works on.        *)
(***************************************************************************)
Votes == INSTANCE BallotHistory WITH
  signers <- ToSet(ballot.approvals), carried <- ballot.executed, quorum <- threshold,
  shown <- [signers |-> ToSet(proposal.signers), executed |-> proposal.executed,
            effect |-> revoked]

ImplementsBallot == Votes!Spec

(***************************************************************************)
(* "Reconcile will heal": a proposal that has executed in the contract does*)
(* not stay pending here, whatever failed after the approval; if the job   *)
(* looks at all pending proposals, that is, if they are at most 200.       *)
(***************************************************************************)
ExecutionIsSeen ==
  /\ "proposals" \notin crowded
  /\ ballot.executed
  /\ proposal.status = "pending"
  ~> proposal.status # "pending"

(***************************************************************************)
(* A revocation the officers carried reaches the certificate, also when its*)
(* proposal was rejected meanwhile, never recorded, or out of the job's    *)
(* sight; if the job looks at all certificates, at most 500.               *)
(***************************************************************************)
RevocationArrives ==
  "certificates" \notin crowded /\ kind = "revocation" /\ ballot.executed ~> revoked

-----------------------------------------------------------------------------
(***************************************************************************)
(* Why NeverAhead and NothingTakenBack hold.  A document that was loaded,  *)
(* and a contract's proposal that was read back, are of the past; both     *)
(* signers and approvals only grow; and a list with the version of the one *)
(* stored is the one stored, so that the list written over it, which was   *)
(* read back after it was loaded, contains it.                             *)
(***************************************************************************)
LoadedInv(t) ==
  /\ t.loaded.version <= proposal.version
  /\ t.loaded.version = proposal.version => t.loaded.signers = proposal.signers
  /\ ToSet(t.loaded.signers) \subseteq ToSet(ballot.approvals)

ViewInv(t) ==
  /\ ToSet(t.view.approvals) \subseteq ToSet(ballot.approvals)
  /\ t.view.executed => ballot.executed
  /\ t.view.exists => ToSet(t.loaded.signers) \subseteq ToSet(t.view.approvals)
  /\ t.view.exists => t.pc \in {"effect", "sync", "save", "repair", "revoke"}
  /\ t.pc = "repair" => t.view.exists

\* What an actor knows of the proposal it works on.
StageInv(t) ==
  /\ t.pc = "record" => ballot.exists /\ proposal.status = "absent"
  /\ t.pc \in {"approve", "readback", "effect", "sync", "save", "reject", "compare", "repair", "revoke"}
       => proposal.status # "absent"
  /\ t.pc = "approve" => t.by \in Officers
  /\ t.pc \in {"readback", "effect", "sync", "save"} => t.by \in ToSet(ballot.approvals)
  /\ t.pc \in {"effect", "revoke"} => kind = "revocation" /\ ballot.executed

OneRecorder == \A a, b \in Actors : task[a].pc = "record" /\ task[b].pc = "record" => a = b

StoredInv ==
  /\ NeverAhead
  /\ ~ballot.exists => ballot = NoBallot
  /\ proposal.status # "absent" => ballot.exists
  /\ proposal.status = "absent" => proposal = NoProposal
  /\ proposal.version = 0 => proposal.signers = <<>>

IInv ==
  /\ StoredInv
  /\ OneRecorder
  /\ \A a \in Actors : LoadedInv(task[a]) /\ ViewInv(task[a]) /\ StageInv(task[a])
=============================================================================
