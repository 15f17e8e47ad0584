------------------------ MODULE OnChainProposalProofs ------------------------
(***************************************************************************)
(* Proofs about Governance and OnChainProposal, for any officers, actors,  *)
(* kinds and bounds: their types, NeverAhead, NothingTakenBack, and that   *)
(* they implement BallotHistory.                                           *)
(***************************************************************************)
EXTENDS OnChainProposal, FiniteSetTheorems, TLAPS

(***************************************************************************)
(* Governance.                                                             *)
(***************************************************************************)

(***************************************************************************)
(* A threshold that is about to be set is at least 1: what CheckRequired   *)
(* checked is still in hand when SetThreshold sends it.                    *)
(***************************************************************************)
CommitInv == \A a \in Actors : desk[a].pc = "commit" => desk[a].new.required # 0

GovInv == GovTypeOK /\ CommitInv

LEMMA LargerOfNat ==
  ASSUME NEW m \in Nat, NEW n \in Nat
  PROVE  LargerOf(m, n) \in Nat
BY DEF LargerOf

LEMMA SignersAreCounted ==
  ASSUME active \in SUBSET Officers
  PROVE  Cardinality(active) \in Nat
BY OfficersAssumption, FS_Subset, FS_CardinalityType

\* What an actor has at the desk may be replaced by anything of its type.
LEMMA Seated ==
  ASSUME GovInv, NEW a \in Actors, NEW d \in Desk,
         d.pc = "commit" => d.new.required # 0,
         SitAt(a, d)
  PROVE  desk' \in [Actors -> Desk] /\ CommitInv'
<1>1. desk \in [Actors -> Desk]  BY DEF GovInv, GovTypeOK
<1>2. desk' = [desk EXCEPT ![a] = d]  BY DEF SitAt
<1>3. desk' \in [Actors -> Desk]  BY <1>1, <1>2
<1>4. \A b \in Actors : desk'[b] = IF b = a THEN d ELSE desk[b]  BY <1>1, <1>2
<1>5. CommitInv'  BY <1>4 DEF GovInv, CommitInv
<1>. QED  BY <1>3, <1>5

LEMMA AwayIsDesk == Away \in Desk /\ Away.pc = "away"
BY DEF Away, Desk, NoConfig, Config

\* A partial save of what has the type leaves the type.
LEMMA SaveConfigType ==
  ASSUME GovInv, NEW a \in Actors, SaveConfig(a)
  PROVE  config' \in Config
<1>1. config \in Config /\ desk[a] \in Desk  BY DEF GovInv, GovTypeOK
<1>2. desk[a].loaded \in Config /\ desk[a].new \in Config  BY <1>1 DEF Desk
<1>3. Merge(config, desk[a].loaded, desk[a].new) \in Config
  BY <1>1, <1>2 DEF Merge, Config
<1>. QED  BY <1>1, <1>3 DEF SaveConfig

LEMMA LoadConfigType ==
  ASSUME GovInv, NEW a \in Actors, NEW pc \in {"get", "set", "chainLeft", "syncRead"},
         LoadConfig(a, pc)
  PROVE  desk' \in [Actors -> Desk] /\ CommitInv'
<1>1. [pc |-> pc, loaded |-> config, new |-> config] \in Desk
  BY DEF GovInv, GovTypeOK, Desk
<1>. QED  BY <1>1, Seated DEF LoadConfig

\* The steps of a procedure that has begun.
LEMMA GovProceedStep ==
  ASSUME GovInv, NEW a \in Actors, GovProceed(a)
  PROVE  GovInv'
<1>. DEFINE d == desk[a]
<1>1. d \in Desk /\ config \in Config /\ threshold \in Nat \ {0}
  BY DEF GovInv, GovTypeOK
<1>2. d.loaded \in Config /\ d.new \in Config /\ d.new.total \in Nat /\ d.loaded.total \in Nat
  BY <1>1 DEF Desk, Config
<1>3. CASE GetGovernance(a)
  BY <1>3, LoadConfigType DEF GetGovernance, GovInv, GovTypeOK
<1>4. CASE CountSigners(a)
  <2>1. LargerOf(Cardinality(active), 1) \in Nat
    BY SignersAreCounted, LargerOfNat DEF GovInv, GovTypeOK
  <2>2. [d EXCEPT !.pc = "read", !.new.total = LargerOf(Cardinality(active), 1)] \in Desk
    BY <1>1, <1>2, <2>1 DEF Desk, Config
  <2>3. [d EXCEPT !.pc = "read", !.new.total = LargerOf(Cardinality(active), 1)].pc = "read"
    BY <1>1 DEF Desk
  <2>. QED  BY <1>4, <2>2, <2>3, Seated DEF CountSigners, GovInv, GovTypeOK
<1>5. CASE ReadThreshold(a)
  <2>1. /\ [d EXCEPT !.pc = "save", !.new.required = threshold] \in Desk
        /\ [d EXCEPT !.pc = "save", !.new.required = threshold].pc = "save"
    BY <1>1, <1>2 DEF Desk, Config
  <2>. QED  BY <1>5, <2>1, Seated DEF ReadThreshold, GovInv, GovTypeOK
<1>6. CASE SaveRead(a) \/ SaveFixed(a) \/ SyncSave(a)
  <2>1. SaveConfig(a) /\ SitAt(a, Away) /\ UNCHANGED <<threshold, active, left>>
    BY <1>6 DEF SaveRead, SaveFixed, SyncSave, Leave
  <2>. QED  BY <2>1, SaveConfigType, Seated, AwayIsDesk DEF GovInv, GovTypeOK
<1>7. CASE CheckRequired(a)
  <2>1. PICK n \in 1..MaxThreshold, given \in 0..MaxThreshold :
          LET asked == IF given = 0 THEN d.loaded.total ELSE given
              total == LargerOf(LargerOf(asked, Cardinality(active)), 1)
          IN IF n <= total
             THEN SitAt(a, [d EXCEPT !.pc = "commit", !.new = [required |-> n, total |-> total]])
             ELSE Leave(a)
    BY <1>7 DEF CheckRequired
  <2>. DEFINE asked == IF given = 0 THEN d.loaded.total ELSE given
              total == LargerOf(LargerOf(asked, Cardinality(active)), 1)
              e     == [d EXCEPT !.pc = "commit", !.new = [required |-> n, total |-> total]]
  <2>2. asked \in Nat /\ n \in Nat /\ n # 0  BY <1>2, GovernanceBounds
  <2>3. total \in Nat
    BY <2>2, SignersAreCounted, LargerOfNat DEF GovInv, GovTypeOK
  <2>4. e \in Desk /\ e.new.required # 0
    BY <1>1, <2>2, <2>3 DEF Desk, Config
  <2>5. SitAt(a, e) \/ SitAt(a, Away)  BY <2>1 DEF Leave
  <2>6. desk' \in [Actors -> Desk] /\ CommitInv'
    BY <2>4, <2>5, Seated, AwayIsDesk
  <2>. QED  BY <1>7, <2>6 DEF CheckRequired, GovInv, GovTypeOK
<1>8. CASE SetThreshold(a)
  <2>1. d.new.required \in Nat \ {0}
    BY <1>2, <1>8 DEF SetThreshold, GovInv, CommitInv, Config
  <2>2. [d EXCEPT !.pc = "saveSet"] \in Desk /\ [d EXCEPT !.pc = "saveSet"].pc = "saveSet"
    BY <1>1 DEF Desk
  <2>. QED  BY <1>8, <2>1, <2>2, Seated DEF SetThreshold, GovInv, GovTypeOK
<1>9. CASE SaveSet(a)
  <2>1. [Away EXCEPT !.pc = "reload"] \in Desk /\ [Away EXCEPT !.pc = "reload"].pc = "reload"
    BY DEF Away, Desk, NoConfig, Config
  <2>. QED  BY <1>9, <2>1, SaveConfigType, Seated DEF SaveSet, GovInv, GovTypeOK
<1>10. CASE ReadOtherSide(a)
  <2>. DEFINE loaded == IF d.pc = "dbLeft" THEN config ELSE d.loaded
              n      == IF d.pc = "dbLeft" THEN d.new.required ELSE threshold
              e      == [pc |-> "fix", loaded |-> loaded, new |-> Raised(loaded, n)]
  <2>1. loaded \in Config /\ n \in Nat  BY <1>1, <1>2 DEF Config
  <2>2. Raised(loaded, n) \in Config  BY <2>1, LargerOfNat DEF Raised, Config
  <2>3. e \in Desk /\ e.pc = "fix"  BY <2>1, <2>2 DEF Desk
  <2>4. SitAt(a, e) \/ SitAt(a, Away)  BY <1>10 DEF ReadOtherSide, Leave
  <2>5. desk' \in [Actors -> Desk] /\ CommitInv'
    BY <2>3, <2>4, Seated, AwayIsDesk
  <2>. QED  BY <1>10, <2>5 DEF ReadOtherSide, GovInv, GovTypeOK
<1>11. CASE SyncLoad(a)
  BY <1>11, LoadConfigType DEF SyncLoad, GovInv, GovTypeOK
<1>12. CASE SyncRead(a)
  <2>1. Raised(d.new, threshold) \in Config  BY <1>1, <1>2, LargerOfNat DEF Raised, Config
  <2>2. /\ [d EXCEPT !.pc = "syncSave", !.new = Raised(@, threshold)] \in Desk
        /\ [d EXCEPT !.pc = "syncSave", !.new = Raised(@, threshold)].pc = "syncSave"
    BY <1>1, <2>1 DEF Desk
  <2>. QED  BY <1>12, <2>2, Seated DEF SyncRead, GovInv, GovTypeOK
<1>. QED
  BY <1>3, <1>4, <1>5, <1>6, <1>7, <1>8, <1>9, <1>10, <1>11, <1>12 DEF GovProceed

LEMMA FaultIsCounted ==
  ASSUME GovInv, GovFault \/ Change
  PROVE  left' \in [changes : Nat, faults : Nat]
BY DEF GovInv, GovTypeOK, GovFault, Change

\* The steps that begin or end one.
LEMMA GovStartStep ==
  ASSUME GovInv, NEW a \in Actors,
         GetGovernance(a) \/ SetGovernance(a) \/ ReconcileGovernance(a) \/ ReadThresholdFails(a)
  PROVE  GovInv'
<1>1. desk[a] \in Desk /\ threshold \in Nat  BY DEF GovInv, GovTypeOK
<1>2. CASE GetGovernance(a)
  BY <1>2, LoadConfigType DEF GetGovernance, GovInv, GovTypeOK
<1>3. CASE SetGovernance(a)
  BY <1>3, LoadConfigType, FaultIsCounted DEF SetGovernance, GovInv, GovTypeOK
<1>4. CASE ReconcileGovernance(a)
  <2>1. /\ [Away EXCEPT !.pc = "dbLeft", !.new.required = threshold] \in Desk
        /\ [Away EXCEPT !.pc = "dbLeft", !.new.required = threshold].pc = "dbLeft"
    BY <1>1 DEF Away, Desk, NoConfig, Config
  <2>2. desk' \in [Actors -> Desk] /\ CommitInv'
    BY <1>4, <2>1, Seated, LoadConfigType DEF ReconcileGovernance
  <2>. QED  BY <1>4, <2>2 DEF ReconcileGovernance, GovInv, GovTypeOK
<1>5. CASE ReadThresholdFails(a)
  <2>1. [desk[a] EXCEPT !.pc = "save"] \in Desk /\ [desk[a] EXCEPT !.pc = "save"].pc = "save"
    BY <1>1 DEF Desk
  <2>. QED  BY <1>5, <2>1, Seated, FaultIsCounted DEF ReadThresholdFails, GovInv, GovTypeOK
<1>. QED  BY <1>2, <1>3, <1>4, <1>5

LEMMA LeaveStep ==
  ASSUME GovInv, NEW a \in Actors, Leave(a)
  PROVE  desk' \in [Actors -> Desk] /\ CommitInv'
BY Seated, AwayIsDesk DEF Leave

LEMMA GovInitial == GovInit => GovInv
<1>1. ASSUME GovInit PROVE GovInv
  <2>1. threshold \in Nat \ {0}  BY <1>1, GovernanceBounds DEF GovInit
  <2>2. config \in Config  BY <1>1 DEF GovInit, Config
  <2>3. desk \in [Actors -> Desk] /\ \A a \in Actors : desk[a].pc = "away"
    BY <1>1, AwayIsDesk DEF GovInit
  <2>4. left \in [changes : Nat, faults : Nat]  BY <1>1, GovernanceBounds DEF GovInit
  <2>. QED  BY <1>1, <2>1, <2>2, <2>3, <2>4 DEF GovInit, GovInv, GovTypeOK, CommitInv
<1>. QED  BY <1>1

LEMMA GovStep == GovInv /\ [GovNext]_govVars => GovInv'
<1>. SUFFICES ASSUME GovInv, [GovNext]_govVars PROVE GovInv'
  OBVIOUS
<1>1. CASE UNCHANGED govVars
  BY <1>1 DEF govVars, GovInv, GovTypeOK, CommitInv
<1>2. ASSUME NEW a \in Actors, GovProceed(a) PROVE GovInv'
  BY <1>2, GovProceedStep
<1>3. ASSUME NEW a \in Actors,
             GetGovernance(a) \/ SetGovernance(a) \/ ReconcileGovernance(a) \/ ReadThresholdFails(a)
      PROVE GovInv'
  BY <1>3, GovStartStep
<1>4. ASSUME NEW a \in Actors, RuleExecutes(a) PROVE GovInv'
  <2>1. [Away EXCEPT !.pc = "sync"] \in Desk /\ [Away EXCEPT !.pc = "sync"].pc = "sync"
    BY DEF Away, Desk, NoConfig, Config
  <2>2. threshold' \in Nat \ {0}  BY <1>4, GovernanceBounds DEF RuleExecutes
  <2>. QED  BY <1>4, <2>1, <2>2, Seated, FaultIsCounted DEF RuleExecutes, GovInv, GovTypeOK
<1>5. ASSUME NEW a \in Actors, GovCrash(a) PROVE GovInv'
  BY <1>5, LeaveStep, FaultIsCounted DEF GovCrash, GovInv, GovTypeOK
<1>6. ASSUME NEW o \in Officers, ActivateOfficer(o) \/ RemoveOfficer(o) PROVE GovInv'
  <2>1. active' \in SUBSET Officers /\ UNCHANGED <<threshold, config, desk, left>>
    BY <1>6 DEF ActivateOfficer, RemoveOfficer, GovInv, GovTypeOK
  <2>. QED  BY <2>1 DEF GovInv, GovTypeOK, CommitInv
<1>7. CASE InitContract
  <2>1. left' \in [changes : Nat, faults : Nat]  BY <1>7, FaultIsCounted DEF InitContract
  <2>. QED  BY <1>7, <2>1 DEF InitContract, GovInv, GovTypeOK, CommitInv
<1>. QED  BY <1>1, <1>2, <1>3, <1>4, <1>5, <1>6, <1>7 DEF GovNext

(***************************************************************************)
(* The contract's threshold, its mirror and every copy in hand keep their  *)
(* types; in particular the threshold is never set to 0, with which the    *)
(* first approval of anything would execute it.                            *)
(***************************************************************************)
THEOREM GovTypeCorrect == GovSpec => []GovTypeOK
<1>1. GovInv => GovTypeOK  BY DEF GovInv
<1>. QED  BY GovInitial, GovStep, <1>1, PTL DEF GovSpec

-----------------------------------------------------------------------------
(***************************************************************************)
(* OnChainProposal.                                                        *)
(***************************************************************************)

\* The signers of a list, and of a list with one more.
LEMMA ToSetAppend ==
  ASSUME NEW S, NEW s \in Seq(S), NEW x \in S
  PROVE  /\ Append(s, x) \in Seq(S)
         /\ ToSet(Append(s, x)) = ToSet(s) \cup {x}
<1>1. Append(s, x) \in Seq(S) /\ Len(Append(s, x)) = Len(s) + 1  OBVIOUS
<1>2. /\ DOMAIN Append(s, x) = 1..(Len(s) + 1) /\ DOMAIN s = 1..Len(s) /\ Len(s) \in Nat
      /\ \A i \in 1..Len(s) : Append(s, x)[i] = s[i]
      /\ Append(s, x)[Len(s) + 1] = x
  OBVIOUS
<1>3. ToSet(Append(s, x)) \subseteq ToSet(s) \cup {x}
  BY <1>2 DEF ToSet
<1>4. ToSet(s) \subseteq ToSet(Append(s, x))
  BY <1>2 DEF ToSet
<1>5. x \in ToSet(Append(s, x))
  BY <1>2 DEF ToSet
<1>. QED  BY <1>1, <1>3, <1>4, <1>5

LEMMA ToSetEmpty == ToSet(<<>>) = {}
BY DEF ToSet

LEMMA BlankTypes ==
  /\ NoBallot \in Ballot
  /\ NoProposal \in Proposal
  /\ Idle \in Task
  /\ Idle.pc = "idle" /\ Idle.loaded = NoProposal /\ Idle.view = NoBallot
<1>1. <<>> \in Seq(Officers)  OBVIOUS
<1>2. NoBallot \in Ballot /\ NoProposal \in Proposal
  BY <1>1 DEF NoBallot, Ballot, NoProposal, Proposal
<1>. QED  BY <1>2 DEF Idle, Task

-----------------------------------------------------------------------------
(* Types *)

PInv == GovInv /\ TypeOK /\ IInv

\* What OnChainProposal adds to the types of Governance.
PropTypeOK ==
  /\ kind \in Kinds
  /\ ballot \in Ballot
  /\ proposal \in Proposal
  /\ revoked \in BOOLEAN
  /\ task \in [Actors -> Task]

LEMMA TypeOKIsBoth == TypeOK <=> GovTypeOK /\ PropTypeOK /\ crowded \in Crowds
BY DEF TypeOK, PropTypeOK

\* What the job's lists hold is given; no step here changes it.
LEMMA CrowdStays ==
  ASSUME [Next]_vars
  PROVE  crowded' = crowded
<1>1. CASE UNCHANGED vars
  BY <1>1 DEF vars, propVars
<1>2. CASE UNCHANGED propVars
  BY <1>2 DEF propVars
<1>. SUFFICES ASSUME NEW a \in Actors,
                     \/ Start(a) \/ Proceed(a)
                     \/ ReadThresholdFails(a) /\ UNCHANGED propVars
                     \/ ReadbackFails(a) \/ MirrorRevocationFails(a) \/ CompareFails(a)
                     \/ Crash(a)
              PROVE  crowded' = crowded
  BY <1>1 DEF Next
<1>3. CASE Start(a)
  BY <1>2, <1>3 DEF Start, Propose, SignRequest, RejectRequest, StartReconcile
<1>4. CASE Proceed(a)
  BY <1>2, <1>4
  DEF Proceed, Record, Approve, ApproveRefused, Readback, MirrorRevocation, Synced, SaveSigned,
      PushSigner, SaveRejected, ReconcileCertificates, ReconcileThreshold, FindPending,
      ComparePending, RepairPending, RevokeRepaired
<1>5. CASE ReadbackFails(a) \/ MirrorRevocationFails(a) \/ CompareFails(a) \/ Crash(a)
  BY <1>5 DEF ReadbackFails, MirrorRevocationFails, CompareFails, Crash
<1>. QED  BY <1>2, <1>3, <1>4, <1>5

\* The steps of this module that leave governance to itself, or a fault.
LEMMA GovUnchanged ==
  ASSUME GovInv, UNCHANGED govVars
  PROVE  GovInv'
BY DEF govVars, GovInv, GovTypeOK, CommitInv

LEMMA GovFaultOnly ==
  ASSUME GovInv, GovFault, UNCHANGED <<threshold, active, config, desk>>
  PROVE  GovInv'
BY FaultIsCounted DEF GovInv, GovTypeOK, CommitInv

LEMMA GovPart ==
  ASSUME PInv, [Next]_vars
  PROVE  GovInv'
<1>. USE DEF PInv
<1>1. CASE UNCHANGED vars
  BY <1>1, GovUnchanged DEF vars
<1>. SUFFICES ASSUME NEW a \in Actors,
                     \/ Start(a) \/ Proceed(a)
                     \/ ReadThresholdFails(a) /\ UNCHANGED propVars
                     \/ ReadbackFails(a) \/ MirrorRevocationFails(a) \/ CompareFails(a)
                     \/ Crash(a)
              PROVE  GovInv'
  BY <1>1 DEF Next
<1>2. CASE Start(a)
  BY <1>2, GovStartStep, GovUnchanged
  DEF Start, Propose, SignRequest, RejectRequest, StartReconcile
<1>3. CASE GovProceed(a)
  BY <1>3, GovProceedStep
<1>4. CASE Approve(a)
  <2>1. threshold' \in Nat \ {0}
    BY <1>4, ProposalAssumption DEF Approve, GovInv, GovTypeOK
  <2>. QED  BY <1>4, <2>1 DEF Approve, GovInv, GovTypeOK, CommitInv
<1>5. CASE Readback(a)
  <2>1. [Away EXCEPT !.pc = "sync"] \in Desk /\ [Away EXCEPT !.pc = "sync"].pc = "sync"
    BY DEF Away, Desk, NoConfig, Config
  <2>2. CASE desk' = desk
    BY <1>5, <2>2 DEF Readback, GovInv, GovTypeOK, CommitInv
  <2>3. CASE SitAt(a, [Away EXCEPT !.pc = "sync"])
    BY <1>5, <2>1, <2>3, Seated DEF Readback, GovInv, GovTypeOK
  <2>. QED  BY <1>5, <2>2, <2>3 DEF Readback, SitAt
<1>6. CASE ReconcileThreshold(a)
  BY <1>6, GovStartStep DEF ReconcileThreshold
<1>7. CASE RevokeRepaired(a)
  BY <1>7, GovUnchanged, GovFaultOnly DEF RevokeRepaired
<1>8. CASE Record(a) \/ ApproveRefused(a) \/ MirrorRevocation(a) \/ Synced(a) \/ SaveSigned(a)
           \/ PushSigner(a) \/ SaveRejected(a) \/ ReconcileCertificates(a) \/ FindPending(a)
           \/ ComparePending(a) \/ RepairPending(a)
  BY <1>8, GovUnchanged
  DEF Record, ApproveRefused, MirrorRevocation, Synced, SaveSigned, PushSigner, SaveRejected,
      ReconcileCertificates, FindPending, ComparePending, RepairPending
<1>9. CASE ReadThresholdFails(a)
  BY <1>9, GovStartStep
<1>10. CASE ReadbackFails(a) \/ MirrorRevocationFails(a) \/ CompareFails(a)
  BY <1>10, GovFaultOnly DEF ReadbackFails, MirrorRevocationFails, CompareFails
<1>11. CASE Crash(a)
  BY <1>11, LeaveStep, FaultIsCounted DEF Crash, GovInv, GovTypeOK
<1>. QED
  BY <1>2, <1>3, <1>4, <1>5, <1>6, <1>7, <1>8, <1>9, <1>10, <1>11 DEF Proceed

-----------------------------------------------------------------------------
(* The inductive invariant *)

TaskInv(t) == LoadedInv(t) /\ ViewInv(t) /\ StageInv(t)

\* What every step keeps.
Grows ==
  /\ kind' = kind
  /\ ToSet(ballot.approvals) \subseteq ToSet(ballot'.approvals)
  /\ ballot.executed => ballot'.executed
  /\ ballot.exists => ballot'.exists
  /\ proposal.version <= proposal'.version
  /\ proposal'.version = proposal.version => proposal'.signers = proposal.signers
  /\ proposal.status # "absent" => proposal'.status # "absent"
  /\ proposal.executed => proposal'.executed
  /\ ToSet(proposal.signers) \subseteq ToSet(proposal'.signers)

\* What is in hand of the past stays so.
LEMMA InHandKeeps ==
  ASSUME PInv, Grows, PropTypeOK', NEW b \in Actors, task'[b] = task[b],
         task[b].pc = "record" => proposal'.status = "absent"
  PROVE  TaskInv(task[b])'
<1>. DEFINE t == task[b]
<1>1. TaskInv(t)  BY DEF PInv, IInv, TaskInv
<1>2. t \in Task /\ proposal \in Proposal /\ proposal' \in Proposal
  BY TypeOKIsBoth DEF PInv, PropTypeOK
<1>3. t.loaded.version \in Nat /\ proposal.version \in Nat /\ proposal'.version \in Nat
  BY <1>2 DEF Task, Proposal
<1>4. LoadedInv(t)'
  BY <1>1, <1>3 DEF TaskInv, LoadedInv, Grows
<1>5. ViewInv(t)'
  BY <1>1 DEF TaskInv, ViewInv, Grows
<1>6. StageInv(t)'
  BY <1>1 DEF TaskInv, StageInv, Grows
<1>. QED  BY <1>4, <1>5, <1>6 DEF TaskInv

\* A step of actor a keeps the invariant if it keeps what is stored and what a has in hand.
LEMMA StepOfOne ==
  ASSUME PInv, Grows, PropTypeOK', StoredInv', NEW a \in Actors,
         \A b \in Actors : b # a => task'[b] = task[b],
         TaskInv(task[a])',
         \A b \in Actors : b # a /\ task[b].pc = "record" => proposal'.status = "absent",
         task'[a].pc = "record" => \A b \in Actors : task[b].pc = "record" => b = a
  PROVE  IInv'
<1>1. \A b \in Actors : TaskInv(task[b])'
  BY InHandKeeps
<1>2. OneRecorder'
  BY DEF PInv, IInv, OneRecorder
<1>. QED  BY <1>1, <1>2 DEF IInv, TaskInv

\* A step that changes nothing stored but the revocation, which has been carried.
LEMMA StepInHand ==
  ASSUME PInv, NEW a \in Actors, NEW t \in Task, task' = [task EXCEPT ![a] = t],
         UNCHANGED <<kind, ballot, proposal>>,
         revoked' \in BOOLEAN,
         revoked' => revoked \/ (kind = "revocation" /\ ballot.executed),
         TaskInv(t), t.pc # "record"
  PROVE  PropTypeOK' /\ Grows /\ IInv'
<1>1. task \in [Actors -> Task]  BY TypeOKIsBoth DEF PInv, PropTypeOK
<1>2. PropTypeOK'
  BY <1>1, TypeOKIsBoth DEF PInv, PropTypeOK
<1>3. Grows
  BY <1>1, TypeOKIsBoth DEF PInv, PropTypeOK, Grows, Proposal
<1>4. StoredInv'
  BY DEF PInv, IInv, StoredInv, NeverAhead
<1>5. task'[a] = t /\ \A b \in Actors : b # a => task'[b] = task[b]
  BY <1>1
<1>6. TaskInv(task[a])'
  BY <1>5 DEF TaskInv, LoadedInv, ViewInv, StageInv
<1>7. \A b \in Actors : task[b].pc = "record" => proposal'.status = "absent"
  BY DEF PInv, IInv, StageInv
<1>8. task'[a].pc # "record"  BY <1>5
<1>9. IInv'
  BY <1>2, <1>3, <1>4, <1>5, <1>6, <1>7, <1>8, StepOfOne
<1>. QED  BY <1>2, <1>3, <1>9

\* An idle actor has nothing in hand.
LEMMA IdleInv ==
  ASSUME PInv
  PROVE  TaskInv(Idle) /\ Idle \in Task /\ Idle.pc = "idle"
<1>1. proposal.version \in Nat  BY TypeOKIsBoth DEF PInv, PropTypeOK, Proposal
<1>2. /\ Idle.loaded.version = 0 /\ Idle.loaded.signers = <<>>
      /\ Idle.view.approvals = <<>> /\ ~Idle.view.executed /\ ~Idle.view.exists
      /\ Idle.pc = "idle"
  BY DEF Idle, NoProposal, NoBallot
<1>3. LoadedInv(Idle)
  BY <1>1, <1>2, ToSetEmpty DEF LoadedInv, PInv, IInv, StoredInv
<1>4. ViewInv(Idle)  BY <1>2, ToSetEmpty DEF ViewInv
<1>5. StageInv(Idle)  BY <1>2 DEF StageInv
<1>. QED  BY <1>2, <1>3, <1>4, <1>5, BlankTypes DEF TaskInv

\* Going on to another stage, with the same things in hand.
LEMMA Onwards ==
  ASSUME PInv, NEW a \in Actors,
         NEW pc \in {"save", "sync", "effect", "governance", "proposals", "compare", "reject", "certificates"},
         pc \in {"save", "sync", "effect"} => /\ task[a].by \in ToSet(ballot.approvals)
                                              /\ proposal.status # "absent",
         pc = "effect" => kind = "revocation" /\ ballot.executed,
         pc \in {"compare", "reject"} => proposal.status # "absent",
         pc \in {"save", "sync", "effect"} \/ ~task[a].view.exists
  PROVE  LET t == [task[a] EXCEPT !.pc = pc]
         IN t \in Task /\ TaskInv(t) /\ t.pc = pc
<1>. DEFINE t == [task[a] EXCEPT !.pc = pc]
<1>1. task[a] \in Task  BY TypeOKIsBoth DEF PInv, PropTypeOK
<1>2. /\ t \in Task /\ t.pc = pc
      /\ t.loaded = task[a].loaded /\ t.view = task[a].view /\ t.by = task[a].by
  BY <1>1 DEF Task
<1>3. LoadedInv(t)  BY <1>2 DEF LoadedInv, PInv, IInv
<1>4. ViewInv(t)  BY <1>2 DEF ViewInv, PInv, IInv
<1>5. StageInv(t)  BY <1>2 DEF StageInv
<1>. QED  BY <1>2, <1>3, <1>4, <1>5 DEF TaskInv

-----------------------------------------------------------------------------
(* The actions *)

\* Requests that end, and steps of others that leave this proposal alone.
LEMMA FinishStep ==
  ASSUME PInv, NEW a \in Actors, Finish(a),
         UNCHANGED <<kind, ballot, proposal>>, revoked' \in BOOLEAN,
         revoked' => revoked \/ (kind = "revocation" /\ ballot.executed)
  PROVE  PropTypeOK' /\ Grows /\ IInv'
BY IdleInv, StepInHand DEF Finish

LEMMA StillStep ==
  ASSUME PInv, UNCHANGED propVars
  PROVE  PropTypeOK' /\ Grows /\ IInv'
<1>1. UNCHANGED <<kind, ballot, proposal, revoked, task>>  BY DEF propVars
<1>2. PropTypeOK'  BY <1>1, TypeOKIsBoth DEF PInv, PropTypeOK
<1>3. Grows  BY <1>1, TypeOKIsBoth DEF PInv, PropTypeOK, Grows, Proposal
<1>4. IInv'
  BY <1>1 DEF PInv, IInv, StoredInv, NeverAhead, OneRecorder, LoadedInv, ViewInv, StageInv
<1>. QED  BY <1>2, <1>3, <1>4

LEMMA SignRequestStep ==
  ASSUME PInv, NEW a \in Actors, SignRequest(a)
  PROVE  PropTypeOK' /\ Grows /\ IInv'
<1>1. PICK o \in active :
        task' = [task EXCEPT ![a] = [Idle EXCEPT !.pc = "approve", !.by = o, !.loaded = proposal]]
  BY DEF SignRequest
<1>. DEFINE t == [Idle EXCEPT !.pc = "approve", !.by = o, !.loaded = proposal]
<1>2. o \in Officers /\ proposal \in Proposal /\ proposal.status = "pending"
  BY TypeOKIsBoth DEF PInv, PropTypeOK, GovTypeOK, SignRequest
<1>3. /\ t \in Task /\ t.pc = "approve" /\ t.by = o /\ t.loaded = proposal
      /\ t.view = NoBallot
  BY <1>2, BlankTypes DEF Idle, Task
<1>4. LoadedInv(t)
  BY <1>2, <1>3 DEF LoadedInv, PInv, IInv, StoredInv, NeverAhead, Proposal
<1>5. ViewInv(t)  BY <1>3, ToSetEmpty DEF ViewInv, NoBallot
<1>6. StageInv(t)  BY <1>2, <1>3 DEF StageInv
<1>7. revoked' = revoked /\ revoked \in BOOLEAN /\ UNCHANGED <<kind, ballot, proposal>>
  BY TypeOKIsBoth DEF SignRequest, PInv, PropTypeOK
<1>. QED  BY <1>1, <1>3, <1>4, <1>5, <1>6, <1>7, StepInHand DEF TaskInv

LEMMA BeginStep ==
  ASSUME PInv, NEW a \in Actors, RejectRequest(a) \/ StartReconcile(a)
  PROVE  PropTypeOK' /\ Grows /\ IInv'
<1>. PICK pc \in {"reject", "certificates"} :
       GoTo(a, pc) /\ (pc = "reject" => proposal.status = "pending")
  BY DEF RejectRequest, StartReconcile
<1>1. ~task[a].view.exists
  BY DEF RejectRequest, StartReconcile, Free, PInv, IInv, ViewInv
<1>2. UNCHANGED <<kind, ballot, proposal>> /\ revoked' = revoked /\ revoked \in BOOLEAN
  BY TypeOKIsBoth DEF RejectRequest, StartReconcile, PInv, PropTypeOK
<1>. QED  BY <1>1, <1>2, Onwards, StepInHand DEF GoTo

\* The contract's proposal comes to exist: it was blank, and so was everything else.
LEMMA ProposeStep ==
  ASSUME PInv, NEW a \in Actors, Propose(a)
  PROVE  PropTypeOK' /\ Grows /\ IInv'
<1>1. ballot = NoBallot /\ proposal.status = "absent" /\ task[a] \in Task
  BY TypeOKIsBoth DEF Propose, PInv, IInv, StoredInv, PropTypeOK
<1>2. ballot' = [NoBallot EXCEPT !.exists = TRUE] /\ UNCHANGED <<kind, proposal, revoked>>
  BY DEF Propose
<1>3. ballot' \in Ballot /\ ballot'.exists /\ ballot'.approvals = ballot.approvals
      /\ ballot'.executed = ballot.executed
  BY <1>1, <1>2, BlankTypes DEF Ballot, NoBallot
<1>4. task' = [task EXCEPT ![a].pc = "record"]  BY DEF Propose, GoTo
<1>5. task \in [Actors -> Task]  BY TypeOKIsBoth DEF PInv, PropTypeOK
<1>6. /\ task' \in [Actors -> Task]
      /\ task'[a].pc = "record" /\ task'[a].loaded = task[a].loaded /\ task'[a].view = task[a].view
      /\ \A b \in Actors : b # a => task'[b] = task[b]
  BY <1>4, <1>5 DEF Task
<1>7. PropTypeOK'
  BY <1>2, <1>3, <1>6, TypeOKIsBoth DEF PInv, PropTypeOK
<1>8. Grows
  BY <1>2, <1>3, TypeOKIsBoth DEF PInv, PropTypeOK, Grows, Proposal
<1>9. StoredInv'
  BY <1>2, <1>3 DEF PInv, IInv, StoredInv, NeverAhead
<1>10. ~task[a].view.exists
  BY DEF Propose, Free, PInv, IInv, ViewInv
<1>11. TaskInv(task[a])'
  <2>1. LoadedInv(task[a])'
    BY <1>2, <1>3, <1>6 DEF PInv, IInv, LoadedInv
  <2>2. ViewInv(task[a])'
    BY <1>3, <1>6, <1>10 DEF PInv, IInv, ViewInv
  <2>3. StageInv(task[a])'
    BY <1>1, <1>2, <1>3, <1>6 DEF StageInv
  <2>. QED  BY <2>1, <2>2, <2>3 DEF TaskInv
<1>12. \A b \in Actors : task[b].pc # "record"
  BY DEF Propose, PInv, IInv, StageInv
<1>. QED  BY <1>6, <1>7, <1>8, <1>9, <1>11, <1>12, StepOfOne

\* A step that writes the Proposal, after which its actor is idle or goes on to revoke.
LEMMA WriteStep ==
  ASSUME PInv, NEW a \in Actors, PropTypeOK', Grows, StoredInv',
         UNCHANGED <<kind, ballot, revoked>>,
         \A b \in Actors : b # a => task'[b] = task[b],
         \/ task'[a] = Idle
         \/ /\ task'[a].pc = "revoke" /\ proposal.status # "absent"
            /\ kind = "revocation" /\ ballot.executed
            /\ task'[a].loaded = task[a].loaded /\ task'[a].view = task[a].view,
         proposal.status = "absent" => task[a].pc = "record"
  PROVE  IInv'
<1>1. /\ Idle.loaded.version = 0 /\ Idle.loaded.signers = <<>>
      /\ Idle.view.approvals = <<>> /\ ~Idle.view.executed /\ ~Idle.view.exists
      /\ Idle.pc = "idle"
  BY DEF Idle, NoProposal, NoBallot
<1>2. /\ proposal.version \in Nat /\ proposal'.version \in Nat
      /\ task[a].loaded.version \in Nat
  BY TypeOKIsBoth DEF PInv, PropTypeOK, Proposal, Task
<1>3. CASE task'[a] = Idle
  <2>1. LoadedInv(task[a])'
    BY <1>1, <1>2, <1>3, ToSetEmpty DEF LoadedInv, StoredInv
  <2>2. ViewInv(task[a])'  BY <1>1, <1>3, ToSetEmpty DEF ViewInv
  <2>3. StageInv(task[a])'  BY <1>1, <1>3 DEF StageInv
  <2>4. TaskInv(task[a])'  BY <2>1, <2>2, <2>3 DEF TaskInv
  <2>5. \A b \in Actors : b # a => task[b].pc # "record" \/ proposal'.status = "absent"
    BY DEF PInv, IInv, StageInv, OneRecorder
  <2>. QED  BY <1>1, <1>3, <2>4, <2>5, StepOfOne
<1>4. CASE task'[a].pc = "revoke"
  <2>0. task'[a].loaded = task[a].loaded /\ task'[a].view = task[a].view
        /\ kind = "revocation" /\ ballot.executed /\ proposal.status # "absent"
    BY <1>1, <1>4
  <2>1. LoadedInv(task[a])'
    BY <1>2, <2>0 DEF LoadedInv, Grows, PInv, IInv
  <2>2. ViewInv(task[a])'  BY <1>4, <2>0 DEF ViewInv, PInv, IInv
  <2>3. StageInv(task[a])'  BY <1>4, <2>0 DEF StageInv, Grows
  <2>4. TaskInv(task[a])'  BY <2>1, <2>2, <2>3 DEF TaskInv
  <2>5. \A b \in Actors : task[b].pc # "record"
    BY <2>0 DEF PInv, IInv, StageInv
  <2>. QED  BY <1>4, <2>4, <2>5, StepOfOne
<1>. QED  BY <1>3, <1>4

LEMMA FinishIsIdle ==
  ASSUME PInv, NEW a \in Actors, Finish(a)
  PROVE  /\ task' \in [Actors -> Task] /\ task'[a] = Idle
         /\ \A b \in Actors : b # a => task'[b] = task[b]
BY BlankTypes, TypeOKIsBoth DEF PInv, PropTypeOK, Finish

LEMMA RecordStep ==
  ASSUME PInv, NEW a \in Actors, Record(a)
  PROVE  PropTypeOK' /\ Grows /\ IInv'
<1>1. proposal = NoProposal /\ ballot.exists
  BY DEF Record, PInv, IInv, StageInv, StoredInv
<1>2. proposal' = [NoProposal EXCEPT !.status = "pending"] /\ UNCHANGED <<kind, ballot, revoked>>
  BY DEF Record
<1>3. /\ proposal' \in Proposal /\ proposal'.status = "pending"
      /\ proposal'.signers = proposal.signers /\ proposal'.version = proposal.version
      /\ proposal'.executed = proposal.executed /\ proposal.signers = <<>>
      /\ proposal.version \in Nat
  BY <1>1, <1>2, BlankTypes DEF NoProposal, Proposal
<1>4. PropTypeOK'
  BY <1>2, <1>3, FinishIsIdle, TypeOKIsBoth DEF Record, PInv, PropTypeOK
<1>5. Grows  BY <1>1, <1>2, <1>3 DEF Grows, NoProposal
<1>6. StoredInv'
  BY <1>1, <1>2, <1>3 DEF PInv, IInv, StoredInv, NeverAhead
<1>. QED  BY <1>2, <1>4, <1>5, <1>6, FinishIsIdle, WriteStep DEF Record

LEMMA SaveRejectedStep ==
  ASSUME PInv, NEW a \in Actors, SaveRejected(a)
  PROVE  PropTypeOK' /\ Grows /\ IInv'
<1>1. proposal.status # "absent" /\ proposal \in Proposal
  BY TypeOKIsBoth DEF SaveRejected, PInv, IInv, StageInv, PropTypeOK
<1>2. proposal' = [proposal EXCEPT !.status = "rejected"] /\ UNCHANGED <<kind, ballot, revoked>>
  BY DEF SaveRejected
<1>3. /\ proposal' \in Proposal /\ proposal'.status = "rejected"
      /\ proposal'.signers = proposal.signers /\ proposal'.version = proposal.version
      /\ proposal'.executed = proposal.executed /\ proposal.version \in Nat
  BY <1>1, <1>2 DEF Proposal
<1>4. PropTypeOK'
  BY <1>2, <1>3, FinishIsIdle, TypeOKIsBoth DEF SaveRejected, PInv, PropTypeOK
<1>5. Grows  BY <1>2, <1>3 DEF Grows
<1>6. StoredInv'
  BY <1>1, <1>2, <1>3 DEF PInv, IInv, StoredInv, NeverAhead
<1>. QED  BY <1>1, <1>2, <1>4, <1>5, <1>6, FinishIsIdle, WriteStep DEF SaveRejected

LEMMA PushSignerStep ==
  ASSUME PInv, NEW a \in Actors, PushSigner(a)
  PROVE  PropTypeOK' /\ Grows /\ IInv'
<1>1. /\ proposal.status # "absent" /\ proposal \in Proposal /\ ballot \in Ballot
      /\ task[a].by \in ToSet(ballot.approvals)
  BY TypeOKIsBoth DEF PushSigner, PInv, IInv, StageInv, PropTypeOK
<1>2. task[a].by \in Officers
  BY <1>1 DEF Ballot, ToSet
<1>3. PICK signers : signers = Append(proposal.signers, task[a].by)
  OBVIOUS
<1>4. /\ proposal.signers \in Seq(Officers) /\ proposal.version \in Nat
      /\ signers \in Seq(Officers)
      /\ ToSet(signers) = ToSet(proposal.signers) \cup {task[a].by}
  BY <1>1, <1>2, <1>3, ToSetAppend DEF Proposal
<1>5. /\ proposal' = [proposal EXCEPT !.signers = signers, !.version = proposal.version + 1]
      /\ UNCHANGED <<kind, ballot, revoked>>
  BY <1>1, <1>3 DEF PushSigner, Proposal
<1>6. /\ proposal'.status = proposal.status
      /\ proposal'.signers = signers /\ proposal'.version = proposal.version + 1
      /\ proposal'.executed = proposal.executed
  BY <1>1, <1>5 DEF Proposal
<1>7. proposal' \in Proposal
  <2>1. PICK p : p = [proposal EXCEPT !.signers = signers]
    OBVIOUS
  <2>2. p \in Proposal
    BY <1>1, <1>4, <2>1 DEF Proposal
  <2>3. proposal' = [p EXCEPT !.version = proposal.version + 1]
    BY <1>5, <2>1
  <2>. QED  BY <1>4, <2>2, <2>3 DEF Proposal
<1>8. PropTypeOK'
  BY <1>5, <1>7, FinishIsIdle, TypeOKIsBoth DEF PushSigner, PInv, PropTypeOK
<1>9. ToSet(proposal'.signers) = ToSet(proposal.signers) \cup {task[a].by}
  BY <1>4, <1>6
<1>10. Grows
  BY <1>4, <1>5, <1>6, <1>9 DEF Grows
<1>11. StoredInv'
  <2>1. NeverAhead'
    BY <1>1, <1>5, <1>6, <1>9 DEF PInv, IInv, StoredInv, NeverAhead
  <2>2. proposal'.version # 0
    BY <1>4, <1>6
  <2>. QED  BY <1>1, <1>5, <1>6, <2>1, <2>2 DEF PInv, IInv, StoredInv
<1>. QED  BY <1>1, <1>5, <1>8, <1>10, <1>11, FinishIsIdle, WriteStep DEF PushSigner

LEMMA ApproveStep ==
  ASSUME PInv, NEW a \in Actors, Approve(a)
  PROVE  PropTypeOK' /\ Grows /\ IInv'
<1>1. /\ task[a].pc = "approve" /\ task[a] \in Task /\ task \in [Actors -> Task]
      /\ proposal.status # "absent" /\ ballot.exists /\ ballot \in Ballot
      /\ task[a].by \in Officers /\ ~ballot.executed
  BY TypeOKIsBoth DEF Approve, CanApprove, PInv, IInv, StageInv, StoredInv, PropTypeOK
<1>2. PICK approvals : approvals = Append(ballot.approvals, task[a].by)
  OBVIOUS
<1>. DEFINE executes == Len(approvals) >= threshold
<1>3. executes \in BOOLEAN
  OBVIOUS
<1>4. /\ ballot.approvals \in Seq(Officers) /\ approvals \in Seq(Officers)
      /\ ToSet(approvals) = ToSet(ballot.approvals) \cup {task[a].by}
  BY <1>1, <1>2, ToSetAppend DEF Ballot
<1>5. /\ ballot' = [ballot EXCEPT !.approvals = approvals, !.executed = executes]
      /\ UNCHANGED <<kind, proposal, revoked>>
      /\ task' = [task EXCEPT ![a].pc = "readback"]
  BY <1>2 DEF Approve, GoTo
<1>. HIDE DEF executes
<1>6. ballot' \in Ballot /\ ballot'.exists /\ ballot'.approvals = approvals
  <2>1. PICK b : b = [ballot EXCEPT !.approvals = approvals]
    OBVIOUS
  <2>2. b \in Ballot /\ b.exists /\ b.approvals = approvals
    BY <1>1, <1>4, <2>1 DEF Ballot
  <2>3. ballot' = [b EXCEPT !.executed = executes]
    BY <1>5, <2>1
  <2>. QED  BY <1>3, <2>2, <2>3 DEF Ballot
<1>7. ToSet(ballot'.approvals) = ToSet(ballot.approvals) \cup {task[a].by}
  BY <1>4, <1>6
<1>8. /\ task' \in [Actors -> Task] /\ task'[a].pc = "readback" /\ task'[a].by = task[a].by
      /\ task'[a].loaded = task[a].loaded /\ task'[a].view = task[a].view
      /\ \A b \in Actors : b # a => task'[b] = task[b]
  BY <1>1, <1>5 DEF Task
<1>9. PropTypeOK'
  BY <1>5, <1>6, <1>8, TypeOKIsBoth DEF PInv, PropTypeOK
<1>10. proposal.version \in Nat  BY TypeOKIsBoth DEF PInv, PropTypeOK, Proposal
<1>11. Grows
  BY <1>1, <1>5, <1>6, <1>7, <1>10 DEF Grows
<1>12. StoredInv'
  BY <1>1, <1>5, <1>6, <1>7 DEF PInv, IInv, StoredInv, NeverAhead
<1>13. ~task[a].view.exists
  BY <1>1 DEF PInv, IInv, ViewInv
<1>14. LoadedInv(task[a])'
  BY <1>5, <1>7, <1>8 DEF PInv, IInv, LoadedInv
<1>15. ViewInv(task[a])'
  BY <1>1, <1>7, <1>8, <1>13 DEF PInv, IInv, ViewInv
<1>16. StageInv(task[a])'
  BY <1>1, <1>5, <1>7, <1>8 DEF StageInv
<1>17. \A b \in Actors : task[b].pc # "record"
  BY <1>1 DEF PInv, IInv, StageInv
<1>. QED
  BY <1>8, <1>9, <1>11, <1>12, <1>14, <1>15, <1>16, <1>17, StepOfOne DEF TaskInv

\* The contract's proposal is read back.
Viewed(t, pc) == [t EXCEPT !.view = ballot, !.pc = pc]

LEMMA ViewTaken ==
  ASSUME PInv, NEW a \in Actors, NEW pc \in {"save", "sync", "effect", "repair"},
         proposal.status # "absent",
         pc # "repair" => task[a].by \in ToSet(ballot.approvals),
         pc = "effect" => kind = "revocation" /\ ballot.executed,
         pc = "repair" => ballot.exists
  PROVE  /\ Viewed(task[a], pc) \in Task
         /\ TaskInv(Viewed(task[a], pc))
         /\ Viewed(task[a], pc).pc = pc
<1>0. PICK t : t = [task[a] EXCEPT !.view = ballot, !.pc = pc]
  OBVIOUS
<1>1. task[a] \in Task /\ ballot \in Ballot
  BY TypeOKIsBoth DEF PInv, PropTypeOK
<1>2. t.pc = pc /\ t.loaded = task[a].loaded /\ t.view = ballot /\ t.by = task[a].by
  BY <1>0, <1>1 DEF Task
<1>3. t \in Task
  <2>1. PICK s : s = [task[a] EXCEPT !.view = ballot]
    OBVIOUS
  <2>2. s \in Task  BY <1>1, <2>1 DEF Task
  <2>3. t = [s EXCEPT !.pc = pc]  BY <1>0, <2>1
  <2>. QED  BY <2>2, <2>3 DEF Task
<1>4. LoadedInv(t)  BY <1>2 DEF LoadedInv, PInv, IInv
<1>5. ViewInv(t)  BY <1>2 DEF ViewInv, LoadedInv, PInv, IInv
<1>6. StageInv(t)  BY <1>2 DEF StageInv
<1>7. t = Viewed(task[a], pc)
  BY <1>0 DEF Viewed
<1>. QED  BY <1>2, <1>3, <1>4, <1>5, <1>6, <1>7 DEF TaskInv

LEMMA ReadbackStep ==
  ASSUME PInv, NEW a \in Actors, Readback(a)
  PROVE  PropTypeOK' /\ Grows /\ IInv'
<1>1. /\ task[a] \in Task /\ task \in [Actors -> Task] /\ proposal.status # "absent"
      /\ task[a].by \in ToSet(ballot.approvals)
  BY TypeOKIsBoth DEF Readback, PInv, IInv, StageInv, PropTypeOK
<1>2. PICK pc : pc = AfterReadback
  OBVIOUS
<1>3. /\ pc \in {"save", "sync", "effect", "repair"} /\ pc # "repair"
      /\ pc = "effect" => kind = "revocation" /\ ballot.executed
  BY <1>2 DEF AfterReadback
<1>4. PICK t : t = Viewed(task[a], pc)
  OBVIOUS
<1>5. t \in Task /\ TaskInv(t) /\ t.pc = pc
  BY <1>1, <1>3, <1>4, ViewTaken
<1>6. task' = [task EXCEPT ![a] = t]
  BY <1>2, <1>4 DEF Readback, Viewed
<1>7. UNCHANGED <<kind, ballot, proposal>> /\ revoked' = revoked /\ revoked \in BOOLEAN
  BY TypeOKIsBoth DEF Readback, PInv, PropTypeOK
<1>. QED  BY <1>3, <1>5, <1>6, <1>7, StepInHand

\* The stages that take nothing new in hand.
LEMMA OnwardsStep ==
  ASSUME PInv, NEW a \in Actors,
         \/ ReadbackFails(a) \/ MirrorRevocation(a) \/ MirrorRevocationFails(a) \/ Synced(a)
         \/ ReconcileCertificates(a) \/ ReconcileThreshold(a)
  PROVE  PropTypeOK' /\ Grows /\ IInv'
<1>1. task[a] \in Task /\ task \in [Actors -> Task] /\ revoked \in BOOLEAN
  BY TypeOKIsBoth DEF PInv, PropTypeOK
<1>2. CASE ReadbackFails(a) \/ MirrorRevocation(a) \/ MirrorRevocationFails(a) \/ Synced(a)
  <2>1. /\ task[a].by \in ToSet(ballot.approvals) /\ proposal.status # "absent"
        /\ task[a].pc = "effect" => kind = "revocation" /\ ballot.executed
    BY <1>2 DEF PInv, IInv, StageInv, ReadbackFails, MirrorRevocation, MirrorRevocationFails, Synced
  <2>2. PICK t : t = [task[a] EXCEPT !.pc = "save"]
    OBVIOUS
  <2>3. t \in Task /\ TaskInv(t) /\ t.pc = "save"
    BY <2>1, <2>2, Onwards
  <2>4. task' = [task EXCEPT ![a] = t]
    BY <1>2, <2>2 DEF ReadbackFails, MirrorRevocation, MirrorRevocationFails, Synced, GoTo
  <2>5. /\ UNCHANGED <<kind, ballot, proposal>> /\ revoked' \in BOOLEAN
        /\ revoked' => revoked \/ (kind = "revocation" /\ ballot.executed)
    <3>1. CASE MirrorRevocation(a)
      BY <2>1, <3>1 DEF MirrorRevocation
    <3>2. CASE ReadbackFails(a) \/ MirrorRevocationFails(a) \/ Synced(a)
      BY <1>1, <3>2 DEF ReadbackFails, MirrorRevocationFails, Synced
    <3>. QED  BY <1>2, <3>1, <3>2
  <2>. QED  BY <2>3, <2>4, <2>5, StepInHand
<1>3. CASE ReconcileCertificates(a) \/ ReconcileThreshold(a)
  <2>1. ~task[a].view.exists
    BY <1>3 DEF PInv, IInv, ViewInv, ReconcileCertificates, ReconcileThreshold
  <2>2. PICK pc \in {"governance", "proposals"} : GoTo(a, pc)
    BY <1>3 DEF ReconcileCertificates, ReconcileThreshold
  <2>3. PICK t : t = [task[a] EXCEPT !.pc = pc]
    OBVIOUS
  <2>4. t \in Task /\ TaskInv(t) /\ t.pc = pc
    BY <2>1, <2>3, Onwards
  <2>5. task' = [task EXCEPT ![a] = t]
    BY <2>2, <2>3 DEF GoTo
  <2>6. /\ UNCHANGED <<kind, ballot, proposal>> /\ revoked' \in BOOLEAN
        /\ revoked' => revoked \/ (kind = "revocation" /\ ballot.executed)
    BY <1>1, <1>3, TypeOKIsBoth DEF ReconcileCertificates, ReconcileThreshold, PInv, PropTypeOK, Ballot
  <2>. QED  BY <2>4, <2>5, <2>6, StepInHand
<1>. QED  BY <1>2, <1>3

LEMMA FindPendingStep ==
  ASSUME PInv, NEW a \in Actors, FindPending(a)
  PROVE  PropTypeOK' /\ Grows /\ IInv'
<1>1. /\ task[a] \in Task /\ task \in [Actors -> Task] /\ proposal \in Proposal
      /\ UNCHANGED <<kind, ballot, proposal>> /\ revoked' = revoked /\ revoked \in BOOLEAN
  BY TypeOKIsBoth DEF FindPending, PInv, PropTypeOK
<1>2. CASE Finish(a)
  BY <1>1, <1>2, FinishStep
<1>3. CASE /\ proposal.status = "pending"
           /\ task' = [task EXCEPT ![a].pc = "compare", ![a].loaded = proposal]
  <2>1. PICK t : t = [task[a] EXCEPT !.pc = "compare", !.loaded = proposal]
    OBVIOUS
  <2>2. t.pc = "compare" /\ t.loaded = proposal /\ t.view = task[a].view
    BY <1>1, <2>1 DEF Task
  <2>3. t \in Task
    <3>1. PICK s : s = [task[a] EXCEPT !.pc = "compare"]
      OBVIOUS
    <3>2. s \in Task  BY <1>1, <3>1 DEF Task
    <3>3. t = [s EXCEPT !.loaded = proposal]  BY <2>1, <3>1
    <3>. QED  BY <1>1, <3>2, <3>3 DEF Task
  <2>4. task' = [task EXCEPT ![a] = t]
    BY <1>1, <1>3, <2>1
  <2>5. ~task[a].view.exists
    BY DEF FindPending, PInv, IInv, ViewInv
  <2>6. LoadedInv(t)
    BY <1>1, <2>2 DEF LoadedInv, PInv, IInv, StoredInv, NeverAhead, Proposal
  <2>7. ViewInv(t)
    BY <2>2, <2>5 DEF ViewInv, PInv, IInv
  <2>8. StageInv(t)
    BY <1>3, <2>2 DEF StageInv
  <2>. QED  BY <1>1, <2>2, <2>3, <2>4, <2>6, <2>7, <2>8, StepInHand DEF TaskInv
<1>. QED  BY <1>2, <1>3 DEF FindPending

LEMMA ComparePendingStep ==
  ASSUME PInv, NEW a \in Actors, ComparePending(a)
  PROVE  PropTypeOK' /\ Grows /\ IInv'
<1>1. /\ task[a] \in Task /\ task \in [Actors -> Task]
      /\ UNCHANGED <<kind, ballot, proposal>> /\ revoked' = revoked /\ revoked \in BOOLEAN
      /\ proposal.status # "absent" /\ ballot.exists
  BY TypeOKIsBoth DEF ComparePending, PInv, IInv, StageInv, StoredInv, PropTypeOK
<1>2. CASE Finish(a)
  BY <1>1, <1>2, FinishStep
<1>3. CASE task' = [task EXCEPT ![a] = [@ EXCEPT !.view = ballot, !.pc = "repair"]]
  <2>1. PICK t : t = Viewed(task[a], "repair")
    OBVIOUS
  <2>2. t \in Task /\ TaskInv(t) /\ t.pc = "repair"
    BY <1>1, <2>1, ViewTaken
  <2>3. task' = [task EXCEPT ![a] = t]
    BY <1>3, <2>1 DEF Viewed
  <2>4. t.pc # "record"  BY <2>2
  <2>5. /\ UNCHANGED <<kind, ballot, proposal>> /\ revoked' \in BOOLEAN
        /\ revoked' => revoked \/ (kind = "revocation" /\ ballot.executed)
    BY <1>1
  <2>. QED  BY <2>2, <2>3, <2>4, <2>5, StepInHand
<1>. QED  BY <1>2, <1>3 DEF ComparePending

-----------------------------------------------------------------------------
(* What save() writes is the contract's proposal as it was read back after the *)
(* document was loaded; if the list of signers was stored since, it throws.    *)

LEMMA StoreWrites ==
  ASSUME PInv, NEW a \in Actors, Store(a), task[a].view.exists, proposal.status # "absent",
         UNCHANGED <<kind, ballot, revoked>>
  PROVE  proposal' \in Proposal /\ Grows /\ StoredInv'
<1>1. /\ proposal \in Proposal /\ ballot \in Ballot
      /\ task[a].loaded \in Proposal /\ task[a].view \in Ballot
  BY TypeOKIsBoth DEF PInv, PropTypeOK, Task
<1>2. /\ proposal.version \in Nat /\ proposal.version + 1 \in Nat
      /\ proposal.version + 1 > proposal.version
  BY <1>1 DEF Proposal
<1>3. /\ ToSet(task[a].loaded.signers) \subseteq ToSet(task[a].view.approvals)
      /\ ToSet(task[a].view.approvals) \subseteq ToSet(ballot.approvals)
      /\ task[a].view.executed => ballot.executed
      /\ task[a].loaded.version = proposal.version => task[a].loaded.signers = proposal.signers
  BY DEF PInv, IInv, LoadedInv, ViewInv
<1>4. CASE SaveThrows(a)
  <2>1. proposal' = proposal  BY <1>4 DEF Store
  <2>2. Grows  BY <1>2, <2>1 DEF Grows
  <2>3. StoredInv'  BY <2>1 DEF PInv, IInv, StoredInv, NeverAhead
  <2>. QED  BY <1>1, <2>1, <2>2, <2>3
<1>5. CASE ~SaveThrows(a)
  <2>1. PICK status : status = IF task[a].view.executed THEN "executed" ELSE proposal.status
    OBVIOUS
  <2>. DEFINE executed == task[a].view.executed \/ proposal.executed
  <2>2. PICK signers : signers = IF SignersChange(a) THEN task[a].view.approvals ELSE proposal.signers
    OBVIOUS
  <2>3. PICK version : version = IF SignersChange(a) THEN proposal.version + 1 ELSE proposal.version
    OBVIOUS
  <2>4. proposal' = [status |-> status, executed |-> executed,
                     signers |-> signers, version |-> version]
    BY <1>5, <2>1, <2>2, <2>3 DEF Store
  <2>5. executed \in BOOLEAN
    OBVIOUS
  <2>6. /\ proposal.executed => executed
        /\ executed => ballot.executed
    BY <1>3 DEF PInv, IInv, StoredInv, NeverAhead
  <2>7. status = "executed" => executed
    BY <2>1 DEF PInv, IInv, StoredInv, NeverAhead
  <2>. HIDE DEF executed
  <2>8. status \in {"pending", "executed", "rejected"}
    BY <1>1, <2>1 DEF Proposal
  <2>9. signers \in Seq(Officers) /\ version \in Nat
    BY <1>1, <1>2, <2>2, <2>3 DEF Proposal, Ballot
  <2>10. proposal' \in Proposal
    BY <2>4, <2>5, <2>8, <2>9 DEF Proposal
  <2>11. /\ proposal'.status = status /\ proposal'.executed = executed
         /\ proposal'.signers = signers /\ proposal'.version = version
    BY <2>4
  <2>12. CASE SignersChange(a)
    <3>1. proposal.signers = task[a].loaded.signers
      BY <1>3, <1>5, <2>12 DEF SaveThrows
    <3>2. /\ ToSet(proposal.signers) \subseteq ToSet(signers)
          /\ ToSet(signers) \subseteq ToSet(ballot.approvals)
          /\ version = proposal.version + 1
      BY <1>3, <2>2, <2>3, <2>12, <3>1
    <3>3. proposal.version <= version /\ version # proposal.version /\ version # 0
      BY <1>2, <3>2
    <3>4. Grows
      BY <2>6, <2>8, <2>11, <3>2, <3>3 DEF Grows
    <3>5. NeverAhead'
      BY <2>6, <2>7, <2>11, <3>2 DEF PInv, IInv, StoredInv, NeverAhead
    <3>6. StoredInv'
      BY <2>8, <2>11, <3>3, <3>5 DEF PInv, IInv, StoredInv
    <3>. QED  BY <2>10, <3>4, <3>6
  <2>13. CASE ~SignersChange(a)
    <3>1. signers = proposal.signers /\ version = proposal.version
      BY <2>2, <2>3, <2>13
    <3>2. Grows
      BY <1>2, <2>6, <2>8, <2>11, <3>1 DEF Grows
    <3>3. NeverAhead'
      BY <2>6, <2>7, <2>11, <3>1 DEF PInv, IInv, StoredInv, NeverAhead
    <3>4. StoredInv'
      BY <2>8, <2>11, <3>1, <3>3 DEF PInv, IInv, StoredInv
    <3>. QED  BY <2>10, <3>2, <3>4
  <2>. QED  BY <2>12, <2>13
<1>. QED  BY <1>4, <1>5

LEMMA SaveSignedStep ==
  ASSUME PInv, NEW a \in Actors, SaveSigned(a)
  PROVE  PropTypeOK' /\ Grows /\ IInv'
<1>1. proposal.status # "absent" /\ UNCHANGED <<kind, ballot, revoked>>
  BY DEF SaveSigned, PInv, IInv, StageInv
<1>2. proposal' \in Proposal /\ Grows /\ StoredInv'
  BY <1>1, StoreWrites DEF SaveSigned
<1>3. PropTypeOK'
  BY <1>1, <1>2, FinishIsIdle, TypeOKIsBoth DEF SaveSigned, PInv, PropTypeOK
<1>. QED  BY <1>1, <1>2, <1>3, FinishIsIdle, WriteStep DEF SaveSigned

LEMMA RepairPendingStep ==
  ASSUME PInv, NEW a \in Actors, RepairPending(a)
  PROVE  PropTypeOK' /\ Grows /\ IInv'
<1>1. /\ proposal.status # "absent" /\ UNCHANGED <<kind, ballot, revoked>>
      /\ task[a].view.exists
      /\ task[a].view.executed => ballot.executed
  BY DEF RepairPending, PInv, IInv, StageInv, ViewInv
<1>2. proposal' \in Proposal /\ Grows /\ StoredInv'
  BY <1>1, StoreWrites DEF RepairPending
<1>3. task \in [Actors -> Task]
  BY TypeOKIsBoth DEF PInv, PropTypeOK
<1>4. CASE Finish(a)
  <2>1. PropTypeOK'
    BY <1>1, <1>2, <1>4, FinishIsIdle, TypeOKIsBoth DEF PInv, PropTypeOK
  <2>. QED  BY <1>1, <1>2, <1>4, <2>1, FinishIsIdle, WriteStep
<1>5. CASE task[a].view.executed /\ kind = "revocation" /\ GoTo(a, "revoke")
  <2>1. /\ task' \in [Actors -> Task] /\ task'[a].pc = "revoke"
        /\ task'[a].loaded = task[a].loaded /\ task'[a].view = task[a].view
        /\ \A b \in Actors : b # a => task'[b] = task[b]
    BY <1>3, <1>5 DEF GoTo, Task
  <2>2. PropTypeOK'
    BY <1>1, <1>2, <2>1, TypeOKIsBoth DEF PInv, PropTypeOK
  <2>. QED  BY <1>1, <1>2, <1>5, <2>1, <2>2, WriteStep
<1>. QED  BY <1>4, <1>5 DEF RepairPending

-----------------------------------------------------------------------------
(* The theorems *)

\* No step takes back what is stored, and every step keeps the invariant.
LEMMA PropStep ==
  ASSUME PInv, [Next]_vars
  PROVE  PropTypeOK' /\ Grows /\ IInv'
<1>1. CASE UNCHANGED vars
  BY <1>1, StillStep DEF vars
<1>. SUFFICES ASSUME NEW a \in Actors,
                     \/ Start(a) \/ Proceed(a)
                     \/ ReadThresholdFails(a) /\ UNCHANGED propVars
                     \/ ReadbackFails(a) \/ MirrorRevocationFails(a) \/ CompareFails(a)
                     \/ Crash(a)
              PROVE  PropTypeOK' /\ Grows /\ IInv'
  BY <1>1 DEF Next
<1>2. revoked \in BOOLEAN
  BY TypeOKIsBoth DEF PInv, PropTypeOK
<1>3. CASE Start(a)
  BY <1>3, StillStep, ProposeStep, SignRequestStep, BeginStep DEF Start
<1>4. CASE UNCHANGED propVars
  BY <1>4, StillStep
<1>5. CASE Record(a) \/ Approve(a) \/ Readback(a)
  BY <1>5, RecordStep, ApproveStep, ReadbackStep
<1>6. CASE ApproveRefused(a) \/ CompareFails(a) \/ Crash(a)
  BY <1>2, <1>6, FinishStep DEF ApproveRefused, CompareFails, Crash
<1>7. CASE \/ ReadbackFails(a) \/ MirrorRevocation(a) \/ MirrorRevocationFails(a) \/ Synced(a)
           \/ ReconcileCertificates(a) \/ ReconcileThreshold(a)
  BY <1>7, OnwardsStep
<1>8. CASE SaveSigned(a) \/ PushSigner(a) \/ SaveRejected(a)
  BY <1>8, SaveSignedStep, PushSignerStep, SaveRejectedStep
<1>9. CASE FindPending(a) \/ ComparePending(a) \/ RepairPending(a)
  BY <1>9, FindPendingStep, ComparePendingStep, RepairPendingStep
<1>10. CASE RevokeRepaired(a)
  <2>1. kind = "revocation" /\ ballot.executed
    BY <1>10 DEF RevokeRepaired, PInv, IInv, StageInv
  <2>2. Finish(a) /\ UNCHANGED <<kind, ballot, proposal>>
    BY <1>10 DEF RevokeRepaired
  <2>3. revoked' \in BOOLEAN
    BY <1>2, <1>10 DEF RevokeRepaired
  <2>. QED  BY <2>1, <2>2, <2>3, FinishStep
<1>. QED
  BY <1>3, <1>4, <1>5, <1>6, <1>7, <1>8, <1>9, <1>10 DEF Proceed

LEMMA Initially == Init => PInv
<1>. SUFFICES ASSUME Init PROVE PInv
  OBVIOUS
<1>1. GovInv
  BY GovInitial DEF Init
<1>2. PropTypeOK /\ crowded \in Crowds
  BY BlankTypes DEF Init, PropTypeOK
<1>3. \A a \in Actors : task[a] = Idle
  BY DEF Init
<1>4. /\ Idle.loaded.version = 0 /\ Idle.loaded.signers = <<>>
      /\ Idle.view.approvals = <<>> /\ ~Idle.view.executed /\ ~Idle.view.exists
      /\ Idle.pc = "idle"
  BY DEF Idle, NoProposal, NoBallot
<1>5. /\ proposal.version = 0 /\ proposal.signers = <<>> /\ proposal.status = "absent"
      /\ ~proposal.executed /\ ballot = NoBallot /\ proposal = NoProposal /\ ~revoked
  BY DEF Init, NoProposal
<1>6. StoredInv
  BY <1>5, ToSetEmpty DEF StoredInv, NeverAhead
<1>7. OneRecorder
  BY <1>3, <1>4 DEF OneRecorder
<1>8. \A a \in Actors : LoadedInv(task[a]) /\ ViewInv(task[a]) /\ StageInv(task[a])
  BY <1>3, <1>4, <1>5, ToSetEmpty DEF LoadedInv, ViewInv, StageInv
<1>. QED
  BY <1>1, <1>2, <1>6, <1>7, <1>8, TypeOKIsBoth DEF PInv, IInv, GovInv

LEMMA AlwaysPInv == Spec => []PInv
<1>1. PInv /\ [Next]_vars => PInv'
  <2>. SUFFICES ASSUME PInv, [Next]_vars PROVE PInv'
    OBVIOUS
  <2>1. GovInv'  BY GovPart
  <2>2. PropTypeOK' /\ IInv'  BY PropStep
  <2>3. TypeOK'  BY <2>1, <2>2, CrowdStays DEF GovInv, PInv, TypeOK, PropTypeOK
  <2>. QED  BY <2>1, <2>2, <2>3 DEF PInv
<1>. QED  BY <1>1, Initially, PTL DEF Spec

(***************************************************************************)
(* Types, with those of Governance: whatever runs beside it.               *)
(***************************************************************************)
THEOREM TypeCorrect == Spec => []TypeOK
<1>1. PInv => TypeOK  BY DEF PInv
<1>. QED  BY <1>1, AlwaysPInv, PTL

(***************************************************************************)
(* MongoDB never shows a signature, an execution or a revocation the       *)
(* contract has not, whichever handlers and repairs overlap, fail or die.  *)
(***************************************************************************)
THEOREM NeverAheadCorrect == Spec => []NeverAhead
<1>1. PInv => NeverAhead  BY DEF PInv, IInv, StoredInv
<1>. QED  BY <1>1, AlwaysPInv, PTL

(***************************************************************************)
(* No handler takes back a recorded execution or signer: save() writes over*)
(* the list it had loaded only, and what it writes was read back since.    *)
(***************************************************************************)
THEOREM NothingTakenBackCorrect == Spec => NothingTakenBack
<1>1. PInv /\ [Next]_vars
        => [/\ proposal.executed => proposal'.executed
            /\ ToSet(proposal.signers) \subseteq ToSet(proposal'.signers)]_vars
  <2>. SUFFICES ASSUME PInv, [Next]_vars
                PROVE  /\ proposal.executed => proposal'.executed
                       /\ ToSet(proposal.signers) \subseteq ToSet(proposal'.signers)
    OBVIOUS
  <2>. QED  BY PropStep DEF Grows
<1>. QED  BY <1>1, AlwaysPInv, PTL DEF Spec, NothingTakenBack

-----------------------------------------------------------------------------
(* The refinement *)

\* Nobody's approval is counted twice.
OneVoteEach ==
  \A i, j \in DOMAIN ballot.approvals : ballot.approvals[i] = ballot.approvals[j] => i = j

\* A list without repetitions is as long as it has signers.
LEMMA TallyIsLength ==
  ASSUME NEW S, NEW s \in Seq(S), \A i, j \in DOMAIN s : s[i] = s[j] => i = j
  PROVE  Cardinality(ToSet(s)) = Len(s)
<1>1. s \in [1..Len(s) -> ToSet(s)] /\ Len(s) \in Nat /\ DOMAIN s = 1..Len(s)
  BY DEF ToSet
<1>2. s \in Surjection(1..Len(s), ToSet(s))
  BY <1>1 DEF Surjection, ToSet
<1>3. s \in Injection(1..Len(s), ToSet(s))
  BY <1>1 DEF Injection, IsInjective
<1>4. IsFiniteSet(1..Len(s)) /\ Cardinality(1..Len(s)) = Len(s)
  <2>1. IsFiniteSet(1..Len(s)) /\ Cardinality(1..Len(s)) = IF 1 > Len(s) THEN 0 ELSE Len(s) - 1 + 1
    BY <1>1, FS_Interval
  <2>2. Len(s) = IF 1 > Len(s) THEN 0 ELSE Len(s) - 1 + 1
    BY <1>1
  <2>. QED  BY <2>1, <2>2
<1>. QED  BY <1>2, <1>3, <1>4, FS_Surjection

\* BallotHistory counts as this module does.
LEMMA SameTally == \A S : Votes!Cardinality(S) = Cardinality(S)
BY DEF Votes!Cardinality, Cardinality, Votes!IsFiniteSet, IsFiniteSet

\* The contract refuses who has approved already, and executes at its threshold.
LEMMA ApproveVotes ==
  ASSUME PInv, OneVoteEach, NEW a \in Actors, Approve(a)
  PROVE  OneVoteEach' /\ Votes!Sign
<1>. DEFINE old == ballot.approvals
            new == Append(ballot.approvals, task[a].by)
            executes == Len(new) >= threshold
<1>1. /\ task[a].by \in Officers /\ ballot \in Ballot /\ ~ballot.executed
      /\ threshold \in Nat \ {0}
      /\ ~Contains(ballot.approvals, task[a].by)
  BY TypeOKIsBoth DEF Approve, CanApprove, PInv, IInv, StageInv, PropTypeOK, GovTypeOK
<1>2. old \in Seq(Officers) /\ new \in Seq(Officers) /\ ToSet(new) = ToSet(old) \cup {task[a].by}
  BY <1>1, ToSetAppend DEF Ballot
<1>3. /\ Len(old) \in Nat /\ DOMAIN old = 1..Len(old) /\ DOMAIN new = 1..(Len(old) + 1)
      /\ \A i \in 1..Len(old) : new[i] = old[i]
      /\ new[Len(old) + 1] = task[a].by
  BY <1>1, <1>2
<1>4. task[a].by \notin ToSet(old)
  BY <1>1, <1>3 DEF Contains, ToSet
<1>5. \A i \in 1..Len(old) : old[i] # task[a].by
  BY <1>3, <1>4 DEF ToSet
<1>6. \A i, j \in DOMAIN new : new[i] = new[j] => i = j
  <2>. SUFFICES ASSUME NEW i \in 1..(Len(old) + 1), NEW j \in 1..(Len(old) + 1), new[i] = new[j]
                PROVE  i = j
    BY <1>3
  <2>1. \A k \in 1..(Len(old) + 1) : k \in 1..Len(old) \/ k = Len(old) + 1
    BY <1>3
  <2>2. \A k, l \in 1..Len(old) : old[k] = old[l] => k = l
    BY <1>3 DEF OneVoteEach
  <2>. HIDE DEF new, old
  <2>. QED  BY <1>3, <1>5, <2>1, <2>2
<1>7. Cardinality(ToSet(new)) = Len(new)
  <2>. HIDE DEF new
  <2>. QED  BY <1>2, <1>6, TallyIsLength
<1>8. /\ ballot' = [ballot EXCEPT !.approvals = new, !.executed = executes]
      /\ threshold' = IF executes /\ kind = "governance_rule" THEN RuleValue ELSE threshold
      /\ UNCHANGED <<proposal, revoked>>
  BY DEF Approve
<1>9. executes \in BOOLEAN
  OBVIOUS
<1>. HIDE DEF new, executes
<1>10. ballot'.approvals = new /\ ballot'.executed = executes
  <2>1. PICK b : b = [ballot EXCEPT !.approvals = new]
    OBVIOUS
  <2>2. b \in Ballot /\ b.approvals = new
    BY <1>1, <1>2, <2>1 DEF Ballot
  <2>3. ballot' = [b EXCEPT !.executed = executes]
    BY <1>8, <2>1
  <2>. QED  BY <2>2, <2>3 DEF Ballot
<1>11. OneVoteEach'
  BY <1>6, <1>10 DEF OneVoteEach
<1>12. ballot'.executed = (Cardinality(ToSet(ballot'.approvals)) >= threshold)
  BY <1>7, <1>10 DEF executes
<1>13. \E o \in Officers \ ToSet(ballot.approvals) :
          ToSet(ballot'.approvals) = ToSet(ballot.approvals) \cup {o}
  BY <1>1, <1>2, <1>4, <1>10
<1>14. IF ballot'.executed THEN threshold' \in Nat \ {0} ELSE threshold' = threshold
  BY <1>1, <1>8, <1>10, ProposalAssumption
<1>15. UNCHANGED [signers |-> ToSet(proposal.signers), executed |-> proposal.executed,
                  effect |-> revoked]
  BY <1>8
<1>16. Votes!Sign
  <2>1. ~ballot.executed
    BY <1>1
  <2>2. ballot'.executed = (Votes!Cardinality(ToSet(ballot'.approvals)) >= threshold)
    BY <1>12, SameTally
  <2>. QED  BY <2>1, <2>2, <1>13, <1>14, <1>15, Zenon DEF Votes!Sign
<1>. QED  BY <1>11, <1>16

\* The other steps leave the ballot alone, and the threshold or what is shown.
LEMMA OthersWatch ==
  ASSUME PInv, NEW a \in Actors,
         \/ Start(a) \/ Proceed(a)
         \/ ReadThresholdFails(a) /\ UNCHANGED propVars
         \/ ReadbackFails(a) \/ MirrorRevocationFails(a) \/ CompareFails(a)
         \/ Crash(a),
         ~Approve(a)
  PROVE  /\ UNCHANGED <<ballot.approvals, ballot.executed>>
         /\ revoked => revoked'
         /\ UNCHANGED threshold \/ UNCHANGED <<proposal, revoked>>
<1>1. CASE UNCHANGED propVars
  BY <1>1 DEF propVars
<1>2. CASE Propose(a)
  <2>1. ballot = NoBallot
    BY <1>2 DEF Propose, PInv, IInv, StoredInv
  <2>2. ballot' = [NoBallot EXCEPT !.exists = TRUE] /\ UNCHANGED <<proposal, revoked>>
    BY <1>2 DEF Propose
  <2>. QED  BY <2>1, <2>2 DEF NoBallot
<1>3. CASE SignRequest(a) \/ RejectRequest(a) \/ StartReconcile(a)
  <2>1. UNCHANGED <<ballot, proposal, revoked>>
    BY <1>3 DEF SignRequest, RejectRequest, StartReconcile
  <2>. QED  BY <2>1
<1>4. CASE ApproveRefused(a) \/ Readback(a) \/ Synced(a) \/ ReconcileThreshold(a) \/ FindPending(a)
           \/ ComparePending(a)
  <2>1. UNCHANGED <<ballot, proposal, revoked>>
    BY <1>4 DEF ApproveRefused, Readback, Synced, ReconcileThreshold, FindPending, ComparePending
  <2>. QED  BY <2>1
<1>5. CASE Record(a) \/ SaveSigned(a) \/ PushSigner(a) \/ SaveRejected(a) \/ RepairPending(a)
  <2>1. UNCHANGED <<ballot, revoked, threshold>>
    BY <1>5 DEF Record, SaveSigned, PushSigner, SaveRejected, RepairPending, govVars
  <2>. QED  BY <2>1
<1>6. CASE MirrorRevocation(a) \/ ReconcileCertificates(a)
  <2>1. UNCHANGED <<ballot, threshold>> /\ (revoked => revoked')
    BY <1>6 DEF MirrorRevocation, ReconcileCertificates, govVars
  <2>. QED  BY <2>1
<1>7. CASE RevokeRepaired(a)
  <2>1. UNCHANGED <<ballot, threshold>> /\ (revoked => revoked')
    BY <1>7 DEF RevokeRepaired, govVars
  <2>. QED  BY <2>1
<1>8. CASE ReadbackFails(a) \/ MirrorRevocationFails(a) \/ CompareFails(a) \/ Crash(a)
  <2>1. UNCHANGED <<ballot, proposal, revoked>>
    BY <1>8 DEF ReadbackFails, MirrorRevocationFails, CompareFails, Crash
  <2>. QED  BY <2>1
<1>. QED
  BY <1>1, <1>2, <1>3, <1>4, <1>5, <1>6, <1>7, <1>8 DEF Start, Proceed

\* Every step is one of BallotHistory, or none.
LEMMA VoteStep ==
  ASSUME PInv, OneVoteEach, [Next]_vars
  PROVE  OneVoteEach' /\ [Votes!Next]_Votes!vars
<1>1. CASE UNCHANGED vars
  BY <1>1 DEF vars, propVars, govVars, OneVoteEach, Votes!vars
<1>. SUFFICES ASSUME NEW a \in Actors,
                     \/ Start(a) \/ Proceed(a)
                     \/ ReadThresholdFails(a) /\ UNCHANGED propVars
                     \/ ReadbackFails(a) \/ MirrorRevocationFails(a) \/ CompareFails(a)
                     \/ Crash(a)
              PROVE  OneVoteEach' /\ [Votes!Next]_Votes!vars
  BY <1>1 DEF Next
<1>2. CASE Approve(a)
  BY <1>2, ApproveVotes DEF Votes!Next
<1>3. CASE ~Approve(a)
  <2>1. /\ UNCHANGED <<ballot.approvals, ballot.executed>>
        /\ revoked => revoked'
        /\ UNCHANGED threshold \/ UNCHANGED <<proposal, revoked>>
    BY <1>3, OthersWatch
  <2>2. Grows /\ NeverAhead'
    BY PropStep DEF IInv, StoredInv
  <2>3. threshold' \in Nat \ {0}
    BY GovPart DEF GovInv, GovTypeOK
  <2>4. OneVoteEach'
    BY <2>1 DEF OneVoteEach
  <2>5. CASE UNCHANGED threshold
    <3>1. /\ ToSet(proposal.signers) \subseteq ToSet(proposal'.signers)
          /\ ToSet(proposal'.signers) \subseteq ToSet(ballot.approvals)
          /\ proposal.executed => proposal'.executed
          /\ proposal'.executed \/ revoked' => ballot.executed
      BY <2>1, <2>2 DEF Grows, NeverAhead
    <3>2. Votes!Show
      BY <2>1, <2>5, <3>1 DEF Votes!Show
    <3>. QED  BY <2>4, <3>2 DEF Votes!Next
  <2>6. CASE UNCHANGED <<proposal, revoked>>
    <3>1. Votes!Govern
      BY <2>1, <2>3, <2>6 DEF Votes!Govern
    <3>. QED  BY <2>4, <3>1 DEF Votes!Next
  <2>. QED  BY <2>1, <2>5, <2>6
<1>. QED  BY <1>2, <1>3

(***************************************************************************)
(* The contract's proposal and its mirror implement BallotHistory, for any *)
(* officers, requests, repairs and faults: an approval is a signature of an*)
(* officer who had given none, the one that completes the quorum executes, *)
(* and every other step changes the quorum or what is shown, forward.      *)
(***************************************************************************)
THEOREM BallotCorrect == Spec => ImplementsBallot
<1>1. Init => OneVoteEach /\ Votes!Init
  <2>. SUFFICES ASSUME Init PROVE OneVoteEach /\ Votes!Init
    OBVIOUS
  <2>1. /\ ballot.approvals = <<>> /\ ballot.executed = FALSE /\ proposal.signers = <<>>
        /\ proposal.executed = FALSE /\ revoked = FALSE
    BY DEF Init, NoBallot, NoProposal
  <2>2. threshold \in Nat \ {0}
    BY Initially DEF PInv, GovInv, GovTypeOK
  <2>3. OneVoteEach
    BY <2>1 DEF OneVoteEach
  <2>. QED  BY <2>1, <2>2, <2>3, ToSetEmpty DEF Votes!Init
<1>. QED
  BY <1>1, VoteStep, AlwaysPInv, PTL DEF Spec, ImplementsBallot, Votes!Spec
=============================================================================
