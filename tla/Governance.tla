----------------------------- MODULE Governance -----------------------------
(***************************************************************************)
(* The N-of-M multi-signature threshold (services/governance.service.js,   *)
(* reconcileGovernance of services/reconcile.service.js, the last part of  *)
(* signProposal): N is the contract's governance_threshold; its mirror in  *)
(* MongoDB, the GovernanceConfig, also keeps M, the number of signers.     *)
(*                                                                         *)
(* desk[a] is where actor a, a request or a run of the reconcile job, is   *)
(* suspended inside one of the procedures below; OnChainProposal calls the *)
(* last two of them from signProposal and from the job.                    *)
(***************************************************************************)
EXTENDS Integers, FiniteSets

CONSTANTS
  Actors,       \* concurrent requests and jobs
  Officers,     \* those who are, were or will be active sub-admins
  MaxThreshold, \* bound: the largest N, and M, anybody asks for
  MaxChanges,   \* bound: changes of the contract's threshold
  MaxFaults     \* bound: crashes, and chain and database calls that fail

ASSUME OfficersAssumption == IsFiniteSet(Officers)
ASSUME GovernanceBounds ==
  /\ MaxThreshold \in Nat \ {0}
  /\ MaxChanges \in Nat
  /\ MaxFaults \in Nat

VARIABLES
  threshold, \* the contract's governance_threshold
  active,    \* the sub-admins whose status is 'active'
  config,    \* GovernanceConfig: [required, total]
  desk,      \* what each actor is doing here
  left       \* what the bounds still allow: [changes, faults]

govVars == <<threshold, active, config, desk, left>>

Config == [required : Nat, total : Nat]
NoConfig == [required |-> 0, total |-> 0]

\* loaded: the document as it was read; new: as it is to be saved.
Desk == [pc : {"away", "reload", "get", "set", "read", "commit", "save", "saveSet",
               "chainLeft", "dbLeft", "fix", "sync", "syncRead", "syncSave"},
         loaded : Config, new : Config]
Away == [pc |-> "away", loaded |-> NoConfig, new |-> NoConfig]

LargerOf(m, n) == IF m >= n THEN m ELSE n

\* The pre-validate hook of models/GovernanceConfig.js.
NWithinM(c) == c.required <= c.total

\* save() writes the paths that changed since the document was loaded.
Merge(db, loaded, new) ==
  [path \in {"required", "total"} |->
     IF new[path] = loaded[path] THEN db[path] ELSE new[path]]

GovInit ==
  /\ threshold \in 1..MaxThreshold
  /\ active \in SUBSET Officers
  /\ config = [required |-> 1, total |-> 1]
  /\ desk = [a \in Actors |-> Away]
  /\ left = [changes |-> MaxChanges, faults |-> MaxFaults]

SitAt(a, d) == desk' = [desk EXCEPT ![a] = d]
Leave(a) == SitAt(a, Away)

\* One of the changes of the contract's threshold the bound allows.
Change == left.changes > 0 /\ left' = [left EXCEPT !.changes = @ - 1]
GovFault == left.faults > 0 /\ left' = [left EXCEPT !.faults = @ - 1]

\* config.save(), unless the validation fails.
SaveConfig(a) ==
  config' = IF NWithinM(desk[a].new) THEN Merge(config, desk[a].loaded, desk[a].new) ELSE config

\* GovernanceConfig.getSingleton()
LoadConfig(a, pc) == SitAt(a, [pc |-> pc, loaded |-> config, new |-> config])

-----------------------------------------------------------------------------
(* getGovernance and setGovernance *)

GetGovernance(a) ==
  /\ desk[a].pc \in {"away", "reload"}
  /\ LoadConfig(a, "get")
  /\ UNCHANGED <<threshold, active, config, left>>

CountSigners(a) ==
  /\ desk[a].pc = "get"
  /\ SitAt(a, [desk[a] EXCEPT !.pc = "read", !.new.total = LargerOf(Cardinality(active), 1)])
  /\ UNCHANGED <<threshold, active, config, left>>

\* The comparison that skips a save without changes makes no difference to the database.
ReadThreshold(a) ==
  /\ desk[a].pc = "read"
  /\ SitAt(a, [desk[a] EXCEPT !.pc = "save", !.new.required = threshold])
  /\ UNCHANGED <<threshold, active, config, left>>

\* The chain cannot be read: the mirrored value is used.
ReadThresholdFails(a) ==
  /\ desk[a].pc = "read"
  /\ GovFault
  /\ SitAt(a, [desk[a] EXCEPT !.pc = "save"])
  /\ UNCHANGED <<threshold, active, config>>

\* A save that fails is logged; the reply goes out all the same.
SaveRead(a) ==
  /\ desk[a].pc = "save"
  /\ SaveConfig(a)
  /\ Leave(a)
  /\ UNCHANGED <<threshold, active, left>>

SetGovernance(a) ==
  /\ desk[a].pc = "away"
  /\ Change
  /\ LoadConfig(a, "set")
  /\ UNCHANGED <<threshold, active, config>>

\* 1 <= N <= M is checked against the configuration loaded before; the caller
\* may name a total of his own (0: he does not).
CheckRequired(a) ==
  /\ desk[a].pc = "set"
  /\ \E n \in 1..MaxThreshold, given \in 0..MaxThreshold :
       LET asked == IF given = 0 THEN desk[a].loaded.total ELSE given
           total == LargerOf(LargerOf(asked, Cardinality(active)), 1)
       IN IF n <= total
          THEN SitAt(a, [desk[a] EXCEPT !.pc = "commit", !.new = [required |-> n, total |-> total]])
          ELSE Leave(a)
  /\ UNCHANGED <<threshold, active, config, left>>

\* The contract's set_threshold.
SetThreshold(a) ==
  /\ desk[a].pc = "commit"
  /\ threshold' = desk[a].new.required
  /\ SitAt(a, [desk[a] EXCEPT !.pc = "saveSet"])
  /\ UNCHANGED <<active, config, left>>

\* The reply is that of getGovernance, which follows.
SaveSet(a) ==
  /\ desk[a].pc = "saveSet"
  /\ SaveConfig(a)
  /\ SitAt(a, [Away EXCEPT !.pc = "reload"])
  /\ UNCHANGED <<threshold, active, left>>

-----------------------------------------------------------------------------
(* reconcileGovernance with fix: both sides are read, in either order. *)

ReconcileGovernance(a) ==
  /\ desk[a].pc = "away"
  /\ \/ SitAt(a, [Away EXCEPT !.pc = "dbLeft", !.new.required = threshold])
     \/ LoadConfig(a, "chainLeft")
  /\ UNCHANGED <<threshold, active, config, left>>

\* Mutant: the total is left as it is.
RaisedNot(loaded, n) == [loaded EXCEPT !.required = n]

\* N as the contract has it; M is raised to keep N <= M.
Raised(loaded, n) == [required |-> n, total |-> LargerOf(loaded.total, n)]

ReadOtherSide(a) ==
  LET loaded == IF desk[a].pc = "dbLeft" THEN config ELSE desk[a].loaded
      n      == IF desk[a].pc = "dbLeft" THEN desk[a].new.required ELSE threshold
  IN /\ desk[a].pc \in {"dbLeft", "chainLeft"}
     /\ IF loaded.required = n
        THEN Leave(a)
        ELSE SitAt(a, [pc |-> "fix", loaded |-> loaded, new |-> Raised(loaded, n)])
     /\ UNCHANGED <<threshold, active, config, left>>

SaveFixed(a) ==
  /\ desk[a].pc = "fix"
  /\ SaveConfig(a)
  /\ Leave(a)
  /\ UNCHANGED <<threshold, active, left>>

-----------------------------------------------------------------------------
(* signProposal, after a governance_rule has executed. *)

SyncLoad(a) ==
  /\ desk[a].pc = "sync"
  /\ LoadConfig(a, "syncRead")
  /\ UNCHANGED <<threshold, active, config, left>>

SyncRead(a) ==
  /\ desk[a].pc = "syncRead"
  /\ SitAt(a, [desk[a] EXCEPT !.pc = "syncSave", !.new = Raised(@, threshold)])
  /\ UNCHANGED <<threshold, active, config, left>>

SyncSave(a) ==
  /\ desk[a].pc = "syncSave"
  /\ SaveConfig(a)
  /\ Leave(a)
  /\ UNCHANGED <<threshold, active, left>>

-----------------------------------------------------------------------------
\* Sub-admins come and go (services/subadmin.service.js).
ActivateOfficer(o) ==
  /\ active' = active \cup {o}
  /\ UNCHANGED <<threshold, config, desk, left>>

RemoveOfficer(o) ==
  /\ active' = active \ {o}
  /\ UNCHANGED <<threshold, config, desk, left>>

\* A procedure that was started and has not been called from elsewhere goes on.
GovProceed(a) ==
  \/ desk[a].pc = "reload" /\ GetGovernance(a)
  \/ CountSigners(a)
  \/ ReadThreshold(a)
  \/ SaveRead(a)
  \/ CheckRequired(a)
  \/ SetThreshold(a)
  \/ SaveSet(a)
  \/ ReadOtherSide(a)
  \/ SaveFixed(a)
  \/ SyncLoad(a)
  \/ SyncRead(a)
  \/ SyncSave(a)

\* The process dies, or a call not handled above throws.
GovCrash(a) ==
  /\ desk[a].pc # "away"
  /\ GovFault
  /\ Leave(a)
  /\ UNCHANGED <<threshold, active, config>>

\* An approval executes a governance_rule (here of any value: nobody compares it with M).
RuleExecutes(a) ==
  /\ desk[a].pc = "away"
  /\ Change
  /\ threshold' \in 1..MaxThreshold
  /\ SitAt(a, [Away EXCEPT !.pc = "sync"])
  /\ UNCHANGED <<active, config>>

\* The administration API initializes the contract, once more: the threshold is 1 again.
InitContract ==
  /\ Change
  /\ threshold' = 1
  /\ UNCHANGED <<active, config, desk>>

GovNext ==
  \/ \E a \in Actors :
       \/ GetGovernance(a)
       \/ SetGovernance(a)
       \/ ReconcileGovernance(a)
       \/ RuleExecutes(a)
       \/ GovProceed(a)
       \/ ReadThresholdFails(a)
       \/ GovCrash(a)
  \/ \E o \in Officers : ActivateOfficer(o) \/ RemoveOfficer(o)
  \/ InitContract

GovSpec == GovInit /\ [][GovNext]_govVars

\* Handlers go on while the process lives; the reconcile job is on a timer.
GovFairSpec ==
  /\ GovSpec
  /\ \A a \in Actors : WF_govVars(GovProceed(a))
  /\ SF_govVars(\E a \in Actors : ReconcileGovernance(a))

-----------------------------------------------------------------------------
GovTypeOK ==
  /\ threshold \in Nat \ {0}
  /\ active \in SUBSET Officers
  /\ config \in Config
  /\ desk \in [Actors -> Desk]
  /\ left \in [changes : Nat, faults : Nat]

(***************************************************************************)
(* The mirrored N comes to agree with the contract's once that no longer   *)
(* changes, and for good: no request that read an older N wins.            *)
(***************************************************************************)
ThresholdSettles == <>[](config.required = threshold)
=============================================================================
