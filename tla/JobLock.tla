------------------------------- MODULE JobLock -------------------------------
(***************************************************************************)
(* The lease lock of utils/lock.js that the scheduler (services/           *)
(* scheduler.js) puts around each tick of a background job: one name, its  *)
(* JobLock document, and the runs that compete for it.                     *)
(*                                                                         *)
(* A run is one call of withLock.  Its process is its OWNER_ID; setInterval*)
(* does not wait for the tick before, so a process may have several runs.  *)
(* acquireLock takes the time before it sends its update, the update is    *)
(* applied up to MaxDelay later.                                           *)
(*                                                                         *)
(* Times are kept relative to the present: lease is lockedUntil - now, cut *)
(* off at Past, which stands for null and for the epoch that releaseLock   *)
(* writes as well.  So the clock needs no bound.                           *)
(***************************************************************************)
EXTENDS Integers

CONSTANTS
  Runs,      \* calls of withLock that may be in progress at once
  Processes, \* the instances of the application
  Owner,     \* the process of each run
  NoOwner,   \* the owner of a lock nobody has claimed
  Lease,     \* leaseMs
  MaxDelay,  \* bound: how late the update of acquireLock is applied
  MaxRun     \* bound: how long a run takes, its release included

ASSUME OwnerAssumption == Owner \in [Runs -> Processes] /\ NoOwner \notin Processes
ASSUME TimesAssumption ==
  /\ Lease \in Nat \ {0}
  /\ MaxDelay \in Nat
  /\ MaxRun \in Nat

VARIABLES
  lock,  \* the JobLock document: [owner, lease]
  run,   \* [pc, since]: what each run is doing and how long it has been at it
  up     \* which processes are up

vars == <<lock, run, up>>

Past == -MaxDelay

Idle == [pc |-> "idle", since |-> 0]

Init ==
  /\ lock = [owner |-> NoOwner, lease |-> Past]
  /\ run = [r \in Runs |-> Idle]
  /\ up = [p \in Processes |-> TRUE]

-----------------------------------------------------------------------------
\* A timer fires; acquireLock notes the time.
Ask(r) ==
  /\ up[Owner[r]]
  /\ run[r].pc = "idle"
  /\ run' = [run EXCEPT ![r] = [pc |-> "asking", since |-> 0]]
  /\ UNCHANGED <<lock, up>>

\* lockedUntil is null, or <= the time the run noted.
Free(r) == lock.lease <= -run[r].since

\* Mutant: the lock is read first and written later, so both of two racing runs win.
ClaimRacy(r) ==
  /\ run[r].pc = "asking"
  /\ lock' = [owner |-> Owner[r], lease |-> Lease - run[r].since]
  /\ run' = [run EXCEPT ![r] = [pc |-> "working", since |-> 0]]
  /\ UNCHANGED up

\* The conditional findOneAndUpdate; when it matches nothing the upsert collides
\* with the unique name and withLock returns without running.
Claim(r) ==
  /\ run[r].pc = "asking"
  /\ IF Free(r)
     THEN /\ lock' = [owner |-> Owner[r], lease |-> Lease - run[r].since]
          /\ run' = [run EXCEPT ![r] = [pc |-> "working", since |-> 0]]
     ELSE /\ run' = [run EXCEPT ![r] = Idle]
          /\ UNCHANGED lock
  /\ UNCHANGED up

\* The job settles and releaseLock takes effect: only on a lock of this process,
\* but on one whatever run of the process has claimed it.
Release(r) ==
  /\ run[r].pc = "working"
  /\ lock' = IF lock.owner = Owner[r] THEN [lock EXCEPT !.lease = Past] ELSE lock
  /\ run' = [run EXCEPT ![r] = Idle]
  /\ UNCHANGED up

\* The job settles, the update of releaseLock fails and is logged.
ReleaseFails(r) ==
  /\ run[r].pc = "working"
  /\ run' = [run EXCEPT ![r] = Idle]
  /\ UNCHANGED <<lock, up>>

\* The lock is left as it is.  (The claims of a process that restarts carry a new
\* OWNER_ID; the old one needs no name of its own, it never asks again.)
Crash(p) ==
  /\ up[p]
  /\ up' = [up EXCEPT ![p] = FALSE]
  /\ run' = [r \in Runs |-> IF Owner[r] = p THEN Idle ELSE run[r]]
  /\ UNCHANGED lock

Restart(p) ==
  /\ ~up[p]
  /\ up' = [up EXCEPT ![p] = TRUE]
  /\ UNCHANGED <<lock, run>>

Older(t) == IF t.pc = "idle" THEN t ELSE [t EXCEPT !.since = @ + 1]

\* Mutant: a lock without a lease.
TickOfRuns ==
  /\ \A r \in Runs : /\ run[r].pc = "asking"  => run[r].since < MaxDelay
                     /\ run[r].pc = "working" => run[r].since < MaxRun
  /\ run' = [r \in Runs |-> Older(run[r])]
  /\ UNCHANGED <<lock, up>>

\* Time passes, within the bounds on updates and runs.
Tick ==
  /\ \A r \in Runs : /\ run[r].pc = "asking"  => run[r].since < MaxDelay
                     /\ run[r].pc = "working" => run[r].since < MaxRun
  /\ lock' = [lock EXCEPT !.lease = IF @ = Past THEN Past ELSE @ - 1]
  /\ run' = [r \in Runs |-> Older(run[r])]
  /\ UNCHANGED up

Next ==
  \/ \E r \in Runs : Ask(r) \/ Claim(r) \/ Release(r) \/ ReleaseFails(r)
  \/ \E p \in Processes : Crash(p) \/ Restart(p)
  \/ Tick

Spec == Init /\ [][Next]_vars

(***************************************************************************)
(* In a process that is up the timers keep firing and what has begun goes  *)
(* on; and time passes.                                                    *)
(***************************************************************************)
Fairness ==
  /\ \A r \in Runs : WF_vars(Ask(r)) /\ WF_vars(Claim(r)) /\ WF_vars(Release(r))
  /\ SF_vars(Tick)

FairSpec == Spec /\ Fairness

-----------------------------------------------------------------------------
TypeOK ==
  /\ lock \in [owner : Processes \cup {NoOwner}, lease : Past..Lease]
  /\ run \in [Runs -> [pc : {"idle", "asking", "working"}, since : Nat]]
  /\ up \in [Processes -> BOOLEAN]

(***************************************************************************)
(* While no run lasts as long as its lease (counted from the moment the    *)
(* claim was asked for), at most one run is working, in all the processes  *)
(* together: no race of two claims, no late claim, no release and no crash *)
(* lets a second one in.                                                   *)
(***************************************************************************)
AtMostOneRun ==
  \A r, s \in Runs : run[r].pc = "working" /\ run[s].pc = "working" => r = s

(***************************************************************************)
(* A crash, or a release that fails, never wedges the lock: while one      *)
(* process stays up, the job runs again and again, however often the       *)
(* others crash and restart.                                               *)
(***************************************************************************)
NeverWedged ==
  (\E p \in Processes : <>[]up[p]) => []<>(\E r \in Runs : run[r].pc = "working")

(***************************************************************************)
(* Why AtMostOneRun holds: the lock outlives the run that claimed it.      *)
(***************************************************************************)
Outlived ==
  \A r \in Runs : run[r].pc = "working" =>
     /\ lock.lease >= Lease - MaxDelay - run[r].since
     /\ run[r].since <= MaxRun

AskedInTime == \A r \in Runs : run[r].pc = "asking" => run[r].since <= MaxDelay
=============================================================================
