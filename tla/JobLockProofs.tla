---------------------------- MODULE JobLockProofs ----------------------------
(***************************************************************************)
(* The lease lock excludes, for any runs, processes and times, as long as  *)
(* no run lasts as long as its lease.  The argument: the lock outlives the *)
(* run that claimed it (Outlived), so a claim that finds the lock free     *)
(* finds no run working, and a release finds no other run to rob.          *)
(***************************************************************************)
EXTENDS JobLock, TLAPS

(* The condition that job_lock.cfg satisfies.                              *)
RunsAreShort == MaxRun + MaxDelay < Lease

LockInv ==
  /\ TypeOK
  /\ AskedInTime
  /\ Outlived
  /\ AtMostOneRun

(* No run has asked or is working at the start, so LockInv holds.          *)
LEMMA InitLock == Init => LockInv
<1> USE OwnerAssumption, TimesAssumption
<1>1. Init => TypeOK
  BY DEF Init, TypeOK, Idle, Past
<1>2. Init => AskedInTime /\ Outlived /\ AtMostOneRun
  BY DEF Init, AskedInTime, Outlived, AtMostOneRun, Idle
<1> QED
  BY <1>1, <1>2 DEF LockInv

(* While a run works, nobody finds the lock free.                          *)
LEMMA HeldWhileWorking ==
  ASSUME RunsAreShort, LockInv, NEW r \in Runs, NEW s \in Runs,
         run[s].pc = "working"
  PROVE  ~Free(r) /\ lock.lease > 0
<1>1. /\ lock.lease \in Int
      /\ run[s].since \in Nat
      /\ run[r].since \in Nat
  BY TimesAssumption DEF LockInv, TypeOK, Past
<1>2. /\ lock.lease >= Lease - MaxDelay - run[s].since
      /\ run[s].since <= MaxRun
  BY DEF LockInv, Outlived
<1> QED
  BY <1>1, <1>2, TimesAssumption DEF RunsAreShort, Free

(* Every step preserves LockInv, when runs are short.                      *)
LEMMA NextLock ==
  ASSUME RunsAreShort, LockInv, [Next]_vars
  PROVE  LockInv'
<1> USE OwnerAssumption, TimesAssumption
<1>0. /\ TypeOK /\ AskedInTime /\ Outlived /\ AtMostOneRun
      /\ lock.lease \in Int
      /\ \A r \in Runs : run[r].since \in Nat /\ run[r].pc \in {"idle", "asking", "working"}
  BY DEF LockInv, TypeOK, Past
<1>1. ASSUME NEW r \in Runs, Ask(r) PROVE LockInv'
  <2>1. TypeOK'
    BY <1>0, <1>1 DEF Ask, TypeOK
  <2>2. AskedInTime' /\ Outlived' /\ AtMostOneRun'
    BY <1>0, <1>1 DEF Ask, TypeOK, AskedInTime, Outlived, AtMostOneRun
  <2> QED BY <2>1, <2>2 DEF LockInv
<1>2. ASSUME NEW r \in Runs, Claim(r) PROVE LockInv'
  <2>1. CASE Free(r)
    <3>1. \A s \in Runs : run[s].pc # "working"
      BY <2>1, HeldWhileWorking
    <3>2. run[r].since \in Nat /\ run[r].since <= MaxDelay
      BY <1>0, <1>2 DEF Claim, AskedInTime
    <3>3. /\ lock' = [owner |-> Owner[r], lease |-> Lease - run[r].since]
          /\ run' = [run EXCEPT ![r] = [pc |-> "working", since |-> 0]]
          /\ up' = up
      BY <1>2, <2>1 DEF Claim
    <3>4. Lease - run[r].since \in Past..Lease
      BY <3>2 DEF Past
    <3>5. TypeOK'
      BY <1>0, <3>3, <3>4 DEF TypeOK
    <3>6. AskedInTime' /\ AtMostOneRun'
      BY <1>0, <3>1, <3>3 DEF TypeOK, AskedInTime, AtMostOneRun
    <3>7. Outlived'
      BY <1>0, <3>1, <3>2, <3>3 DEF TypeOK, Outlived
    <3> QED BY <3>5, <3>6, <3>7 DEF LockInv
  <2>2. CASE ~Free(r)
    <3>1. run' = [run EXCEPT ![r] = Idle] /\ lock' = lock /\ up' = up
      BY <1>2, <2>2 DEF Claim
    <3>2. TypeOK'
      BY <1>0, <3>1 DEF Idle, TypeOK
    <3>3. AskedInTime' /\ Outlived' /\ AtMostOneRun'
      BY <1>0, <3>1 DEF Idle, TypeOK, AskedInTime, Outlived, AtMostOneRun
    <3> QED BY <3>2, <3>3 DEF LockInv
  <2> QED BY <2>1, <2>2
<1>3. ASSUME NEW r \in Runs, Release(r) PROVE LockInv'
  <2>1. \A s \in Runs : run'[s].pc # "working"
    BY <1>0, <1>3 DEF Release, Idle, TypeOK, AtMostOneRun
  <2>2. TypeOK'
    BY <1>0, <1>3 DEF Release, Idle, TypeOK, Past
  <2>3. AskedInTime'
    BY <1>0, <1>3 DEF Release, Idle, TypeOK, AskedInTime
  <2> QED BY <2>1, <2>2, <2>3 DEF LockInv, Outlived, AtMostOneRun
<1>4. ASSUME NEW r \in Runs, ReleaseFails(r) PROVE LockInv'
  BY <1>0, <1>4
  DEF ReleaseFails, Idle, LockInv, TypeOK, AskedInTime, Outlived, AtMostOneRun
<1>5. ASSUME NEW p \in Processes, Crash(p) PROVE LockInv'
  <2>1. \A s \in Runs : run'[s] = Idle \/ run'[s] = run[s]
    BY <1>5 DEF Crash
  <2>2. TypeOK'
    BY <1>0, <1>5 DEF Crash, Idle, TypeOK
  <2>3. AskedInTime' /\ Outlived' /\ AtMostOneRun'
    BY <1>0, <1>5, <2>1 DEF Crash, Idle, AskedInTime, Outlived, AtMostOneRun
  <2> QED BY <2>2, <2>3 DEF LockInv
<1>6. ASSUME NEW p \in Processes, Restart(p) PROVE LockInv'
  BY <1>0, <1>6 DEF Restart, LockInv, TypeOK, AskedInTime, Outlived, AtMostOneRun
<1>7. CASE Tick
  <2>1. \A s \in Runs : /\ run'[s].pc = run[s].pc
                        /\ run'[s].since = IF run[s].pc = "idle" THEN run[s].since
                                           ELSE run[s].since + 1
                        /\ run'[s] \in [pc : {"idle", "asking", "working"}, since : Nat]
    BY <1>0, <1>7 DEF Tick, Older, TypeOK
  <2>2. /\ lock'.owner = lock.owner
        /\ lock'.lease = IF lock.lease = Past THEN Past ELSE lock.lease - 1
        /\ lock' \in [owner : Processes \cup {NoOwner}, lease : Past..Lease]
    BY <1>0, <1>7 DEF Tick, TypeOK, Past
  <2>3. TypeOK'
    BY <1>7, <1>0, <2>1, <2>2 DEF Tick, TypeOK
  <2>4. AskedInTime' /\ AtMostOneRun'
    BY <1>0, <1>7, <2>1 DEF Tick, AskedInTime, AtMostOneRun
  <2>5. ASSUME NEW s \in Runs, run'[s].pc = "working"
        PROVE  /\ lock'.lease >= Lease - MaxDelay - run'[s].since
               /\ run'[s].since <= MaxRun
    <3>1. run[s].pc = "working" /\ run'[s].since = run[s].since + 1
      BY <2>1, <2>5
    <3>2. lock'.lease = lock.lease - 1
      BY <2>2, <3>1, HeldWhileWorking, <1>0 DEF Past
    <3>3. lock.lease >= Lease - MaxDelay - run[s].since /\ run[s].since < MaxRun
      BY <1>0, <1>7, <3>1 DEF Outlived, Tick
    <3> QED BY <1>0, <3>1, <3>2, <3>3
  <2> QED BY <2>3, <2>4, <2>5 DEF LockInv, Outlived
<1>8. CASE UNCHANGED vars
  BY <1>0, <1>8 DEF vars, LockInv, TypeOK, AskedInTime, Outlived, AtMostOneRun
<1> QED
  BY <1>1, <1>2, <1>3, <1>4, <1>5, <1>6, <1>7, <1>8 DEF Next

(***************************************************************************)
(* withLock excludes: whatever the processes, the races of their timers    *)
(* and their crashes, at most one run of the job is working, provided a    *)
(* run and the delay of its claim fit in the lease together.               *)
(***************************************************************************)
THEOREM LockExcludes == RunsAreShort => (Spec => []AtMostOneRun)
<1> SUFFICES ASSUME RunsAreShort PROVE Spec => []AtMostOneRun
  OBVIOUS
<1>1. Init => LockInv
  BY InitLock
<1>2. LockInv /\ [Next]_vars => LockInv'
  BY NextLock
<1>3. LockInv => AtMostOneRun
  BY DEF LockInv
<1> QED
  BY <1>1, <1>2, <1>3, PTL DEF Spec
=============================================================================
