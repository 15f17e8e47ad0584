--------------------------- MODULE OnboardingProofs ---------------------------
(***************************************************************************)
(* Active profiles are listed in the contract and profiles have a login,   *)
(* for any number of profiles, concurrent requests and outbox processors,  *)
(* changes of the whitelist by hand and failures.                          *)
(***************************************************************************)
EXTENDS Onboarding, TLAPS

Mirroring == {"capture", "find", "save", "mark", "throw"}

\* What an actor has in hand.
InHand(t) ==
  /\ t.pc \notin {"idle", "next"} => t.for \in Profiles
  /\ t.pc = "unlist" => kind = "officer"
  /\ t.attempts < MaxAttempts
  /\ \A row \in t.batch : row.id \in DOMAIN outbox /\ row.attempts < MaxAttempts

Equipped == \A a \in Actors : InHand(task[a])

\* The bounds are not overdrawn; what is not given up has an attempt left.
Bounded ==
  /\ left.ops <= MaxOps /\ left.faults <= MaxFaults
  /\ \A i \in DOMAIN outbox : outbox[i].status = "pending" => outbox[i].attempts < MaxAttempts

\* A new id is in the hands of the one request that is about to create its profile.
NewIsOwn ==
  /\ \A a \in Actors : task[a].pc = "create" => profile[task[a].for] = "new"
  /\ \A p \in Profiles : profile[p] = "new" =>
       /\ \A i \in DOMAIN outbox : outbox[i].for # p
       /\ \A a \in Actors : task[a].for = p => task[a].pc \in {"create", "admit"}
       /\ \A a, b \in Actors : task[a].for = p /\ task[b].for = p => a = b

\* An approval the contract has answered: about to be mirrored, or in the outbox.
Approved(p) ==
  \/ profile[p] = "active"
  \/ \E a \in Actors : task[a].for = p /\ task[a].pc \in Mirroring
  \/ \E i \in DOMAIN outbox : outbox[i].for = p

\* Why its profile may not be listed any more, or never be active again.
Withdrawn(p) ==
  \/ kind = "officer" /\ (profile[p] = "gone" \/ Busy({"logins", "delete"}, p) \/ ~NoFault)
  \/ kind = "company" /\ left.ops < MaxOps

ApprovedIsListed == \A p \in Profiles : Approved(p) => p \in listed \/ Withdrawn(p)

OnboardingInv ==
  /\ TypeOK
  /\ Equipped
  /\ Bounded
  /\ NewIsOwn
  /\ ApprovedIsListed
  /\ ProfileHasLogin

-----------------------------------------------------------------------------
(* What one actor does, and what that does to the invariant. *)

Others(a) == task' = [task EXCEPT ![a] = task'[a]]

\* Rows are added for a profile whose approval is being mirrored, and keep it.
RowsKept(a) ==
  /\ outbox' \in Seq(Row)
  /\ DOMAIN outbox \subseteq DOMAIN outbox'
  /\ \A i \in DOMAIN outbox' :
       \/ i \in DOMAIN outbox /\ outbox'[i].for = outbox[i].for
       \/ outbox'[i].for = task[a].for /\ task[a].pc \in Mirroring
  /\ \A i \in DOMAIN outbox' : outbox'[i].status = "pending" => outbox'[i].attempts < MaxAttempts

LeftKept ==
  /\ left' \in [rows : Nat, ops : Nat, faults : Nat]
  /\ left'.ops <= left.ops /\ left'.faults <= left.faults

\* The profile changes in the hands of the actor, and is new once.
ProfileKept(a) ==
  /\ profile' \in [Profiles -> {"new", "pending", "active", "walletless", "gone"}]
  /\ \A p \in Profiles : profile'[p] = "new" => profile[p] = "new"
  /\ \A p \in Profiles : profile[p] = "new" /\ profile'[p] # "new" => task[a].for = p
  /\ \A p \in Profiles : profile[p] = "gone" => profile'[p] = "gone"
  /\ \A p \in Profiles : profile'[p] = "active" =>
       \/ profile[p] = "active"
       \/ task[a].for = p /\ task[a].pc \in Mirroring
       \/ kind = "company" /\ left'.ops < MaxOps

TakesUp(a) ==
  /\ task'[a].pc = "create" => profile'[task'[a].for] = "new" /\ \A b \in Actors : task[b].for # task'[a].for
  /\ task'[a].for \in Profiles /\ profile'[task'[a].for] = "new" =>
       /\ task'[a].pc \in {"create", "admit"}
       /\ \A b \in Actors : task[b].for # task'[a].for
       /\ \A i \in DOMAIN outbox : outbox[i].for # task'[a].for
  /\ task'[a].pc \in Mirroring => task'[a].for \in listed' \/ Approved(task'[a].for)

Delists(a) ==
  /\ listed' \subseteq Profiles
  /\ \A p \in listed : p \in listed' \/ Withdrawn(p)'
  /\ task[a].pc \in {"logins", "delete"} =>
       \/ profile'[task[a].for] = "gone"
       \/ left'.faults < MaxFaults
       \/ task'[a].for = task[a].for /\ task'[a].pc \in {"logins", "delete"}

LogsIn(a) ==
  /\ login' \in Profiles \cup {Nobody}
  /\ \A p \in Profiles : Exists(p)' /\ login' # p =>
       \/ task'[a].for = p /\ task'[a].pc \in {"login", "rollback", "delete"}
       \/ left'.faults < MaxFaults
       \/ Exists(p) /\ login # p /\ ~(task[a].for = p /\ task[a].pc \in {"login", "rollback", "delete"})

Step(a) ==
  /\ kind' = kind
  /\ Others(a) /\ task'[a] \in Task /\ InHand(task[a])'
  /\ RowsKept(a) /\ LeftKept /\ ProfileKept(a)
  /\ TakesUp(a) /\ Delists(a) /\ LogsIn(a)

LEMMA StepKeeps ==
  ASSUME OnboardingInv, NEW a \in Actors, Step(a)
  PROVE  OnboardingInv'
<1>1. task \in [Actors -> Task] /\ TypeOK  BY DEF OnboardingInv, TypeOK
<1>2. task' \in [Actors -> Task] /\ \A b \in Actors \ {a} : task'[b] = task[b]
  BY <1>1 DEF Step, Others
<1>3. TypeOK'
  <2>1. kind' \in Kinds  BY <1>1 DEF TypeOK, Step
  <2>. QED  BY <1>2, <2>1 DEF TypeOK, Step, RowsKept, LeftKept, ProfileKept, Delists, LogsIn
<1>4. Equipped'
  <2>. SUFFICES ASSUME NEW b \in Actors, b # a PROVE InHand(task[b])'
    BY DEF Equipped, Step
  <2>. QED  BY <1>2 DEF OnboardingInv, Equipped, InHand, Step, RowsKept
<1>5. Bounded'
  <2>1. left.ops <= MaxOps /\ left.faults <= MaxFaults /\ left \in [rows : Nat, ops : Nat, faults : Nat]
    BY <1>1 DEF OnboardingInv, Bounded, TypeOK
  <2>2. left'.ops <= MaxOps /\ left'.faults <= MaxFaults
    BY <2>1, OnboardingAssumption DEF Step, LeftKept
  <2>. QED  BY <2>2 DEF Bounded, Step, RowsKept
<1>6. NewIsOwn'
  <2>1. ASSUME NEW b \in Actors, task'[b].pc = "create" PROVE profile'[task'[b].for] = "new"
    <3>1. CASE b = a  BY <2>1, <3>1 DEF Step, TakesUp
    <3>2. CASE b # a
      <4>1. task[b].pc = "create" /\ task'[b] = task[b]  BY <1>2, <2>1, <3>2
      <4>2. task[b].for \in Profiles  BY <4>1 DEF OnboardingInv, Equipped, InHand
      <4>3. profile[task[b].for] = "new"  BY <4>1 DEF OnboardingInv, NewIsOwn
      <4>4. task[a].for # task[b].for  BY <3>2, <4>2, <4>3 DEF OnboardingInv, NewIsOwn
      <4>. QED  BY <4>1, <4>2, <4>3, <4>4 DEF Step, ProfileKept
    <3>. QED  BY <3>1, <3>2
  <2>2. ASSUME NEW p \in Profiles, profile'[p] = "new"
        PROVE  /\ \A i \in DOMAIN outbox' : outbox'[i].for # p
               /\ \A b \in Actors : task'[b].for = p => task'[b].pc \in {"create", "admit"}
               /\ \A b, c \in Actors : task'[b].for = p /\ task'[c].for = p => b = c
    <3>1. profile[p] = "new"  BY <2>2 DEF Step, ProfileKept
    <3>2. /\ \A i \in DOMAIN outbox : outbox[i].for # p
          /\ \A b \in Actors : task[b].for = p => task[b].pc \in {"create", "admit"}
          /\ \A b, c \in Actors : task[b].for = p /\ task[c].for = p => b = c
      BY <3>1 DEF OnboardingInv, NewIsOwn
    <3>3. \A i \in DOMAIN outbox' : outbox'[i].for # p
      BY <3>2 DEF Step, RowsKept, Mirroring
    <3>4. task'[a].for = p => /\ task'[a].pc \in {"create", "admit"}
                              /\ \A b \in Actors : task[b].for # p
      BY <2>2 DEF Step, TakesUp
    <3>. QED  BY <1>2, <3>2, <3>3, <3>4
  <2>. QED  BY <2>1, <2>2 DEF NewIsOwn
<1>7. ~NoFault => ~NoFault'
  <2>1. left \in [rows : Nat, ops : Nat, faults : Nat] /\ left.faults <= MaxFaults
    BY <1>1 DEF OnboardingInv, Bounded, TypeOK
  <2>. QED  BY <2>1, OnboardingAssumption DEF NoFault, Step, LeftKept
<1>8. left'.faults < MaxFaults => ~NoFault'
  BY <1>3, OnboardingAssumption DEF NoFault, TypeOK
<1>9. ASSUME NEW p \in Profiles, Withdrawn(p) PROVE Withdrawn(p)'
  <2>1. CASE kind = "company" /\ left.ops < MaxOps
    <3>1. left \in [rows : Nat, ops : Nat, faults : Nat]  BY <1>1 DEF TypeOK
    <3>2. left'.ops < MaxOps  BY <2>1, <3>1, OnboardingAssumption DEF Step, LeftKept
    <3>. QED  BY <2>1, <3>2 DEF Withdrawn, Step
  <2>2. CASE kind = "officer" /\ (profile[p] = "gone" \/ ~NoFault)
    BY <1>7, <2>2 DEF Withdrawn, Step, ProfileKept
  <2>3. CASE kind = "officer" /\ Busy({"logins", "delete"}, p)
    <3>1. PICK b \in Actors : task[b].for = p /\ task[b].pc \in {"logins", "delete"}  BY <2>3 DEF Busy
    <3>2. CASE b = a  BY <1>8, <2>3, <3>1, <3>2 DEF Withdrawn, Busy, Step, Delists
    <3>3. CASE b # a  BY <1>2, <2>3, <3>1, <3>3 DEF Withdrawn, Busy, Step
    <3>. QED  BY <3>2, <3>3
  <2>. QED  BY <1>9, <2>1, <2>2, <2>3 DEF Withdrawn
<1>10. ApprovedIsListed'
  <2>. SUFFICES ASSUME NEW p \in Profiles, Approved(p)' PROVE p \in listed' \/ Withdrawn(p)'
    BY DEF ApprovedIsListed
  <2>1. Approved(p) => p \in listed' \/ Withdrawn(p)'
    BY <1>9 DEF OnboardingInv, ApprovedIsListed, Step, Delists
  <2>2. CASE profile'[p] = "active"  BY <2>1, <2>2 DEF Step, ProfileKept, Approved, Withdrawn
  <2>3. CASE \E i \in DOMAIN outbox' : outbox'[i].for = p  BY <2>1, <2>3 DEF Step, RowsKept, Approved
  <2>4. CASE \E b \in Actors : task'[b].for = p /\ task'[b].pc \in Mirroring
    <3>1. PICK b \in Actors : task'[b].for = p /\ task'[b].pc \in Mirroring  BY <2>4
    <3>2. CASE b = a  BY <2>1, <3>1, <3>2 DEF Step, TakesUp
    <3>3. CASE b # a  BY <1>2, <2>1, <3>1, <3>3 DEF Approved
    <3>. QED  BY <3>2, <3>3
  <2>. QED  BY <2>2, <2>3, <2>4 DEF Approved
<1>11. ProfileHasLogin'
  <2>. SUFFICES ASSUME NEW p \in Profiles, Exists(p)', login' # p, NoFault'
                PROVE  Busy({"login", "rollback", "delete"}, p)'
    BY DEF ProfileHasLogin
  <2>1. CASE task'[a].for = p /\ task'[a].pc \in {"login", "rollback", "delete"}
    BY <2>1 DEF Busy
  <2>2. CASE Exists(p) /\ login # p /\ ~(task[a].for = p /\ task[a].pc \in {"login", "rollback", "delete"})
    <3>1. PICK b \in Actors : task[b].for = p /\ task[b].pc \in {"login", "rollback", "delete"}
      BY <1>7, <2>2 DEF OnboardingInv, ProfileHasLogin, Busy
    <3>. QED  BY <1>2, <2>2, <3>1 DEF Busy
  <2>. QED  BY <1>8, <2>1, <2>2 DEF Step, LogsIn
<1>. QED  BY <1>3, <1>4, <1>5, <1>6, <1>10, <1>11 DEF OnboardingInv

-----------------------------------------------------------------------------
(* Parts of steps. *)

Pcs == {"idle", "create", "login", "rollback", "admit", "list", "capture", "find", "save", "mark",
        "throw", "next", "unlist", "logins", "delete"}

LEMMA Facts ==
  ASSUME OnboardingInv, NEW a \in Actors
  PROVE  /\ TypeOK /\ task \in [Actors -> Task] /\ task[a] \in Task /\ InHand(task[a])
         /\ profile \in [Profiles -> {"new", "pending", "active", "walletless", "gone"}]
         /\ login \in Profiles \cup {Nobody} /\ listed \subseteq Profiles /\ outbox \in Seq(Row)
         /\ left \in [rows : Nat, ops : Nat, faults : Nat] /\ Bounded
         /\ Nobody \notin Profiles
BY OnboardingAssumption DEF OnboardingInv, TypeOK, Equipped

LEMMA IdleTask ==
  /\ Idle \in Task
  /\ Idle.pc = "idle" /\ Idle.origin = "request" /\ Idle.for = Nobody /\ Idle.id = 0 /\ Idle.attempts = 0
  /\ Idle.batch = {}
<1>1. 0 \in 0..MaxAttempts  BY OnboardingAssumption
<1>. QED  BY <1>1 DEF Idle, Task

LEMMA NewTask ==
  ASSUME task \in [Actors -> Task], NEW a \in Actors, NEW t, task' = [task EXCEPT ![a] = t]
  PROVE  Others(a) /\ task'[a] = t
BY DEF Others

LEMMA GoTask ==
  ASSUME task \in [Actors -> Task], NEW a \in Actors, NEW pc \in Pcs, GoTo(a, pc)
  PROVE  /\ Others(a) /\ task'[a] \in Task
         /\ task'[a].pc = pc /\ task'[a].for = task[a].for /\ task'[a].origin = task[a].origin
         /\ task'[a].id = task[a].id /\ task'[a].attempts = task[a].attempts
         /\ task'[a].batch = task[a].batch
<1>. DEFINE t == [task[a] EXCEPT !.pc = pc]
<1>1. task' = [task EXCEPT ![a] = t]  BY Zenon DEF GoTo
<1>2. /\ t \in Task /\ t.pc = pc /\ t.for = task[a].for /\ t.origin = task[a].origin
      /\ t.id = task[a].id /\ t.attempts = task[a].attempts /\ t.batch = task[a].batch
  BY DEF Task, Pcs
<1>. HIDE DEF t
<1>. QED  BY <1>1, <1>2, NewTask

LEMMA FinishTask ==
  ASSUME task \in [Actors -> Task], NEW a \in Actors, Finish(a)
  PROVE  /\ Others(a) /\ task'[a] \in Task
         /\ task'[a].pc = "idle" /\ task'[a].for = Nobody /\ task'[a].attempts = 0 /\ task'[a].batch = {}
BY NewTask, IdleTask DEF Finish

LEMMA BeginTask ==
  ASSUME task \in [Actors -> Task], NEW a \in Actors, NEW pc \in Pcs, NEW p \in Profiles, Begin(a, pc, p)
  PROVE  /\ Others(a) /\ task'[a] \in Task /\ task[a].pc = "idle" /\ task[a].for = Nobody
         /\ task'[a].pc = pc /\ task'[a].for = p /\ task'[a].attempts = 0 /\ task'[a].batch = {}
<1>. DEFINE t == [Idle EXCEPT !.pc = pc, !.for = p]
<1>1. task' = [task EXCEPT ![a] = t] /\ task[a] = Idle  BY DEF Begin
<1>2. 0 \in 0..MaxAttempts  BY OnboardingAssumption
<1>3. t \in Task /\ t.pc = pc /\ t.for = p /\ t.attempts = 0 /\ t.batch = {}
  BY <1>2 DEF Idle, Task, Pcs
<1>. HIDE DEF t
<1>. QED  BY <1>1, <1>3, NewTask, IdleTask

LEMMA NextTask ==
  ASSUME task \in [Actors -> Task], NEW a \in Actors, NextRow(a)
  PROVE  /\ Others(a) /\ task'[a] \in Task
         /\ task'[a].pc \in {"idle", "next"} /\ task'[a].for = Nobody /\ task'[a].attempts = 0
         /\ task'[a].batch \subseteq task[a].batch
<1>1. CASE task[a].batch = {}
  BY <1>1, FinishTask DEF NextRow
<1>2. CASE task[a].batch # {}
  <2>. DEFINE t == [Idle EXCEPT !.pc = "next", !.origin = "outbox", !.batch = task[a].batch]
  <2>1. task' = [task EXCEPT ![a] = t]  BY <1>2 DEF NextRow
  <2>2. 0 \in 0..MaxAttempts  BY OnboardingAssumption
  <2>3. t \in Task /\ t.pc = "next" /\ t.for = Nobody /\ t.attempts = 0 /\ t.batch = task[a].batch
    BY <2>2 DEF Idle, Task
  <2>. HIDE DEF t
  <2>. QED  BY <2>1, <2>3, NewTask
<1>. QED  BY <1>1, <1>2

\* Nobody gets more than there is in the outbox.
LEMMA HandsOn ==
  ASSUME NEW a \in Actors, InHand(task[a]), kind' = kind, DOMAIN outbox \subseteq DOMAIN outbox',
         task'[a].batch \subseteq task[a].batch, task'[a].attempts \in {task[a].attempts, 0},
         task'[a].pc \notin {"idle", "next"} => task'[a].for \in Profiles,
         task'[a].pc = "unlist" => kind = "officer"
  PROVE  InHand(task[a])'
BY OnboardingAssumption DEF InHand

LEMMA SameRows ==
  ASSUME OnboardingInv, NEW a \in Actors, UNCHANGED outbox
  PROVE  RowsKept(a)
BY Facts DEF RowsKept, Bounded

LEMMA SameProfile ==
  ASSUME OnboardingInv, NEW a \in Actors, UNCHANGED profile
  PROVE  ProfileKept(a)
BY Facts DEF ProfileKept

LEMMA SameLeft ==
  ASSUME OnboardingInv, NEW a \in Actors, UNCHANGED left
  PROVE  LeftKept
<1>1. left.ops \in Nat /\ left.faults \in Nat  BY Facts
<1>. QED  BY <1>1, Facts DEF LeftKept

LEMMA AfterFault ==
  ASSUME OnboardingInv, NEW a \in Actors, Fault
  PROVE  LeftKept /\ left'.faults < MaxFaults
<1>1. left \in [rows : Nat, ops : Nat, faults : Nat] /\ left.faults <= MaxFaults
  BY Facts DEF Bounded
<1>2. left.faults > 0 /\ left' = [left EXCEPT !.faults = @ - 1]  BY DEF Fault
<1>3. left' \in [rows : Nat, ops : Nat, faults : Nat] /\ left'.ops = left.ops /\ left'.faults = left.faults - 1
  BY <1>1, <1>2
<1>. QED  BY <1>1, <1>3, OnboardingAssumption DEF LeftKept

LEMMA AfterChange ==
  ASSUME OnboardingInv, NEW a \in Actors, ByHand
  PROVE  LeftKept /\ left'.ops < MaxOps
<1>1. left \in [rows : Nat, ops : Nat, faults : Nat] /\ left.ops <= MaxOps
  BY Facts DEF Bounded
<1>2. left.ops > 0 /\ left' = [left EXCEPT !.ops = @ - 1]  BY DEF ByHand
<1>3. left' \in [rows : Nat, ops : Nat, faults : Nat] /\ left'.ops = left.ops - 1 /\ left'.faults = left.faults
  BY <1>1, <1>2
<1>. QED  BY <1>1, <1>3, OnboardingAssumption DEF LeftKept

LEMMA Empties ==
  ASSUME NEW a \in Actors, task'[a].pc \in {"idle", "next"}, task'[a].for = Nobody
  PROVE  TakesUp(a)
BY OnboardingAssumption DEF TakesUp, Mirroring

LEMMA KeepsFor ==
  ASSUME OnboardingInv, NEW a \in Actors, task'[a].for = task[a].for, task[a].for \in Profiles,
         task[a].pc \notin {"create", "admit"}, task'[a].pc # "create",
         \A p \in Profiles : profile'[p] = "new" => profile[p] = "new",
         task'[a].pc \in Mirroring => task[a].pc \in Mirroring \/ task[a].for \in listed'
  PROVE  TakesUp(a)
<1>1. profile[task[a].for] # "new"  BY DEF OnboardingInv, NewIsOwn
<1>. QED  BY <1>1 DEF TakesUp, Approved

\* A step that leaves profiles, the login and the contract alone.
LEMMA QuietStep ==
  ASSUME OnboardingInv, NEW a \in Actors, UNCHANGED <<kind, profile, login, listed>>,
         Others(a), task'[a] \in Task, InHand(task[a])', RowsKept(a), LeftKept, TakesUp(a),
         \/ task[a].pc \notin {"login", "rollback", "logins", "delete"}
         \/ left'.faults < MaxFaults
         \/ /\ task[a].pc \in {"login", "rollback"} /\ task'[a].pc \in {"login", "rollback"}
            /\ task'[a].for = task[a].for
  PROVE  Step(a)
<1>1. login \in Profiles \cup {Nobody} /\ listed \subseteq Profiles  BY Facts
<1>2. Delists(a)  BY <1>1 DEF Delists
<1>3. LogsIn(a)  BY <1>1 DEF LogsIn, Exists
<1>. QED  BY <1>2, <1>3, SameProfile DEF Step

\* It fails, and leaves profiles, the login and the contract alone.
LEMMA AbortStep ==
  ASSUME OnboardingInv, NEW a \in Actors, Abort(a)
  PROVE  Step(a)
<1>1. UNCHANGED <<kind, profile, login, listed, outbox>> /\ Fault /\ Finish(a)  BY DEF Abort
<1>2. LeftKept /\ left'.faults < MaxFaults  BY <1>1, AfterFault
<1>3. /\ Others(a) /\ task'[a] \in Task
      /\ task'[a].pc = "idle" /\ task'[a].for = Nobody /\ task'[a].attempts = 0 /\ task'[a].batch = {}
  BY <1>1, Facts, FinishTask
<1>4. InHand(task[a])'  BY <1>1, <1>3, Facts, HandsOn
<1>. QED  BY <1>1, <1>2, <1>3, <1>4, SameRows, Empties, QuietStep

-----------------------------------------------------------------------------
(* registerCompany, inviteSubAdmin, registerUser *)

\* A request that begins to register a new profile.
LEMMA BeginNew ==
  ASSUME OnboardingInv, NEW a \in Actors, NewProfiles # {}, NEW pc \in {"create", "admit"},
         Begin(a, pc, NewProfile), UNCHANGED <<kind, profile, login, listed, outbox, left>>
  PROVE  Step(a)
<1>. DEFINE p == NewProfile
<1>1. p \in Profiles /\ profile[p] = "new" /\ \A b \in Actors : task[b].for # p
  BY DEF NewProfile, NewProfiles
<1>. HIDE DEF p
<1>2. /\ Others(a) /\ task'[a] \in Task /\ task[a].pc = "idle"
      /\ task'[a].pc = pc /\ task'[a].for = p /\ task'[a].attempts = 0 /\ task'[a].batch = {}
  <2>1. pc \in Pcs /\ Begin(a, pc, p)  BY DEF Pcs, p
  <2>. QED  BY <1>1, <2>1, Facts, BeginTask
<1>3. \A i \in DOMAIN outbox : outbox[i].for # p  BY <1>1 DEF OnboardingInv, NewIsOwn
<1>4. TakesUp(a)  BY <1>1, <1>2, <1>3 DEF TakesUp, Mirroring
<1>5. InHand(task[a])'  BY <1>1, <1>2, Facts, HandsOn
<1>. QED  BY <1>2, <1>4, <1>5, SameRows, SameLeft, QuietStep

\* A request that begins with a profile that is there.
LEMMA BeginThere ==
  ASSUME OnboardingInv, NEW a \in Actors, NEW p \in Profiles, Exists(p),
         NEW pc \in {"admit", "list", "unlist", "logins"}, Begin(a, pc, p),
         pc = "unlist" => kind = "officer", LeftKept,
         UNCHANGED <<kind, profile, login, listed, outbox>>
  PROVE  Step(a)
<1>1. pc \in Pcs  BY DEF Pcs
<1>2. /\ Others(a) /\ task'[a] \in Task /\ task[a].pc = "idle"
      /\ task'[a].pc = pc /\ task'[a].for = p /\ task'[a].attempts = 0 /\ task'[a].batch = {}
  BY <1>1, Facts, BeginTask
<1>3. TakesUp(a)  BY <1>2 DEF TakesUp, Mirroring, Exists
<1>4. InHand(task[a])'  BY <1>2, Facts, HandsOn
<1>. QED  BY <1>2, <1>3, <1>4, SameRows, QuietStep

LEMMA BeginSteps ==
  ASSUME OnboardingInv, NEW a \in Actors,
         Register(a) \/ RegisterUser(a) \/ \E p \in Profiles : Approve(a, p) \/ Remove(a, p)
  PROVE  Step(a)
<1>1. CASE Register(a)  BY <1>1, BeginNew DEF Register
<1>2. CASE RegisterUser(a)  BY <1>2, BeginNew, BeginThere, SameLeft DEF RegisterUser
<1>3. ASSUME NEW p \in Profiles, Approve(a, p) PROVE Step(a)
  <2>1. Exists(p)  BY <1>3 DEF Approve, Exists
  <2>2. left \in [rows : Nat, ops : Nat, faults : Nat]  BY Facts
  <2>3. left.rows > 0 /\ left' = [left EXCEPT !.rows = @ - 1]  BY <1>3 DEF Approve
  <2>4. left' \in [rows : Nat, ops : Nat, faults : Nat] /\ left'.ops = left.ops /\ left'.faults = left.faults
    BY <2>2, <2>3
  <2>5. LeftKept  BY <2>2, <2>4 DEF LeftKept
  <2>. QED  BY <1>3, <2>1, <2>5, BeginThere DEF Approve
<1>4. ASSUME NEW p \in Profiles, Remove(a, p) PROVE Step(a)
  <2>. DEFINE pc == IF kind = "officer" /\ profile[p] = "active" THEN "unlist" ELSE "logins"
  <2>1. pc \in {"unlist", "logins"} /\ (pc = "unlist" => kind = "officer")  OBVIOUS
  <2>2. Begin(a, pc, p) /\ Exists(p) /\ UNCHANGED <<kind, profile, login, listed, outbox, left>>
    BY <1>4 DEF Remove
  <2>. HIDE DEF pc
  <2>. QED  BY <2>1, <2>2, SameLeft, BeginThere
<1>. QED  BY <1>1, <1>2, <1>3, <1>4

LEMMA CreateSteps ==
  ASSUME OnboardingInv, NEW a \in Actors, CreateProfile(a) \/ Rollback(a) \/ DeleteProfile(a)
  PROVE  Step(a)
<1>. DEFINE p == task[a].for
<1>1. /\ task[a].pc \in {"create", "rollback", "delete"}
      /\ UNCHANGED <<kind, login, listed, outbox, left>>
  BY DEF CreateProfile, Rollback, DeleteProfile
<1>2. p \in Profiles  BY <1>1, Facts DEF InHand
<1>3. profile \in [Profiles -> {"new", "pending", "active", "walletless", "gone"}]  BY Facts
<1>4. task[a].pc # "create" => profile[p] # "new"
  BY <1>1, <1>2 DEF OnboardingInv, NewIsOwn
<1>5. task[a].pc = "create" => profile[p] = "new"  BY DEF OnboardingInv, NewIsOwn
<1>6. /\ profile' = [profile EXCEPT ![p] = "gone"] /\ Finish(a)
      \/ /\ profile' = [profile EXCEPT ![p] = "pending"] /\ GoTo(a, "login") /\ task[a].pc = "create"
  BY DEF CreateProfile, Rollback, DeleteProfile
<1>7. /\ Others(a) /\ task'[a] \in Task
      /\ \/ task'[a].pc = "idle" /\ task'[a].for = Nobody /\ task'[a].attempts = 0 /\ task'[a].batch = {}
         \/ /\ task'[a].pc = "login" /\ task'[a].for = p /\ task'[a].attempts = task[a].attempts
            /\ task'[a].batch = task[a].batch
  BY <1>6, Facts, FinishTask, GoTask DEF Pcs
<1>. HIDE DEF p
<1>8. InHand(task[a])'
  BY <1>1, <1>2, <1>7, Facts, HandsOn DEF p
<1>9. /\ profile' \in [Profiles -> {"new", "pending", "active", "walletless", "gone"}]
      /\ \A q \in Profiles : q # p => profile'[q] = profile[q]
      /\ profile'[p] = "gone" \/ (profile'[p] = "pending" /\ task[a].pc = "create" /\ GoTo(a, "login"))
  BY <1>2, <1>3, <1>6
<1>10. ProfileKept(a)  BY <1>2, <1>5, <1>9 DEF ProfileKept, p
<1>11. TakesUp(a)
  BY <1>2, <1>7, <1>9, Facts DEF TakesUp, Mirroring
<1>12. Delists(a)  BY <1>1, <1>9, Facts DEF Delists, p
<1>13. LogsIn(a)
  <2>1. login' \in Profiles \cup {Nobody}  BY <1>1, Facts
  <2>2. ASSUME NEW q \in Profiles, Exists(q)', login' # q, q # p
        PROVE  Exists(q) /\ login # q
    BY <1>1, <1>9, <2>2 DEF Exists
  <2>3. ASSUME profile'[p] # "gone" PROVE task'[a].for = p /\ task'[a].pc = "login"
    <3>1. GoTo(a, "login")  BY <1>9, <2>3
    <3>. QED  BY <3>1, Facts, GoTask DEF Pcs, p
  <2>. QED  BY <2>1, <2>2, <2>3 DEF LogsIn, Exists, p
<1>. QED  BY <1>1, <1>7, <1>8, <1>10, <1>11, <1>12, <1>13, SameRows, SameLeft DEF Step

LEMMA LoginSteps ==
  ASSUME OnboardingInv, NEW a \in Actors,
         CreateLogin(a) \/ CreateLoginFails(a) \/ Admit(a) \/ DeleteLogins(a)
  PROVE  Step(a)
<1>1. UNCHANGED <<kind, listed, outbox>> /\ task[a].pc \in {"login", "admit", "logins"}
  BY DEF CreateLogin, CreateLoginFails, Admit, DeleteLogins
<1>2. task[a].for \in Profiles  BY <1>1, Facts DEF InHand
<1>3. CASE GoTo(a, "rollback") /\ UNCHANGED <<profile, login>> /\ LeftKept /\ task[a].pc = "login"
  <2>1. /\ Others(a) /\ task'[a] \in Task /\ task'[a].pc = "rollback" /\ task'[a].for = task[a].for
        /\ task'[a].attempts = task[a].attempts /\ task'[a].batch = task[a].batch
    BY <1>3, Facts, GoTask DEF Pcs
  <2>2. InHand(task[a])'  BY <1>1, <1>2, <2>1, Facts, HandsOn
  <2>3. TakesUp(a)  BY <1>2, <1>3, <2>1, KeepsFor DEF Mirroring
  <2>. QED  BY <1>1, <1>3, <2>1, <2>2, <2>3, SameRows, QuietStep
<1>4. CASE CreateLogin(a)
  <2>1. task[a].pc = "login" /\ UNCHANGED <<profile, left>>  BY <1>4 DEF CreateLogin
  <2>2. CASE login = Nobody
    <3>1. login' = task[a].for /\ Finish(a)  BY <1>4, <2>2 DEF CreateLogin
    <3>2. /\ Others(a) /\ task'[a] \in Task /\ task'[a].pc = "idle" /\ task'[a].for = Nobody
          /\ task'[a].attempts = 0 /\ task'[a].batch = {}
      BY <3>1, Facts, FinishTask
    <3>3. InHand(task[a])'  BY <1>1, <3>2, Facts, HandsOn
    <3>4. Delists(a)  BY <1>1, <2>1, Facts DEF Delists
    <3>5. LogsIn(a)  BY <1>2, <2>1, <2>2, <3>1, Facts DEF LogsIn, Exists
    <3>. QED  BY <1>1, <2>1, <3>2, <3>3, <3>4, <3>5, SameRows, SameLeft, SameProfile, Empties DEF Step
  <2>3. CASE login # Nobody  BY <1>3, <1>4, <2>1, <2>3, SameLeft DEF CreateLogin
  <2>. QED  BY <2>2, <2>3
<1>5. CASE CreateLoginFails(a)
  BY <1>3, <1>5, AfterFault DEF CreateLoginFails
<1>6. CASE Admit(a)
  <2>1. task[a].pc = "admit" /\ Finish(a) /\ UNCHANGED left  BY <1>6 DEF Admit
  <2>2. /\ Others(a) /\ task'[a] \in Task /\ task'[a].pc = "idle" /\ task'[a].for = Nobody
        /\ task'[a].attempts = 0 /\ task'[a].batch = {}
    BY <2>1, Facts, FinishTask
  <2>3. InHand(task[a])'  BY <1>1, <2>2, Facts, HandsOn
  <2>4. CASE login # Nobody
    <3>1. UNCHANGED <<profile, login>>  BY <1>6, <2>4 DEF Admit
    <3>. QED  BY <1>1, <2>1, <2>2, <2>3, <3>1, SameRows, SameLeft, Empties, QuietStep
  <2>5. CASE login = Nobody
    <3>. DEFINE p == task[a].for
    <3>1. login' = p /\ profile' = [profile EXCEPT ![p] = IF @ = "new" THEN "walletless" ELSE @]
      BY <1>6, <2>5 DEF Admit, Created
    <3>2. profile \in [Profiles -> {"new", "pending", "active", "walletless", "gone"}]  BY Facts
    <3>. HIDE DEF p
    <3>3. /\ profile' \in [Profiles -> {"new", "pending", "active", "walletless", "gone"}]
          /\ \A q \in Profiles : q # p => profile'[q] = profile[q]
          /\ p \in Profiles => profile'[p] = IF profile[p] = "new" THEN "walletless" ELSE profile[p]
      BY <3>1, <3>2
    <3>4. ProfileKept(a)  BY <3>3 DEF ProfileKept, p
    <3>5. Delists(a)  BY <1>1, <2>1, Facts DEF Delists
    <3>6. LogsIn(a)  BY <1>2, <2>1, <2>5, <3>1, <3>3, Facts DEF LogsIn, Exists, p
    <3>. QED  BY <1>1, <2>1, <2>2, <2>3, <3>4, <3>5, <3>6, SameRows, SameLeft, Empties DEF Step
  <2>. QED  BY <2>4, <2>5
<1>7. CASE DeleteLogins(a)
  <2>1. /\ task[a].pc = "logins" /\ GoTo(a, "delete") /\ UNCHANGED <<profile, left>>
        /\ login' = IF login = task[a].for THEN Nobody ELSE login
    BY <1>7 DEF DeleteLogins
  <2>2. /\ Others(a) /\ task'[a] \in Task /\ task'[a].pc = "delete" /\ task'[a].for = task[a].for
        /\ task'[a].attempts = task[a].attempts /\ task'[a].batch = task[a].batch
    BY <2>1, Facts, GoTask DEF Pcs
  <2>3. InHand(task[a])'  BY <1>1, <1>2, <2>2, Facts, HandsOn
  <2>4. TakesUp(a)  BY <1>2, <2>1, <2>2, KeepsFor DEF Mirroring
  <2>5. Delists(a)  BY <1>1, <2>1, <2>2, Facts DEF Delists
  <2>6. LogsIn(a)  BY <2>1, <2>2, Facts DEF LogsIn, Exists
  <2>. QED  BY <1>1, <2>1, <2>2, <2>3, <2>4, <2>5, <2>6, SameRows, SameLeft, SameProfile DEF Step
<1>. QED  BY <1>4, <1>5, <1>6, <1>7

LEMMA AdmitAsGivenStep ==
  ASSUME OnboardingInv, NEW a \in Actors, AdmitAsGiven(a)
  PROVE  Step(a)
<1>. DEFINE p == task[a].for
<1>1. /\ task[a].pc = "admit" /\ kind = "company" /\ login = Nobody /\ profile[p] = "new"
      /\ ByHand /\ login' = p /\ Finish(a) /\ UNCHANGED <<kind, listed, outbox>>
  BY DEF AdmitAsGiven
<1>2. PICK status \in {"pending", "active"} : profile' = [profile EXCEPT ![p] = status]
  BY DEF AdmitAsGiven
<1>3. p \in Profiles  BY <1>1, Facts DEF InHand
<1>4. /\ Others(a) /\ task'[a] \in Task /\ task'[a].pc = "idle" /\ task'[a].for = Nobody
      /\ task'[a].attempts = 0 /\ task'[a].batch = {}
  BY <1>1, Facts, FinishTask
<1>5. InHand(task[a])'  BY <1>1, <1>4, Facts, HandsOn
<1>6. LeftKept /\ left'.ops < MaxOps  BY <1>1, AfterChange
<1>7. profile \in [Profiles -> {"new", "pending", "active", "walletless", "gone"}]  BY Facts
<1>. HIDE DEF p
<1>8. /\ profile' \in [Profiles -> {"new", "pending", "active", "walletless", "gone"}]
      /\ \A q \in Profiles : q # p => profile'[q] = profile[q]
      /\ profile'[p] = status
  BY <1>2, <1>3, <1>7
<1>9. ProfileKept(a)  BY <1>1, <1>6, <1>8 DEF ProfileKept, p
<1>10. Delists(a)  BY <1>1, Facts DEF Delists
<1>11. LogsIn(a)  BY <1>1, <1>3, <1>8, Facts DEF LogsIn, Exists, p
<1>. QED  BY <1>1, <1>4, <1>5, <1>6, <1>9, <1>10, <1>11, SameRows, Empties DEF Step

-----------------------------------------------------------------------------
(* The contract's list, the outbox and the mirror. *)

LEMMA ListSteps ==
  ASSUME OnboardingInv, NEW a \in Actors, ListWallet(a) \/ Unlist(a) \/ UnlistFails(a)
  PROVE  Step(a)
<1>1. UNCHANGED <<kind, profile, login, outbox>> /\ task[a].pc \in {"list", "unlist"}
  BY DEF ListWallet, Unlist, UnlistFails
<1>2. task[a].for \in Profiles /\ (task[a].pc = "unlist" => kind = "officer")
  BY <1>1, Facts DEF InHand
<1>3. PICK pc \in {"capture", "logins"} : GoTo(a, pc) /\ (pc = "capture" <=> task[a].pc = "list")
  BY DEF ListWallet, Unlist, UnlistFails
<1>4. /\ Others(a) /\ task'[a] \in Task /\ task'[a].pc = pc /\ task'[a].for = task[a].for
      /\ task'[a].attempts = task[a].attempts /\ task'[a].batch = task[a].batch
  BY <1>3, Facts, GoTask DEF Pcs
<1>5. InHand(task[a])'  BY <1>1, <1>2, <1>4, Facts, HandsOn
<1>6. LeftKept  BY SameLeft, AfterFault DEF ListWallet, Unlist, UnlistFails
<1>7. \/ task[a].pc = "list" /\ listed' = listed \cup {task[a].for}
      \/ task[a].pc = "unlist" /\ listed' \in {listed, listed \ {task[a].for}}
  BY DEF ListWallet, Unlist, UnlistFails
<1>8. TakesUp(a)
  <2>1. task'[a].pc \in Mirroring => task[a].for \in listed'
    BY <1>3, <1>4, <1>7 DEF Mirroring
  <2>. QED  BY <1>1, <1>2, <1>4, <2>1, KeepsFor
<1>9. Delists(a)
  <2>1. listed' \subseteq Profiles  BY <1>2, <1>7, Facts
  <2>2. ASSUME NEW p \in listed, p \notin listed' PROVE Withdrawn(p)'
    <3>1. task[a].pc = "unlist" /\ p = task[a].for  BY <1>7, <2>2
    <3>2. task'[a].pc = "logins" /\ task'[a].for = p /\ kind' = "officer"
      BY <1>1, <1>2, <1>3, <1>4, <3>1
    <3>. QED  BY <3>2 DEF Withdrawn, Busy
  <2>. QED  BY <1>1, <2>1, <2>2 DEF Delists
<1>10. LogsIn(a)  BY <1>1, Facts DEF LogsIn, Exists
<1>. QED  BY <1>1, <1>4, <1>5, <1>6, <1>8, <1>9, <1>10, SameRows, SameProfile DEF Step

\* The outbox when attempt n of row k has been counted, its last or not.
Counted(k, n, s) ==
  [outbox EXCEPT ![k].attempts = n, ![k].status = IF s = "failed" THEN "failed" ELSE @]

\* Rows that are added or changed.
LEMMA RowsChange ==
  ASSUME outbox \in Seq(Row)
  PROVE  /\ \A x \in Row : outbox' = Append(outbox, x) =>
              /\ outbox' \in Seq(Row)
              /\ DOMAIN outbox' = DOMAIN outbox \cup {Len(outbox) + 1}
              /\ outbox'[Len(outbox) + 1] = x
              /\ \A i \in DOMAIN outbox : outbox'[i] = outbox[i]
         /\ \A k \in Nat : outbox' = [outbox EXCEPT ![k].status = "done"] =>
              /\ outbox' \in Seq(Row)
              /\ DOMAIN outbox' = DOMAIN outbox
              /\ \A i \in DOMAIN outbox :
                   outbox'[i].for = outbox[i].for /\ (outbox'[i] = outbox[i] \/ outbox'[i].status = "done")
         /\ \A k \in Nat : \A n \in 0..MaxAttempts : \A s \in {"failed", "kept"} :
              outbox' = Counted(k, n, s) =>
                /\ outbox' \in Seq(Row)
                /\ DOMAIN outbox' = DOMAIN outbox
                /\ \A i \in DOMAIN outbox :
                     /\ outbox'[i].for = outbox[i].for
                     /\ outbox'[i] = outbox[i] \/ (outbox'[i].attempts = n /\ (s = "failed" => outbox'[i].status = "failed"))
<1>. DEFINE n == Len(outbox)
<1>1. n \in Nat /\ DOMAIN outbox = 1 .. n /\ outbox \in [1 .. n -> Row]
  OBVIOUS
<1>2. ASSUME NEW x \in Row, outbox' = Append(outbox, x)
      PROVE  /\ outbox' \in Seq(Row)
             /\ DOMAIN outbox' = DOMAIN outbox \cup {n + 1}
             /\ outbox'[n + 1] = x
             /\ \A i \in DOMAIN outbox : outbox'[i] = outbox[i]
  <2>1. /\ outbox' \in Seq(Row) /\ DOMAIN outbox' = 1 .. n + 1 /\ outbox'[n + 1] = x
        /\ \A i \in 1 .. n : outbox'[i] = outbox[i]
    BY <1>2
  <2>. HIDE DEF n
  <2>2. 1 .. n + 1 = (1 .. n) \cup {n + 1}  BY <1>1
  <2>. QED  BY <1>1, <2>1, <2>2
<1>. HIDE DEF n
<1>3. \A f \in [1 .. n -> Row] : f \in Seq(Row)  BY <1>1
<1>4. ASSUME NEW k \in Nat, outbox' = [outbox EXCEPT ![k].status = "done"]
      PROVE  /\ outbox' \in Seq(Row)
             /\ DOMAIN outbox' = DOMAIN outbox
             /\ \A i \in DOMAIN outbox :
                  outbox'[i].for = outbox[i].for /\ (outbox'[i] = outbox[i] \/ outbox'[i].status = "done")
  <2>1. outbox' \in [1 .. n -> Row]  BY <1>1, <1>4 DEF Row
  <2>2. \A i \in 1 .. n : outbox[i] \in Row  BY <1>1
  <2>3. \A i \in 1 .. n : outbox'[i] = IF i = k THEN [outbox[i] EXCEPT !.status = "done"] ELSE outbox[i]
    BY <1>1, <1>4
  <2>4. \A r \in Row : [r EXCEPT !.status = "done"].for = r.for /\ [r EXCEPT !.status = "done"].status = "done"
    BY DEF Row
  <2>. QED  BY <1>1, <1>3, <2>1, <2>2, <2>3, <2>4
<1>5. ASSUME NEW k \in Nat, NEW m \in 0..MaxAttempts, NEW s \in {"failed", "kept"},
             outbox' = Counted(k, m, s)
      PROVE  /\ outbox' \in Seq(Row)
             /\ DOMAIN outbox' = DOMAIN outbox
             /\ \A i \in DOMAIN outbox :
                  /\ outbox'[i].for = outbox[i].for
                  /\ outbox'[i] = outbox[i] \/ (outbox'[i].attempts = m /\ (s = "failed" => outbox'[i].status = "failed"))
  <2>. DEFINE changed(r) == [for |-> r.for, status |-> IF s = "failed" THEN "failed" ELSE r.status, attempts |-> m]
  <2>1. \A r \in Row :
          /\ changed(r) \in Row /\ changed(r).for = r.for /\ changed(r).attempts = m
          /\ s = "failed" => changed(r).status = "failed"
    BY DEF Row
  <2>2. \A i \in 1 .. n : outbox[i] \in Row  BY <1>1
  <2>3. \A i \in 1 .. n : outbox'[i] = IF i = k THEN changed(outbox[i]) ELSE outbox[i]
    BY <1>1, <1>5 DEF Row, Counted
  <2>4. outbox' = [i \in 1 .. n |-> outbox'[i]]  BY <1>1, <1>5 DEF Counted
  <2>. HIDE DEF changed
  <2>5. \A i \in 1 .. n : outbox'[i] \in Row  BY <2>1, <2>2, <2>3
  <2>6. outbox' \in [1 .. n -> Row]  BY <2>4, <2>5
  <2>. QED  BY <1>1, <1>3, <2>1, <2>2, <2>3, <2>4, <2>6
<1>. QED  BY <1>2, <1>4, <1>5 DEF n

\* A step of the mirror, which keeps its profile in hand or puts it down.
LEMMA MirrorStep ==
  ASSUME OnboardingInv, NEW a \in Actors, task[a].pc \in Mirroring,
         UNCHANGED <<kind, profile, login, listed>>, RowsKept(a), LeftKept,
         \/ NextRow(a)
         \/ /\ Others(a) /\ task'[a] \in Task /\ task'[a].pc \in Mirroring /\ task'[a].for = task[a].for
            /\ task'[a].attempts = task[a].attempts /\ task'[a].batch = task[a].batch
  PROVE  Step(a)
<1>1. task[a].for \in Profiles  BY Facts DEF InHand, Mirroring
<1>2. /\ Others(a) /\ task'[a] \in Task
      /\ \/ task'[a].pc \in {"idle", "next"} /\ task'[a].for = Nobody
         \/ task'[a].pc \in Mirroring /\ task'[a].for = task[a].for
      /\ task'[a].attempts \in {task[a].attempts, 0} /\ task'[a].batch \subseteq task[a].batch
  BY Facts, NextTask
<1>3. InHand(task[a])'  BY <1>1, <1>2, Facts, HandsOn DEF Mirroring, RowsKept
<1>4. TakesUp(a)  BY <1>1, <1>2, Empties, KeepsFor DEF Mirroring
<1>. QED  BY <1>2, <1>3, <1>4, QuietStep DEF Mirroring

LEMMA MirrorSteps ==
  ASSUME OnboardingInv, NEW a \in Actors,
         \/ Capture(a) \/ CaptureFails(a) \/ FindProfile(a) \/ SaveActive(a) \/ MirrorFails(a)
         \/ MarkDone(a) \/ Throw(a)
  PROVE  Step(a)
<1>1. task[a].pc \in Mirroring
  BY DEF Capture, CaptureFails, FindProfile, SaveActive, MirrorFails, MarkDone, Throw, Mirroring
<1>2. /\ task[a].for \in Profiles /\ task[a].id \in Nat /\ task[a].attempts \in 0..MaxAttempts
      /\ task[a].attempts < MaxAttempts
  BY <1>1, Facts DEF InHand, Mirroring, Task
<1>3. ASSUME NEW pc \in Mirroring, GoTo(a, pc)
      PROVE  /\ Others(a) /\ task'[a] \in Task /\ task'[a].pc = pc /\ task'[a].for = task[a].for
             /\ task'[a].attempts = task[a].attempts /\ task'[a].batch = task[a].batch
  BY <1>3, Facts, GoTask DEF Pcs, Mirroring
<1>4. CASE Capture(a)
  <2>. DEFINE x == [for |-> task[a].for, status |-> "pending", attempts |-> 0]
              n == Len(outbox) + 1
              t == [task[a] EXCEPT !.pc = "find", !.id = n]
  <2>1. /\ task[a].pc = "capture" /\ outbox' = Append(outbox, x)
        /\ UNCHANGED <<kind, profile, login, listed, left>>
    BY <1>4 DEF Capture
  <2>2. task' = [task EXCEPT ![a] = t]  BY <1>4, Facts DEF Capture
  <2>3. x \in Row /\ x.for = task[a].for /\ x.attempts = 0  BY <1>2, OnboardingAssumption DEF Row
  <2>4. n \in Nat  BY Facts
  <2>. HIDE DEF x, n
  <2>5. /\ t \in Task /\ t.pc = "find" /\ t.for = task[a].for /\ t.attempts = task[a].attempts
        /\ t.batch = task[a].batch
    BY <2>4, Facts DEF Task
  <2>. HIDE DEF t
  <2>6. Others(a) /\ task'[a] = t  BY <2>2, Facts, NewTask
  <2>7. /\ outbox' \in Seq(Row) /\ DOMAIN outbox' = DOMAIN outbox \cup {n} /\ outbox'[n] = x
        /\ \A i \in DOMAIN outbox : outbox'[i] = outbox[i]
    BY <2>1, <2>3, Facts, RowsChange DEF n
  <2>8. RowsKept(a)
    BY <1>1, <2>3, <2>7, Facts, OnboardingAssumption DEF RowsKept, Bounded
  <2>. QED  BY <1>1, <2>1, <2>5, <2>6, <2>8, SameLeft, MirrorStep DEF Mirroring
<1>5. CASE CaptureFails(a) \/ FindProfile(a) \/ MirrorFails(a)
  <2>1. UNCHANGED <<kind, profile, login, listed, outbox>>
    BY <1>5 DEF CaptureFails, FindProfile, MirrorFails
  <2>2. LeftKept  BY <1>5, SameLeft, AfterFault DEF CaptureFails, FindProfile, MirrorFails
  <2>3. \E pc \in Mirroring : GoTo(a, pc)
    BY <1>5 DEF CaptureFails, FindProfile, MirrorFails, Mirroring
  <2>. QED  BY <1>1, <1>3, <2>1, <2>2, <2>3, SameRows, MirrorStep
<1>6. CASE MarkDone(a)
  <2>1. UNCHANGED <<kind, profile, login, listed, left>> /\ NextRow(a)  BY <1>6 DEF MarkDone
  <2>2. UNCHANGED outbox \/ outbox' = [outbox EXCEPT ![task[a].id].status = "done"]
    BY <1>6 DEF MarkDone
  <2>3. outbox' = [outbox EXCEPT ![task[a].id].status = "done"] => RowsKept(a)
    BY <1>2, Facts, RowsChange DEF RowsKept, Bounded
  <2>. QED  BY <1>1, <2>1, <2>2, <2>3, SameRows, SameLeft, MirrorStep
<1>7. CASE Throw(a)
  <2>1. UNCHANGED <<kind, profile, login, listed, left>> /\ NextRow(a) /\ (UNCHANGED outbox \/ CountAttempt(a))
    BY <1>7 DEF Throw
  <2>2. ASSUME CountAttempt(a) PROVE RowsKept(a)
    <3>. DEFINE m == task[a].attempts + 1
                s == IF m >= MaxAttempts THEN "failed" ELSE "kept"
    <3>1. m \in 0..MaxAttempts  BY <1>2, OnboardingAssumption
    <3>2. s \in {"failed", "kept"} /\ (s = "failed" <=> m >= MaxAttempts)  OBVIOUS
    <3>3. outbox' = [outbox EXCEPT ![task[a].id].attempts = m,
                                   ![task[a].id].status = IF m >= MaxAttempts THEN "failed" ELSE @]
      BY <2>2 DEF CountAttempt
    <3>. HIDE DEF m, s
    <3>4. outbox' = Counted(task[a].id, m, s)  BY <3>2, <3>3 DEF Counted
    <3>5. /\ outbox' \in Seq(Row)
          /\ DOMAIN outbox' = DOMAIN outbox
          /\ \A i \in DOMAIN outbox :
               /\ outbox'[i].for = outbox[i].for
               /\ outbox'[i] = outbox[i] \/ (outbox'[i].attempts = m /\ (s = "failed" => outbox'[i].status = "failed"))
      BY <1>2, <3>1, <3>2, <3>4, Facts, RowsChange
    <3>6. s # "failed" => m < MaxAttempts  BY <3>1, <3>2, OnboardingAssumption
    <3>. QED  BY <3>5, <3>6, Facts DEF RowsKept, Bounded
  <2>. QED  BY <1>1, <2>1, <2>2, SameRows, SameLeft, MirrorStep
<1>8. CASE SaveActive(a)
  <2>1. task[a].pc = "save" /\ UNCHANGED <<kind, login, listed, outbox, left>>  BY <1>8 DEF SaveActive
  <2>2. CASE ~Exists(task[a].for)
    <3>1. GoTo(a, "throw") /\ UNCHANGED profile  BY <1>8, <2>2 DEF SaveActive
    <3>. QED  BY <1>1, <1>3, <2>1, <3>1, SameRows, SameLeft, MirrorStep DEF Mirroring
  <2>3. CASE Exists(task[a].for)
    <3>. DEFINE p == task[a].for
    <3>1. GoTo(a, "mark") /\ profile' = [profile EXCEPT ![p] = "active"]  BY <1>8, <2>3 DEF SaveActive
    <3>2. /\ Others(a) /\ task'[a] \in Task /\ task'[a].pc = "mark" /\ task'[a].for = task[a].for
          /\ task'[a].attempts = task[a].attempts /\ task'[a].batch = task[a].batch
      BY <1>3, <3>1 DEF Mirroring
    <3>3. p \in Profiles /\ profile[p] \in {"pending", "active", "walletless"}
      BY <1>2, <2>3 DEF Exists
    <3>4. profile \in [Profiles -> {"new", "pending", "active", "walletless", "gone"}]  BY Facts
    <3>. HIDE DEF p
    <3>5. /\ profile' \in [Profiles -> {"new", "pending", "active", "walletless", "gone"}]
          /\ \A q \in Profiles : q # p => profile'[q] = profile[q]
          /\ profile'[p] = "active"
      BY <3>1, <3>3, <3>4
    <3>6. InHand(task[a])'  BY <1>2, <2>1, <3>2, Facts, HandsOn
    <3>7. ProfileKept(a)  BY <1>1, <3>3, <3>5 DEF ProfileKept, p
    <3>8. TakesUp(a)  BY <1>1, <1>2, <2>1, <3>2, <3>7, KeepsFor DEF ProfileKept
    <3>9. Delists(a)  BY <2>1, Facts DEF Delists
    <3>10. LogsIn(a)  BY <2>1, <3>3, <3>5, Facts DEF LogsIn, Exists, p
    <3>. QED  BY <2>1, <3>2, <3>6, <3>7, <3>8, <3>9, <3>10, SameRows, SameLeft DEF Step
  <2>. QED  BY <2>2, <2>3
<1>. QED  BY <1>4, <1>5, <1>6, <1>7, <1>8

LEMMA ProcessorSteps ==
  ASSUME OnboardingInv, NEW a \in Actors, FetchDue(a) \/ TakeRow(a)
  PROVE  Step(a)
<1>1. UNCHANGED <<kind, profile, login, listed, outbox, left>>  BY DEF FetchDue, TakeRow
<1>2. \A i \in DOMAIN outbox : i \in Nat \ {0} /\ outbox[i] \in Row
  <2>1. outbox \in Seq(Row)  BY Facts
  <2>. QED  BY <2>1
<1>3. CASE FetchDue(a)
  <2>1. PICK due \in SUBSET Pending :
          task' = [task EXCEPT ![a] = [Idle EXCEPT !.pc = "next", !.origin = "outbox",
                     !.batch = {[id |-> i, attempts |-> outbox[i].attempts] : i \in due}]]
    BY <1>3 DEF FetchDue
  <2>. DEFINE batch == {[id |-> i, attempts |-> outbox[i].attempts] : i \in due}
              t == [Idle EXCEPT !.pc = "next", !.origin = "outbox", !.batch = batch]
  <2>2. \A i \in due : i \in DOMAIN outbox /\ outbox[i].attempts < MaxAttempts
    BY Facts DEF Pending, Bounded
  <2>3. \A i \in due : [id |-> i, attempts |-> outbox[i].attempts] \in BatchItem
    BY <1>2, <2>2 DEF BatchItem, Row
  <2>4. batch \in SUBSET BatchItem  BY <2>3
  <2>5. \A row \in batch : row.id \in DOMAIN outbox /\ row.attempts < MaxAttempts  BY <2>2
  <2>6. task' = [task EXCEPT ![a] = t] /\ task[a] = Idle  BY <1>3, <2>1 DEF FetchDue
  <2>. HIDE DEF batch
  <2>7. 0 \in 0..MaxAttempts /\ 0 < MaxAttempts  BY OnboardingAssumption
  <2>8. t \in Task /\ t.pc = "next" /\ t.for = Nobody /\ t.attempts = 0 /\ t.batch = batch
    BY <2>4, <2>7 DEF Idle, Task
  <2>. HIDE DEF t
  <2>9. Others(a) /\ task'[a] = t  BY <2>6, Facts, NewTask
  <2>10. InHand(task[a])'  BY <1>1, <2>5, <2>7, <2>8, <2>9 DEF InHand
  <2>11. task[a].pc = "idle"  BY <2>6, IdleTask
  <2>. QED  BY <1>1, <2>8, <2>9, <2>10, <2>11, SameRows, SameLeft, Empties, QuietStep
<1>4. CASE TakeRow(a)
  <2>1. PICK row \in task[a].batch :
          task' = [task EXCEPT ![a] = [pc |-> "find", origin |-> "outbox", for |-> outbox[row.id].for, id |-> row.id,
                                       attempts |-> row.attempts, batch |-> task[a].batch \ {row}]]
    BY <1>4 DEF TakeRow
  <2>. DEFINE t == [pc |-> "find", origin |-> "outbox", for |-> outbox[row.id].for, id |-> row.id,
                    attempts |-> row.attempts, batch |-> task[a].batch \ {row}]
  <2>2. task[a].pc = "next" /\ task' = [task EXCEPT ![a] = t]  BY <1>4, <2>1 DEF TakeRow
  <2>3. task[a].batch \in SUBSET BatchItem /\ row \in BatchItem  BY Facts DEF Task
  <2>4. row.id \in DOMAIN outbox /\ row.attempts < MaxAttempts  BY Facts DEF InHand
  <2>5. outbox[row.id].for \in Profiles  BY <1>2, <2>4 DEF Row
  <2>6. /\ t \in Task /\ t.pc = "find" /\ t.for = outbox[row.id].for /\ t.attempts = row.attempts
        /\ t.batch = task[a].batch \ {row}
    BY <1>2, <2>3, <2>4, <2>5 DEF Task, BatchItem
  <2>. HIDE DEF t
  <2>7. Others(a) /\ task'[a] = t  BY <2>2, Facts, NewTask
  <2>8. InHand(task[a])'  BY <1>1, <2>4, <2>5, <2>6, <2>7, Facts DEF InHand
  <2>9. Approved(t.for) /\ profile[t.for] # "new"
    BY <2>4, <2>5, <2>6 DEF Approved, OnboardingInv, NewIsOwn
  <2>10. TakesUp(a)  BY <1>1, <2>6, <2>7, <2>9 DEF TakesUp
  <2>. QED  BY <1>1, <2>2, <2>6, <2>7, <2>8, <2>10, SameRows, SameLeft, QuietStep
<1>. QED  BY <1>3, <1>4

-----------------------------------------------------------------------------
\* The whitelist is changed by hand.
LEMMA AdministerKeeps ==
  ASSUME OnboardingInv, NEW p \in Profiles, Administer(p)
  PROVE  OnboardingInv'
<1>1. /\ kind = "company" /\ UNCHANGED <<kind, profile, login, outbox, task>>
      /\ left.ops > 0 /\ left' = [left EXCEPT !.ops = @ - 1]
      /\ listed' \in {listed \cup {p}, listed \ {p}}
  BY DEF Administer, ByHand, WhitelistAddress, RemoveFromWhitelist
<1>2. TypeOK /\ left \in [rows : Nat, ops : Nat, faults : Nat] /\ Bounded
  BY DEF OnboardingInv, TypeOK
<1>3. /\ left' \in [rows : Nat, ops : Nat, faults : Nat]
      /\ left'.ops = left.ops - 1 /\ left'.faults = left.faults
  BY <1>1, <1>2
<1>4. left'.ops < MaxOps  BY <1>2, <1>3, OnboardingAssumption DEF Bounded
<1>5. TypeOK'  BY <1>1, <1>2, <1>3 DEF TypeOK
<1>6. Equipped'  BY <1>1 DEF OnboardingInv, Equipped, InHand
<1>7. Bounded'  BY <1>1, <1>2, <1>3, <1>4, OnboardingAssumption DEF Bounded
<1>8. NewIsOwn'  BY <1>1 DEF OnboardingInv, NewIsOwn
<1>9. ApprovedIsListed'  BY <1>1, <1>4 DEF ApprovedIsListed, Withdrawn
<1>10. ProfileHasLogin'
  BY <1>1, <1>3 DEF OnboardingInv, ProfileHasLogin, Busy, Exists, NoFault
<1>. QED  BY <1>5, <1>6, <1>7, <1>8, <1>9, <1>10 DEF OnboardingInv

LEMMA OnboardingInitial == Init => OnboardingInv
<1>. SUFFICES ASSUME Init PROVE OnboardingInv
  OBVIOUS
<1>1. \A a \in Actors : task[a] = Idle  BY DEF Init
<1>2. TypeOK
  <2>1. task \in [Actors -> Task]  BY IdleTask DEF Init
  <2>2. outbox \in Seq(Row)  BY DEF Init
  <2>3. left \in [rows : Nat, ops : Nat, faults : Nat]  BY OnboardingAssumption DEF Init
  <2>. QED  BY <2>1, <2>2, <2>3 DEF Init, TypeOK
<1>3. Equipped  BY <1>1, IdleTask, OnboardingAssumption DEF Equipped, InHand
<1>4. outbox = <<>> /\ \A p \in Profiles : profile[p] = "new"  BY DEF Init
<1>5. Bounded  BY <1>4, OnboardingAssumption DEF Init, Bounded
<1>6. NewIsOwn  BY <1>1, <1>4, IdleTask, OnboardingAssumption DEF NewIsOwn
<1>7. ApprovedIsListed
  BY <1>1, <1>4, IdleTask DEF ApprovedIsListed, Approved, Mirroring
<1>8. ProfileHasLogin  BY <1>4 DEF ProfileHasLogin, Exists
<1>. QED  BY <1>2, <1>3, <1>5, <1>6, <1>7, <1>8 DEF OnboardingInv

LEMMA OnboardingNext == OnboardingInv /\ [Next]_vars => OnboardingInv'
<1>. SUFFICES ASSUME OnboardingInv, [Next]_vars PROVE OnboardingInv'
  OBVIOUS
<1>1. CASE UNCHANGED vars
  <2>1. UNCHANGED <<kind, profile, login, listed, outbox, task, left>>  BY <1>1 DEF vars
  <2>2. TypeOK' /\ Equipped' /\ Bounded' /\ NewIsOwn'
    BY <2>1 DEF OnboardingInv, TypeOK, Equipped, InHand, Bounded, NewIsOwn
  <2>3. ApprovedIsListed' /\ ProfileHasLogin'
    BY <2>1 DEF OnboardingInv, ApprovedIsListed, Approved, Withdrawn, ProfileHasLogin, Busy, Exists, NoFault
  <2>. QED  BY <2>2, <2>3 DEF OnboardingInv
<1>2. CASE \E a \in Actors : Step(a)  BY <1>2, StepKeeps
<1>3. CASE \E p \in Profiles : Administer(p)  BY <1>3, AdministerKeeps
<1>4. ASSUME NEW a \in Actors, Proceed(a) PROVE Step(a)
  BY <1>4, CreateSteps, LoginSteps, ListSteps, MirrorSteps, ProcessorSteps DEF Proceed
<1>. QED
  BY <1>1, <1>2, <1>3, <1>4, BeginSteps, AdmitAsGivenStep, ProcessorSteps, LoginSteps, ListSteps, MirrorSteps, AbortStep DEF Next

LEMMA OnboardingInvariant == Spec => []OnboardingInv
BY OnboardingInitial, OnboardingNext, PTL DEF Spec

(* Profiles, logins, the contract's list, the outbox and requests have     *)
(* their types.                                                            *)
THEOREM OnboardingTypeCorrect == Spec => []TypeOK
<1>1. OnboardingInv => TypeOK  BY DEF OnboardingInv
<1>. QED  BY OnboardingInvariant, <1>1, PTL

(* The contract lists the wallet of every active profile, except of a      *)
(* sub-admin whose removal is under way or has failed in the middle, or    *)
(* when the whitelist has been changed by hand or a company has been       *)
(* registered with a status of its own.                                    *)
THEOREM ActiveIsListedCorrect == Spec => []ActiveIsListed
<1>1. OnboardingInv => ActiveIsListed
  BY DEF OnboardingInv, ApprovedIsListed, Approved, Withdrawn, ActiveIsListed
<1>. QED  BY OnboardingInvariant, <1>1, PTL

(* A profile that is there has a login, or a request is about to give it   *)
(* one or to take it away, unless a call or a process failed.              *)
THEOREM ProfileHasLoginCorrect == Spec => []ProfileHasLogin
<1>1. OnboardingInv => ProfileHasLogin  BY DEF OnboardingInv
<1>. QED  BY OnboardingInvariant, <1>1, PTL
===============================================================================
