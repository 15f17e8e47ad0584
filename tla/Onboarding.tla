------------------------------ MODULE Onboarding ------------------------------
(***************************************************************************)
(* Companies and sub-admins (services/company.service.js and services/     *)
(* subadmin.service.js; funding is best effort and changes nothing here).  *)
(* Both are registered as a profile and a login, listed in the contract    *)
(* (its whitelist, its set of sub-admins) by write-through with the durable*)
(* outbox (services/indexer.service.js, services/outbox.service.js), and   *)
(* removed.  Besides, registerUser (services/auth.service.js) makes a login*)
(* for a company or a regulator, there already or new, in a transaction;   *)
(* and an administrator may change the contract's whitelist by hand.       *)
(*                                                                         *)
(* Profiles of one email address are modelled: all that relates different  *)
(* profiles is that addresses of logins, and of sub-admins, are unique.    *)
(* A member of Actors is a request or a run of the outbox processor; other *)
(* ones run between two awaits of it.                                      *)
(***************************************************************************)
EXTENDS Integers, Sequences, FiniteSets

CONSTANTS
  Kinds,       \* subset of {"company", "officer", "regulator"}
  Profiles,    \* ids the database may give
  Actors,      \* concurrent requests and jobs
  Nobody,      \* no profile
  MaxRows,     \* bound: approvals sent to the contract
  MaxAttempts, \* an outbox row's maxAttempts
  MaxOps,      \* bound: changes by hand, of the whitelist or of a company's own data
  MaxFaults,   \* bound: crashes and calls that fail
  MaxBoth      \* bound: approvals and failures together

ASSUME OnboardingAssumption ==
  /\ Kinds \subseteq {"company", "officer", "regulator"}
  /\ Nobody \notin Profiles
  /\ MaxRows \in Nat
  /\ MaxAttempts \in Nat \ {0}
  /\ MaxOps \in Nat
  /\ MaxFaults \in Nat
  /\ MaxBoth \in Nat

VARIABLES
  kind,    \* what is registered here
  profile, \* the status of each Company, SubAdmin or Regulator; "walletless" if it has no wallet
  login,   \* the profile the User document of the address belongs to
  listed,  \* profiles whose wallet the contract lists
  outbox,  \* rows: [for, status, attempts]
  task,    \* what each actor is doing
  left     \* what the bounds still allow: [rows, ops, faults]

vars == <<kind, profile, login, listed, outbox, task, left>>

Row == [for : Profiles, status : {"pending", "done", "failed"}, attempts : 0..MaxAttempts]

\* id: the actor's row in the outbox, 0 if it has none; attempts: those counted
\* when the processor listed it; batch: what the processor has listed.
BatchItem == [id : Nat \ {0}, attempts : 0..MaxAttempts]
Task == [pc : {"idle", "create", "login", "rollback", "admit", "list", "capture", "find", "save", "mark",
               "throw", "next", "unlist", "logins", "delete"},
         origin : {"request", "outbox"}, for : Profiles \cup {Nobody},
         id : Nat, attempts : 0..MaxAttempts, batch : SUBSET BatchItem]
Idle == [pc |-> "idle", origin |-> "request", for |-> Nobody, id |-> 0, attempts |-> 0, batch |-> {}]

Init ==
  /\ kind \in Kinds
  /\ profile = [p \in Profiles |-> "new"]
  /\ login = Nobody
  /\ listed = {}
  /\ outbox = <<>>
  /\ task = [a \in Actors |-> Idle]
  /\ left = [rows |-> MaxRows, ops |-> MaxOps, faults |-> MaxFaults]

Exists(p) == profile[p] \in {"pending", "active", "walletless"}

GoTo(a, pc) == task' = [task EXCEPT ![a].pc = pc]

\* Actors are alike: an idle one that comes first is as good as any other.
Ready(a) == a = CHOOSE b \in Actors : (\E c \in Actors : task[c] = Idle) => task[b] = Idle
Begin(a, pc, p) == Ready(a) /\ task[a] = Idle /\ task' = [task EXCEPT ![a] = [Idle EXCEPT !.pc = pc, !.for = p]]
Finish(a) == task' = [task EXCEPT ![a] = Idle]

BothAllow == (MaxRows - left.rows) + (MaxFaults - left.faults) < MaxBoth

\* The bounds allow failures, or changes by hand, not both in one behaviour.
Fault == left.faults > 0 /\ BothAllow /\ left.ops = MaxOps /\ left' = [left EXCEPT !.faults = @ - 1]

ByHand == left.ops > 0 /\ left.faults = MaxFaults /\ left' = [left EXCEPT !.ops = @ - 1]

-----------------------------------------------------------------------------
(* registerCompany, inviteSubAdmin *)

\* The ids of profiles are alike, too.
NewProfiles == {p \in Profiles : profile[p] = "new" /\ \A b \in Actors : task[b].for # p}
NewProfile == CHOOSE p \in NewProfiles : TRUE

\* The address of a sub-admin is unique among sub-admins, too.
SubAdminExists == kind = "officer" /\ \E q \in Profiles : Exists(q)

\* The address is free.
Register(a) ==
  /\ kind # "regulator"
  /\ NewProfiles # {}
  /\ Begin(a, "create", NewProfile)
  /\ login = Nobody /\ ~SubAdminExists
  /\ UNCHANGED <<kind, profile, login, listed, outbox, left>>

\* The unique index refuses a second sub-admin.
CreateProfile(a) ==
  /\ task[a].pc = "create"
  /\ profile' = [profile EXCEPT ![task[a].for] = IF SubAdminExists THEN "gone" ELSE "pending"]
  /\ IF SubAdminExists THEN Finish(a) ELSE GoTo(a, "login")
  /\ UNCHANGED <<kind, login, listed, outbox, left>>

\* The unique index refuses a second login.
CreateLogin(a) ==
  /\ task[a].pc = "login"
  /\ IF login = Nobody
     THEN login' = task[a].for /\ Finish(a)
     ELSE UNCHANGED login /\ GoTo(a, "rollback")
  /\ UNCHANGED <<kind, profile, listed, outbox, left>>

CreateLoginFails(a) ==
  /\ task[a].pc = "login"
  /\ Fault
  /\ GoTo(a, "rollback")
  /\ UNCHANGED <<kind, profile, login, listed, outbox>>

\* Mutant: the profile is left behind.
RollbackNothing(a) ==
  /\ task[a].pc = "rollback"
  /\ Finish(a)
  /\ UNCHANGED <<kind, profile, login, listed, outbox, left>>

Rollback(a) ==
  /\ task[a].pc = "rollback"
  /\ profile' = [profile EXCEPT ![task[a].for] = "gone"]
  /\ Finish(a)
  /\ UNCHANGED <<kind, login, listed, outbox, left>>

-----------------------------------------------------------------------------
(* registerUser *)

\* For a company or a regulator that is there, or a new one.
RegisterUser(a) ==
  /\ kind # "officer"
  /\ \/ NewProfiles # {} /\ Begin(a, "admit", NewProfile)
     \/ \E p \in Profiles : Exists(p) /\ Begin(a, "admit", p)
  /\ UNCHANGED <<kind, profile, login, listed, outbox, left>>

\* createCompany, createRegulator, of the name and the contacts: it is pending for
\* ever, as it has no wallet.
Created(p) == [profile EXCEPT ![p] = IF @ = "new" THEN "walletless" ELSE @]

\* The new profile and the login are committed together; the unique index aborts
\* both. Whether a company that was found is still there is not looked at again.
Admit(a) ==
  /\ task[a].pc = "admit"
  /\ IF login = Nobody
     THEN /\ login' = task[a].for
          /\ profile' = Created(task[a].for)
     ELSE UNCHANGED <<login, profile>>
  /\ Finish(a)
  /\ UNCHANGED <<kind, listed, outbox, left>>

\* createCompany stores the data it is given as they are: a company that comes
\* with a wallet can be approved, one that comes with a status is active already.
AdmitAsGiven(a) ==
  /\ task[a].pc = "admit" /\ kind = "company"
  /\ login = Nobody /\ profile[task[a].for] = "new"
  /\ ByHand
  /\ login' = task[a].for
  /\ \E status \in {"pending", "active"} : profile' = [profile EXCEPT ![task[a].for] = status]
  /\ Finish(a)
  /\ UNCHANGED <<kind, listed, outbox>>

-----------------------------------------------------------------------------
(* approveCompany, activateSubAdmin: writeThrough *)

\* A profile without a wallet is refused.
Approve(a, p) ==
  /\ Begin(a, "list", p)
  /\ profile[p] = "pending"
  /\ left.rows > 0 /\ BothAllow /\ left' = [left EXCEPT !.rows = @ - 1]
  /\ UNCHANGED <<kind, profile, login, listed, outbox>>

\* Mutant: the mirror does not wait for the contract.
ListLater(a) ==
  /\ task[a].pc = "list"
  /\ GoTo(a, "capture")
  /\ UNCHANGED <<kind, profile, login, listed, outbox, left>>

\* whitelist_address, add_sub_admin: adding again changes nothing.
ListWallet(a) ==
  /\ task[a].pc = "list"
  /\ listed' = listed \cup {task[a].for}
  /\ GoTo(a, "capture")
  /\ UNCHANGED <<kind, profile, login, outbox, left>>

Capture(a) ==
  /\ task[a].pc = "capture"
  /\ outbox' = Append(outbox, [for |-> task[a].for, status |-> "pending", attempts |-> 0])
  /\ task' = [task EXCEPT ![a].pc = "find", ![a].id = Len(outbox) + 1]
  /\ UNCHANGED <<kind, profile, login, listed, left>>

\* Without a row, the mirror is tried once.
CaptureFails(a) ==
  /\ task[a].pc = "capture"
  /\ Fault
  /\ GoTo(a, "find")
  /\ UNCHANGED <<kind, profile, login, listed, outbox>>

-----------------------------------------------------------------------------
(* mirrorCompanyApproved, mirrorSubAdminActivated: of a request, or replayed *)

FindProfile(a) ==
  /\ task[a].pc = "find"
  /\ GoTo(a, IF Exists(task[a].for) THEN "save" ELSE "throw")
  /\ UNCHANGED <<kind, profile, login, listed, outbox, left>>

\* A save that finds no document throws.
SaveActive(a) ==
  /\ task[a].pc = "save"
  /\ IF Exists(task[a].for)
     THEN profile' = [profile EXCEPT ![task[a].for] = "active"] /\ GoTo(a, "mark")
     ELSE UNCHANGED profile /\ GoTo(a, "throw")
  /\ UNCHANGED <<kind, login, listed, outbox, left>>

\* The database fails the mirror.
MirrorFails(a) ==
  /\ task[a].pc \in {"find", "save"}
  /\ Fault
  /\ GoTo(a, "throw")
  /\ UNCHANGED <<kind, profile, login, listed, outbox>>

\* The processor goes on with its list, a request is over.
NextRow(a) ==
  IF task[a].batch = {} THEN Finish(a)
  ELSE task' = [task EXCEPT ![a] = [Idle EXCEPT !.pc = "next", !.origin = "outbox", !.batch = task[a].batch]]

MarkDone(a) ==
  /\ task[a].pc = "mark"
  /\ outbox' = IF task[a].id = 0 THEN outbox ELSE [outbox EXCEPT ![task[a].id].status = "done"]
  /\ NextRow(a)
  /\ UNCHANGED <<kind, profile, login, listed, left>>

\* The attempt is counted on the row as it was listed; the last one gives it up.
CountAttempt(a) ==
  LET attempts == task[a].attempts + 1
  IN outbox' = [outbox EXCEPT ![task[a].id].attempts = attempts,
                              ![task[a].id].status = IF attempts >= MaxAttempts THEN "failed" ELSE @]

\* Mutant: a row that was tried is settled.
ThrowSettled(a) ==
  /\ task[a].pc = "throw"
  /\ outbox' = IF task[a].id = 0 THEN outbox ELSE [outbox EXCEPT ![task[a].id].status = "done"]
  /\ NextRow(a)
  /\ UNCHANGED <<kind, profile, login, listed, left>>

\* A request leaves its row for the processor.
Throw(a) ==
  /\ task[a].pc = "throw"
  /\ IF task[a].origin = "outbox" THEN CountAttempt(a) ELSE UNCHANGED outbox
  /\ NextRow(a)
  /\ UNCHANGED <<kind, profile, login, listed, left>>

Pending == {i \in DOMAIN outbox : outbox[i].status = "pending"}

\* A new row is due at once, one that failed when its backoff is over.
FetchDue(a) ==
  /\ Ready(a) /\ task[a] = Idle
  /\ \E due \in SUBSET Pending \ {{}} :
       /\ {i \in Pending : outbox[i].attempts = 0} \subseteq due
       /\ task' = [task EXCEPT ![a] = [Idle EXCEPT !.pc = "next", !.origin = "outbox",
                     !.batch = {[id |-> i, attempts |-> outbox[i].attempts] : i \in due}]]
  /\ UNCHANGED <<kind, profile, login, listed, outbox, left>>

TakeRow(a) ==
  /\ task[a].pc = "next"
  /\ \E row \in task[a].batch :
       /\ \A other \in task[a].batch : row.id <= other.id
       /\ task' = [task EXCEPT ![a] = [pc |-> "find", origin |-> "outbox", for |-> outbox[row.id].for, id |-> row.id,
                                       attempts |-> row.attempts, batch |-> task[a].batch \ {row}]]
  /\ UNCHANGED <<kind, profile, login, listed, outbox, left>>

-----------------------------------------------------------------------------
(* removeCompany, removeSubAdmin; regulators are not removed *)

\* Only a sub-admin that is active now is taken off the contract's list.
Remove(a, p) ==
  /\ Begin(a, IF kind = "officer" /\ profile[p] = "active" THEN "unlist" ELSE "logins", p)
  /\ Exists(p) /\ kind # "regulator"
  /\ UNCHANGED <<kind, profile, login, listed, outbox, left>>

Unlist(a) ==
  /\ task[a].pc = "unlist"
  /\ listed' = listed \ {task[a].for}
  /\ GoTo(a, "logins")
  /\ UNCHANGED <<kind, profile, login, outbox, left>>

\* The failure is logged, the removal goes on.
UnlistFails(a) ==
  /\ task[a].pc = "unlist"
  /\ Fault
  /\ GoTo(a, "logins")
  /\ UNCHANGED <<kind, profile, login, listed, outbox>>

DeleteLogins(a) ==
  /\ task[a].pc = "logins"
  /\ login' = IF login = task[a].for THEN Nobody ELSE login
  /\ GoTo(a, "delete")
  /\ UNCHANGED <<kind, profile, listed, outbox, left>>

DeleteProfile(a) ==
  /\ task[a].pc = "delete"
  /\ profile' = [profile EXCEPT ![task[a].for] = "gone"]
  /\ Finish(a)
  /\ UNCHANGED <<kind, login, listed, outbox, left>>

-----------------------------------------------------------------------------
(* The contract's whitelist by hand: no profile is looked at. *)

WhitelistAddress(p) == p \notin listed /\ listed' = listed \cup {p}
RemoveFromWhitelist(p) == p \in listed /\ listed' = listed \ {p}

Administer(p) ==
  /\ kind = "company" /\ profile[p] \in {"pending", "active", "gone"}
  /\ ByHand
  /\ WhitelistAddress(p) \/ RemoveFromWhitelist(p)
  /\ UNCHANGED <<kind, profile, login, outbox, task>>

-----------------------------------------------------------------------------
\* The process dies, or a call not handled above throws.
Abort(a) ==
  /\ task[a] # Idle
  /\ Fault
  /\ Finish(a)
  /\ UNCHANGED <<kind, profile, login, listed, outbox>>

Proceed(a) ==
  \/ CreateProfile(a)
  \/ CreateLogin(a)
  \/ Rollback(a)
  \/ Admit(a)
  \/ ListWallet(a)
  \/ Capture(a)
  \/ FindProfile(a)
  \/ SaveActive(a)
  \/ MarkDone(a)
  \/ Throw(a)
  \/ TakeRow(a)
  \/ Unlist(a)
  \/ DeleteLogins(a)
  \/ DeleteProfile(a)

Next ==
  \/ \E p \in Profiles : Administer(p)
  \/ \E a \in Actors :
    \/ Register(a)
    \/ RegisterUser(a)
    \/ AdmitAsGiven(a)
    \/ \E p \in Profiles : Approve(a, p) \/ Remove(a, p)
    \/ FetchDue(a)
    \/ Proceed(a)
    \/ CreateLoginFails(a)
    \/ CaptureFails(a)
    \/ MirrorFails(a)
    \/ UnlistFails(a)
    \/ Abort(a)

Spec == Init /\ [][Next]_vars

\* Handlers go on while the process lives; the outbox processor is on a timer.
FairSpec ==
  /\ Spec
  /\ \A a \in Actors : WF_vars(Proceed(a))
  /\ SF_vars(\E a \in Actors : FetchDue(a))

-----------------------------------------------------------------------------
TypeOK ==
  /\ kind \in Kinds
  /\ profile \in [Profiles -> {"new", "pending", "active", "walletless", "gone"}]
  /\ login \in Profiles \cup {Nobody}
  /\ listed \subseteq Profiles
  /\ outbox \in Seq(Row)
  /\ task \in [Actors -> Task]
  /\ left \in [rows : Nat, ops : Nat, faults : Nat]

Busy(pcs, p) == \E a \in Actors : task[a].for = p /\ task[a].pc \in pcs
NoFault == left.faults = MaxFaults

(***************************************************************************)
(* Who is active here may act there: the contract lists the wallet of every*)
(* active profile.  Only while a sub-admin is being removed, or after a    *)
(* failure in the middle of that, is one active and no longer listed; or an*)
(* administrator has changed the list by hand, or registered a company that*)
(* comes with a status of its own, which nothing here notes.               *)
(***************************************************************************)
ActiveIsListed ==
  \A p \in Profiles :
    profile[p] = "active" /\ p \notin listed =>
      \/ kind = "officer" /\ (Busy({"logins", "delete"}, p) \/ ~NoFault)
      \/ kind = "company" /\ left.ops < MaxOps

(***************************************************************************)
(* Two registrations of one address, in one of the two ways, approvals and *)
(* removals leave no profile nobody can log in to, unless a step fails or  *)
(* its process dies.                                                       *)
(***************************************************************************)
ProfileHasLogin ==
  \A p \in Profiles :
    Exists(p) /\ login # p => Busy({"login", "rollback", "delete"}, p) \/ ~NoFault

(***************************************************************************)
(* An approval that reached the outbox takes effect: its profile becomes   *)
(* active, or is removed, although the mirror, or its process, failed.     *)
(* Only when as many calls have failed as a row has attempts may the row   *)
(* be given up instead, and then nothing replays it any more.              *)
(***************************************************************************)
GivenUp(p) ==
  /\ \E i \in DOMAIN outbox : outbox[i].for = p /\ outbox[i].status = "failed"
  /\ MaxFaults - left.faults >= MaxAttempts

ApprovalArrives ==
  \A p \in Profiles :
    (\E i \in Pending : outbox[i].for = p) ~> profile[p] \in {"active", "gone"} \/ GivenUp(p)
=============================================================================
