------------------------------- MODULE Sessions -------------------------------
(***************************************************************************)
(* The logins and refresh tokens of one account (login, issueRefreshToken  *)
(* and refresh of services/auth.service.js), and the role it is given and  *)
(* signs in with (services/user.service.js).  Requests load a document,    *)
(* wait for bcrypt, and save it; other requests run meanwhile.             *)
(*                                                                         *)
(* An access token is a signed statement of the account's role.  Nothing   *)
(* is stored of it, and requireAuth goes by it alone until it expires.     *)
(*                                                                         *)
(* Passwords and tokens are right or wrong: what they are made of is left  *)
(* out, and a token that does not exist changes nothing.                   *)
(***************************************************************************)
EXTENDS Integers

CONSTANTS
  Requests, \* requests that may be under way at once
  Tokens,   \* bound: refresh tokens that can be issued
  Nothing,  \* no token
  MaxFails, \* LOGIN_LOCKOUT_THRESHOLD
  Given     \* the roles the account may have been created with

ASSUME SessionsAssumption ==
  /\ Nothing \notin Tokens
  /\ MaxFails \in Nat \ {0}
  /\ Given \subseteq {"company_admin", "sub_admin", "regulator_admin", "super_admin"}

\* A super_admin may promote the account to the first, demote it to the second.
Appointments == {"regulator_admin", "company_admin"}
Roles == Given \cup Appointments

VARIABLES
  user,   \* the User: [exists, failed, lock, role]
  token,  \* the state of each RefreshToken
  access, \* the roles of the access tokens that are out and have not expired
  task    \* what each request is doing

vars == <<user, token, access, task>>

\* failed is failedLoginCount, which matters only up to MaxFails; lock says
\* whether lockedUntil is null, in the future or in the past.
User == [exists : BOOLEAN, failed : 0..MaxFails, lock : {"none", "ahead", "past"},
         role : Roles \cup {"none"}]
TokenStates == {"unissued", "live", "expired", "revoked"}

\* loaded, state: the User, or the state of the token, as it was read; token: the
\* one presented, Nothing at a login; role: what is signed into the access token,
\* or what the account is to become.
Task == [pc : {"idle", "verify", "compare", "owner", "issue", "appoint"},
         loaded : User, token : Tokens \cup {Nothing}, state : {"none", "live", "revoked"},
         role : Roles \cup {"none"}]
NoUser == [exists |-> FALSE, failed |-> 0, lock |-> "none", role |-> "none"]
Idle == [pc |-> "idle", loaded |-> NoUser, token |-> Nothing, state |-> "none", role |-> "none"]

Init ==
  /\ \E role \in Given :
       user = [exists |-> TRUE, failed |-> 0, lock |-> "none", role |-> role]
  /\ access = {}
  /\ token = [t \in Tokens |-> "unissued"]
  /\ task = [r \in Requests |-> Idle]

GoTo(r, pc) == task' = [task EXCEPT ![r].pc = pc]
Finish(r) == task' = [task EXCEPT ![r] = Idle]

-----------------------------------------------------------------------------
(* login *)

LoginRequest(r) ==
  /\ task[r].pc = "idle"
  /\ user.exists
  /\ user.lock # "ahead"
  /\ task' = [task EXCEPT ![r] = [Idle EXCEPT !.pc = "verify", !.loaded = user]]
  /\ UNCHANGED <<user, token, access>>

\* Mutant: only the failure that reaches the threshold locks.
Counted(loaded, db) ==
  LET failed == loaded.failed + 1
  IN [db EXCEPT !.failed = IF failed > MaxFails THEN MaxFails ELSE failed,
                !.lock = IF failed = MaxFails THEN "ahead" ELSE @]

\* The counter of the document that was loaded, plus one, and the lock from it;
\* only what changed is written.
Failed(loaded, db) ==
  LET failed == IF loaded.failed = MaxFails THEN MaxFails ELSE loaded.failed + 1
  IN [db EXCEPT !.failed = failed,
                !.lock = IF failed = MaxFails THEN "ahead" ELSE @]

\* A save of a deleted User throws.
WrongPassword(r) ==
  /\ task[r].pc = "verify"
  /\ user' = IF user.exists THEN Failed(task[r].loaded, user) ELSE user
  /\ Finish(r)
  /\ UNCHANGED <<token, access>>

\* Mutant: the document is written back as it was loaded, cleared.
ClearedWhole(loaded, db) == [loaded EXCEPT !.failed = 0, !.lock = "none"]

\* Failures and lock are cleared, if there were any when the document was loaded.
Cleared(loaded, db) ==
  [db EXCEPT !.failed = IF loaded.failed = 0 THEN @ ELSE 0,
             !.lock = IF loaded.lock = "none" THEN @ ELSE "none"]

RightPassword(r) ==
  /\ task[r].pc = "verify"
  /\ user' = IF user.exists THEN Cleared(task[r].loaded, user) ELSE user
  /\ task' = [task EXCEPT ![r] = IF user.exists
                                 THEN [Idle EXCEPT !.pc = "issue", !.role = task[r].loaded.role]
                                 ELSE Idle]
  /\ UNCHANGED <<token, access>>

\* issueRefreshToken, for a login or for the token presented; the access token
\* signed before goes out with it.
Issue(r) ==
  LET unissued == {t \in Tokens : token[t] = "unissued"}
      next == CHOOSE t \in unissued : TRUE
  IN /\ task[r].pc = "issue"
     /\ unissued # {}
     /\ token' = [token EXCEPT ![next] = "live"]
     /\ access' = access \cup {task[r].role}
     /\ Finish(r)
     /\ UNCHANGED user

-----------------------------------------------------------------------------
(* refresh *)

\* Mutant: a token that was revoked is taken for a live one.
PresentUnchecked(r, t) ==
  /\ task[r].pc = "idle"
  /\ token[t] # "unissued"
  /\ task' = [task EXCEPT ![r] = [Idle EXCEPT !.pc = "compare", !.token = t, !.state = "live"]]
  /\ UNCHANGED <<user, token, access>>

Present(r, t) ==
  /\ task[r].pc = "idle"
  /\ token[t] # "unissued"
  /\ task' = [task EXCEPT ![r] = [Idle EXCEPT !.pc = "compare", !.token = t,
                 !.state = IF token[t] = "revoked" THEN "revoked" ELSE "live"]]
  /\ UNCHANGED <<user, token, access>>

\* A token that had been revoked when it was looked up: all sessions end.
Reuse(r) ==
  /\ task[r].pc = "compare"
  /\ task[r].state = "revoked"
  /\ token' = [t \in Tokens |-> IF token[t] \in {"live", "expired"}
                                THEN "revoked" ELSE token[t]]
  /\ Finish(r)
  /\ UNCHANGED <<user, access>>

\* A token that another request has revoked since may have expired as well.
Expired(r) ==
  /\ task[r].pc = "compare"
  /\ task[r].state = "live"
  /\ token[task[r].token] # "live"
  /\ Finish(r)
  /\ UNCHANGED <<user, token, access>>

\* revokedAt is set, also when another request has set it since.
Rotate(r) ==
  /\ task[r].pc = "compare"
  /\ task[r].state = "live"
  /\ token[task[r].token] # "expired"
  /\ token' = [token EXCEPT ![task[r].token] = "revoked"]
  /\ GoTo(r, "owner")
  /\ UNCHANGED <<user, access>>

FindOwner(r) ==
  /\ task[r].pc = "owner"
  /\ IF user.exists
     THEN task' = [task EXCEPT ![r].pc = "issue", ![r].role = user.role]
     ELSE Finish(r)
  /\ UNCHANGED <<user, token, access>>

-----------------------------------------------------------------------------
(* promoteUserToRegulatorAdmin and demoteRegulatorAdmin: load, set, save. *)

AppointRequest(r, role) ==
  /\ task[r].pc = "idle"
  /\ user.exists
  /\ task' = [task EXCEPT ![r] = [Idle EXCEPT !.pc = "appoint", !.role = role,
                                                !.loaded = [NoUser EXCEPT !.role = user.role]]]
  /\ UNCHANGED <<user, token, access>>

\* A role that is the one that was loaded is not written.
Appoint(r) ==
  /\ task[r].pc = "appoint"
  /\ user' = IF user.exists /\ task[r].role # task[r].loaded.role
             THEN [user EXCEPT !.role = task[r].role] ELSE user
  /\ Finish(r)
  /\ UNCHANGED <<token, access>>

-----------------------------------------------------------------------------
\* Time passes: a lock, a token ends.
LockEnds ==
  /\ user.lock = "ahead"
  /\ user' = [user EXCEPT !.lock = "past"]
  /\ UNCHANGED <<token, access, task>>

TokenExpires(t) ==
  /\ token[t] = "live"
  /\ token' = [token EXCEPT ![t] = "expired"]
  /\ UNCHANGED <<user, access, task>>

AccessExpires(role) ==
  /\ role \in access
  /\ access' = access \ {role}
  /\ UNCHANGED <<user, token, task>>

\* The account is removed with its company or sub-admin; its tokens stay.
DeleteUser ==
  /\ user.exists
  /\ user' = NoUser
  /\ UNCHANGED <<token, access, task>>

Crash(r) ==
  /\ task[r].pc # "idle"
  /\ Finish(r)
  /\ UNCHANGED <<user, token, access>>

Next ==
  \/ \E r \in Requests :
       \/ LoginRequest(r)
       \/ WrongPassword(r)
       \/ RightPassword(r)
       \/ Issue(r)
       \/ \E t \in Tokens : Present(r, t)
       \/ Reuse(r)
       \/ Expired(r)
       \/ Rotate(r)
       \/ FindOwner(r)
       \/ \E role \in Appointments : AppointRequest(r, role)
       \/ Appoint(r)
       \/ Crash(r)
  \/ LockEnds
  \/ \E t \in Tokens : TokenExpires(t)
  \/ \E role \in Roles : AccessExpires(role)
  \/ DeleteUser

Spec == Init /\ [][Next]_vars

-----------------------------------------------------------------------------
TypeOK ==
  /\ user \in User
  /\ token \in [Tokens -> TokenStates]
  /\ access \in SUBSET Roles
  /\ task \in [Requests -> Task]

\* A request that found the token good, and is on its way to exchange it.
Spends(k, t) == k.token = t /\ (k.state = "live" \/ k.pc \in {"owner", "issue"})

Spent(t) == token[t] = "revoked" /\ \A r \in Requests : ~Spends(task[r], t)

(***************************************************************************)
(* A token is spent for good: once it is revoked, and those who had looked *)
(* it up before are through, nobody ever gets on the way to another token  *)
(* for it, and replays, the end of all sessions, expiry and logins do not  *)
(* revive it.                                                              *)
(***************************************************************************)
SpentForGood == [][\A t \in Tokens : Spent(t) => Spent(t)']_vars

\* The account has not the role, and no request is to give it that.
TakenAway(role) ==
  /\ user.role # role
  /\ \A r \in Requests : task[r].pc = "appoint" => task[r].role # role

\* Nor has an access token the role, nor is a request to sign one.
Gone(role) ==
  /\ TakenAway(role)
  /\ role \notin access
  /\ \A r \in Requests : task[r].role # role /\ task[r].loaded.role # role

(***************************************************************************)
(* A role that was taken away does not come back with the save of an older *)
(* copy of the account; and when the last access token that carries it has *)
(* expired, neither a login nor a refresh token of that time brings it back*)
(* into use.  Only a new appointment does.                                 *)
(***************************************************************************)
RoleGoneForGood ==
  [][\A role \in Roles :
       /\ TakenAway(role) => TakenAway(role)' \/ \E r \in Requests : AppointRequest(r, role)
       /\ Gone(role) => Gone(role)' \/ \E r \in Requests : AppointRequest(r, role)]_vars

(***************************************************************************)
(* The lockout cannot be outrun: although attempts that overlap count as   *)
(* one, and a slow one sets the counter back, an account whose password is *)
(* guessed wrong again and again, and never right, is locked, again and    *)
(* again.                                                                  *)
(***************************************************************************)
LockoutComes ==
  /\ []<><<\E r \in Requests : WrongPassword(r)>>_vars
  /\ <>[][~\E r \in Requests : RightPassword(r)]_vars
  => []<>(user.lock = "ahead" \/ ~user.exists)
=============================================================================
