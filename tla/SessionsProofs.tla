---------------------------- MODULE SessionsProofs ----------------------------
(***************************************************************************)
(* A spent refresh token stays spent, and a role that was taken away stays *)
(* away, for any number of concurrent requests, tokens and failed logins.  *)
(***************************************************************************)
EXTENDS Sessions, TLAPS

\* What a request has in hand at each of its steps.
InHand(t) ==
  /\ t.pc \in {"compare", "owner"} => t.token \in Tokens
  /\ t.pc = "verify" => t.loaded.role \in Roles
  /\ t.pc \in {"issue", "appoint"} => t.role \in Roles

Equipped == \A r \in Requests : InHand(task[r])

SessionInv ==
  /\ TypeOK
  /\ Equipped
  /\ user.exists => user.role \in Roles

LEMMA IdleIsTask == Idle \in Task /\ Idle.pc = "idle" /\ InHand(Idle) /\ NoUser \in User
BY SessionsAssumption DEF Idle, Task, NoUser, User, InHand

LEMMA RolesAreNamed == "none" \notin Roles
BY SessionsAssumption DEF Roles, Appointments

\* What a request has in hand may be replaced by anything of its type.
LEMMA Reassigned ==
  ASSUME SessionInv, NEW r \in Requests, NEW t \in Task,
         InHand(t),
         task' = [task EXCEPT ![r] = t]
  PROVE  task' \in [Requests -> Task] /\ Equipped'
<1>1. task \in [Requests -> Task]  BY DEF SessionInv, TypeOK
<1>2. task' \in [Requests -> Task]  BY <1>1
<1>3. \A q \in Requests : task'[q] = IF q = r THEN t ELSE task[q]  BY <1>1
<1>4. Equipped'  BY <1>3 DEF SessionInv, Equipped
<1>. QED  BY <1>2, <1>4

LEMMA SessionInitial == Init => SessionInv
<1>. SUFFICES ASSUME Init PROVE SessionInv
  OBVIOUS
<1>1. user \in User  BY SessionsAssumption DEF Init, User, Roles
<1>2. token \in [Tokens -> TokenStates]  BY DEF Init, TokenStates
<1>3. task \in [Requests -> Task] /\ Equipped  BY IdleIsTask DEF Init, Equipped
<1>4. access \in SUBSET Roles  BY DEF Init
<1>5. user.role \in Roles  BY DEF Init, Roles
<1>. QED  BY <1>1, <1>2, <1>3, <1>4, <1>5 DEF SessionInv, TypeOK

LEMMA FinishStep ==
  ASSUME SessionInv, NEW r \in Requests, Finish(r)
  PROVE  task' \in [Requests -> Task] /\ Equipped'
BY IdleIsTask, Reassigned DEF Finish

-----------------------------------------------------------------------------
\* The counter and the lock of an account may be replaced by anything of their types.
LEMMA CounterReplaced ==
  ASSUME NEW db \in User, NEW f \in 0..MaxFails, NEW l \in {"none", "ahead", "past"}
  PROVE  /\ [db EXCEPT !.failed = f, !.lock = l] \in User
         /\ [db EXCEPT !.failed = f, !.lock = l].role = db.role
         /\ [db EXCEPT !.failed = f, !.lock = l].exists = db.exists
BY DEF User

\* Neither outcome of a login changes the role.
LEMMA LoginKeepsRole ==
  ASSUME NEW loaded \in User, NEW db \in User
  PROVE  /\ Failed(loaded, db) \in User /\ Failed(loaded, db).role = db.role
         /\ Failed(loaded, db).exists = db.exists
         /\ Cleared(loaded, db) \in User /\ Cleared(loaded, db).role = db.role
         /\ Cleared(loaded, db).exists = db.exists
<1>. DEFINE n == IF loaded.failed = MaxFails THEN MaxFails ELSE loaded.failed + 1
            l == IF n = MaxFails THEN "ahead" ELSE db.lock
            m == IF loaded.failed = 0 THEN db.failed ELSE 0
            k == IF loaded.lock = "none" THEN db.lock ELSE "none"
<1>1. /\ loaded.failed \in 0..MaxFails /\ db.failed \in 0..MaxFails /\ MaxFails \in Nat \ {0}
      /\ db.lock \in {"none", "ahead", "past"}
  BY SessionsAssumption DEF User
<1>2. n \in 0..MaxFails /\ m \in 0..MaxFails  BY <1>1
<1>3. l \in {"none", "ahead", "past"} /\ k \in {"none", "ahead", "past"}  BY <1>1
<1>4. Failed(loaded, db) = [db EXCEPT !.failed = n, !.lock = l]  BY DEF Failed
<1>5. Cleared(loaded, db) = [db EXCEPT !.failed = m, !.lock = k]  BY DEF Cleared
<1>6. LET d == [db EXCEPT !.failed = n, !.lock = l]
      IN d \in User /\ d.role = db.role /\ d.exists = db.exists
  <2>. HIDE DEF n, l
  <2>. QED  BY <1>2, <1>3, CounterReplaced
<1>7. LET d == [db EXCEPT !.failed = m, !.lock = k]
      IN d \in User /\ d.role = db.role /\ d.exists = db.exists
  <2>. HIDE DEF m, k
  <2>. QED  BY <1>2, <1>3, CounterReplaced
<1>. QED  BY <1>4, <1>5, <1>6, <1>7

\* The steps of a login.
LEMMA LoginStep ==
  ASSUME SessionInv, NEW r \in Requests,
         LoginRequest(r) \/ WrongPassword(r) \/ RightPassword(r)
  PROVE  SessionInv'
<1>1. /\ user \in User /\ task[r] \in Task /\ task \in [Requests -> Task]
      /\ token \in [Tokens -> TokenStates] /\ access \in SUBSET Roles
  BY DEF SessionInv, TypeOK
<1>2. task[r].loaded \in User /\ MaxFails \in Nat \ {0}  BY <1>1, SessionsAssumption DEF Task
<1>3. CASE LoginRequest(r)
  <2>. DEFINE t == [Idle EXCEPT !.pc = "verify", !.loaded = user]
  <2>1. t \in Task /\ InHand(t)
    BY <1>1, <1>3, IdleIsTask DEF Task, InHand, LoginRequest, SessionInv
  <2>2. task' \in [Requests -> Task] /\ Equipped'
    BY <1>3, <2>1, Reassigned DEF LoginRequest
  <2>. QED  BY <1>3, <2>2 DEF LoginRequest, SessionInv, TypeOK
<1>4. CASE WrongPassword(r)
  <2>1. Failed(task[r].loaded, user) \in User
    BY <1>1, <1>2, LoginKeepsRole
  <2>2. user' \in User /\ user'.role = user.role /\ user'.exists = user.exists
    BY <1>1, <1>2, <1>4, <2>1, LoginKeepsRole DEF WrongPassword
  <2>. QED  BY <1>1, <1>4, <2>2, FinishStep DEF WrongPassword, SessionInv, TypeOK
<1>5. CASE RightPassword(r)
  <2>. DEFINE t == [Idle EXCEPT !.pc = "issue", !.role = task[r].loaded.role]
  <2>1. Cleared(task[r].loaded, user) \in User
    BY <1>1, <1>2, LoginKeepsRole
  <2>2. user' \in User /\ user'.role = user.role /\ user'.exists = user.exists
    BY <1>1, <1>2, <1>5, <2>1, LoginKeepsRole DEF RightPassword
  <2>3. t \in Task /\ InHand(t)
    BY <1>1, <1>2, <1>5, IdleIsTask DEF Task, User, InHand, RightPassword, SessionInv, Equipped
  <2>4. task' = [task EXCEPT ![r] = t] \/ Finish(r)
    BY <1>5 DEF RightPassword, Finish
  <2>5. task' \in [Requests -> Task] /\ Equipped'
    BY <2>3, <2>4, Reassigned, FinishStep
  <2>. QED  BY <1>1, <1>5, <2>2, <2>5 DEF RightPassword, SessionInv, TypeOK
<1>. QED  BY <1>3, <1>4, <1>5

LEMMA NextToken ==
  ASSUME SessionInv, NEW r \in Requests, Issue(r)
  PROVE  \E next \in Tokens :
           token[next] = "unissued" /\ token' = [token EXCEPT ![next] = "live"]
<1>. DEFINE unissued == {t \in Tokens : token[t] = "unissued"}
            next == CHOOSE t \in unissued : TRUE
<1>1. unissued # {} /\ token' = [token EXCEPT ![next] = "live"]
  BY DEF Issue
<1>2. next \in unissued  BY <1>1
<1>. QED  BY <1>1, <1>2

LEMMA IssueStep ==
  ASSUME SessionInv, NEW r \in Requests, Issue(r)
  PROVE  SessionInv'
<1>1. /\ user \in User /\ task[r] \in Task /\ token \in [Tokens -> TokenStates]
      /\ access \in SUBSET Roles /\ task \in [Requests -> Task]
  BY DEF SessionInv, TypeOK
<1>2. PICK next \in Tokens : token' = [token EXCEPT ![next] = "live"]
  BY NextToken
<1>4. token' \in [Tokens -> TokenStates]  BY <1>1, <1>2 DEF TokenStates
<1>5. task[r].role \in Roles  BY DEF Issue, SessionInv, Equipped, InHand
<1>6. access' \in SUBSET Roles  BY <1>1, <1>5 DEF Issue
<1>. QED  BY <1>1, <1>4, <1>6, FinishStep DEF Issue, SessionInv, TypeOK

\* The steps of a refresh.
LEMMA RefreshStep ==
  ASSUME SessionInv, NEW r \in Requests,
         \/ \E t \in Tokens : Present(r, t)
         \/ Reuse(r) \/ Expired(r) \/ Rotate(r) \/ FindOwner(r)
  PROVE  SessionInv'
<1>1. /\ user \in User /\ task[r] \in Task /\ token \in [Tokens -> TokenStates]
      /\ access \in SUBSET Roles /\ task \in [Requests -> Task] /\ InHand(task[r])
  BY DEF SessionInv, TypeOK, Equipped
<1>2. ASSUME NEW t \in Tokens, Present(r, t) PROVE SessionInv'
  <2>. DEFINE state == IF token[t] = "revoked" THEN "revoked" ELSE "live"
              n     == [Idle EXCEPT !.pc = "compare", !.token = t, !.state = state]
  <2>1. n \in Task /\ InHand(n)  BY IdleIsTask DEF Task, InHand
  <2>2. task' = [task EXCEPT ![r] = n]  BY <1>2 DEF Present
  <2>. HIDE DEF n
  <2>3. task' \in [Requests -> Task] /\ Equipped'  BY <2>1, <2>2, Reassigned
  <2>. QED  BY <1>2, <2>3 DEF Present, SessionInv, TypeOK
<1>3. CASE Reuse(r)
  <2>1. token' \in [Tokens -> TokenStates]
    BY <1>1, <1>3 DEF Reuse, TokenStates, SessionInv
  <2>. QED  BY <1>3, <2>1, FinishStep DEF Reuse, SessionInv, TypeOK
<1>4. CASE Expired(r)
  BY <1>4, FinishStep DEF Expired, SessionInv, TypeOK
<1>5. CASE Rotate(r)
  <2>. DEFINE n == [task[r] EXCEPT !.pc = "owner"]
  <2>1. task[r].token \in Tokens  BY <1>1, <1>5 DEF Rotate, InHand
  <2>2. token' \in [Tokens -> TokenStates]
    BY <1>1, <1>5, <2>1 DEF Rotate, TokenStates, SessionInv
  <2>3. n \in Task /\ InHand(n)  BY <1>1, <2>1 DEF Task, InHand
  <2>4. task' = [task EXCEPT ![r] = n]  BY <1>1, <1>5 DEF Rotate, GoTo
  <2>. HIDE DEF n
  <2>5. task' \in [Requests -> Task] /\ Equipped'  BY <2>3, <2>4, Reassigned
  <2>. QED  BY <1>5, <2>2, <2>5 DEF Rotate, SessionInv, TypeOK
<1>6. CASE FindOwner(r)
  <2>. DEFINE n == [task[r] EXCEPT !.pc = "issue", !.role = user.role]
  <2>1. CASE user.exists
    <3>1. user.role \in Roles  BY <2>1 DEF SessionInv
    <3>2. n \in Task /\ InHand(n)  BY <1>1, <3>1 DEF Task, InHand
    <3>3. task' = [task EXCEPT ![r] = n]  BY <1>1, <1>6, <2>1 DEF FindOwner
    <3>. HIDE DEF n
    <3>. QED  BY <1>6, <3>2, <3>3, Reassigned DEF FindOwner, SessionInv, TypeOK
  <2>2. CASE ~user.exists
    BY <1>6, <2>2, FinishStep DEF FindOwner, SessionInv, TypeOK
  <2>. QED  BY <2>1, <2>2
<1>. QED  BY <1>2, <1>3, <1>4, <1>5, <1>6

\* An appointment, in its two steps.
LEMMA AppointStep ==
  ASSUME SessionInv, NEW r \in Requests,
         Appoint(r) \/ \E role \in Appointments : AppointRequest(r, role)
  PROVE  SessionInv'
<1>1. /\ user \in User /\ task[r] \in Task /\ task \in [Requests -> Task] /\ InHand(task[r])
  BY DEF SessionInv, TypeOK, Equipped
<1>2. CASE Appoint(r)
  <2>1. task[r].role \in Roles  BY <1>1, <1>2 DEF Appoint, InHand
  <2>2. user' \in User /\ (user'.exists => user'.role \in Roles)
    BY <1>1, <1>2, <2>1 DEF Appoint, User, SessionInv
  <2>. QED  BY <1>2, <2>2, FinishStep DEF Appoint, SessionInv, TypeOK
<1>3. ASSUME NEW role \in Appointments, AppointRequest(r, role) PROVE SessionInv'
  <2>. DEFINE loaded == [NoUser EXCEPT !.role = user.role]
              n      == [Idle EXCEPT !.pc = "appoint", !.role = role, !.loaded = loaded]
  <2>1. loaded \in User  BY <1>1, IdleIsTask DEF User
  <2>2. n \in Task /\ InHand(n)
    <3>. HIDE DEF loaded
    <3>. QED  BY <2>1, IdleIsTask DEF Task, InHand, Roles
  <2>3. task' = [task EXCEPT ![r] = n]  BY <1>3 DEF AppointRequest
  <2>. HIDE DEF n
  <2>. QED  BY <1>3, <2>2, <2>3, Reassigned DEF AppointRequest, SessionInv, TypeOK
<1>. QED  BY <1>2, <1>3

\* Time passes, the account goes, a request is abandoned.
LEMMA OtherStep ==
  ASSUME SessionInv,
         \/ \E r \in Requests : Crash(r)
         \/ LockEnds
         \/ \E t \in Tokens : TokenExpires(t)
         \/ \E role \in Roles : AccessExpires(role)
         \/ DeleteUser
  PROVE  SessionInv'
<1>1. user \in User /\ token \in [Tokens -> TokenStates] /\ access \in SUBSET Roles
  BY DEF SessionInv, TypeOK
<1>2. ASSUME NEW r \in Requests, Crash(r) PROVE SessionInv'
  BY <1>2, FinishStep DEF Crash, SessionInv, TypeOK
<1>3. CASE LockEnds
  <2>1. user' \in User /\ user'.exists = user.exists /\ user'.role = user.role
    BY <1>1, <1>3 DEF LockEnds, User
  <2>. QED  BY <1>3, <2>1 DEF LockEnds, SessionInv, TypeOK, Equipped, InHand
<1>4. ASSUME NEW t \in Tokens, TokenExpires(t) PROVE SessionInv'
  <2>1. token' \in [Tokens -> TokenStates]
    BY <1>1, <1>4 DEF TokenExpires, TokenStates, SessionInv
  <2>. QED  BY <1>4, <2>1 DEF TokenExpires, SessionInv, TypeOK, Equipped, InHand
<1>5. ASSUME NEW role \in Roles, AccessExpires(role) PROVE SessionInv'
  BY <1>1, <1>5 DEF AccessExpires, SessionInv, TypeOK, Equipped, InHand
<1>6. CASE DeleteUser
  <2>1. user' \in User /\ ~user'.exists  BY <1>6, IdleIsTask DEF DeleteUser, NoUser
  <2>. QED  BY <1>6, <2>1 DEF DeleteUser, SessionInv, TypeOK, Equipped, InHand
<1>. QED  BY <1>2, <1>3, <1>4, <1>5, <1>6

LEMMA SessionStep == SessionInv /\ [Next]_vars => SessionInv'
<1>. SUFFICES ASSUME SessionInv, [Next]_vars PROVE SessionInv'
  OBVIOUS
<1>1. CASE UNCHANGED vars
  BY <1>1 DEF vars, SessionInv, TypeOK, Equipped, InHand
<1>2. CASE Next
  BY <1>2, LoginStep, IssueStep, RefreshStep, AppointStep, OtherStep DEF Next
<1>. QED  BY <1>1, <1>2

(***************************************************************************)
(* The account, the tokens and every request in hand keep their types.     *)
(***************************************************************************)
THEOREM SessionsTypeCorrect == Spec => []TypeOK
<1>1. SessionInv => TypeOK  BY DEF SessionInv
<1>. QED  BY SessionInitial, SessionStep, <1>1, PTL DEF Spec

-----------------------------------------------------------------------------
(* A spent token stays spent. *)

\* Other work that does not spend the token may be taken in hand.
LEMMA TakesUpOther ==
  ASSUME SessionInv, NEW t \in Tokens, Spent(t), NEW r \in Requests, NEW k,
         ~Spends(k, t), task' = [task EXCEPT ![r] = k]
  PROVE  \A q \in Requests : ~Spends(task'[q], t)
<1>1. \A q \in Requests : task'[q] = IF q = r THEN k ELSE task[q]
  BY DEF SessionInv, TypeOK
<1>. QED  BY <1>1 DEF Spent

LEMMA IdleSpendsNothing == ASSUME NEW t \in Tokens PROVE ~Spends(Idle, t)
BY SessionsAssumption DEF Idle, Spends

LEMMA FinishSpendsNothing ==
  ASSUME SessionInv, NEW t \in Tokens, Spent(t), NEW r \in Requests, Finish(r)
  PROVE  \A q \in Requests : ~Spends(task'[q], t)
BY IdleSpendsNothing, TakesUpOther DEF Finish

LEMMA SpentUntouched ==
  ASSUME NEW t \in Tokens, Spent(t), UNCHANGED token,
         \A q \in Requests : ~Spends(task'[q], t)
  PROVE  Spent(t)'
BY DEF Spent, Spends

LEMMA SpentLogin ==
  ASSUME SessionInv, NEW t \in Tokens, Spent(t), NEW r \in Requests,
         \/ LoginRequest(r) \/ WrongPassword(r) \/ RightPassword(r)
         \/ Appoint(r) \/ (\E role \in Appointments : AppointRequest(r, role))
         \/ Crash(r) \/ Expired(r)
  PROVE  Spent(t)'
<1>1. CASE LoginRequest(r)
  <2>. DEFINE k == [Idle EXCEPT !.pc = "verify", !.loaded = user]
  <2>1. ~Spends(k, t) /\ task' = [task EXCEPT ![r] = k] /\ UNCHANGED token
    BY <1>1, SessionsAssumption DEF LoginRequest, Spends, Idle
  <2>. QED  BY <2>1, TakesUpOther, SpentUntouched
<1>2. CASE RightPassword(r) /\ user.exists
  <2>. DEFINE k == [Idle EXCEPT !.pc = "issue", !.role = task[r].loaded.role]
  <2>1. ~Spends(k, t) /\ task' = [task EXCEPT ![r] = k] /\ UNCHANGED token
    BY <1>2, SessionsAssumption DEF RightPassword, Spends, Idle
  <2>. QED  BY <2>1, TakesUpOther, SpentUntouched
<1>3. CASE \E role \in Appointments : AppointRequest(r, role)
  <2>. PICK role \in Appointments : AppointRequest(r, role)  BY <1>3
  <2>. DEFINE k == [Idle EXCEPT !.pc = "appoint", !.role = role, !.loaded = [NoUser EXCEPT !.role = user.role]]
  <2>1. ~Spends(k, t) /\ task' = [task EXCEPT ![r] = k] /\ UNCHANGED token
    BY SessionsAssumption DEF AppointRequest, Spends, Idle
  <2>. QED  BY <2>1, TakesUpOther, SpentUntouched
<1>4. CASE WrongPassword(r) \/ Appoint(r) \/ Crash(r) \/ Expired(r) \/ (RightPassword(r) /\ ~user.exists)
  <2>1. Finish(r) /\ UNCHANGED token
    BY <1>4 DEF WrongPassword, Appoint, Crash, Expired, RightPassword, Finish
  <2>. QED  BY <2>1, FinishSpendsNothing, SpentUntouched
<1>. QED  BY <1>1, <1>2, <1>3, <1>4

LEMMA SpentIssue ==
  ASSUME SessionInv, NEW t \in Tokens, Spent(t), NEW r \in Requests, Issue(r)
  PROVE  Spent(t)'
<1>1. PICK next \in Tokens : token[next] = "unissued" /\ token' = [token EXCEPT ![next] = "live"]
  BY NextToken
<1>2. token \in [Tokens -> TokenStates] /\ task \in [Requests -> Task]  BY DEF SessionInv, TypeOK
<1>3. next # t /\ token'[t] = token[t]  BY <1>1, <1>2 DEF Spent
<1>4. \A q \in Requests : ~Spends(task'[q], t)  BY FinishSpendsNothing DEF Issue
<1>. QED  BY <1>3, <1>4 DEF Spent, Spends

LEMMA SpentRefresh ==
  ASSUME SessionInv, NEW t \in Tokens, Spent(t), NEW r \in Requests,
         \/ \E u \in Tokens : Present(r, u)
         \/ Reuse(r) \/ Rotate(r) \/ FindOwner(r)
  PROVE  Spent(t)'
<1>1. token \in [Tokens -> TokenStates] /\ task \in [Requests -> Task] /\ InHand(task[r])
  BY DEF SessionInv, TypeOK, Equipped
<1>2. CASE \E u \in Tokens : Present(r, u)
  <2>. PICK u \in Tokens : Present(r, u)  BY <1>2
  <2>. DEFINE state == IF token[u] = "revoked" THEN "revoked" ELSE "live"
              k     == [Idle EXCEPT !.pc = "compare", !.token = u, !.state = state]
  <2>1. k.token = u /\ k.state = state /\ k.pc = "compare"  BY DEF Idle
  <2>2. ~Spends(k, t)
    <3>1. CASE u = t  BY <2>1, <3>1 DEF Spends, Spent
    <3>2. CASE u # t  BY <2>1, <3>2 DEF Spends
    <3>. QED  BY <3>1, <3>2
  <2>3. task' = [task EXCEPT ![r] = k] /\ UNCHANGED token  BY DEF Present
  <2>. HIDE DEF k
  <2>. QED  BY <2>2, <2>3, TakesUpOther, SpentUntouched
<1>3. CASE Reuse(r)
  <2>1. token'[t] = token[t]  BY <1>1, <1>3 DEF Reuse, Spent
  <2>3. \A q \in Requests : ~Spends(task'[q], t)  BY <1>3, FinishSpendsNothing DEF Reuse
  <2>. QED  BY <2>1, <2>3 DEF Spent, Spends
<1>4. CASE Rotate(r)
  <2>. DEFINE k == [task[r] EXCEPT !.pc = "owner"]
  <2>1. task[r].token \in Tokens /\ task[r].token # t
    BY <1>1, <1>4 DEF Rotate, InHand, Spent, Spends
  <2>2. token'[t] = token[t]  BY <1>1, <1>4, <2>1 DEF Rotate
  <2>3. ~Spends(k, t)  BY <1>1, <2>1 DEF Spends, Task
  <2>4. task' = [task EXCEPT ![r] = k]  BY <1>1, <1>4 DEF Rotate, GoTo
  <2>. HIDE DEF k
  <2>5. \A q \in Requests : ~Spends(task'[q], t)  BY <2>3, <2>4, TakesUpOther
  <2>. QED  BY <2>2, <2>5 DEF Spent, Spends
<1>5. CASE FindOwner(r) /\ user.exists
  <2>. DEFINE k == [task[r] EXCEPT !.pc = "issue", !.role = user.role]
  <2>1. task[r].token # t  BY <1>5 DEF FindOwner, Spent, Spends
  <2>2. ~Spends(k, t)  BY <1>1, <2>1 DEF Spends, Task
  <2>3. task' = [task EXCEPT ![r] = k] /\ UNCHANGED token  BY <1>1, <1>5 DEF FindOwner
  <2>. HIDE DEF k
  <2>. QED  BY <2>2, <2>3, TakesUpOther, SpentUntouched
<1>6. CASE FindOwner(r) /\ ~user.exists
  <2>1. Finish(r) /\ UNCHANGED token  BY <1>6 DEF FindOwner
  <2>. QED  BY <2>1, FinishSpendsNothing, SpentUntouched
<1>. QED  BY <1>2, <1>3, <1>4, <1>5, <1>6

LEMMA SpentStep ==
  ASSUME SessionInv, NEW t \in Tokens, Spent(t), [Next]_vars
  PROVE  Spent(t)'
<1>1. CASE \E u \in Tokens : TokenExpires(u)
  <2>. PICK u \in Tokens : TokenExpires(u)  BY <1>1
  <2>1. token \in [Tokens -> TokenStates]  BY DEF SessionInv, TypeOK
  <2>2. u # t /\ token'[t] = token[t]  BY <2>1 DEF TokenExpires, Spent
  <2>. QED  BY <2>2 DEF TokenExpires, Spent, Spends
<1>2. CASE UNCHANGED <<token, task>>
  BY <1>2 DEF Spent, Spends
<1>3. ASSUME NEW r \in Requests,
             \/ LoginRequest(r) \/ WrongPassword(r) \/ RightPassword(r) \/ Issue(r)
             \/ (\E u \in Tokens : Present(r, u))
             \/ Reuse(r) \/ Expired(r) \/ Rotate(r) \/ FindOwner(r)
             \/ (\E role \in Appointments : AppointRequest(r, role))
             \/ Appoint(r) \/ Crash(r)
      PROVE  Spent(t)'
  BY <1>3, SpentLogin, SpentIssue, SpentRefresh
<1>4. CASE LockEnds \/ DeleteUser \/ (\E role \in Roles : AccessExpires(role)) \/ UNCHANGED vars
  BY <1>2, <1>4 DEF LockEnds, DeleteUser, AccessExpires, vars
<1>. QED  BY <1>1, <1>3, <1>4 DEF Next

(***************************************************************************)
(* A refresh token that was revoked and is in nobody's hands is never      *)
(* exchanged again.                                                        *)
(***************************************************************************)
THEOREM SpentForGoodCorrect == Spec => SpentForGood
<1>. DEFINE Step == \A t \in Tokens : Spent(t) => Spent(t)'
<1>1. SessionInv /\ [Next]_vars => Step  BY SpentStep
<1>. HIDE DEF Step
<1>2. SessionInv /\ [Next]_vars => [Step]_vars  BY <1>1
<1>3. Spec => [][Step]_vars  BY SessionInitial, SessionStep, <1>2, PTL DEF Spec
<1>. QED  BY <1>3 DEF SpentForGood, Step

-----------------------------------------------------------------------------
(* A role that was taken away stays away. *)

\* The work in hand does not give the role, or does not know of it.
Gives(k, role) == k.pc = "appoint" /\ k.role = role
Knows(k, role) == k.role = role \/ k.loaded.role = role

Away(role) == user.role # role /\ \A r \in Requests : ~Gives(task[r], role)
Unknown(role) == role \notin access /\ \A r \in Requests : ~Knows(task[r], role)

StaysAway(role) ==
  /\ Away(role)'
  /\ Unknown(role) => Unknown(role)'

LEMMA AwayIsTakenAway ==
  ASSUME NEW role
  PROVE  /\ TakenAway(role) <=> Away(role)
         /\ Gone(role) <=> Away(role) /\ Unknown(role)
BY DEF TakenAway, Gone, Away, Unknown, Gives, Knows

LEMMA NobodyIsGiven ==
  ASSUME NEW role \in Roles
  PROVE  ~Gives(Idle, role) /\ ~Knows(Idle, role) /\ NoUser.role # role
BY RolesAreNamed DEF Idle, NoUser, Gives, Knows

\* A step that hands a request other work, and gives nobody the role.
LEMMA OtherWork ==
  ASSUME SessionInv, NEW role \in Roles, Away(role), NEW r \in Requests, NEW k,
         task' = [task EXCEPT ![r] = k], user'.role # role, ~Gives(k, role),
         Unknown(role) => ~Knows(k, role) /\ role \notin access'
  PROVE  StaysAway(role)
<1>1. \A q \in Requests : task'[q] = IF q = r THEN k ELSE task[q]
  BY DEF SessionInv, TypeOK
<1>2. Away(role)'  BY <1>1 DEF Away
<1>3. Unknown(role) => Unknown(role)'  BY <1>1 DEF Unknown
<1>. QED  BY <1>2, <1>3 DEF StaysAway

LEMMA NoOtherWork ==
  ASSUME NEW role \in Roles, Away(role), UNCHANGED task, user'.role # role, access' \subseteq access
  PROVE  StaysAway(role)
BY DEF StaysAway, Away, Unknown, Gives, Knows

LEMMA AwayRequest ==
  ASSUME SessionInv, NEW role \in Roles, Away(role), NEW r \in Requests,
         ~AppointRequest(r, role),
         \/ LoginRequest(r) \/ WrongPassword(r) \/ RightPassword(r) \/ Issue(r)
         \/ (\E u \in Tokens : Present(r, u))
         \/ Reuse(r) \/ Expired(r) \/ Rotate(r) \/ FindOwner(r)
         \/ (\E other \in Appointments : AppointRequest(r, other))
         \/ Appoint(r) \/ Crash(r)
  PROVE  StaysAway(role)
<1>1. /\ user \in User /\ task \in [Requests -> Task]
      /\ user.role # role /\ ~Gives(task[r], role)
      /\ Unknown(role) => role \notin access /\ task[r].role # role /\ task[r].loaded.role # role
  BY DEF SessionInv, TypeOK, Away, Unknown, Knows
<1>2. task[r].loaded \in User  BY <1>1 DEF Task
<1>3. CASE LoginRequest(r)
  <2>. DEFINE k == [Idle EXCEPT !.pc = "verify", !.loaded = user]
  <2>1. task' = [task EXCEPT ![r] = k] /\ UNCHANGED <<user, access>>  BY <1>3 DEF LoginRequest
  <2>2. ~Gives(k, role) /\ ~Knows(k, role)
    BY <1>1, NobodyIsGiven DEF Gives, Knows, Idle
  <2>. HIDE DEF k
  <2>. QED  BY <1>1, <2>1, <2>2, OtherWork
<1>4. CASE WrongPassword(r)
  <2>1. user'.role # role
    <3>1. CASE user.exists  BY <1>1, <1>2, <1>4, <3>1, LoginKeepsRole DEF WrongPassword
    <3>2. CASE ~user.exists  BY <1>1, <1>4, <3>2 DEF WrongPassword
    <3>. QED  BY <3>1, <3>2
  <2>. QED  BY <1>1, <1>4, <2>1, OtherWork, NobodyIsGiven DEF WrongPassword, Finish
<1>5. CASE RightPassword(r)
  <2>. DEFINE k == [Idle EXCEPT !.pc = "issue", !.role = task[r].loaded.role]
  <2>1. user'.role # role
    <3>1. CASE user.exists  BY <1>1, <1>2, <1>5, <3>1, LoginKeepsRole DEF RightPassword
    <3>2. CASE ~user.exists  BY <1>1, <1>5, <3>2 DEF RightPassword
    <3>. QED  BY <3>1, <3>2
  <2>2. k.pc = "issue" /\ k.role = task[r].loaded.role /\ k.loaded = NoUser  BY DEF Idle
  <2>3. ~Gives(k, role) /\ (Unknown(role) => ~Knows(k, role))
    BY <1>1, <2>2, NobodyIsGiven DEF Gives, Knows
  <2>4. UNCHANGED access /\ (task' = [task EXCEPT ![r] = k] \/ task' = [task EXCEPT ![r] = Idle])
    BY <1>5 DEF RightPassword
  <2>. HIDE DEF k
  <2>5. CASE task' = [task EXCEPT ![r] = k]  BY <1>1, <2>1, <2>3, <2>4, <2>5, OtherWork
  <2>6. CASE task' = [task EXCEPT ![r] = Idle]
    BY <1>1, <2>1, <2>4, <2>6, NobodyIsGiven, OtherWork
  <2>. QED  BY <2>4, <2>5, <2>6
<1>6. CASE Issue(r)
  <2>1. task' = [task EXCEPT ![r] = Idle] /\ UNCHANGED user /\ access' = access \cup {task[r].role}
    BY <1>6 DEF Issue, Finish
  <2>. QED  BY <1>1, <2>1, NobodyIsGiven, OtherWork
<1>7. CASE \E u \in Tokens : Present(r, u)
  <2>. PICK u \in Tokens : Present(r, u)  BY <1>7
  <2>. DEFINE k == [Idle EXCEPT !.pc = "compare", !.token = u,
                       !.state = IF token[u] = "revoked" THEN "revoked" ELSE "live"]
  <2>1. task' = [task EXCEPT ![r] = k] /\ UNCHANGED <<user, access>>  BY DEF Present
  <2>2. ~Gives(k, role) /\ ~Knows(k, role)  BY NobodyIsGiven DEF Gives, Knows, Idle
  <2>. HIDE DEF k
  <2>. QED  BY <1>1, <2>1, <2>2, OtherWork
<1>8. CASE Reuse(r) \/ Expired(r) \/ Crash(r)
  <2>1. task' = [task EXCEPT ![r] = Idle] /\ UNCHANGED <<user, access>>
    BY <1>8 DEF Reuse, Expired, Crash, Finish
  <2>. QED  BY <1>1, <2>1, NobodyIsGiven, OtherWork
<1>9. CASE Rotate(r)
  <2>. DEFINE k == [task[r] EXCEPT !.pc = "owner"]
  <2>1. task' = [task EXCEPT ![r] = k] /\ UNCHANGED <<user, access>>
    BY <1>1, <1>9 DEF Rotate, GoTo
  <2>2. ~Gives(k, role) /\ (Unknown(role) => ~Knows(k, role))
    BY <1>1 DEF Gives, Knows, Task
  <2>. HIDE DEF k
  <2>. QED  BY <1>1, <2>1, <2>2, OtherWork
<1>10. CASE FindOwner(r)
  <2>. DEFINE k == [task[r] EXCEPT !.pc = "issue", !.role = user.role]
  <2>1. UNCHANGED <<user, access>> /\ (task' = [task EXCEPT ![r] = k] \/ task' = [task EXCEPT ![r] = Idle])
    BY <1>1, <1>10 DEF FindOwner, Finish
  <2>2. ~Gives(k, role) /\ (Unknown(role) => ~Knows(k, role))
    BY <1>1 DEF Gives, Knows, Task
  <2>. HIDE DEF k
  <2>3. CASE task' = [task EXCEPT ![r] = k]  BY <1>1, <2>1, <2>2, <2>3, OtherWork
  <2>4. CASE task' = [task EXCEPT ![r] = Idle]  BY <1>1, <2>1, <2>4, NobodyIsGiven, OtherWork
  <2>. QED  BY <2>1, <2>3, <2>4
<1>11. CASE \E other \in Appointments : AppointRequest(r, other)
  <2>. PICK other \in Appointments : AppointRequest(r, other)  BY <1>11
  <2>. DEFINE k == [Idle EXCEPT !.pc = "appoint", !.role = other, !.loaded = [NoUser EXCEPT !.role = user.role]]
  <2>1. task' = [task EXCEPT ![r] = k] /\ UNCHANGED <<user, access>>  BY DEF AppointRequest
  <2>2. other # role  OBVIOUS
  <2>3. k.pc = "appoint" /\ k.role = other /\ k.loaded.role = user.role  BY DEF Idle, NoUser
  <2>4. ~Gives(k, role) /\ ~Knows(k, role)  BY <1>1, <2>2, <2>3 DEF Gives, Knows
  <2>. HIDE DEF k
  <2>. QED  BY <1>1, <2>1, <2>4, OtherWork
<1>12. CASE Appoint(r)
  <2>1. task' = [task EXCEPT ![r] = Idle] /\ UNCHANGED access  BY <1>12 DEF Appoint, Finish
  <2>2. user'.role # role  BY <1>1, <1>12 DEF Appoint, Gives, User
  <2>. QED  BY <1>1, <2>1, <2>2, NobodyIsGiven, OtherWork
<1>. QED  BY <1>3, <1>4, <1>5, <1>6, <1>7, <1>8, <1>9, <1>10, <1>11, <1>12

LEMMA AwayStep ==
  ASSUME SessionInv, [Next]_vars, NEW role \in Roles, Away(role),
         \A r \in Requests : ~AppointRequest(r, role)
  PROVE  StaysAway(role)
<1>1. user \in User /\ user.role # role  BY DEF SessionInv, TypeOK, Away
<1>2. CASE UNCHANGED vars  BY <1>1, <1>2, NoOtherWork DEF vars
<1>3. CASE LockEnds
  BY <1>1, <1>3, NoOtherWork DEF LockEnds, User
<1>4. CASE \E t \in Tokens : TokenExpires(t)
  BY <1>1, <1>4, NoOtherWork DEF TokenExpires
<1>5. CASE \E other \in Roles : AccessExpires(other)
  BY <1>1, <1>5, NoOtherWork DEF AccessExpires
<1>6. CASE DeleteUser
  BY <1>6, NobodyIsGiven, NoOtherWork DEF DeleteUser
<1>. QED  BY <1>2, <1>3, <1>4, <1>5, <1>6, AwayRequest DEF Next

(***************************************************************************)
(* Only a new appointment brings back a role that was taken away, neither  *)
(* the save of an older copy of the account nor an older token.            *)
(***************************************************************************)
THEOREM RoleGoneCorrect == Spec => RoleGoneForGood
<1>. DEFINE Step == \A role \in Roles :
              /\ TakenAway(role) => TakenAway(role)' \/ \E r \in Requests : AppointRequest(r, role)
              /\ Gone(role) => Gone(role)' \/ \E r \in Requests : AppointRequest(r, role)
<1>1. SessionInv /\ [Next]_vars => Step
  <2>. SUFFICES ASSUME SessionInv, [Next]_vars, NEW role \in Roles, TakenAway(role),
                       \A r \in Requests : ~AppointRequest(r, role)
                PROVE  TakenAway(role)' /\ (Gone(role) => Gone(role)')
    BY DEF Gone
  <2>1. StaysAway(role)  BY AwayIsTakenAway, AwayStep
  <2>2. TakenAway(role)'  BY <2>1 DEF StaysAway, Away, TakenAway, Gives
  <2>3. Gone(role) => Gone(role)'
    <3>1. Gone(role) => Unknown(role)'  BY <2>1, AwayIsTakenAway DEF StaysAway
    <3>. QED  BY <2>2, <3>1 DEF Gone, Unknown, Knows
  <2>. QED  BY <2>2, <2>3
<1>. HIDE DEF Step
<1>2. SessionInv /\ [Next]_vars => [Step]_vars  BY <1>1
<1>3. Spec => [][Step]_vars  BY SessionInitial, SessionStep, <1>2, PTL DEF Spec
<1>. QED  BY <1>3 DEF RoleGoneForGood, Step
===============================================================================
