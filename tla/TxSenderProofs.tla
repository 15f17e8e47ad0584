---------------------------- MODULE TxSenderProofs ----------------------------
(***************************************************************************)
(* A call is applied at most once, its caller is told the truth, and the   *)
(* calls of an instance are applied in order, for any number of instances, *)
(* calls and faults, and any limits as long as a transaction dies before   *)
(* the wait for it ends.                                                   *)
(***************************************************************************)
EXTENDS TxSender, TLAPS

\* A call that has sent its transaction, or never will.
Sent == {"wait"} \cup Outcomes

InPool(c) == \E tx \in pool : tx.call = c
Logged(c) == Contains(ledger.log, c)

QueueInv ==
  /\ \A i \in Instances : \A m \in DOMAIN queue[i] : call[queue[i][m]].pc # "new"
  /\ \A i, j \in Instances : \A m \in DOMAIN queue[i], n \in DOMAIN queue[j] :
       queue[i][m] = queue[j][n] => i = j /\ m = n

\* What the pool may hold of a call, given what its caller was told of it.
Compatible(tx, k) ==
  /\ k.pc \in Sent
  /\ tx.attempt = k.attempt
  /\ k.pc = "wait" => tx.life <= k.patience
  /\ k.pc \in {"refused", "timeout"} => tx.life = 0

PoolInv ==
  /\ \A t, u \in pool : t = u
  /\ \A tx \in pool : Compatible(tx, call[tx.call])

\* Of what was found of the last attempt, the successes are in the log, and nothing
\* else is pending.
FoundInv ==
  \A r \in found :
    /\ call[r.call].pc # "new"
    /\ r.attempt <= call[r.call].attempt
    /\ r.attempt = call[r.call].attempt =>
         /\ call[r.call].pc \in {"queued"} \cup Sent
         /\ ~InPool(r.call)
         /\ r.ok <=> Logged(r.call)

LogInv ==
  \A c \in Calls :
    Logged(c) =>
      /\ call[c].pc \in Sent
      /\ \E r \in found : r.call = c /\ r.attempt = call[c].attempt

\* A call whose transaction is out finds those made before it settled for good.
OrderInv ==
  \A i \in Instances : \A m, n \in DOMAIN queue[i] :
    m < n /\ (InPool(queue[i][n]) \/ Logged(queue[i][n])) =>
      call[queue[i][m]].pc \in Outcomes /\ ~InPool(queue[i][m])

SenderInv ==
  /\ TypeOK
  /\ QueueInv
  /\ PoolInv
  /\ FoundInv
  /\ LogInv
  /\ OrderInv
  /\ AppliedAtMostOnce
  /\ TruthfulOutcome
  /\ AppliedInOrder

-----------------------------------------------------------------------------
LEMMA ContainsIff ==
  ASSUME NEW S, NEW s \in Seq(S), NEW e
  PROVE  Contains(s, e) <=> \E n \in DOMAIN s : s[n] = e
BY DEF Contains

LEMMA Appended ==
  ASSUME NEW S, NEW s \in Seq(S), NEW x \in S
  PROVE  /\ Append(s, x) \in Seq(S)
         /\ DOMAIN Append(s, x) = 1..(Len(s) + 1) /\ DOMAIN s = 1..Len(s) /\ Len(s) \in Nat
         /\ Append(s, x)[Len(s) + 1] = x
         /\ \A n \in DOMAIN s : Append(s, x)[n] = s[n]
OBVIOUS

LEMMA ContainsAppended ==
  ASSUME NEW S, NEW s \in Seq(S), NEW x \in S, NEW e
  PROVE  Contains(Append(s, x), e) <=> Contains(s, e) \/ e = x
<1>1. /\ Append(s, x) \in Seq(S)
      /\ DOMAIN Append(s, x) = 1..(Len(s) + 1) /\ DOMAIN s = 1..Len(s) /\ Len(s) \in Nat
      /\ Append(s, x)[Len(s) + 1] = x
      /\ \A n \in DOMAIN s : Append(s, x)[n] = s[n]
  BY Appended
<1>2. \A n \in DOMAIN Append(s, x) : n \in DOMAIN s \/ n = Len(s) + 1  BY <1>1
<1>3. \A n \in DOMAIN s : n \in DOMAIN Append(s, x)  BY <1>1
<1>4. Len(s) + 1 \in DOMAIN Append(s, x)  BY <1>1
<1>5. Contains(Append(s, x), e) <=> \E n \in DOMAIN Append(s, x) : Append(s, x)[n] = e
  BY <1>1, ContainsIff
<1>6. Contains(s, e) <=> \E n \in DOMAIN s : s[n] = e
  BY ContainsIff
<1>. QED  BY <1>1, <1>2, <1>3, <1>4, <1>5, <1>6

\* A call in a queue is one of the calls, and in one place.
LEMMA Queued ==
  ASSUME SenderInv, NEW i \in Instances, NEW m \in DOMAIN queue[i]
  PROVE  queue[i][m] \in Calls /\ m \in Nat
BY DEF SenderInv, TypeOK

LEMMA SenderInitial == Init => SenderInv
<1>. SUFFICES ASSUME Init PROVE SenderInv
  OBVIOUS
<1>1. TypeOK
  BY SenderAssumption DEF Init, TypeOK, Call, Tx
<1>2. /\ \A i \in Instances : queue[i] = <<>>
      /\ pool = {} /\ found = {} /\ ledger.log = <<>>
      /\ \A c \in Calls : call[c].pc = "new"
  BY DEF Init
<1>3. \A c \in Calls : ~Logged(c)  BY <1>2 DEF Logged, Contains
<1>4. QueueInv /\ OrderInv  BY <1>2 DEF QueueInv, OrderInv
<1>5. PoolInv /\ FoundInv  BY <1>2 DEF PoolInv, FoundInv
<1>6. LogInv /\ TruthfulOutcome  BY <1>2, <1>3 DEF LogInv, TruthfulOutcome
<1>7. AppliedAtMostOnce /\ AppliedInOrder
  BY <1>2 DEF AppliedAtMostOnce, AppliedInOrder, IsInjective
<1>. QED  BY <1>1, <1>4, <1>5, <1>6, <1>7 DEF SenderInv

-----------------------------------------------------------------------------
(* Steps of one call. *)

\* What a call may become without anything else changing: before it has sent
\* anything, whatever is not a confirmation, and built by another attempt only; while
\* it waits, an outcome that is true, or another attempt after a failed one.
MayBecome(c, k) ==
  \/ /\ call[c].pc \in {"queued", "built"} /\ k.pc \notin {"new", "done"}
     /\ k.attempt = IF k.pc = "built" THEN call[c].attempt + 1 ELSE call[c].attempt
  \/ /\ call[c].pc = "wait" /\ k.pc = "queued" /\ k.attempt = call[c].attempt
     /\ ~InPool(c) /\ ~Logged(c)
  \/ /\ call[c].pc = "wait" /\ k.pc \in Outcomes /\ k.attempt = call[c].attempt
     /\ k.pc = "done" => Logged(c)
     /\ k.pc \in {"refused", "timeout"} =>
          ~Logged(c) /\ \A tx \in pool : tx.call = c => tx.life = 0

LEMMA CallsMove ==
  ASSUME SenderInv, call' \in [Calls -> Call],
         \A d \in Calls : call'[d] = call[d] \/ MayBecome(d, call'[d]),
         UNCHANGED <<queue, pool, ledger, found>>, faults' \in Nat
  PROVE  SenderInv'
<1>. USE DEF SenderInv
<1>1. TypeOK /\ call \in [Calls -> Call] /\ pool \subseteq Tx  BY DEF TypeOK
<1>2. TypeOK'  BY <1>1 DEF TypeOK
<1>3. /\ \A d : InPool(d)' <=> InPool(d)
      /\ \A d : Logged(d)' <=> Logged(d)
  BY DEF InPool, Logged
<1>4. ASSUME NEW d \in Calls, call[d].pc \notin Sent PROVE ~InPool(d) /\ ~Logged(d)
  <2>1. InPool(d) => call[d].pc \in Sent  BY DEF PoolInv, InPool, Compatible
  <2>2. Logged(d) => call[d].pc \in Sent  BY DEF LogInv
  <2>. QED  BY <1>4, <2>1, <2>2
<1>5. ASSUME NEW d \in Calls, call[d].pc \in Sent
      PROVE  /\ call'[d].attempt = call[d].attempt
             /\ call'[d].pc \in Sent \/ (call'[d].pc = "queued" /\ ~InPool(d) /\ ~Logged(d))
  BY <1>5 DEF MayBecome, Sent, Outcomes
<1>6. QueueInv'
  <2>1. \A d \in Calls : call[d].pc # "new" => call'[d].pc # "new"
    BY DEF MayBecome, Outcomes
  <2>. QED  BY <2>1, Queued DEF QueueInv
<1>7. PoolInv'
  <2>1. ASSUME NEW tx \in pool PROVE Compatible(tx, call'[tx.call])
    <3>1. tx.call \in Calls /\ Compatible(tx, call[tx.call])  BY <1>1 DEF PoolInv, Tx
    <3>2. call[tx.call].pc \in Sent /\ tx.attempt = call[tx.call].attempt
      BY <3>1 DEF Compatible
    <3>3. CASE call'[tx.call] = call[tx.call]  BY <3>1, <3>3
    <3>4. CASE MayBecome(tx.call, call'[tx.call])
      <4>1. call'[tx.call].pc \in Outcomes
        BY <3>2, <3>4 DEF MayBecome, Sent, Outcomes, InPool
      <4>2. call'[tx.call].pc \in {"refused", "timeout"} => tx.life = 0
        BY <3>2, <3>4 DEF MayBecome, Sent, Outcomes
      <4>. QED  BY <1>5, <3>1, <3>2, <4>1, <4>2 DEF Compatible, Sent, Outcomes
    <3>. QED  BY <3>1, <3>3, <3>4
  <2>. QED  BY <2>1 DEF PoolInv
<1>8. FoundInv'
  <2>1. ASSUME NEW r \in found, NEW d \in Calls, d = r.call
        PROVE  /\ call'[d].pc # "new"
               /\ r.attempt <= call'[d].attempt
               /\ r.attempt = call'[d].attempt =>
                    call'[d].pc \in {"queued"} \cup Sent /\ ~InPool(d) /\ (r.ok <=> Logged(d))
    <3>1. /\ call[d].pc # "new" /\ r.attempt <= call[d].attempt
          /\ r.attempt = call[d].attempt =>
               call[d].pc \in {"queued"} \cup Sent /\ ~InPool(d) /\ (r.ok <=> Logged(d))
      BY <2>1 DEF FoundInv
    <3>2. r.attempt \in Nat /\ call[d].attempt \in Nat /\ call'[d] \in Call
      BY <1>1 DEF TypeOK, Call
    <3>3. CASE call'[d] = call[d]  BY <3>1, <3>3
    <3>4. CASE call[d].pc \in {"queued", "built"} /\ call'[d].pc \notin {"new", "done"}
               /\ call'[d].attempt = IF call'[d].pc = "built" THEN call[d].attempt + 1 ELSE call[d].attempt
      <4>1. CASE call'[d].pc = "built"  BY <3>1, <3>2, <3>4, <4>1
      <4>2. CASE call'[d].pc # "built"
        <5>1. call'[d].pc \in {"queued"} \cup Sent  BY <3>2, <3>4, <4>2 DEF Call, Sent
        <5>. QED  BY <3>1, <3>4, <4>2, <5>1
      <4>. QED  BY <4>1, <4>2
    <3>5. CASE call[d].pc = "wait" /\ call'[d].pc \in {"queued"} \cup Outcomes
               /\ call'[d].attempt = call[d].attempt
      BY <3>1, <3>5 DEF Sent, Outcomes
    <3>. QED  BY <3>3, <3>4, <3>5 DEF MayBecome
  <2>2. \A r \in found : r.call \in Calls  BY DEF TypeOK
  <2>. QED  BY <1>3, <2>1, <2>2 DEF FoundInv
<1>9. LogInv'
  BY <1>3, <1>4, <1>5 DEF LogInv
<1>10. OrderInv'
  <2>1. \A d \in Calls : call[d].pc \in Outcomes => call'[d].pc \in Outcomes
    BY DEF MayBecome, Outcomes
  <2>. QED  BY <1>3, <2>1, Queued DEF OrderInv
<1>11. AppliedAtMostOnce' /\ AppliedInOrder'
  BY DEF AppliedAtMostOnce, AppliedInOrder
<1>12. TruthfulOutcome'
  <2>1. ASSUME NEW d \in Calls
        PROVE  /\ call'[d].pc = "done" => Logged(d)
               /\ call'[d].pc \in {"refused", "timeout"} => ~Logged(d)
    <3>1. CASE call'[d] = call[d]  BY <3>1 DEF TruthfulOutcome, Logged
    <3>2. CASE MayBecome(d, call'[d]) /\ call[d].pc = "wait"  BY <3>2 DEF MayBecome
    <3>3. CASE MayBecome(d, call'[d]) /\ call[d].pc # "wait"
      <4>1. call'[d].pc # "done" /\ call[d].pc \notin Sent  BY <3>3 DEF MayBecome, Sent, Outcomes
      <4>. QED  BY <1>4, <4>1
    <3>. QED  BY <3>1, <3>2, <3>3
  <2>. QED  BY <1>3, <2>1 DEF TruthfulOutcome, Logged
<1>. QED  BY <1>2, <1>6, <1>7, <1>8, <1>9, <1>10, <1>11, <1>12

LEMMA CallMoves ==
  ASSUME SenderInv, NEW c \in Calls, NEW k \in Call,
         call' = [call EXCEPT ![c] = k], MayBecome(c, k),
         UNCHANGED <<queue, pool, ledger, found>>, faults' \in Nat
  PROVE  SenderInv'
<1>1. call \in [Calls -> Call]  BY DEF SenderInv, TypeOK
<1>2. call' \in [Calls -> Call] /\ \A d \in Calls : call'[d] = IF d = c THEN k ELSE call[d]
  BY <1>1
<1>. QED  BY <1>2, CallsMove

\* A call, written again: with a transaction built, or sent or settled.
Rebuilt(k, attempt, seq) ==
  [k EXCEPT !.pc = "built", !.attempt = attempt, !.seq = seq, !.life = TxLifetime]
Reset(k, pc, patience) == [k EXCEPT !.pc = pc, !.seq = 0, !.life = 0, !.patience = patience]

LEMMA IsRebuilt ==
  ASSUME NEW k \in Call, NEW attempt \in Nat, NEW seq \in Nat
  PROVE  /\ Rebuilt(k, attempt, seq) \in Call
         /\ Rebuilt(k, attempt, seq).pc = "built" /\ Rebuilt(k, attempt, seq).attempt = attempt
<1>. DEFINE j == [k EXCEPT !.pc = "built", !.attempt = attempt]
<1>1. j \in Call  BY DEF Call
<1>2. ASSUME NEW life \in 0..TxLifetime PROVE [j EXCEPT !.seq = seq, !.life = life] \in Call
  <2>. HIDE DEF j
  <2>. QED  BY <1>1 DEF Call
<1>3. [j EXCEPT !.seq = seq, !.life = TxLifetime] \in Call
  <2>. HIDE DEF j
  <2>1. TxLifetime \in 0..TxLifetime  BY SenderAssumption
  <2>. QED  BY <1>2, <2>1
<1>4. [j EXCEPT !.seq = seq, !.life = TxLifetime] = Rebuilt(k, attempt, seq)
  BY Zenon DEF Rebuilt
<1>5. Rebuilt(k, attempt, seq).pc = "built" /\ Rebuilt(k, attempt, seq).attempt = attempt
  BY DEF Call, Rebuilt
<1>. QED  BY <1>3, <1>4, <1>5

LEMMA IsReset ==
  ASSUME NEW k \in Call, NEW pc \in {"queued", "wait"} \cup Outcomes, NEW patience \in 0..Patience
  PROVE  /\ Reset(k, pc, patience) \in Call
         /\ Reset(k, pc, patience).pc = pc
         /\ Reset(k, pc, patience).attempt = k.attempt
         /\ Reset(k, pc, patience).patience = patience
<1>. DEFINE j == [k EXCEPT !.pc = pc, !.seq = 0]
<1>1. j \in Call  BY DEF Call
<1>2. ASSUME NEW life \in 0..TxLifetime
      PROVE  [j EXCEPT !.life = life, !.patience = patience] \in Call
  <2>. HIDE DEF j
  <2>. QED  BY <1>1 DEF Call
<1>3. [j EXCEPT !.life = 0, !.patience = patience] \in Call
  <2>. HIDE DEF j
  <2>1. 0 \in 0..TxLifetime  BY SenderAssumption
  <2>. QED  BY <1>2, <2>1
<1>4. [j EXCEPT !.life = 0, !.patience = patience] = Reset(k, pc, patience)
  BY Zenon DEF Reset
<1>5. /\ Reset(k, pc, patience).pc = pc
      /\ Reset(k, pc, patience).attempt = k.attempt
      /\ Reset(k, pc, patience).patience = patience
  BY DEF Call, Reset
<1>. QED  BY <1>3, <1>4, <1>5

LEMMA Settled ==
  ASSUME SenderInv, NEW c \in Calls, NEW outcome \in Outcomes
  PROVE  /\ Reset(call[c], outcome, 0) \in Call
         /\ Reset(call[c], outcome, 0).pc = outcome
         /\ Reset(call[c], outcome, 0).attempt = call[c].attempt
         /\ Settle(c, outcome) => call' = [call EXCEPT ![c] = Reset(call[c], outcome, 0)]
<1>1. call[c] \in Call  BY DEF SenderInv, TypeOK
<1>2. 0 \in 0..Patience  BY SenderAssumption
<1>3. Settle(c, outcome) => call' = [call EXCEPT ![c] = Reset(call[c], outcome, 0)]
  BY Zenon DEF Settle, Reset
<1>4. outcome \in {"queued", "wait"} \cup Outcomes  OBVIOUS
<1>5. ASSUME NEW k \in Call, NEW pc \in {"queued", "wait"} \cup Outcomes
      PROVE  /\ Reset(k, pc, 0) \in Call
             /\ Reset(k, pc, 0).pc = pc
             /\ Reset(k, pc, 0).attempt = k.attempt
  BY <1>2, IsReset
<1>6. /\ Reset(call[c], outcome, 0) \in Call
      /\ Reset(call[c], outcome, 0).pc = outcome
      /\ Reset(call[c], outcome, 0).attempt = call[c].attempt
  BY <1>1, <1>4, <1>5
<1>. QED  BY <1>3, <1>6

LEMMA TriedAgain ==
  ASSUME SenderInv, NEW c \in Calls, TryAgain(c)
  PROVE  \E k \in Call : k.pc = "queued" /\ k.attempt = call[c].attempt /\ call' = [call EXCEPT ![c] = k]
<1>1. call[c] \in Call  BY DEF SenderInv, TypeOK
<1>2. 0 \in 0..Patience  BY SenderAssumption
<1>3. call' = [call EXCEPT ![c] = Reset(call[c], "queued", 0)]
  BY Zenon DEF TryAgain, Reset
<1>4. /\ Reset(call[c], "queued", 0) \in Call
      /\ Reset(call[c], "queued", 0).pc = "queued"
      /\ Reset(call[c], "queued", 0).attempt = call[c].attempt
  BY <1>1, <1>2, IsReset
<1>. QED  BY <1>3, <1>4

LEMMA Waiting ==
  ASSUME SenderInv, NEW c \in Calls
  PROVE  LET k == Reset(call[c], "wait", Patience)
         IN /\ k \in Call /\ k.pc = "wait" /\ k.attempt = call[c].attempt /\ k.patience = Patience
            /\ Wait(c) => call' = [call EXCEPT ![c] = k]
<1>1. call[c] \in Call  BY DEF SenderInv, TypeOK
<1>2. Patience \in 0..Patience  BY SenderAssumption
<1>3. Wait(c) => call' = [call EXCEPT ![c] = Reset(call[c], "wait", Patience)]
  BY Zenon DEF Wait, Reset
<1>. QED  BY <1>1, <1>2, <1>3, IsReset

\* The steps before a transaction is sent.
LEMMA BuildStep ==
  ASSUME SenderInv, NEW i \in Instances, NEW c \in Calls,
         \/ Build(i, c) \/ SimulationFails(i, c) \/ SubmitPutOff(i, c)
         \/ BadSequence(i, c) \/ SubmitRefused(i, c)
         \/ SubmitLost(i, c) /\ pool' = pool
  PROVE  SenderInv'
<1>1. call \in [Calls -> Call] /\ call[c] \in Call /\ ledger.seq \in Nat /\ faults \in Nat
  BY DEF SenderInv, TypeOK
<1>2. CASE Build(i, c)
  <2>1. PICK attempt \in Nat, seq \in Nat : attempt = call[c].attempt + 1 /\ seq = ledger.seq + 1
    BY <1>1 DEF Call
  <2>. DEFINE k == Rebuilt(call[c], attempt, seq)
  <2>2. k \in Call /\ k.pc = "built" /\ k.attempt = attempt  BY <1>1, IsRebuilt
  <2>3. call' = [call EXCEPT ![c] = k]  BY <1>2, <2>1, Zenon DEF Build, Rebuilt
  <2>. HIDE DEF k
  <2>4. MayBecome(c, k)  BY <1>2, <2>1, <2>2 DEF Build, MayBecome
  <2>. QED  BY <1>1, <1>2, <2>2, <2>3, <2>4, CallMoves DEF Build
<1>3. CASE SubmitPutOff(i, c)
  <2>. DEFINE k == Reset(call[c], "wait", Patience)
  <2>1. k \in Call /\ k.pc = "wait" /\ k.attempt = call[c].attempt /\ call' = [call EXCEPT ![c] = k]
    BY <1>3, Waiting DEF SubmitPutOff
  <2>. HIDE DEF k
  <2>2. MayBecome(c, k)  BY <1>3, <2>1 DEF SubmitPutOff, MayBecome
  <2>. QED  BY <1>1, <1>3, <2>1, <2>2, CallMoves DEF SubmitPutOff
<1>4. CASE BadSequence(i, c) /\ call[c].attempt < MaxAttempts
  <2>1. TryAgain(c)  BY <1>4 DEF BadSequence
  <2>2. PICK k \in Call :
          k.pc = "queued" /\ k.attempt = call[c].attempt /\ call' = [call EXCEPT ![c] = k]
    BY <2>1, TriedAgain
  <2>3. MayBecome(c, k)  BY <1>4, <2>2 DEF BadSequence, MayBecome
  <2>. QED  BY <1>1, <1>4, <2>2, <2>3, CallMoves DEF BadSequence
<1>5. ASSUME NEW outcome \in {"refused", "error"},
             call[c].pc = "built", Settle(c, outcome),
             UNCHANGED <<queue, pool, ledger, found>>, faults' \in Nat
      PROVE  SenderInv'
  <2>. DEFINE k == Reset(call[c], outcome, 0)
  <2>1. outcome \in Outcomes  BY DEF Outcomes
  <2>2. k \in Call /\ k.pc = outcome /\ k.attempt = call[c].attempt /\ call' = [call EXCEPT ![c] = k]
    BY <1>5, <2>1, Settled
  <2>. HIDE DEF k
  <2>3. MayBecome(c, k)  BY <1>5, <2>2 DEF MayBecome
  <2>. QED  BY <1>5, <2>2, <2>3, CallMoves
<1>6. CASE SimulationFails(i, c) \/ SubmitRefused(i, c) \/ (BadSequence(i, c) /\ ~(call[c].attempt < MaxAttempts))
  <2>1. call[c].pc = "built" /\ Settle(c, "refused") /\ UNCHANGED <<queue, pool, ledger, found, faults>>
    BY <1>6 DEF SimulationFails, SubmitRefused, BadSequence
  <2>2. faults' \in Nat  BY <1>1, <2>1
  <2>. QED  BY <1>5, <2>1, <2>2
<1>7. CASE SubmitLost(i, c) /\ pool' = pool
  <2>1. call[c].pc = "built" /\ Settle(c, "error") /\ UNCHANGED <<queue, pool, ledger, found>>
    BY <1>7 DEF SubmitLost
  <2>2. faults' \in Nat  BY <1>1, <1>7 DEF SubmitLost, Fault
  <2>3. "error" \in {"refused", "error"}  OBVIOUS
  <2>. QED  BY <1>5, <2>1, <2>2, <2>3
<1>8. CASE BadSequence(i, c)  BY <1>4, <1>6, <1>8
<1>9. CASE SimulationFails(i, c) \/ SubmitRefused(i, c)  BY <1>6, <1>9
<1>. QED  BY <1>2, <1>3, <1>7, <1>8, <1>9

\* The steps of a call that waits.
LEMMA WaitStep ==
  ASSUME SenderInv, NEW i \in Instances, NEW c \in Calls,
         Confirm(i, c) \/ GiveUp(i, c) \/ PollFails(i, c)
  PROVE  SenderInv'
<1>1. /\ call \in [Calls -> Call] /\ call[c] \in Call /\ faults \in Nat
      /\ pool \subseteq Tx /\ call[c].pc = "wait" /\ UNCHANGED <<queue, pool, ledger, found>>
  BY DEF SenderInv, TypeOK, Confirm, GiveUp, PollFails
<1>2. ASSUME NEW outcome \in Outcomes, Settle(c, outcome), faults' \in Nat,
             outcome = "done" => Logged(c),
             outcome \in {"refused", "timeout"} =>
               ~Logged(c) /\ \A tx \in pool : tx.call = c => tx.life = 0
      PROVE  SenderInv'
  <2>. DEFINE k == Reset(call[c], outcome, 0)
  <2>1. k \in Call /\ k.pc = outcome /\ k.attempt = call[c].attempt /\ call' = [call EXCEPT ![c] = k]
    BY <1>2, Settled
  <2>. HIDE DEF k
  <2>2. MayBecome(c, k)  BY <1>1, <1>2, <2>1 DEF MayBecome
  <2>. QED  BY <1>1, <1>2, <2>1, <2>2, CallMoves
<1>3. CASE Confirm(i, c)
  <2>1. PICK r \in found :
          /\ r.call = c /\ r.attempt = call[c].attempt
          /\ \/ r.ok /\ Settle(c, "done")
             \/ ~r.ok /\ Settle(c, "refused")
             \/ ~r.ok /\ TryAgain(c)
    BY <1>3 DEF Confirm, Result
  <2>2. ~InPool(c) /\ (r.ok <=> Logged(c))  BY <2>1 DEF SenderInv, FoundInv
  <2>3. \A tx \in pool : tx.call # c  BY <2>2 DEF InPool
  <2>4. faults' \in Nat  BY <1>1, <1>3 DEF Confirm, Fault
  <2>5. CASE r.ok /\ Settle(c, "done")  BY <1>2, <2>2, <2>4, <2>5 DEF Outcomes
  <2>6. CASE ~r.ok /\ Settle(c, "refused")  BY <1>2, <2>2, <2>3, <2>4, <2>6 DEF Outcomes
  <2>7. CASE ~r.ok /\ TryAgain(c)
    <3>1. PICK k \in Call :
            k.pc = "queued" /\ k.attempt = call[c].attempt /\ call' = [call EXCEPT ![c] = k]
      BY <2>7, TriedAgain
    <3>2. MayBecome(c, k)  BY <1>1, <2>2, <2>7, <3>1 DEF MayBecome
    <3>. QED  BY <1>1, <2>4, <3>1, <3>2, CallMoves
  <2>. QED  BY <2>1, <2>5, <2>6, <2>7
<1>4. CASE GiveUp(i, c)
  <2>1. Settle(c, "timeout") /\ faults' \in Nat  BY <1>1, <1>4 DEF GiveUp
  <2>2. ~Logged(c)  BY <1>4 DEF GiveUp, Result, SenderInv, LogInv
  <2>3. ASSUME NEW tx \in pool, tx.call = c PROVE tx.life = 0
    <3>1. tx.life <= call[c].patience  BY <1>1, <2>3 DEF SenderInv, PoolInv, Compatible
    <3>2. call[c].patience = 0 /\ tx.life \in Nat  BY <1>1, <1>4 DEF GiveUp, Tx
    <3>. QED  BY <3>1, <3>2
  <2>. QED  BY <1>2, <2>1, <2>2, <2>3 DEF Outcomes
<1>5. CASE PollFails(i, c)
  <2>1. Settle(c, "error") /\ faults' \in Nat  BY <1>1, <1>5 DEF PollFails, Fault
  <2>. QED  BY <1>2, <2>1 DEF Outcomes
<1>. QED  BY <1>3, <1>4, <1>5

-----------------------------------------------------------------------------
(* The other steps. *)

\* The process dies.
LEMMA CrashStep ==
  ASSUME SenderInv, NEW i \in Instances, Crash(i)
  PROVE  SenderInv'
<1>1. call \in [Calls -> Call] /\ queue[i] \in Seq(Calls) /\ faults \in Nat
  BY DEF SenderInv, TypeOK
<1>2. 0 \in 0..Patience  BY SenderAssumption
<1>3. "gone" \in {"queued", "wait"} \cup Outcomes /\ "gone" \in Outcomes  BY DEF Outcomes
<1>4. ASSUME NEW d \in Calls
      PROVE  /\ Reset(call[d], "gone", 0) \in Call
             /\ Reset(call[d], "gone", 0).pc = "gone"
             /\ Reset(call[d], "gone", 0).attempt = call[d].attempt
  <2>1. call[d] \in Call  BY <1>1
  <2>. QED  BY <1>2, <1>3, <2>1, IsReset
<1>5. call' = [d \in Calls |-> IF Contains(queue[i], d) /\ call[d].pc \notin Outcomes
                               THEN Reset(call[d], "gone", 0) ELSE call[d]]
  BY Zenon DEF Crash, Reset
<1>6. call' \in [Calls -> Call]  BY <1>1, <1>4, <1>5
<1>7. ASSUME NEW d \in Calls PROVE call'[d] = call[d] \/ MayBecome(d, call'[d])
  <2>1. CASE Contains(queue[i], d) /\ call[d].pc \notin Outcomes
    <3>1. PICK n \in DOMAIN queue[i] : queue[i][n] = d  BY <1>1, <2>1, ContainsIff
    <3>2. call[d].pc # "new"  BY <3>1 DEF SenderInv, QueueInv
    <3>3. call[d].pc \in {"queued", "built", "wait"}  BY <1>1, <2>1, <3>2 DEF Call
    <3>. QED  BY <1>3, <1>4, <1>5, <2>1, <3>3 DEF MayBecome
  <2>2. CASE ~(Contains(queue[i], d) /\ call[d].pc \notin Outcomes)  BY <1>5, <2>2
  <2>. QED  BY <2>1, <2>2
<1>8. UNCHANGED <<queue, pool, ledger, found>>  BY DEF Crash
<1>9. faults' \in Nat
  <2>1. Fault  BY DEF Crash
  <2>. QED  BY <1>1, <2>1 DEF Fault
<1>. QED  BY <1>6, <1>7, <1>8, <1>9, CallsMove

\* The network takes the transaction, whatever the caller learns of it.
LEMMA SendStep ==
  ASSUME SenderInv, NEW i \in Instances, NEW c \in Calls, NEW k \in Call,
         Running(i, c), call[c].pc = "built", pool = {}, pool' = {TheTx(c)},
         call' = [call EXCEPT ![c] = k], k.pc \in {"wait", "error"},
         k.attempt = call[c].attempt, k.pc = "wait" => k.patience = Patience,
         UNCHANGED <<queue, ledger, found>>, faults' \in Nat
  PROVE  SenderInv'
<1>. USE DEF SenderInv
<1>1. call \in [Calls -> Call] /\ call[c] \in Call  BY DEF TypeOK
<1>2. call' \in [Calls -> Call] /\ \A d \in Calls : call'[d] = IF d = c THEN k ELSE call[d]
  BY <1>1
<1>3. TheTx(c) \in Tx /\ TheTx(c).call = c /\ TheTx(c).attempt = k.attempt /\ TheTx(c).life \in 0..TxLifetime
  BY <1>1 DEF TheTx, Tx, Call
<1>4. \A d : InPool(d)' <=> d = c  BY <1>3 DEF InPool
<1>5. \A d : (Logged(d)' <=> Logged(d)) /\ ~InPool(d)  BY DEF Logged, InPool
<1>6. ~Logged(c) /\ \A r \in found : r.call = c => r.attempt # call[c].attempt
  BY DEF LogInv, FoundInv, Sent, Outcomes
<1>7. TypeOK'  BY <1>2, <1>3 DEF TypeOK
<1>8. QueueInv'  BY <1>2, Queued DEF QueueInv
<1>9. PoolInv'
  <2>1. k.pc = "wait" => TheTx(c).life <= k.patience
    BY <1>3, SenderAssumption, TimeoutAssumption
  <2>2. Compatible(TheTx(c), k)  BY <1>3, <2>1 DEF Compatible, Sent, Outcomes
  <2>3. call'[TheTx(c).call] = k  BY <1>2, <1>3
  <2>. QED  BY <2>2, <2>3 DEF PoolInv
<1>10. FoundInv'
  <2>1. \A r \in found : r.call \in Calls  BY DEF TypeOK
  <2>. QED  BY <1>2, <1>4, <1>5, <1>6, <2>1 DEF FoundInv, Sent, Outcomes
<1>11. LogInv'  BY <1>2, <1>5, <1>6 DEF LogInv
<1>12. OrderInv'
  <2>1. ASSUME NEW j \in Instances, NEW m \in DOMAIN queue[j], NEW n \in DOMAIN queue[j], m < n,
               queue[j][n] = c \/ Logged(queue[j][n])
        PROVE  call[queue[j][m]].pc \in Outcomes
    <3>1. CASE Logged(queue[j][n])  BY <2>1, <3>1 DEF OrderInv
    <3>2. CASE queue[j][n] = c
      <4>1. queue[i] \in Seq(Calls)  BY DEF TypeOK
      <4>2. PICK x \in DOMAIN queue[i] : queue[i][x] = c  BY <4>1, ContainsIff DEF Running
      <4>3. i = j /\ x = n  BY <3>2, <4>2 DEF QueueInv
      <4>4. queue[j][m] \in Before(i, c)  BY <2>1, <3>2, <4>3 DEF Before
      <4>. QED  BY <4>4 DEF Running
    <3>. QED  BY <2>1, <3>1, <3>2
  <2>2. call[c].pc \notin Outcomes  BY DEF Outcomes
  <2>. QED  BY <1>2, <1>4, <1>5, <2>1, <2>2, Queued DEF OrderInv
<1>13. AppliedAtMostOnce' /\ AppliedInOrder'  BY DEF AppliedAtMostOnce, AppliedInOrder
<1>14. TruthfulOutcome'  BY <1>2 DEF TruthfulOutcome
<1>. QED  BY <1>7, <1>8, <1>9, <1>10, <1>11, <1>12, <1>13, <1>14

LEMMA SubmitStep ==
  ASSUME SenderInv, NEW i \in Instances, NEW c \in Calls,
         Submit(i, c) \/ SubmitLost(i, c)
  PROVE  SenderInv'
<1>1. CASE Submit(i, c)
  <2>. DEFINE k == Reset(call[c], "wait", Patience)
  <2>1. k \in Call /\ k.pc = "wait" /\ k.attempt = call[c].attempt /\ k.patience = Patience
        /\ call' = [call EXCEPT ![c] = k]
    BY <1>1, Waiting DEF Submit
  <2>2. k.pc \in {"wait", "error"}  BY <2>1
  <2>3. faults' \in Nat  BY <1>1 DEF Submit, SenderInv, TypeOK
  <2>. HIDE DEF k
  <2>. QED  BY <1>1, <2>1, <2>2, <2>3, SendStep DEF Submit
<1>2. CASE SubmitLost(i, c) /\ pool' = pool  BY <1>2, BuildStep
<1>3. CASE SubmitLost(i, c) /\ pool' # pool
  <2>. DEFINE k == Reset(call[c], "error", 0)
  <2>1. "error" \in Outcomes  BY DEF Outcomes
  <2>2. k \in Call /\ k.pc = "error" /\ k.attempt = call[c].attempt /\ call' = [call EXCEPT ![c] = k]
    BY <1>3, <2>1, Settled DEF SubmitLost
  <2>3. k.pc \in {"wait", "error"} /\ k.pc # "wait"  BY <2>2
  <2>4. faults' \in Nat  BY <1>3 DEF SubmitLost, Fault, SenderInv, TypeOK
  <2>5. pool = {} /\ pool' = {TheTx(c)}  BY <1>3 DEF SubmitLost
  <2>. HIDE DEF k
  <2>. QED  BY <1>3, <2>2, <2>3, <2>4, <2>5, SendStep DEF SubmitLost
<1>. QED  BY <1>1, <1>2, <1>3

\* A call takes its place at the end of a queue.
LEMMA EnqueueStep ==
  ASSUME SenderInv, NEW i \in Instances, Enqueue(i)
  PROVE  SenderInv'
<1>. USE DEF SenderInv
<1>1. call \in [Calls -> Call] /\ queue \in [Instances -> Seq(Calls)]  BY DEF TypeOK
<1>2. PICK c \in Calls : /\ call[c].pc = "new"
                         /\ call' = [call EXCEPT ![c].pc = "queued"]
                         /\ queue' = [queue EXCEPT ![i] = Append(@, c)]
  BY DEF Enqueue
<1>3. UNCHANGED <<pool, ledger, found, faults>>  BY DEF Enqueue
<1>4. PICK k \in Call : k = [call[c] EXCEPT !.pc = "queued"]  BY <1>1 DEF Call
<1>5. call' = [call EXCEPT ![c] = k]  BY <1>2, <1>4, Zenon
<1>6. k.pc = "queued"  BY <1>1, <1>4 DEF Call
<1>7. call' \in [Calls -> Call] /\ \A d \in Calls : call'[d] = IF d = c THEN k ELSE call[d]
  BY <1>1, <1>5
<1>8. /\ queue' \in [Instances -> Seq(Calls)]
      /\ \A j \in Instances : queue'[j] = IF j = i THEN Append(queue[i], c) ELSE queue[j]
  BY <1>1, <1>2
<1>9. /\ DOMAIN queue[i] = 1..Len(queue[i]) /\ Len(queue[i]) \in Nat
      /\ DOMAIN queue'[i] = 1..(Len(queue[i]) + 1)
      /\ queue'[i][Len(queue[i]) + 1] = c
      /\ \A m \in DOMAIN queue[i] : queue'[i][m] = queue[i][m]
  <2>1. queue[i] \in Seq(Calls) /\ queue'[i] = Append(queue[i], c)  BY <1>1, <1>8
  <2>. HIDE DEF SenderInv
  <2>. QED  BY <2>1, Appended
\* What is in the queues: what was there, and c at the end.
<1>10. ASSUME NEW j \in Instances, NEW m \in DOMAIN queue'[j]
       PROVE  /\ m \in Nat
              /\ \/ m \in DOMAIN queue[j] /\ queue'[j][m] = queue[j][m]
                                          /\ queue[j][m] \in Calls /\ queue[j][m] # c
                 \/ j = i /\ m = Len(queue[i]) + 1 /\ queue'[j][m] = c
  <2>1. m \in Nat  BY <1>8
  <2>2. CASE m \in DOMAIN queue[j]
    <3>1. queue'[j][m] = queue[j][m]  BY <1>8, <1>9, <2>2
    <3>2. queue[j][m] # c  BY <1>2, <2>2 DEF QueueInv
    <3>. QED  BY <2>1, <2>2, <3>1, <3>2, Queued
  <2>3. CASE m \notin DOMAIN queue[j]
    <3>1. j = i  BY <1>8, <2>3
    <3>2. m = Len(queue[i]) + 1  BY <1>9, <2>3, <3>1
    <3>. QED  BY <1>9, <2>1, <3>1, <3>2
  <2>. QED  BY <2>2, <2>3
<1>11. \A j \in Instances : \A m \in DOMAIN queue'[j], n \in DOMAIN queue'[j] :
         m < n => m \in DOMAIN queue[j] /\ queue'[j][m] = queue[j][m]
  <2>1. ASSUME NEW j \in Instances, NEW m \in DOMAIN queue'[j], NEW n \in DOMAIN queue'[j], m < n
        PROVE  m # Len(queue[i]) + 1 \/ j # i
    <3>1. SUFFICES ASSUME j = i PROVE m # Len(queue[i]) + 1
      OBVIOUS
    <3>2. n <= Len(queue[i]) + 1 /\ m \in Nat /\ n \in Nat  BY <1>9, <3>1
    <3>. QED  BY <1>9, <2>1, <3>2
  <2>. QED  BY <1>10, <2>1
<1>12. (\A d : InPool(d)' <=> InPool(d)) /\ (\A d : Logged(d)' <=> Logged(d))
  BY <1>3 DEF InPool, Logged
<1>13. ~InPool(c) /\ ~Logged(c) /\ \A r \in found : r.call # c
  <2>1. call[c].pc \notin Sent  BY <1>2 DEF Sent, Outcomes
  <2>. QED  BY <1>2, <2>1 DEF InPool, PoolInv, Compatible, FoundInv, LogInv
<1>14. TypeOK'  BY <1>3, <1>7, <1>8 DEF TypeOK
<1>15. QueueInv'
  <2>1. \A j \in Instances : \A m \in DOMAIN queue'[j] : call'[queue'[j][m]].pc # "new"
    BY <1>6, <1>7, <1>10 DEF QueueInv
  <2>2. ASSUME NEW j \in Instances, NEW h \in Instances,
               NEW m \in DOMAIN queue'[j], NEW n \in DOMAIN queue'[h], queue'[j][m] = queue'[h][n]
        PROVE  j = h /\ m = n
    <3>1. CASE queue'[j][m] = c  BY <1>10, <2>2, <3>1
    <3>2. CASE queue'[j][m] # c  BY <1>10, <2>2, <3>2 DEF QueueInv
    <3>. QED  BY <3>1, <3>2
  <2>. QED  BY <2>1, <2>2 DEF QueueInv
<1>16. PoolInv'
  <2>1. \A tx \in pool : tx.call \in Calls /\ tx.call # c  BY <1>13 DEF TypeOK, Tx, InPool
  <2>. QED  BY <1>3, <1>7, <2>1 DEF PoolInv
<1>17. FoundInv'
  <2>1. \A r \in found : r.call \in Calls  BY DEF TypeOK
  <2>. QED  BY <1>3, <1>7, <1>12, <1>13, <2>1 DEF FoundInv
<1>18. LogInv'  BY <1>3, <1>7, <1>12, <1>13 DEF LogInv
<1>19. OrderInv'
  <2>1. ASSUME NEW j \in Instances, NEW m \in DOMAIN queue'[j], NEW n \in DOMAIN queue'[j], m < n,
               InPool(queue'[j][n]) \/ Logged(queue'[j][n])
        PROVE  call'[queue'[j][m]].pc \in Outcomes /\ ~InPool(queue'[j][m])
    <3>1. queue'[j][n] # c  BY <1>13, <2>1
    <3>2. n \in DOMAIN queue[j] /\ queue'[j][n] = queue[j][n]  BY <1>10, <3>1
    <3>3. m \in DOMAIN queue[j] /\ queue'[j][m] = queue[j][m]  BY <1>11, <2>1
    <3>4. call[queue[j][m]].pc \in Outcomes /\ ~InPool(queue[j][m])
      BY <2>1, <3>2, <3>3 DEF OrderInv
    <3>5. queue[j][m] \in Calls /\ queue[j][m] # c  BY <1>2, <3>3, Queued DEF QueueInv
    <3>. QED  BY <1>7, <3>3, <3>4, <3>5
  <2>. QED  BY <1>12, <2>1 DEF OrderInv
<1>20. AppliedAtMostOnce'  BY <1>3 DEF AppliedAtMostOnce
<1>21. AppliedInOrder'
  <2>1. ASSUME NEW j \in Instances, NEW m \in DOMAIN queue'[j], NEW n \in DOMAIN queue'[j],
               NEW p \in DOMAIN ledger.log, NEW q \in DOMAIN ledger.log,
               m < n, ledger.log[p] = queue'[j][m], ledger.log[q] = queue'[j][n]
        PROVE  p < q
    <3>1. ledger.log \in Seq(Calls)  BY DEF TypeOK
    <3>2. Logged(queue'[j][n])  BY <2>1, <3>1, ContainsIff DEF Logged
    <3>3. queue'[j][n] # c  BY <1>13, <3>2
    <3>4. n \in DOMAIN queue[j] /\ queue'[j][n] = queue[j][n]  BY <1>10, <3>3
    <3>5. m \in DOMAIN queue[j] /\ queue'[j][m] = queue[j][m]  BY <1>11, <2>1
    <3>. QED  BY <2>1, <3>4, <3>5 DEF AppliedInOrder
  <2>. QED  BY <1>3, <2>1 DEF AppliedInOrder
<1>22. TruthfulOutcome'  BY <1>3, <1>6, <1>7 DEF TruthfulOutcome
<1>. QED  BY <1>14, <1>15, <1>16, <1>17, <1>18, <1>19, <1>20, <1>21, <1>22

\* The network drops a transaction.
LEMMA DropStep ==
  ASSUME SenderInv, NEW tx \in pool, Drop(tx)
  PROVE  SenderInv'
<1>. USE DEF SenderInv
<1>1. pool' = {}  BY DEF Drop, PoolInv
<1>2. UNCHANGED <<queue, call, ledger, found, faults>>  BY DEF Drop
<1>3. (\A d : Logged(d)' <=> Logged(d)) /\ \A d : ~InPool(d)'  BY <1>1, <1>2 DEF Logged, InPool
<1>4. TypeOK' /\ QueueInv' /\ PoolInv'  BY <1>1, <1>2 DEF TypeOK, QueueInv, PoolInv
<1>5. FoundInv' /\ LogInv' /\ OrderInv'  BY <1>2, <1>3 DEF FoundInv, LogInv, OrderInv
<1>6. AppliedAtMostOnce' /\ TruthfulOutcome' /\ AppliedInOrder'
  BY <1>2 DEF AppliedAtMostOnce, TruthfulOutcome, AppliedInOrder
<1>. QED  BY <1>4, <1>5, <1>6

\* A ledger closes.
LEMMA CloseStep ==
  ASSUME SenderInv, NEW tx \in pool, Close(tx)
  PROVE  SenderInv'
<1>. USE DEF SenderInv
<1>1. /\ call \in [Calls -> Call] /\ tx \in Tx /\ tx.call \in Calls /\ tx.attempt \in Nat
      /\ tx.seq \in Nat /\ tx.life > 0 /\ ledger.log \in Seq(Calls)
  BY DEF TypeOK, Tx, Close
<1>2. PICK ok \in BOOLEAN :
        /\ found' = found \cup {[call |-> tx.call, attempt |-> tx.attempt, ok |-> ok]}
        /\ ledger' = [seq |-> tx.seq, log |-> IF ok THEN Append(ledger.log, tx.call) ELSE ledger.log]
  BY DEF Close
<1>3. UNCHANGED <<queue, call, faults>>  BY DEF Close
<1>4. pool' = {}  BY DEF Close, PoolInv
<1>5. ledger'.log = IF ok THEN Append(ledger.log, tx.call) ELSE ledger.log  BY <1>2
<1>6. InPool(tx.call) /\ Compatible(tx, call[tx.call])  BY DEF InPool, PoolInv
<1>7. /\ tx.attempt = call[tx.call].attempt
      /\ \A r \in found : r.call = tx.call => r.attempt # tx.attempt
      /\ ~Logged(tx.call)
  BY <1>1, <1>6 DEF FoundInv, LogInv, Compatible
<1>8. (\A d : ~InPool(d)') /\ \A d : Logged(d)' <=> Logged(d) \/ (ok /\ d = tx.call)
  <2>1. \A d : Contains(Append(ledger.log, tx.call), d) <=> Contains(ledger.log, d) \/ d = tx.call
    BY <1>1, ContainsAppended
  <2>. QED  BY <1>4, <1>5, <2>1 DEF InPool, Logged
<1>9. TypeOK'
  <2>1. [call |-> tx.call, attempt |-> tx.attempt, ok |-> ok] \in [call : Calls, attempt : Nat, ok : BOOLEAN]
    BY <1>1
  <2>2. (IF ok THEN Append(ledger.log, tx.call) ELSE ledger.log) \in Seq(Calls)  BY <1>1, Appended
  <2>3. ledger' \in [seq : Nat, log : Seq(Calls)]  BY <1>1, <1>2, <2>2
  <2>. QED  BY <1>2, <1>3, <1>4, <2>1, <2>3 DEF TypeOK
<1>10. QueueInv' /\ PoolInv'  BY <1>3, <1>4 DEF QueueInv, PoolInv
<1>11. FoundInv'
  <2>1. ASSUME NEW r \in found
        PROVE  /\ call[r.call].pc # "new" /\ r.attempt <= call[r.call].attempt
               /\ r.attempt = call[r.call].attempt =>
                    call[r.call].pc \in {"queued"} \cup Sent /\ (r.ok <=> Logged(r.call)')
    BY <1>7, <1>8 DEF FoundInv
  <2>2. call[tx.call].pc \in Sent /\ call[tx.call].pc # "new" /\ (ok <=> Logged(tx.call)')
    BY <1>6, <1>7, <1>8 DEF Compatible, Sent, Outcomes
  <2>3. tx.attempt <= call[tx.call].attempt  BY <1>1, <1>7
  <2>. QED  BY <1>2, <1>3, <1>7, <1>8, <2>1, <2>2, <2>3 DEF FoundInv
<1>12. LogInv'
  <2>1. ASSUME NEW d \in Calls, Logged(d)'
        PROVE  call[d].pc \in Sent /\ \E r \in found' : r.call = d /\ r.attempt = call[d].attempt
    <3>1. CASE Logged(d)  BY <1>2, <3>1 DEF LogInv
    <3>2. CASE d = tx.call
      <4>1. tx.attempt = call[d].attempt /\ call[d].pc \in Sent  BY <1>6, <3>2 DEF Compatible
      <4>. DEFINE r == [call |-> tx.call, attempt |-> tx.attempt, ok |-> ok]
      <4>2. r \in found' /\ r.call = tx.call /\ r.attempt = tx.attempt  BY <1>2
      <4>. HIDE DEF r
      <4>. QED  BY <3>2, <4>1, <4>2
    <3>. QED  BY <1>8, <2>1, <3>1, <3>2
  <2>. QED  BY <1>3, <2>1 DEF LogInv
<1>13. OrderInv'
  <2>1. \A d : Logged(d)' => Logged(d) \/ InPool(d)  BY <1>6, <1>8
  <2>. QED  BY <1>3, <1>8, <2>1 DEF OrderInv
<1>14. AppliedAtMostOnce' /\ AppliedInOrder'
  <2>1. CASE ~ok
    BY <1>3, <1>5, <2>1 DEF AppliedAtMostOnce, AppliedInOrder
  <2>2. CASE ok
    <3>. DEFINE log == ledger.log
                last == Len(log) + 1
    <3>1. /\ DOMAIN ledger'.log = 1..last /\ DOMAIN log = 1..Len(log) /\ Len(log) \in Nat
          /\ ledger'.log[last] = tx.call
          /\ \A n \in DOMAIN log : ledger'.log[n] = log[n]
      BY <1>1, <1>5, <2>2, Appended
    <3>2. \A n \in DOMAIN ledger'.log : n \in DOMAIN log \/ n = last  BY <3>1
    <3>3. \A n \in DOMAIN log : log[n] # tx.call /\ n < last
      BY <1>1, <1>7, <3>1, ContainsIff DEF Logged
    <3>4. AppliedAtMostOnce'
      <4>1. \A m, n \in DOMAIN log : log[m] = log[n] => m = n
        BY DEF AppliedAtMostOnce, IsInjective
      <4>2. \A m, n \in DOMAIN ledger'.log : ledger'.log[m] = ledger'.log[n] => m = n
        BY <3>1, <3>2, <3>3, <4>1
      <4>. QED  BY <4>2 DEF AppliedAtMostOnce, IsInjective
    <3>5. ASSUME NEW j \in Instances, NEW m \in DOMAIN queue[j], NEW n \in DOMAIN queue[j],
                 NEW p \in DOMAIN ledger'.log, NEW q \in DOMAIN ledger'.log,
                 m < n, ledger'.log[p] = queue[j][m], ledger'.log[q] = queue[j][n]
          PROVE  p < q
      <4>1. CASE p \in DOMAIN log /\ q \in DOMAIN log
        BY <3>1, <3>5, <4>1 DEF AppliedInOrder
      <4>2. CASE p \in DOMAIN log /\ q = last  BY <3>3, <4>2
      <4>3. CASE p = last
        <5>1. queue[j][m] = tx.call  BY <3>1, <3>5, <4>3
        <5>2. m \in Nat /\ n \in Nat  BY Queued
        <5>3. queue[j][n] # tx.call  BY <3>5, <5>1, <5>2 DEF QueueInv
        <5>4. q \in DOMAIN log  BY <3>1, <3>2, <3>5, <5>3
        <5>5. Logged(queue[j][n])  BY <1>1, <3>1, <3>5, <5>4, ContainsIff DEF Logged
        <5>. QED  BY <1>6, <3>5, <5>1, <5>5 DEF OrderInv
      <4>. QED  BY <3>2, <4>1, <4>2, <4>3
    <3>6. AppliedInOrder'  BY <1>3, <3>5 DEF AppliedInOrder
    <3>. QED  BY <3>4, <3>6
  <2>. QED  BY <2>1, <2>2
<1>15. TruthfulOutcome'
  <2>1. tx.life # 0  BY <1>1 DEF Tx
  <2>2. call[tx.call].pc \notin {"refused", "timeout"}  BY <1>6, <2>1 DEF Compatible
  <2>. QED  BY <1>3, <1>8, <2>2 DEF TruthfulOutcome, Logged
<1>. QED  BY <1>9, <1>10, <1>11, <1>12, <1>13, <1>14, <1>15

\* A call after a unit of time.
Aged(k) == [k EXCEPT !.life = Older(@), !.patience = Older(@)]

LEMMA OlderIs ==
  ASSUME NEW n \in Nat, NEW m \in Nat, n <= m
  PROVE  Older(n) \in Nat /\ Older(n) <= n /\ Older(n) <= Older(m) /\ (n = 0 => Older(n) = 0)
BY DEF Older

LEMMA IsAged ==
  ASSUME NEW k \in Call
  PROVE  /\ Aged(k) \in Call
         /\ Aged(k).pc = k.pc /\ Aged(k).attempt = k.attempt
         /\ Aged(k).patience = Older(k.patience)
<1>1. k.life \in 0..TxLifetime /\ k.patience \in 0..Patience  BY DEF Call
<1>2. Older(k.life) \in 0..TxLifetime /\ Older(k.patience) \in 0..Patience
  BY <1>1, SenderAssumption DEF Older
<1>3. ASSUME NEW life \in 0..TxLifetime, NEW patience \in 0..Patience
      PROVE  [k EXCEPT !.life = life, !.patience = patience] \in Call
  BY DEF Call
<1>4. [k EXCEPT !.life = Older(k.life), !.patience = Older(k.patience)] \in Call
  BY <1>2, <1>3
<1>5. Aged(k) = [k EXCEPT !.life = Older(k.life), !.patience = Older(k.patience)]
  BY DEF Aged, Call
<1>6. Aged(k).pc = k.pc /\ Aged(k).attempt = k.attempt /\ Aged(k).patience = Older(k.patience)
  BY DEF Aged, Call
<1>. QED  BY <1>4, <1>5, <1>6

\* A unit of time passes.
LEMMA TickStep ==
  ASSUME SenderInv, Tick
  PROVE  SenderInv'
<1>. USE DEF SenderInv
<1>1. call \in [Calls -> Call] /\ pool \subseteq Tx  BY DEF TypeOK
<1>2. UNCHANGED <<queue, ledger, found, faults>>  BY DEF Tick
<1>3. call' = [d \in Calls |-> Aged(call[d])]  BY Zenon DEF Tick, Aged
<1>4. pool' = {[tx EXCEPT !.life = Older(@)] : tx \in pool}  BY Zenon DEF Tick
<1>5. ASSUME NEW d \in Calls
      PROVE  /\ call'[d] \in Call /\ call'[d].pc = call[d].pc
             /\ call'[d].attempt = call[d].attempt
             /\ call'[d].patience = Older(call[d].patience) /\ call[d].patience \in Nat
  <2>1. call[d] \in Call /\ call[d].patience \in Nat  BY <1>1 DEF Call
  <2>. QED  BY <1>3, <2>1, IsAged
<1>6. ASSUME NEW u \in pool'
      PROVE  \E tx \in pool : /\ u \in Tx /\ u.call = tx.call /\ u.attempt = tx.attempt
                              /\ u.life = Older(tx.life) /\ tx.life \in Nat
  <2>1. PICK tx \in pool : u = [tx EXCEPT !.life = Older(@)]  BY <1>4
  <2>2. tx \in Tx /\ tx.life \in 0..TxLifetime  BY <1>1 DEF Tx
  <2>3. Older(tx.life) \in 0..TxLifetime  BY <2>2, SenderAssumption DEF Older
  <2>4. u \in Tx /\ u.call = tx.call /\ u.attempt = tx.attempt /\ u.life = Older(tx.life)
    BY <2>1, <2>2, <2>3 DEF Tx
  <2>. QED  BY <2>2, <2>4
<1>7. ASSUME NEW tx \in pool PROVE \E u \in pool' : u.call = tx.call
  <2>1. [tx EXCEPT !.life = Older(@)] \in pool'  BY <1>4
  <2>2. [tx EXCEPT !.life = Older(@)].call = tx.call  BY <1>1 DEF Tx
  <2>. QED  BY <2>1, <2>2
<1>8. (\A d : InPool(d)' <=> InPool(d)) /\ \A d : Logged(d)' <=> Logged(d)
  BY <1>2, <1>6, <1>7 DEF InPool, Logged
<1>9. TypeOK'
  <2>1. call' \in [Calls -> Call]  BY <1>3, <1>5
  <2>. QED  BY <1>2, <1>6, <2>1 DEF TypeOK
<1>10. QueueInv'  BY <1>2, <1>5, Queued DEF QueueInv
<1>11. PoolInv'
  <2>1. \A t, u \in pool' : t = u  BY <1>4 DEF PoolInv
  <2>2. ASSUME NEW u \in pool' PROVE Compatible(u, call'[u.call])
    <3>1. PICK tx \in pool : /\ u.call = tx.call /\ u.attempt = tx.attempt
                             /\ u.life = Older(tx.life) /\ tx.life \in Nat
      BY <1>6
    <3>2. tx.call \in Calls /\ Compatible(tx, call[tx.call])  BY <1>1 DEF PoolInv, Tx
    <3>3. call[tx.call].pc = "wait" => u.life <= call'[tx.call].patience
      BY <1>5, <3>1, <3>2, OlderIs DEF Compatible
    <3>4. call[tx.call].pc \in {"refused", "timeout"} => u.life = 0
      BY <3>1, <3>2 DEF Compatible, Older
    <3>. QED  BY <1>5, <3>1, <3>2, <3>3, <3>4 DEF Compatible
  <2>. QED  BY <2>1, <2>2 DEF PoolInv
<1>12. FoundInv'
  <2>1. \A r \in found : r.call \in Calls  BY DEF TypeOK
  <2>. QED  BY <1>2, <1>5, <1>8, <2>1 DEF FoundInv
<1>13. LogInv'  BY <1>2, <1>5, <1>8 DEF LogInv
<1>14. OrderInv'  BY <1>2, <1>5, <1>8, Queued DEF OrderInv
<1>15. AppliedAtMostOnce' /\ AppliedInOrder'  BY <1>2 DEF AppliedAtMostOnce, AppliedInOrder
<1>16. TruthfulOutcome'  BY <1>2, <1>5 DEF TruthfulOutcome
<1>. QED  BY <1>9, <1>10, <1>11, <1>12, <1>13, <1>14, <1>15, <1>16

LEMMA SenderStep == SenderInv /\ [Next]_vars => SenderInv'
<1>. SUFFICES ASSUME SenderInv, [Next]_vars PROVE SenderInv'
  OBVIOUS
<1>1. ASSUME NEW i \in Instances, NEW c \in Calls, Proceed(i, c) \/ SubmitLost(i, c) \/ PollFails(i, c)
      PROVE  SenderInv'
  BY <1>1, BuildStep, SubmitStep, WaitStep DEF Proceed
<1>2. ASSUME NEW i \in Instances, Enqueue(i) \/ Crash(i) PROVE SenderInv'
  BY <1>2, EnqueueStep, CrashStep
<1>3. ASSUME NEW tx \in pool, Close(tx) \/ Drop(tx) PROVE SenderInv'
  BY <1>3, CloseStep, DropStep
<1>4. CASE Tick  BY <1>4, TickStep
<1>5. CASE UNCHANGED vars
  BY <1>5 DEF vars, SenderInv, TypeOK, QueueInv, PoolInv, FoundInv, LogInv, OrderInv, InPool, Logged,
              AppliedAtMostOnce, TruthfulOutcome, AppliedInOrder
<1>. QED  BY <1>1, <1>2, <1>3, <1>4, <1>5 DEF Next

LEMMA SenderInvariant == Spec => []SenderInv
BY SenderInitial, SenderStep, PTL DEF Spec

-----------------------------------------------------------------------------
(***************************************************************************)
(* The variables keep their types: the values the call, the pool and the   *)
(* ledger can have are those of _sendTxInner.                              *)
(***************************************************************************)
THEOREM SenderTypeCorrect == Spec => []TypeOK
<1>1. SenderInv => TypeOK  BY DEF SenderInv
<1>. QED  BY <1>1, SenderInvariant, PTL

(***************************************************************************)
(* However often a call is built again, it is applied at most once.        *)
(***************************************************************************)
THEOREM AppliedAtMostOnceCorrect == Spec => []AppliedAtMostOnce
<1>1. SenderInv => AppliedAtMostOnce  BY DEF SenderInv
<1>. QED  BY <1>1, SenderInvariant, PTL

(***************************************************************************)
(* What sendTx returns or throws tells the truth: this is where a          *)
(* transaction must die before the wait for it ends.                       *)
(***************************************************************************)
THEOREM TruthfulOutcomeCorrect == Spec => []TruthfulOutcome
<1>1. SenderInv => TruthfulOutcome  BY DEF SenderInv
<1>. QED  BY <1>1, SenderInvariant, PTL

(***************************************************************************)
(* runExclusive applies the calls of an instance in the order they came.   *)
(***************************************************************************)
THEOREM AppliedInOrderCorrect == Spec => []AppliedInOrder
<1>1. SenderInv => AppliedInOrder  BY DEF SenderInv
<1>. QED  BY <1>1, SenderInvariant, PTL
===============================================================================
