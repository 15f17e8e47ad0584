------------------------------ MODULE TxSender ------------------------------
(***************************************************************************)
(* Contract calls signed with one key (sendTx of services/sorobanAdapter/  *)
(* rpc.js).  Each instance of the backend keeps its calls in a queue, the  *)
(* keyed mutex of utils/mutex.js, because the account's sequence number is *)
(* serial; instances do not know of each other, and a call that meets a    *)
(* stale number is built again.                                            *)
(*                                                                         *)
(* The network is external: an account has one transaction in the pool at a*)
(* time; a transaction is applied while it is young and carries the number *)
(* after the account's; what the RPC answers about it is true.  A call of  *)
(* the RPC is short against the units time is counted in (30 s).           *)
(***************************************************************************)
EXTENDS Integers, SequencesExt

CONSTANTS
  Instances,   \* backend processes
  Calls,       \* the calls made
  MaxAttempts, \* cfg.txMaxRetries + 1
  TxLifetime,  \* the transaction's setTimeout
  Patience,    \* cfg.txTimeoutMs
  MaxFaults    \* bound: crashes, RPC requests that fail, transactions that fail with txBadSeq

ASSUME SenderAssumption ==
  /\ MaxAttempts \in Nat \ {0}
  /\ TxLifetime \in Nat \ {0}
  /\ Patience \in Nat
  /\ MaxFaults \in Nat

\* The defaults, 30 s and 60 s: a transaction dies before the wait for it ends.
ASSUME TimeoutAssumption == TxLifetime < Patience

VARIABLES
  queue,  \* the calls of each instance, in the order they were made
  call,   \* what each call is doing
  pool,   \* transactions the network has accepted
  ledger, \* [seq, log]: the account's sequence number, and the calls applied
  found,  \* what getTransaction finds
  faults  \* what MaxFaults still allows

vars == <<queue, call, pool, ledger, found, faults>>

Outcomes == {"done", "refused", "timeout", "error", "gone"}

\* seq and life are those of the transaction being sent; patience is what is
\* left of the wait.
Call == [pc : {"new", "queued", "built", "wait"} \cup Outcomes,
         attempt : Nat, seq : Nat, life : 0..TxLifetime, patience : 0..Patience]
Tx == [call : Calls, attempt : Nat, seq : Nat, life : 0..TxLifetime]

Init ==
  /\ queue = [i \in Instances |-> <<>>]
  /\ call = [c \in Calls |-> [pc |-> "new", attempt |-> 0, seq |-> 0, life |-> 0, patience |-> 0]]
  /\ pool = {}
  /\ ledger = [seq |-> 0, log |-> <<>>]
  /\ found = {}
  /\ faults = MaxFaults

Fault == faults > 0 /\ faults' = faults - 1

-----------------------------------------------------------------------------
(* runExclusive *)

\* The calls are alike: which of the new ones comes first does not matter.
Enqueue(i) ==
  LET new == {c \in Calls : call[c].pc = "new"}
      next == CHOOSE c \in new : TRUE
  IN /\ new # {}
     /\ call' = [call EXCEPT ![next].pc = "queued"]
     /\ queue' = [queue EXCEPT ![i] = Append(@, next)]
     /\ UNCHANGED <<pool, ledger, found, faults>>

Before(i, c) ==
  {queue[i][m] : m \in {k \in DOMAIN queue[i] : \E n \in DOMAIN queue[i] : k < n /\ queue[i][n] = c}}

\* Mutant: nothing is serialized.
RunningAtOnce(i, c) == Contains(queue[i], c)

\* Mutant: a failure is not swallowed, so the calls after it never start.
RunningIfDone(i, c) ==
  /\ Contains(queue[i], c)
  /\ \A d \in Before(i, c) : call[d].pc = "done"

\* Every call made before has settled, whatever its outcome.
Running(i, c) ==
  /\ Contains(queue[i], c)
  /\ \A d \in Before(i, c) : call[d].pc \in Outcomes

\* fn returns or throws.
Settle(c, outcome) ==
  call' = [call EXCEPT ![c] = [@ EXCEPT !.pc = outcome, !.seq = 0, !.life = 0, !.patience = 0]]

\* It goes round: the transaction is built again, with the number there is then.
TryAgain(c) ==
  call' = [call EXCEPT ![c] = [@ EXCEPT !.pc = "queued", !.seq = 0, !.life = 0, !.patience = 0]]

-----------------------------------------------------------------------------
(* _sendTxInner *)

\* getAccount gives the sequence number of the last ledger, and the transaction
\* is built with the next.
Build(i, c) ==
  /\ Running(i, c)
  /\ call[c].pc = "queued"
  /\ call' = [call EXCEPT ![c] = [@ EXCEPT !.pc = "built", !.attempt = call[c].attempt + 1,
                                           !.seq = ledger.seq + 1, !.life = TxLifetime]]
  /\ UNCHANGED <<queue, pool, ledger, found, faults>>

\* The contract refuses when it is simulated.
SimulationFails(i, c) ==
  /\ Running(i, c)
  /\ call[c].pc = "built"
  /\ Settle(c, "refused")
  /\ UNCHANGED <<queue, pool, ledger, found, faults>>

Wait(c) == call' = [call EXCEPT ![c] = [@ EXCEPT !.pc = "wait", !.seq = 0, !.life = 0, !.patience = Patience]]

TheTx(c) == [call |-> c, attempt |-> call[c].attempt, seq |-> call[c].seq, life |-> call[c].life]

Timely(c) == call[c].life > 0
InOrder(c) == call[c].seq = ledger.seq + 1

\* The error result that is answered with another attempt is txBadSeq.
IsBadSequence(c) == Timely(c) /\ ~InOrder(c)

\* The network accepts the transaction.
Submit(i, c) ==
  /\ Running(i, c)
  /\ call[c].pc = "built"
  /\ Timely(c) /\ InOrder(c) /\ pool = {}
  /\ pool' = {TheTx(c)}
  /\ Wait(c)
  /\ UNCHANGED <<queue, ledger, found, faults>>

\* TRY_AGAIN_LATER is not an errorResult: the call waits for a transaction that
\* the network did not take.
SubmitPutOff(i, c) ==
  /\ Running(i, c)
  /\ call[c].pc = "built"
  /\ Timely(c) /\ InOrder(c) /\ pool # {}
  /\ Wait(c)
  /\ UNCHANGED <<queue, pool, ledger, found, faults>>

\* txBadSeq: another attempt, as long as there are any.
BadSequence(i, c) ==
  /\ Running(i, c)
  /\ call[c].pc = "built"
  /\ IsBadSequence(c)
  /\ IF call[c].attempt < MaxAttempts THEN TryAgain(c) ELSE Settle(c, "refused")
  /\ UNCHANGED <<queue, pool, ledger, found, faults>>

\* Any other error result.
SubmitRefused(i, c) ==
  /\ Running(i, c)
  /\ call[c].pc = "built"
  /\ ~Timely(c)
  /\ Settle(c, "refused")
  /\ UNCHANGED <<queue, pool, ledger, found, faults>>

\* An RPC request throws; sendTransaction may have delivered the transaction.
SubmitLost(i, c) ==
  /\ Running(i, c)
  /\ call[c].pc = "built"
  /\ Fault
  /\ pool' \in IF Timely(c) /\ InOrder(c) /\ pool = {} THEN {{}, {TheTx(c)}} ELSE {pool}
  /\ Settle(c, "error")
  /\ UNCHANGED <<queue, ledger, found>>

-----------------------------------------------------------------------------
(* waitForTransaction *)

Result(c) == {r \in found : r.call = c /\ r.attempt = call[c].attempt}

\* Mutant: a transaction that was found counts as confirmed.
ConfirmAny(i, c) ==
  /\ Running(i, c)
  /\ call[c].pc = "wait"
  /\ Result(c) # {}
  /\ Settle(c, "done")
  /\ UNCHANGED <<queue, pool, ledger, found, faults>>

\* A transaction that has failed is built again if the error it failed with names
\* txBadSeq, whatever else was wrong.
Confirm(i, c) ==
  /\ Running(i, c)
  /\ call[c].pc = "wait"
  /\ \E r \in Result(c) :
       \/ r.ok /\ Settle(c, "done") /\ UNCHANGED faults
       \/ ~r.ok /\ Settle(c, "refused") /\ UNCHANGED faults
       \/ ~r.ok /\ call[c].attempt < MaxAttempts /\ TryAgain(c) /\ Fault
  /\ UNCHANGED <<queue, pool, ledger, found>>

GiveUp(i, c) ==
  /\ Running(i, c)
  /\ call[c].pc = "wait"
  /\ Result(c) = {}
  /\ call[c].patience = 0
  /\ Settle(c, "timeout")
  /\ UNCHANGED <<queue, pool, ledger, found, faults>>

\* Mutant: any error while waiting is answered with another attempt.
PollRetried(i, c) ==
  /\ Running(i, c)
  /\ call[c].pc = "wait"
  /\ Fault
  /\ TryAgain(c)
  /\ UNCHANGED <<queue, pool, ledger, found>>

\* getTransaction throws, and so does the call.
PollFails(i, c) ==
  /\ Running(i, c)
  /\ call[c].pc = "wait"
  /\ Fault
  /\ Settle(c, "error")
  /\ UNCHANGED <<queue, pool, ledger, found>>

-----------------------------------------------------------------------------
\* The process dies, and the calls that have not settled die with it.
Crash(i) ==
  /\ \E n \in DOMAIN queue[i] : call[queue[i][n]].pc \notin Outcomes
  /\ Fault
  /\ call' = [c \in Calls |-> IF Contains(queue[i], c) /\ call[c].pc \notin Outcomes
                              THEN [call[c] EXCEPT !.pc = "gone", !.seq = 0, !.life = 0, !.patience = 0]
                              ELSE call[c]]
  /\ UNCHANGED <<queue, pool, ledger, found>>

\* A ledger closes: the transaction is applied, successfully or not.
Close(tx) ==
  /\ tx.life > 0
  /\ tx.seq = ledger.seq + 1
  /\ pool' = pool \ {tx}
  /\ \E ok \in BOOLEAN :
       /\ found' = found \cup {[call |-> tx.call, attempt |-> tx.attempt, ok |-> ok]}
       /\ ledger' = [seq |-> tx.seq, log |-> IF ok THEN Append(ledger.log, tx.call) ELSE ledger.log]
  /\ UNCHANGED <<queue, call, faults>>

\* The network drops a transaction, at the latest when it is too old.
Drop(tx) ==
  /\ pool' = pool \ {tx}
  /\ UNCHANGED <<queue, call, ledger, found, faults>>

Older(n) == IF n = 0 THEN 0 ELSE n - 1

\* A unit of time passes.
Tick ==
  /\ \/ \E c \in Calls : call[c].life > 0 \/ call[c].patience > 0
     \/ \E tx \in pool : tx.life > 0
  /\ call' = [c \in Calls |-> [call[c] EXCEPT !.life = Older(@), !.patience = Older(@)]]
  /\ pool' = {[tx EXCEPT !.life = Older(@)] : tx \in pool}
  /\ UNCHANGED <<queue, ledger, found, faults>>

Proceed(i, c) ==
  \/ Build(i, c)
  \/ SimulationFails(i, c)
  \/ Submit(i, c)
  \/ SubmitPutOff(i, c)
  \/ BadSequence(i, c)
  \/ SubmitRefused(i, c)
  \/ Confirm(i, c)
  \/ GiveUp(i, c)

Next ==
  \/ \E i \in Instances, c \in Calls :
       \/ Proceed(i, c)
       \/ SubmitLost(i, c)
       \/ PollFails(i, c)
  \/ \E i \in Instances : Enqueue(i) \/ Crash(i)
  \/ \E tx \in pool : Close(tx) \/ Drop(tx)
  \/ Tick

Spec == Init /\ [][Next]_vars

\* The RPC answers, time passes.  Nothing is assumed of the network: it may
\* leave a transaction alone until it is too old.
FairSpec ==
  /\ Spec
  /\ \A i \in Instances : WF_vars(\E c \in Calls : Proceed(i, c))
  /\ WF_vars(Tick)

-----------------------------------------------------------------------------
TypeOK ==
  /\ queue \in [Instances -> Seq(Calls)]
  /\ call \in [Calls -> Call]
  /\ pool \subseteq Tx
  /\ ledger \in [seq : Nat, log : Seq(Calls)]
  /\ found \subseteq [call : Calls, attempt : Nat, ok : BOOLEAN]
  /\ faults \in Nat

(***************************************************************************)
(* Building a call again never applies it twice: a document is not stored, *)
(* a review not given, a proposal not created a second time.               *)
(***************************************************************************)
AppliedAtMostOnce == IsInjective(ledger.log)

(***************************************************************************)
(* The caller is told the truth, with two instances contending for the     *)
(* sequence number and the network free to drop and delay: confirmed means *)
(* applied, and refused or timed out means not applied, not even later.    *)
(* (An RPC request that fails, or a crash, leaves the outcome open.)       *)
(***************************************************************************)
TruthfulOutcome ==
  \A c \in Calls :
    /\ call[c].pc = "done" => Contains(ledger.log, c)
    /\ call[c].pc \in {"refused", "timeout"} => ~Contains(ledger.log, c)

(***************************************************************************)
(* The mutex: calls of one instance are applied in the order in which they *)
(* were made, also when the one before failed, was given up or lost.       *)
(***************************************************************************)
AppliedInOrder ==
  \A i \in Instances : \A m, n \in DOMAIN queue[i], p, q \in DOMAIN ledger.log :
    m < n /\ ledger.log[p] = queue[i][m] /\ ledger.log[q] = queue[i][n] => p < q

(***************************************************************************)
(* "One failure does not wedge the chain": every call settles, or dies with*)
(* its process; again and again nothing is left to be done.                *)
(***************************************************************************)
CallsSettle == []<>(\A c \in Calls : call[c].pc \in Outcomes \cup {"new"})
=============================================================================
