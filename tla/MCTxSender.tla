----------------------------- MODULE MCTxSender -----------------------------
(* TxSender on small instances. *)
EXTENDS TxSender, TLC

Symmetry == Permutations(Instances) \cup Permutations(Calls)
=============================================================================
