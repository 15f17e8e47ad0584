---------------------------- MODULE MCGovernance ----------------------------
(* Governance on small instances. *)
EXTENDS Governance, TLC

Symmetry == Permutations(Actors) \cup Permutations(Officers)
=============================================================================
