------------------------ MODULE MCFrameworkProposal ------------------------
(* FrameworkProposal on small instances. *)
EXTENDS FrameworkProposal, TLC

Symmetry == Permutations(Actors) \cup Permutations(Officers)
=============================================================================
