------------------------- MODULE MCOnChainProposal -------------------------
(* OnChainProposal on small instances. *)
EXTENDS OnChainProposal, TLC

\* Each list in turn is too long.
OneCrowded == {{"certificates"}, {"proposals"}}

Symmetry == Permutations(Actors) \cup Permutations(Officers)
=============================================================================
