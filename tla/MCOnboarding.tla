---------------------------- MODULE MCOnboarding ----------------------------
(* Onboarding on small instances. *)
EXTENDS Onboarding, TLC

Symmetry == Permutations(Actors) \cup Permutations(Profiles)
=============================================================================
