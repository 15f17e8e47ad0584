----------------------- MODULE MCCertificateMirror -----------------------
(* CertificateMirror on small instances. *)
EXTENDS CertificateMirror, TLC

MCOpinions == {[decision |-> "approved", score |-> 90],
               [decision |-> "rejected", score |-> 20]}
MCApproval == {[decision |-> "approved", score |-> 90]}

Symmetry == Permutations(Actors)
=============================================================================
