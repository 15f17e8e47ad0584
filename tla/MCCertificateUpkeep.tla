------------------------ MODULE MCCertificateUpkeep ------------------------
(* CertificateUpkeep on small instances. *)
EXTENDS CertificateUpkeep, TLC

Symmetry == Permutations(Paths)
=============================================================================
