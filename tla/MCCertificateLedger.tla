------------------------ MODULE MCCertificateLedger -------------------------
(* Instances of CertificateLedger for TLC.                                   *)
EXTENDS CertificateRefinement, TLC

\* Institutions, transaction IDs and requests are interchangeable.
MCSymmetry ==
  Permutations(Institution) \cup Permutations(CertificateId) \cup Permutations(Client)
=============================================================================
