--------------------------- MODULE MCInstitutionCC --------------------------
(* Instances of InstitutionCC for TLC; the cfg files name the organizations. *)
EXTENDS InstitutionCC, TLC

\* The organizations are interchangeable, and so are the proposals.
MCSymmetry == Permutations(Institution) \cup Permutations(ProposalId)
=============================================================================
