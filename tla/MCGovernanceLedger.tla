------------------------- MODULE MCGovernanceLedger -------------------------
(* Instances of GovernanceLedger for TLC; the cfg files name the             *)
(* organizations, the transaction IDs and the requests in flight.            *)
EXTENDS GovernanceRefinement, TLC

\* Organizations, transaction IDs and requests are interchangeable.
MCSymmetry ==
  Permutations(Institution) \cup Permutations(ProposalId) \cup Permutations(Client)
=============================================================================
