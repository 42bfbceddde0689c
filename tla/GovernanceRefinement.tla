------------------------ MODULE GovernanceRefinement ------------------------
(* institution-cc under Fabric's optimistic transactions keeps the promise   *)
(* of MembershipVoting.                                                      *)
EXTENDS GovernanceLedger

\* The ballot a stored proposal stands for: its voters come from the Vote
\* records, not from the counters or the status.
BallotOf(p) ==
  IF Exists(p)
  THEN [applicant |-> proposals[p].applicant, size |-> proposals[p].totalEligibleVoters,
        yes |-> Voters(p, "yes"), no |-> Voters(p, "no")]
  ELSE None

\* None is not a ballot.
ASSUME NoneIsNoBallot ==
  None \notin [applicant: Institution, size: Nat, yes: SUBSET Institution, no: SUBSET Institution]

Voting == INSTANCE MembershipVoting WITH
  charter <- founding,
  members <- ActiveInstitutions,
  ballots <- [p \in ProposalId |-> BallotOf(p)]

\* Every behaviour of the ledger is a behaviour of the abstract vote: counters,
\* status and admission always agree with the votes actually cast, whatever the
\* interleaving of requests (governance.go:371-492).
ImplementsVoting == Voting!Promise
=============================================================================
