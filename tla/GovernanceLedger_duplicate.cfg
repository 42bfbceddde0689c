SPECIFICATION LedgerSpec
CONSTANTS
  Institution = {i1, i2, i3}
  ProposalId = {p1, p2}
  Client = {k1, k2}
  None = None
SYMMETRY MCSymmetry
INVARIANTS
  OneLiveProposalPerApplicant
\* When everybody is a member, or every proposal ID is used, nothing is left to do.
CHECK_DEADLOCK FALSE
