SPECIFICATION Spec
CONSTANTS
  Institution = {i1, i2, i3}
  ProposalId = {p1, p2}
  None = None
SYMMETRY MCSymmetry
PROPERTIES
  InstitutionCreatedOnce
\* When everybody is a member, or every proposal ID is used, nothing is left to do.
CHECK_DEADLOCK FALSE
