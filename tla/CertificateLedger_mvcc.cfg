SPECIFICATION Spec
CONSTANTS
  Institution = {i1, i2}
  CertificateId = {x1, x2, x3}
  Reason = {"withdrawn", "mistake"}
  Client = {k1, k2, k3}
  None = None
SYMMETRY MCSymmetry
INVARIANTS
  CertificatesAreNumbered
  FreshTxIsCurrent
PROPERTIES
  RevocationIsFinal
  ImplementsRegistry
