----------------------- MODULE CertificateRefinement ------------------------
(* certificate-cc under Fabric's optimistic transactions keeps the promise   *)
(* of CertificateRegistry.                                                   *)
EXTENDS CertificateLedger

\* Line n of the register is the certificate that carries consortium number n.
Line(n) ==
  LET x == CHOOSE x \in Issued : certificates[x].consortiumNumber = n IN
  [id |-> x, issuer |-> certificates[x].issuer, nth |-> certificates[x].issuerSequenceNumber]

Registry == INSTANCE CertificateRegistry WITH
  members <- active,
  register <- [n \in 1..consortiumCounter |-> Line(n)],
  revoked <- {x \in Issued : certificates[x].status = "revoked"}

\* Issuing and revoking under optimistic transactions is writing and striking
\* lines of one register (issuecertificate.go:122-169, revokecertificate.go:19-57).
ImplementsRegistry == Registry!Promise
=============================================================================
