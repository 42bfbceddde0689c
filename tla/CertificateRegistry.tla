------------------------ MODULE CertificateRegistry -------------------------
(* What the certificate ledger promises: a register in which members write   *)
(* certificates one under the other, so that a certificate's number is its   *)
(* line, and in which only the issuer of a certificate can strike it, once.  *)
EXTENDS Integers, Sequences

CONSTANTS Institution, CertificateId

VARIABLES
  members,   \* the institutions allowed to issue
  register,  \* the certificates in the order they were issued
  revoked    \* those that were struck

abstract == <<members, register, revoked>>

Lines == DOMAIN register

Start == members = {} /\ register = <<>> /\ revoked = {}

Join(i) ==
  /\ members' = members \cup {i}
  /\ UNCHANGED <<register, revoked>>

\* nth is the certificate's number among those of its issuer.
Issue(i, x) ==
  /\ i \in members
  /\ \A n \in Lines : register[n].id # x
  /\ LET earlier == {n \in Lines : register[n].issuer = i}
         nth == 1 + (IF earlier = {} THEN 0
                     ELSE register[CHOOSE n \in earlier : \A m \in earlier : m <= n].nth) IN
     register' = Append(register, [id |-> x, issuer |-> i, nth |-> nth])
  /\ UNCHANGED <<members, revoked>>

Revoke(x) ==
  /\ x \notin revoked
  /\ \E n \in Lines : register[n].id = x
  /\ revoked' = revoked \cup {x}
  /\ UNCHANGED <<members, register>>

Step ==
  \/ \E i \in Institution : Join(i)
  \/ \E i \in Institution, x \in CertificateId : Issue(i, x)
  \/ \E x \in CertificateId : Revoke(x)

Promise == Start /\ [][Step]_abstract
=============================================================================
