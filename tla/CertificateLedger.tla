------------------------- MODULE CertificateLedger --------------------------
(***************************************************************************)
(* chaincode/certificate-cc on a Fabric channel.  As in GovernanceLedger,  *)
(* a transaction is endorsed on the committed state and commits later only *)
(* if no key it read was written in between.                               *)
(*                                                                         *)
(* IssueCertificate reads the caller's record in institution-cc's          *)
(* namespace through InvokeChaincode, which merges that read into its own  *)
(* read set, and read-increment-writes two counters: one of the consortium *)
(* and one of the issuer.  RevokeCertificate touches the certificate only. *)
(*                                                                         *)
(* The holder's data and its hash do not influence any decision of these   *)
(* two functions and are left out; a revocation reason is one of a small   *)
(* set, the empty string included.                                         *)
(***************************************************************************)
EXTENDS Integers, FiniteSets

CONSTANTS
  Institution,    \* the MSP IDs that can call the chaincode
  CertificateId,  \* the transaction IDs under which certificates are stored
  Reason,         \* the revocation reasons that are not empty
  Client,         \* requests that can be in flight at once (bounds the model)
  None            \* "no record under this key"

VARIABLES
  active,         \* institutions with an active record in institution-cc
  consortiumCounter, \* the value under certCounterKey, 0 when absent
  issuerCounter,  \* the value under each issuerCounterKey, 0 when absent
  certificates,   \* the Certificate record of each ID, or None
  inflight        \* the endorsed transaction of each client, or None

ledger == <<active, consortiumCounter, issuerCounter, certificates>>
vars == <<ledger, inflight>>

CertificateRecord ==
  [issuer: Institution, consortiumNumber: Nat \ {0}, issuerSequenceNumber: Nat \ {0},
   status: {"active", "revoked"}, revokedReason: Reason \cup {""}]

-----------------------------------------------------------------------------
(* Keys *)

InstitutionKey(i) == [type |-> "institution", id |-> i]
CertCounterKey == [type |-> "certCounter", id |-> {}]
IssuerCounterKey(i) == [type |-> "issuerCounter", id |-> i]
CertificateKey(x) == [type |-> "certificate", id |-> x]

Key ==
  {CertCounterKey} \cup {InstitutionKey(i) : i \in Institution}
    \cup {IssuerCounterKey(i) : i \in Institution}
    \cup {CertificateKey(x) : x \in CertificateId}

-----------------------------------------------------------------------------
(* What each chaincode function requires, reads and writes *)

\* Mutant: no cross-chaincode check of the caller.
CanIssue_Anybody(c) == c \in Institution

CanIssue(c) == c \in active

\* Mutant: the consortium counter is taken from a query of the certificates.
IssueReads_Queried(c) == {InstitutionKey(c), IssuerCounterKey(c)}

IssueReads(c) == {InstitutionKey(c), CertCounterKey, IssuerCounterKey(c)}

NewCertificate(c) ==
  [issuer |-> c, consortiumNumber |-> consortiumCounter + 1,
   issuerSequenceNumber |-> issuerCounter[c] + 1,
   status |-> "active", revokedReason |-> ""]

\* Mutants: nobody checks that the certificate is still active, or who issued it.
CanRevoke_Again(c, x, reason) ==
  reason # "" /\ certificates[x] # None /\ certificates[x].issuer = c
CanRevoke_Anybody(c, x, reason) ==
  c \in Institution /\ reason # "" /\ certificates[x] # None /\ certificates[x].status # "revoked"

\* Unlike issuing, revoking does not ask institution-cc whether c is active.
CanRevoke(c, x, reason) ==
  /\ reason # ""
  /\ certificates[x] # None
  /\ certificates[x].issuer = c
  /\ certificates[x].status # "revoked"

\* Mutant: the certificate to revoke is found with a rich query.
RevokeReads_Queried(x) == {}

RevokeReads(x) == {CertificateKey(x)}

Revoked(x, reason) ==
  [certificates[x] EXCEPT !.status = "revoked", !.revokedReason = reason]

-----------------------------------------------------------------------------
(* Endorsed transactions *)

IssueTx ==
  [fn: {"IssueCertificate"}, caller: Institution, id: CertificateId,
   certificate: CertificateRecord, reads: SUBSET Key, stale: BOOLEAN]
RevokeTx ==
  [fn: {"RevokeCertificate"}, caller: Institution, id: CertificateId,
   certificate: CertificateRecord, reads: SUBSET Key, stale: BOOLEAN]

ASSUME NoneIsNoRecord == None \notin CertificateRecord \cup IssueTx \cup RevokeTx
ASSUME ReasonsAreNotEmpty == "" \notin Reason

Idle(k) == inflight[k] = None

Endorsed(k, fn) == inflight[k] # None /\ inflight[k].fn = fn

Endorse(k, tx) ==
  /\ Idle(k)
  /\ inflight' = [inflight EXCEPT ![k] = tx]
  /\ UNCHANGED ledger

\* x is the transaction's own ID: no certificate, stored or in flight, has it.
EndorseIssue(k, c, x) ==
  /\ certificates[x] = None
  /\ \A j \in Client : Endorsed(j, "IssueCertificate") => inflight[j].id # x
  /\ CanIssue(c)
  /\ Endorse(k, [fn |-> "IssueCertificate", caller |-> c, id |-> x,
                 certificate |-> NewCertificate(c),
                 reads |-> IssueReads(c), stale |-> FALSE])

EndorseRevoke(k, c, x, reason) ==
  /\ CanRevoke(c, x, reason)
  /\ Endorse(k, [fn |-> "RevokeCertificate", caller |-> c, id |-> x,
                 certificate |-> Revoked(x, reason),
                 reads |-> RevokeReads(x), stale |-> FALSE])

-----------------------------------------------------------------------------
(* Ordering and validation *)

\* The transactions in flight after keys were written: those that read one are stale.
Outdated(written) ==
  [j \in Client |->
     IF Idle(j) THEN None
     ELSE [inflight[j] EXCEPT !.stale = @ \/ inflight[j].reads \cap written # {}]]

Retire(k, written) == inflight' = [Outdated(written) EXCEPT ![k] = None]

IssuerCounterAfter(t) ==
  [issuerCounter EXCEPT ![t.caller] = t.certificate.issuerSequenceNumber]

CommitIssue(k) ==
  LET t == inflight[k] IN
  /\ Endorsed(k, "IssueCertificate")
  /\ ~t.stale
  /\ consortiumCounter' = t.certificate.consortiumNumber
  /\ issuerCounter' = IssuerCounterAfter(t)
  /\ certificates' = [certificates EXCEPT ![t.id] = t.certificate]
  /\ Retire(k, {CertCounterKey, IssuerCounterKey(t.caller), CertificateKey(t.id)})
  /\ UNCHANGED active

CommitRevoke(k) ==
  LET t == inflight[k] IN
  /\ Endorsed(k, "RevokeCertificate")
  /\ ~t.stale
  /\ certificates' = [certificates EXCEPT ![t.id] = t.certificate]
  /\ Retire(k, {CertificateKey(t.id)})
  /\ UNCHANGED <<active, consortiumCounter, issuerCounter>>

\* Invalidated by MVCC, or never ordered.
Discard(k) ==
  /\ ~Idle(k)
  /\ inflight' = [inflight EXCEPT ![k] = None]
  /\ UNCHANGED ledger

\* institution-cc writes i's record: a registration, an admission, or an
\* admission over an existing record.  It never removes or suspends one.
WriteInstitution(i) ==
  /\ active' = active \cup {i}
  /\ inflight' = Outdated({InstitutionKey(i)})
  /\ UNCHANGED <<consortiumCounter, issuerCounter, certificates>>

-----------------------------------------------------------------------------

Init ==
  /\ active = {}
  /\ consortiumCounter = 0
  /\ issuerCounter = [i \in Institution |-> 0]
  /\ certificates = [x \in CertificateId |-> None]
  /\ inflight = [k \in Client |-> None]

Next ==
  \/ \E i \in Institution : WriteInstitution(i)
  \/ \E k \in Client :
       \/ \E c \in Institution, x \in CertificateId : EndorseIssue(k, c, x)
       \/ \E c \in Institution, x \in CertificateId, r \in Reason \cup {""} :
            EndorseRevoke(k, c, x, r)
       \/ CommitIssue(k)
       \/ CommitRevoke(k)
       \/ Discard(k)

Spec == Init /\ [][Next]_vars

-----------------------------------------------------------------------------

TypeOK ==
  /\ active \subseteq Institution
  /\ consortiumCounter \in Nat
  /\ issuerCounter \in [Institution -> Nat]
  /\ certificates \in [CertificateId -> CertificateRecord \cup {None}]
  /\ inflight \in [Client -> IssueTx \cup RevokeTx \cup {None}]

Issued == {x \in CertificateId : certificates[x] # None}

IssuedBy(i) == {x \in Issued : certificates[x].issuer = i}

\* Consortium numbers are 1, 2, 3, ... without gap or repetition, although every
\* institution increments the same counter concurrently (issuecertificate.go:80-88).
ConsortiumNumbersAreDense ==
  /\ Cardinality(Issued) = consortiumCounter
  /\ {certificates[x].consortiumNumber : x \in Issued} = 1..consortiumCounter

\* An issuer's own numbers are 1, 2, 3, ... and follow the consortium's order: a
\* certificate is its issuer's n-th exactly when n of that issuer's certificates
\* have at most its consortium number (model.go:52-60).
IssuerNumbersFollowConsortiumOrder ==
  \A i \in Institution :
    /\ issuerCounter[i] = Cardinality(IssuedBy(i))
    /\ \A x \in IssuedBy(i) :
         certificates[x].issuerSequenceNumber =
           Cardinality({y \in IssuedBy(i) :
                          certificates[y].consortiumNumber <= certificates[x].consortiumNumber})

\* Both numbers of every certificate are what its holder is told they are, whoever
\* issues at the same time (issuecertificate.go:80-104, model.go:52-60).
CertificatesAreNumbered == ConsortiumNumbersAreDense /\ IssuerNumbersFollowConsortiumOrder

\* A transaction that can still commit holds what the function would compute now:
\* the counters it incremented and the certificate it revokes have not moved.
FreshTxIsCurrent ==
  \A k \in Client : ~Idle(k) /\ ~inflight[k].stale =>
    LET t == inflight[k] IN
    /\ t.fn = "IssueCertificate" =>
         CanIssue(t.caller) /\ certificates[t.id] = None /\ t.certificate = NewCertificate(t.caller)
    /\ t.fn = "RevokeCertificate" =>
         /\ CanRevoke(t.caller, t.id, t.certificate.revokedReason)
         /\ t.certificate = Revoked(t.id, t.certificate.revokedReason)

\* A certificate's identity never changes; only a transaction of its issuer
\* revokes it, whoever else tries at the same time, for good and with one reason,
\* and leaves the rest of the ledger alone (model.go:75-79, revokecertificate.go:37-51).
RevocationIsFinal ==
  [][\A x \in Issued :
       LET old == certificates[x]
           new == certificates'[x] IN
       new # old =>
         /\ \E k \in Client :
              inflight[k] # None /\ inflight'[k] = None /\ inflight[k].caller = old.issuer
         /\ old.status = "active" /\ new.status = "revoked" /\ new.revokedReason # ""
         /\ new = [old EXCEPT !.status = "revoked", !.revokedReason = new.revokedReason]
         /\ UNCHANGED <<active, consortiumCounter, issuerCounter>>]_vars

=============================================================================
