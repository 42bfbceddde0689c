------------------------- MODULE CertificateProofs --------------------------
(***************************************************************************)
(* Theorems about certificate-cc under Fabric's optimistic transactions,   *)
(* for any institutions, transaction IDs, reasons and requests in flight.  *)
(***************************************************************************)
EXTENDS CertificateRefinement, Sequences, FiniteSetTheorems, TLAPS

-----------------------------------------------------------------------------
(* Types *)

Tx == IssueTx \cup RevokeTx

LEMMA RecordsAreNotNone ==
  ASSUME TypeOK, NEW x \in CertificateId, certificates[x] # None
  PROVE  certificates[x] \in CertificateRecord
BY DEF TypeOK

\* What IssueCertificate and RevokeCertificate store is a certificate.
LEMMA CertificateTypes ==
  ASSUME TypeOK, NEW c \in Institution
  PROVE  /\ NewCertificate(c) \in CertificateRecord
         /\ \A x \in CertificateId, r \in Reason \cup {""} :
              CanRevoke(c, x, r) => Revoked(x, r) \in CertificateRecord
<1>1. NewCertificate(c) \in CertificateRecord
  <2>1. consortiumCounter + 1 \in Nat \ {0} /\ issuerCounter[c] + 1 \in Nat \ {0}
    BY DEF TypeOK
  <2> QED
    BY <2>1 DEF NewCertificate, CertificateRecord
<1>2. \A x \in CertificateId : \A r : CanRevoke(c, x, r) => certificates[x] \in CertificateRecord
  BY RecordsAreNotNone DEF CanRevoke
<1> QED
  BY <1>1, <1>2 DEF Revoked, CertificateRecord

LEMMA TxOfFunction ==
  ASSUME NEW t \in Tx
  PROVE  /\ t.fn = "IssueCertificate" => t \in IssueTx
         /\ t.fn = "RevokeCertificate" => t \in RevokeTx
         /\ t.fn \in {"IssueCertificate", "RevokeCertificate"}
BY DEF Tx, IssueTx, RevokeTx

\* Validation only touches the mark of staleness.
LEMMA MarkedTx ==
  ASSUME NEW t \in Tx, NEW b \in BOOLEAN
  PROVE  /\ [t EXCEPT !.stale = b] \in Tx
         /\ [t EXCEPT !.stale = b].stale = b
         /\ t.stale \in BOOLEAN
         /\ t = [t EXCEPT !.stale = t.stale]
<1>1. CASE t \in IssueTx
  BY <1>1 DEF Tx, IssueTx
<1>2. CASE t \in RevokeTx
  BY <1>2 DEF Tx, RevokeTx
<1> QED
  BY <1>1, <1>2 DEF Tx

\* What becomes of a transaction in flight when keys are written.
Kept(j, u, written) ==
  /\ u \in Tx /\ u # None /\ u = [inflight[j] EXCEPT !.stale = u.stale]
  /\ ~u.stale => u = inflight[j] /\ inflight[j].reads \cap written = {}

LEMMA OutdatedKeeps ==
  ASSUME TypeOK, NEW written, NEW j \in Client
  PROVE  /\ Outdated(written) \in [Client -> IssueTx \cup RevokeTx \cup {None}]
         /\ Idle(j) => Outdated(written)[j] = None
         /\ ~Idle(j) => Kept(j, Outdated(written)[j], written)
<1> DEFINE mark(i) == inflight[i].stale \/ inflight[i].reads \cap written # {}
<1>1. ASSUME NEW i \in Client, ~Idle(i)
      PROVE  /\ inflight[i] \in Tx /\ mark(i) \in BOOLEAN
             /\ Outdated(written)[i] = [inflight[i] EXCEPT !.stale = mark(i)]
             /\ Outdated(written)[i] \in Tx
             /\ Outdated(written)[i].stale = mark(i)
  <2>1. inflight[i] \in Tx
    BY <1>1 DEF TypeOK, Idle, Tx
  <2>2. mark(i) \in BOOLEAN
    BY <2>1, MarkedTx
  <2>3. Outdated(written)[i] = [inflight[i] EXCEPT !.stale = mark(i)]
    BY <1>1 DEF Outdated
  <2>4. \A b \in BOOLEAN : [inflight[i] EXCEPT !.stale = b] \in Tx
                           /\ [inflight[i] EXCEPT !.stale = b].stale = b
    BY <2>1, MarkedTx
  <2> QED
    BY <2>1, <2>2, <2>3, <2>4
<1>2. \A i \in Client : Idle(i) => Outdated(written)[i] = None
  BY DEF Outdated
<1>3. Outdated(written) \in [Client -> IssueTx \cup RevokeTx \cup {None}]
  BY <1>1, <1>2 DEF Outdated, Tx
<1>4. \A t \in Tx : t # None
  BY NoneIsNoRecord DEF Tx
<1>5. CASE ~Idle(j)
  <2> DEFINE u == Outdated(written)[j]
  <2>1. u \in Tx /\ u # None /\ u.stale = mark(j) /\ mark(j) \in BOOLEAN
    BY <1>1, <1>4, <1>5
  <2>2. u = [inflight[j] EXCEPT !.stale = u.stale]
    BY <1>1, <1>5, <2>1
  <2>3. inflight[j] \in Tx /\ inflight[j].stale \in BOOLEAN
        /\ inflight[j] = [inflight[j] EXCEPT !.stale = inflight[j].stale]
    BY <1>1, <1>5, MarkedTx
  <2>4. ~u.stale => ~inflight[j].stale /\ inflight[j].reads \cap written = {}
    BY <2>1
  <2>5. ~u.stale => u = inflight[j]
    BY <2>1, <2>2, <2>3, <2>4
  <2> QED
    BY <1>3, <1>5, <2>1, <2>2, <2>4, <2>5 DEF Kept
<1> QED
  BY <1>2, <1>3, <1>5

\* The state variables and the transactions in flight have their types.
THEOREM TypeCorrect == Spec => []TypeOK
<1>1. Init => TypeOK
  BY DEF Init, TypeOK
<1>2. TypeOK /\ [Next]_vars => TypeOK'
  <2> SUFFICES ASSUME TypeOK, [Next]_vars PROVE TypeOK'
    OBVIOUS
  <2>1. ASSUME NEW i \in Institution, WriteInstitution(i)
        PROVE  TypeOK'
    <3>1. \A written : Outdated(written) \in [Client -> IssueTx \cup RevokeTx \cup {None}]
      BY OutdatedKeeps DEF Outdated, TypeOK
    <3> QED
      BY <2>1, <3>1 DEF WriteInstitution, TypeOK
  <2>2. ASSUME NEW k \in Client, NEW c \in Institution, NEW x \in CertificateId, EndorseIssue(k, c, x)
        PROVE  TypeOK'
    <3> DEFINE tx == [fn |-> "IssueCertificate", caller |-> c, id |-> x,
                      certificate |-> NewCertificate(c), reads |-> IssueReads(c), stale |-> FALSE]
    <3>1. NewCertificate(c) \in CertificateRecord
      BY CertificateTypes
    <3>2. IssueReads(c) \subseteq Key
      BY DEF IssueReads, Key
    <3>3. tx \in IssueTx
      BY <3>1, <3>2 DEF IssueTx
    <3> QED
      BY <2>2, <3>3 DEF EndorseIssue, Endorse, TypeOK, ledger
  <2>3. ASSUME NEW k \in Client, NEW c \in Institution, NEW x \in CertificateId,
               NEW r \in Reason \cup {""}, EndorseRevoke(k, c, x, r)
        PROVE  TypeOK'
    <3> DEFINE tx == [fn |-> "RevokeCertificate", caller |-> c, id |-> x,
                      certificate |-> Revoked(x, r), reads |-> RevokeReads(x), stale |-> FALSE]
    <3>1. Revoked(x, r) \in CertificateRecord
      BY <2>3, CertificateTypes DEF EndorseRevoke
    <3>2. RevokeReads(x) \subseteq Key
      BY DEF RevokeReads, Key
    <3>3. tx \in RevokeTx
      BY <3>1, <3>2 DEF RevokeTx
    <3> QED
      BY <2>3, <3>3 DEF EndorseRevoke, Endorse, TypeOK, ledger
  <2>4. ASSUME NEW k \in Client, CommitIssue(k)
        PROVE  TypeOK'
    <3>1. inflight[k] \in IssueTx
      BY <2>4, TxOfFunction DEF CommitIssue, Endorsed, TypeOK, Tx
    <3>2. inflight' \in [Client -> IssueTx \cup RevokeTx \cup {None}]
      BY <2>4, OutdatedKeeps DEF CommitIssue, Retire
    <3> QED
      BY <2>4, <3>1, <3>2
      DEF CommitIssue, IssuerCounterAfter, IssueTx, CertificateRecord, TypeOK
  <2>5. ASSUME NEW k \in Client, CommitRevoke(k)
        PROVE  TypeOK'
    <3>1. inflight[k] \in RevokeTx
      BY <2>5, TxOfFunction DEF CommitRevoke, Endorsed, TypeOK, Tx
    <3>2. inflight' \in [Client -> IssueTx \cup RevokeTx \cup {None}]
      BY <2>5, OutdatedKeeps DEF CommitRevoke, Retire
    <3> QED
      BY <2>5, <3>1, <3>2 DEF CommitRevoke, RevokeTx, TypeOK
  <2>6. ASSUME NEW k \in Client, Discard(k)
        PROVE  TypeOK'
    BY <2>6 DEF Discard, TypeOK, ledger
  <2>7. CASE UNCHANGED vars
    BY <2>7 DEF vars, ledger, TypeOK
  <2> QED
    BY <2>1, <2>2, <2>3, <2>4, <2>5, <2>6, <2>7 DEF Next
<1> QED
  BY <1>1, <1>2, PTL DEF Spec

-----------------------------------------------------------------------------
(* Validation *)

\* The keys of two kinds, or of two things, differ.
LEMMA KeysDiffer ==
  /\ \A i, j : InstitutionKey(i) # CertificateKey(j)
  /\ \A i, j : InstitutionKey(i) = InstitutionKey(j) => i = j
  /\ \A x, y : CertificateKey(x) = CertificateKey(y) => x = y
BY DEF InstitutionKey, CertificateKey

\* What one transaction would compute on the present ledger.
IsCurrent(t) ==
  /\ t.fn = "IssueCertificate" =>
       CanIssue(t.caller) /\ certificates[t.id] = None /\ t.certificate = NewCertificate(t.caller)
  /\ t.fn = "RevokeCertificate" =>
       /\ CanRevoke(t.caller, t.id, t.certificate.revokedReason)
       /\ t.certificate = Revoked(t.id, t.certificate.revokedReason)

\* What an endorsed transaction, stale or not, read.
CoversNeeds(t) ==
  /\ t.fn = "IssueCertificate" => CertCounterKey \in t.reads
  /\ t.fn = "RevokeCertificate" => CertificateKey(t.id) \in t.reads

ReadsCoverNeeds == \A k \in Client : ~Idle(k) => CoversNeeds(inflight[k])

Validated == TypeOK /\ ReadsCoverNeeds /\ FreshTxIsCurrent

LEMMA FreshIsCurrent ==
  FreshTxIsCurrent <=> \A k \in Client : ~Idle(k) /\ ~inflight[k].stale => IsCurrent(inflight[k])
BY DEF FreshTxIsCurrent, IsCurrent

\* A new transaction in flight that is covered and current does no harm.
LEMMA EndorseValidated ==
  ASSUME Validated, TypeOK', NEW k \in Client, NEW tx, Endorse(k, tx), CoversNeeds(tx), IsCurrent(tx)
  PROVE  Validated'
<1>1. inflight'[k] = tx /\ \A j \in Client : j # k => inflight'[j] = inflight[j]
  BY DEF Endorse, Validated, TypeOK
<1>2. ReadsCoverNeeds'
  BY <1>1 DEF Validated, ReadsCoverNeeds, CoversNeeds, Idle
<1>3. UNCHANGED <<active, consortiumCounter, issuerCounter, certificates>>
  BY DEF Endorse, ledger
<1>4. FreshTxIsCurrent'
  BY <1>1, <1>3 DEF Validated, FreshTxIsCurrent, IsCurrent, Idle, CanIssue, NewCertificate,
     CanRevoke, Revoked
<1> QED
  BY <1>2, <1>4 DEF Validated

\* A write of keys leaves the other transactions stale, or as current as they were.
LEMMA WriteValidated ==
  ASSUME Validated, TypeOK', NEW written,
         \A j \in Client : inflight'[j] = None \/ inflight'[j] = Outdated(written)[j],
         active \subseteq active',
         CertCounterKey \in written \/ UNCHANGED <<consortiumCounter, issuerCounter>>,
         \A x \in CertificateId : certificates'[x] # certificates[x] =>
           /\ CertificateKey(x) \in written
           /\ CertCounterKey \in written \/ certificates[x] # None
  PROVE  Validated'
<1>1. ASSUME NEW j \in Client, inflight'[j] # None
      PROVE  ~Idle(j) /\ inflight[j] \in Tx /\ Kept(j, inflight'[j], written)
  BY <1>1, OutdatedKeeps DEF Validated, TypeOK, Idle, Tx
<1>2. ReadsCoverNeeds'
  <2> SUFFICES ASSUME NEW j \in Client, inflight'[j] # None PROVE CoversNeeds(inflight'[j])
    BY DEF ReadsCoverNeeds, CoversNeeds, Idle
  <2>1. CoversNeeds(inflight[j])
    BY <1>1 DEF Validated, ReadsCoverNeeds
  <2> QED
    BY <1>1, <2>1 DEF CoversNeeds, Kept, Tx, IssueTx, RevokeTx
<1>3. FreshTxIsCurrent'
  <2> SUFFICES ASSUME NEW j \in Client, inflight'[j] # None, ~inflight'[j].stale
               PROVE  IsCurrent(inflight[j])' /\ inflight'[j] = inflight[j]
    BY DEF FreshTxIsCurrent, IsCurrent, Idle
  <2> DEFINE t == inflight[j]
  <2>1. inflight'[j] = t /\ t \in Tx /\ t.reads \cap written = {} /\ ~t.stale /\ ~Idle(j)
    BY <1>1 DEF Kept
  <2>2. CoversNeeds(t) /\ IsCurrent(t)
    BY <2>1, FreshIsCurrent DEF Validated, ReadsCoverNeeds
  <2>3. ASSUME t.fn = "IssueCertificate"
        PROVE  /\ t.caller \in active' /\ certificates'[t.id] = None
               /\ t.certificate = NewCertificate(t.caller)'
    <3>1. CertCounterKey \notin written /\ t.id \in CertificateId
      BY <2>1, <2>2, <2>3, TxOfFunction DEF CoversNeeds, IssueTx
    <3> QED
      BY <2>1, <2>2, <2>3, <3>1 DEF IsCurrent, CanIssue, NewCertificate
  <2>4. ASSUME t.fn = "RevokeCertificate"
        PROVE  certificates'[t.id] = certificates[t.id]
    <3>1. CertificateKey(t.id) \notin written /\ t.id \in CertificateId
      BY <2>1, <2>2, <2>4, TxOfFunction DEF CoversNeeds, RevokeTx
    <3> QED
      BY <3>1
  <2> QED
    BY <2>1, <2>2, <2>3, <2>4 DEF IsCurrent, CanIssue, CanRevoke, Revoked
<1> QED
  BY <1>2, <1>3 DEF Validated

LEMMA StepValidated ==
  ASSUME Validated, TypeOK', Next
  PROVE  Validated'
<1>0. TypeOK
  BY DEF Validated
<1>1. ASSUME NEW i \in Institution, WriteInstitution(i)
      PROVE  Validated'
  BY <1>1, WriteValidated DEF WriteInstitution
<1>2. ASSUME NEW k \in Client, NEW c \in Institution, NEW x \in CertificateId, EndorseIssue(k, c, x)
      PROVE  Validated'
  <2> DEFINE tx == [fn |-> "IssueCertificate", caller |-> c, id |-> x,
                    certificate |-> NewCertificate(c), reads |-> IssueReads(c), stale |-> FALSE]
  <2>1. CoversNeeds(tx) /\ IsCurrent(tx)
    BY <1>2 DEF EndorseIssue, CoversNeeds, IsCurrent, IssueReads
  <2> QED
    BY <1>2, <2>1, EndorseValidated DEF EndorseIssue
<1>3. ASSUME NEW k \in Client, NEW c \in Institution, NEW x \in CertificateId,
             NEW r \in Reason \cup {""}, EndorseRevoke(k, c, x, r)
      PROVE  Validated'
  <2> DEFINE tx == [fn |-> "RevokeCertificate", caller |-> c, id |-> x,
                    certificate |-> Revoked(x, r), reads |-> RevokeReads(x), stale |-> FALSE]
  <2>1. CanRevoke(c, x, r) /\ certificates[x] \in CertificateRecord
    BY <1>0, <1>3, RecordsAreNotNone DEF EndorseRevoke, CanRevoke
  <2>2. Revoked(x, r).revokedReason = r
    BY <2>1 DEF Revoked, CertificateRecord
  <2>3. CoversNeeds(tx) /\ IsCurrent(tx)
    BY <2>1, <2>2 DEF CoversNeeds, IsCurrent, RevokeReads
  <2> QED
    BY <1>3, <2>3, EndorseValidated DEF EndorseRevoke
<1>4. ASSUME NEW k \in Client, CommitIssue(k)
      PROVE  Validated'
  <2> DEFINE t == inflight[k]
             written == {CertCounterKey, IssuerCounterKey(t.caller), CertificateKey(t.id)}
  <2>1. \A j \in Client : inflight'[j] = None \/ inflight'[j] = Outdated(written)[j]
    BY <1>4 DEF CommitIssue, Retire, Outdated
  <2>2. \A x \in CertificateId : certificates'[x] # certificates[x] => x = t.id
    BY <1>0, <1>4 DEF CommitIssue, TypeOK
  <2>3. active' = active
    BY <1>4 DEF CommitIssue
  <2> QED
    BY <2>1, <2>2, <2>3, WriteValidated
<1>5. ASSUME NEW k \in Client, CommitRevoke(k)
      PROVE  Validated'
  <2> DEFINE t == inflight[k]
             written == {CertificateKey(t.id)}
  <2>1. \A j \in Client : inflight'[j] = None \/ inflight'[j] = Outdated(written)[j]
    BY <1>5 DEF CommitRevoke, Retire, Outdated
  <2>2. \A x \in CertificateId : certificates'[x] # certificates[x] => x = t.id
    BY <1>0, <1>5 DEF CommitRevoke, TypeOK
  <2>3. certificates[t.id] # None
    BY <1>5, FreshIsCurrent DEF Validated, IsCurrent, CommitRevoke, Endorsed, Idle, CanRevoke
  <2>4. UNCHANGED <<active, consortiumCounter, issuerCounter>>
    BY <1>5 DEF CommitRevoke
  <2> QED
    BY <2>1, <2>2, <2>3, <2>4, WriteValidated
<1>6. ASSUME NEW k \in Client, Discard(k)
      PROVE  Validated'
  <2>1. UNCHANGED <<active, consortiumCounter, issuerCounter, certificates>>
    BY <1>6 DEF Discard, ledger
  <2>2. \A j \in Client : inflight'[j] = None \/ inflight'[j] = inflight[j]
    BY <1>0, <1>6 DEF Discard, TypeOK
  <2> QED
    BY <2>1, <2>2 DEF Validated, ReadsCoverNeeds, CoversNeeds, FreshTxIsCurrent, Idle,
       CanIssue, NewCertificate, CanRevoke, Revoked
<1> QED
  BY <1>1, <1>2, <1>3, <1>4, <1>5, <1>6 DEF Next

LEMMA AlwaysValidated == Spec => []Validated
<1>1. Init => Validated
  BY DEF Init, Validated, TypeOK, ReadsCoverNeeds, FreshTxIsCurrent, Idle
<1>2. Validated /\ TypeOK' /\ [Next]_vars => Validated'
  <2>1. ASSUME Validated, UNCHANGED vars PROVE Validated'
    BY <2>1 DEF vars, ledger, Validated, TypeOK, ReadsCoverNeeds, CoversNeeds, FreshTxIsCurrent,
       Idle, CanIssue, NewCertificate, CanRevoke, Revoked
  <2> QED
    BY <2>1, StepValidated
<1> QED
  BY <1>1, <1>2, TypeCorrect, PTL DEF Spec

\* A transaction that can still commit holds what it would compute now.
THEOREM Validation == Spec => []FreshTxIsCurrent
BY AlwaysValidated, PTL DEF Validated

-----------------------------------------------------------------------------
(* The functions as they take effect *)

Joins(i) ==
  active' = active \cup {i} /\ UNCHANGED <<consortiumCounter, issuerCounter, certificates>>

Issues(c, x) ==
  /\ c \in active /\ certificates[x] = None
  /\ certificates' = [certificates EXCEPT ![x] = NewCertificate(c)]
  /\ consortiumCounter' = consortiumCounter + 1
  /\ issuerCounter' = [issuerCounter EXCEPT ![c] = issuerCounter[c] + 1]
  /\ active' = active

Revokes(x, r) ==
  /\ certificates[x] # None /\ certificates[x].status = "active" /\ r # ""
  /\ certificates' = [certificates EXCEPT ![x] = Revoked(x, r)]
  /\ UNCHANGED <<active, consortiumCounter, issuerCounter>>

SerialStep ==
  \/ \E i \in Institution : Joins(i)
  \/ \E c \in Institution, x \in CertificateId : Issues(c, x)
  \/ \E x \in CertificateId, r \in Reason \cup {""} : Revokes(x, r)

LEMMA CommitIssueIssues ==
  ASSUME Validated, NEW k \in Client, CommitIssue(k)
  PROVE  LET t == inflight[k] IN
         t.caller \in Institution /\ t.id \in CertificateId /\ Issues(t.caller, t.id)
<1> DEFINE t == inflight[k]
<1>1. t \in IssueTx
  BY TxOfFunction DEF CommitIssue, Endorsed, Validated, TypeOK, Tx
<1>2. IsCurrent(t)
  BY FreshIsCurrent DEF CommitIssue, Endorsed, Idle, Validated
<1>3. t.certificate = NewCertificate(t.caller) /\ t.caller \in active /\ certificates[t.id] = None
  BY <1>1, <1>2 DEF IsCurrent, IssueTx, CanIssue
<1>4. /\ t.certificate.consortiumNumber = consortiumCounter + 1
      /\ t.certificate.issuerSequenceNumber = issuerCounter[t.caller] + 1
  <2>1. \A c : /\ NewCertificate(c).consortiumNumber = consortiumCounter + 1
               /\ NewCertificate(c).issuerSequenceNumber = issuerCounter[c] + 1
    BY DEF NewCertificate
  <2> QED
    BY <1>3, <2>1
<1>5. t.caller \in Institution /\ t.id \in CertificateId
  BY <1>1 DEF IssueTx
<1> QED
  BY <1>3, <1>4, <1>5 DEF CommitIssue, IssuerCounterAfter, Issues

LEMMA CommitRevokeRevokes ==
  ASSUME Validated, NEW k \in Client, CommitRevoke(k)
  PROVE  LET t == inflight[k] IN
         /\ t.caller \in Institution /\ t.id \in CertificateId
         /\ t.certificate.revokedReason \in Reason \cup {""}
         /\ certificates[t.id].issuer = t.caller
         /\ Revokes(t.id, t.certificate.revokedReason)
<1> DEFINE t == inflight[k]
<1>1. t \in RevokeTx
  BY TxOfFunction DEF CommitRevoke, Endorsed, Validated, TypeOK, Tx
<1>2. IsCurrent(t)
  BY FreshIsCurrent DEF CommitRevoke, Endorsed, Idle, Validated
<1>3. /\ CanRevoke(t.caller, t.id, t.certificate.revokedReason)
      /\ t.certificate = Revoked(t.id, t.certificate.revokedReason)
      /\ t.caller \in Institution /\ t.id \in CertificateId /\ t.certificate \in CertificateRecord
  BY <1>1, <1>2 DEF IsCurrent, RevokeTx
<1>4. certificates[t.id] \in CertificateRecord
  BY <1>3, RecordsAreNotNone DEF Validated, CanRevoke
<1>5. certificates[t.id].status = "active" /\ t.certificate.revokedReason \in Reason \cup {""}
  BY <1>3, <1>4 DEF CanRevoke, CertificateRecord
<1> QED
  BY <1>3, <1>5 DEF CommitRevoke, Revokes, CanRevoke

\* Every change of the ledger is one of these.
LEMMA Serializable == Spec => [][SerialStep]_ledger
<1>1. Validated /\ [Next]_vars => [SerialStep]_ledger
  <2> SUFFICES ASSUME Validated, [Next]_vars, ~UNCHANGED ledger PROVE SerialStep
    OBVIOUS
  <2>1. \/ \E i \in Institution : WriteInstitution(i)
        \/ \E k \in Client : CommitIssue(k) \/ CommitRevoke(k)
    BY DEF Next, vars, EndorseIssue, EndorseRevoke, Endorse, Discard
  <2>2. ASSUME NEW i \in Institution, WriteInstitution(i) PROVE SerialStep
    BY <2>2 DEF WriteInstitution, Joins, SerialStep
  <2>3. ASSUME NEW k \in Client, CommitIssue(k) PROVE SerialStep
    BY <2>3, CommitIssueIssues DEF SerialStep
  <2>4. ASSUME NEW k \in Client, CommitRevoke(k) PROVE SerialStep
    BY <2>4, CommitRevokeRevokes DEF SerialStep
  <2> QED
    BY <2>1, <2>2, <2>3, <2>4
<1> QED
  BY <1>1, AlwaysValidated, PTL DEF Spec

\* Certificates are revoked once, by their issuer, and otherwise never change.
THEOREM Finality == Spec => RevocationIsFinal
<1> DEFINE Final ==
      \A x \in Issued :
         LET old == certificates[x]
             new == certificates'[x] IN
         new # old =>
           /\ \E k \in Client :
                inflight[k] # None /\ inflight'[k] = None /\ inflight[k].caller = old.issuer
           /\ old.status = "active" /\ new.status = "revoked" /\ new.revokedReason # ""
           /\ new = [old EXCEPT !.status = "revoked", !.revokedReason = new.revokedReason]
           /\ UNCHANGED <<active, consortiumCounter, issuerCounter>>
<1>1. Validated /\ Next => Final
  <2> SUFFICES ASSUME Validated, Next, NEW x \in Issued, certificates'[x] # certificates[x]
               PROVE  LET old == certificates[x]  new == certificates'[x] IN
                      /\ \E k \in Client :
                           inflight[k] # None /\ inflight'[k] = None /\ inflight[k].caller = old.issuer
                      /\ old.status = "active" /\ new.status = "revoked" /\ new.revokedReason # ""
                      /\ new = [old EXCEPT !.status = "revoked", !.revokedReason = new.revokedReason]
                      /\ UNCHANGED <<active, consortiumCounter, issuerCounter>>
    OBVIOUS
  <2>1. x \in CertificateId /\ certificates[x] \in CertificateRecord /\ certificates[x] # None
    BY RecordsAreNotNone DEF Issued, Validated
  <2>2. PICK k \in Client : CommitIssue(k) \/ CommitRevoke(k)
    BY DEF Next, EndorseIssue, EndorseRevoke, Endorse, Discard, WriteInstitution, ledger
  <2>3. ~CommitIssue(k)
    <3>1. ASSUME CommitIssue(k) PROVE Issues(inflight[k].caller, inflight[k].id)
      BY <3>1, CommitIssueIssues
    <3> QED
      BY <2>1, <3>1 DEF Issues, Validated, TypeOK
  <2> DEFINE t == inflight[k]
             r == t.certificate.revokedReason
  <2>4. CommitRevoke(k) /\ certificates[t.id].issuer = t.caller /\ Revokes(t.id, r)
    BY <2>2, <2>3, CommitRevokeRevokes
  <2>5. x = t.id
    BY <2>1, <2>4 DEF Revokes, Validated, TypeOK
  <2>6. certificates'[x] = Revoked(x, r)
    BY <2>1, <2>4, <2>5 DEF Revokes, Validated, TypeOK
  <2>7. Revoked(x, r).status = "revoked" /\ Revoked(x, r).revokedReason = r
    BY <2>1 DEF Revoked, CertificateRecord
  <2>8. inflight[k] # None /\ inflight'[k] = None
    BY <2>4 DEF CommitRevoke, Endorsed, Retire, Outdated
  <2> QED
    BY <2>4, <2>5, <2>6, <2>7, <2>8 DEF Revokes, Revoked
<1>2. Validated /\ [Next]_vars => [Final]_vars
  BY <1>1
<1> QED
  BY <1>2, AlwaysValidated, PTL DEF Spec, RevocationIsFinal

-----------------------------------------------------------------------------
(* Numbering *)

\* The inductive invariant: the numbers of the consortium are dense and belong to one
\* certificate each, those of an issuer follow them, and the issuer's counter is the
\* number of its last certificate.
OneNumberEach ==
  \A x, y \in Issued : certificates[x].consortiumNumber = certificates[y].consortiumNumber => x = y

IsLastOf(i, x) ==
  /\ x \in IssuedBy(i)
  /\ certificates[x].issuerSequenceNumber = issuerCounter[i]
  /\ \A y \in IssuedBy(i) : certificates[y].consortiumNumber <= certificates[x].consortiumNumber

LastCertificates ==
  \A i \in Institution :
    IF IssuedBy(i) = {} THEN issuerCounter[i] = 0 ELSE \E x \in IssuedBy(i) : IsLastOf(i, x)

Numbered ==
  /\ IsFiniteSet(Issued)
  /\ ConsortiumNumbersAreDense
  /\ OneNumberEach
  /\ IssuerNumbersFollowConsortiumOrder
  /\ LastCertificates

\* The certificates of i with at most number n.
UpTo(i, n) == {y \in IssuedBy(i) : certificates[y].consortiumNumber <= n}

\* What was issued keeps its issuer and its numbers.
KeepsNumbers ==
  \A y \in Issued :
    /\ certificates'[y].issuer = certificates[y].issuer
    /\ certificates'[y].consortiumNumber = certificates[y].consortiumNumber
    /\ certificates'[y].issuerSequenceNumber = certificates[y].issuerSequenceNumber

LEMMA IssueEffect ==
  ASSUME TypeOK, NEW c \in Institution, NEW x \in CertificateId, Issues(c, x)
  PROVE  /\ x \notin Issued /\ Issued' = Issued \cup {x} /\ KeepsNumbers
         /\ certificates'[x].issuer = c
         /\ certificates'[x].consortiumNumber = consortiumCounter + 1
         /\ certificates'[x].issuerSequenceNumber = issuerCounter[c] + 1
         /\ IssuedBy(c)' = IssuedBy(c) \cup {x}
         /\ \A i : i # c => IssuedBy(i)' = IssuedBy(i)
<1>1. certificates'[x] = NewCertificate(c) /\ \A y \in CertificateId : y # x => certificates'[y] = certificates[y]
  BY DEF Issues, TypeOK
<1>2. NewCertificate(c) # None
  BY CertificateTypes, NoneIsNoRecord
<1>3. x \notin Issued /\ Issued' = Issued \cup {x}
  BY <1>1, <1>2 DEF Issues, Issued
<1>4. \A y \in Issued : certificates'[y] = certificates[y]
  BY <1>1, <1>3 DEF Issued
<1>5. /\ certificates'[x].issuer = c
      /\ certificates'[x].consortiumNumber = consortiumCounter + 1
      /\ certificates'[x].issuerSequenceNumber = issuerCounter[c] + 1
  <2>1. /\ NewCertificate(c).issuer = c
        /\ NewCertificate(c).consortiumNumber = consortiumCounter + 1
        /\ NewCertificate(c).issuerSequenceNumber = issuerCounter[c] + 1
    BY DEF NewCertificate
  <2> QED
    BY <1>1, <2>1
<1> QED
  BY <1>3, <1>4, <1>5 DEF KeepsNumbers, IssuedBy

LEMMA RevokeEffect ==
  ASSUME TypeOK, NEW x \in CertificateId, NEW r \in Reason \cup {""}, Revokes(x, r)
  PROVE  /\ Issued' = Issued /\ KeepsNumbers
         /\ \A i : IssuedBy(i)' = IssuedBy(i)
<1>1. certificates[x] \in CertificateRecord
  BY RecordsAreNotNone DEF Revokes
<1>2. certificates'[x] = Revoked(x, r) /\ \A y \in CertificateId : y # x => certificates'[y] = certificates[y]
  BY DEF Revokes, TypeOK
<1>3. /\ Revoked(x, r).issuer = certificates[x].issuer
      /\ Revoked(x, r).consortiumNumber = certificates[x].consortiumNumber
      /\ Revoked(x, r).issuerSequenceNumber = certificates[x].issuerSequenceNumber
      /\ Revoked(x, r).status = "revoked"
  BY <1>1 DEF Revoked, CertificateRecord
<1>4. Revoked(x, r) # None
  <2>1. Revoked(x, r) \in CertificateRecord
    BY <1>1 DEF Revoked, CertificateRecord
  <2> QED
    BY <2>1, NoneIsNoRecord
<1>5. Issued' = Issued
  BY <1>2, <1>4 DEF Issued, Revokes
<1>6. KeepsNumbers
  BY <1>2, <1>3 DEF KeepsNumbers, Issued
<1> QED
  BY <1>5, <1>6 DEF KeepsNumbers, IssuedBy

\* Numbers are natural numbers.
LEMMA NumberTypes ==
  ASSUME TypeOK
  PROVE  /\ consortiumCounter \in Nat /\ \A i \in Institution : issuerCounter[i] \in Nat
         /\ \A x \in Issued : /\ certificates[x].consortiumNumber \in Nat \ {0}
                              /\ certificates[x].issuerSequenceNumber \in Nat \ {0}
                              /\ certificates[x].issuer \in Institution
<1>1. \A x \in Issued : certificates[x] \in CertificateRecord
  BY RecordsAreNotNone DEF Issued
<1> QED
  BY <1>1 DEF TypeOK, CertificateRecord

\* Issuing.
LEMMA IssueNumbers ==
  ASSUME TypeOK, Numbered, NEW c \in Institution, NEW x \in CertificateId, Issues(c, x)
  PROVE  Numbered'
<1> DEFINE n == consortiumCounter
           num(y) == certificates[y].consortiumNumber
<1>1. /\ x \notin Issued /\ Issued' = Issued \cup {x} /\ KeepsNumbers
      /\ certificates'[x].issuer = c
      /\ certificates'[x].consortiumNumber = n + 1
      /\ certificates'[x].issuerSequenceNumber = issuerCounter[c] + 1
      /\ IssuedBy(c)' = IssuedBy(c) \cup {x}
      /\ \A i : i # c => IssuedBy(i)' = IssuedBy(i)
  BY IssueEffect
<1>2. /\ consortiumCounter' = n + 1
      /\ issuerCounter'[c] = issuerCounter[c] + 1
      /\ \A i \in Institution : i # c => issuerCounter'[i] = issuerCounter[i]
  BY DEF Issues, TypeOK
<1>3. n \in Nat /\ \A y \in Issued : num(y) \in 1..n
  <2>1. {num(y) : y \in Issued} = 1..n
    BY DEF Numbered, ConsortiumNumbersAreDense
  <2> QED
    BY <2>1 DEF TypeOK
<1>4. \A i \in Institution : IssuedBy(i) \subseteq Issued /\ IsFiniteSet(IssuedBy(i))
  BY FS_Subset DEF IssuedBy, Numbered
<1>5. IsFiniteSet(Issued')
  BY <1>1, FS_AddElement DEF Numbered
<1>6. ConsortiumNumbersAreDense'
  <2>1. Cardinality(Issued') = consortiumCounter'
    BY <1>1, <1>2, FS_AddElement DEF Numbered, ConsortiumNumbersAreDense
  <2>2. {certificates'[y].consortiumNumber : y \in Issued'} = {num(y) : y \in Issued} \cup {n + 1}
    BY <1>1 DEF KeepsNumbers
  <2>3. {num(y) : y \in Issued} = 1..n
    BY DEF Numbered, ConsortiumNumbersAreDense
  <2>4. 1..n \cup {n + 1} = 1..(n + 1)
    BY <1>3
  <2> QED
    BY <1>2, <2>1, <2>2, <2>3, <2>4 DEF ConsortiumNumbersAreDense
<1>7. OneNumberEach'
  <2> SUFFICES ASSUME NEW y \in Issued', NEW z \in Issued',
                      certificates'[y].consortiumNumber = certificates'[z].consortiumNumber
               PROVE  y = z
    BY DEF OneNumberEach
  <2>1. \A w \in Issued : certificates'[w].consortiumNumber = num(w) /\ num(w) \in 1..n
    BY <1>1, <1>3 DEF KeepsNumbers
  <2>2. CASE y \in Issued /\ z \in Issued
    BY <2>1, <2>2 DEF Numbered, OneNumberEach
  <2>3. CASE y = x \/ z = x
    BY <1>1, <1>3, <2>1, <2>3
  <2> QED
    BY <1>1, <2>2, <2>3
<1>8. IssuerNumbersFollowConsortiumOrder'
  <2> SUFFICES ASSUME NEW i \in Institution
               PROVE  /\ issuerCounter'[i] = Cardinality(IssuedBy(i)')
                      /\ \A y \in IssuedBy(i)' :
                           certificates'[y].issuerSequenceNumber =
                             Cardinality({z \in IssuedBy(i)' : certificates'[z].consortiumNumber
                                                               <= certificates'[y].consortiumNumber})
    BY DEF IssuerNumbersFollowConsortiumOrder
  <2>1. /\ issuerCounter[i] = Cardinality(IssuedBy(i))
        /\ \A y \in IssuedBy(i) : certificates[y].issuerSequenceNumber = Cardinality(UpTo(i, num(y)))
    BY DEF Numbered, IssuerNumbersFollowConsortiumOrder, UpTo
  <2>2. issuerCounter'[i] = Cardinality(IssuedBy(i)')
    <3>1. CASE i = c
      <4>1. x \notin IssuedBy(c)
        BY <1>1, <1>4
      <4> QED
        BY <1>1, <1>2, <1>4, <2>1, <3>1, <4>1, FS_AddElement
    <3>2. CASE i # c
      BY <1>1, <1>2, <2>1, <3>2
    <3> QED
      BY <3>1, <3>2
  <2>3. ASSUME NEW y \in IssuedBy(i)
        PROVE  certificates'[y].issuerSequenceNumber =
                 Cardinality({z \in IssuedBy(i)' : certificates'[z].consortiumNumber
                                                   <= certificates'[y].consortiumNumber})
    <3>1. y \in Issued /\ num(y) \in 1..n
      BY <1>3, <1>4
    <3>2. {z \in IssuedBy(i)' : certificates'[z].consortiumNumber
                                  <= certificates'[y].consortiumNumber} = UpTo(i, num(y))
      <4>1. certificates'[y].consortiumNumber = num(y)
        BY <1>1, <3>1 DEF KeepsNumbers
      <4>2. \A z \in IssuedBy(i) : certificates'[z].consortiumNumber = num(z)
        BY <1>1, <1>4 DEF KeepsNumbers
      <4>3. ~(certificates'[x].consortiumNumber <= num(y))
        BY <1>1, <1>3, <3>1
      <4>4. IssuedBy(i) \subseteq IssuedBy(i)' /\ IssuedBy(i)' \subseteq IssuedBy(i) \cup {x}
        BY <1>1
      <4> QED
        BY <4>1, <4>2, <4>3, <4>4 DEF UpTo
    <3> QED
      BY <1>1, <2>1, <3>1, <3>2 DEF KeepsNumbers
  <2>4. ASSUME i = c
        PROVE  certificates'[x].issuerSequenceNumber =
                 Cardinality({z \in IssuedBy(i)' : certificates'[z].consortiumNumber
                                                   <= certificates'[x].consortiumNumber})
    <3>1. {z \in IssuedBy(i)' : certificates'[z].consortiumNumber
                                  <= certificates'[x].consortiumNumber} = IssuedBy(i)'
      <4>1. \A z \in Issued : certificates'[z].consortiumNumber \in 1..n
        BY <1>1, <1>3 DEF KeepsNumbers
      <4>2. \A z \in IssuedBy(i)' : certificates'[z].consortiumNumber <= n + 1
        BY <1>1, <1>3, <1>4, <2>4, <4>1
      <4> QED
        BY <1>1, <4>2
    <3> QED
      BY <1>1, <1>2, <2>2, <2>4, <3>1
  <2> QED
    BY <1>1, <2>2, <2>3, <2>4
<1>9. LastCertificates'
  <2> SUFFICES ASSUME NEW i \in Institution
               PROVE  IF IssuedBy(i)' = {} THEN issuerCounter'[i] = 0
                      ELSE \E y \in IssuedBy(i)' : IsLastOf(i, y)'
    BY DEF LastCertificates
  <2>1. CASE i = c
    <3>1. \A y \in Issued : certificates'[y].consortiumNumber \in 1..n
      BY <1>1, <1>3 DEF KeepsNumbers
    <3>2. \A y \in IssuedBy(i)' : certificates'[y].consortiumNumber <= certificates'[x].consortiumNumber
      BY <1>1, <1>3, <1>4, <2>1, <3>1
    <3>3. IsLastOf(i, x)'
      BY <1>1, <1>2, <2>1, <3>2 DEF IsLastOf
    <3> QED
      BY <1>1, <2>1, <3>3
  <2>2. CASE i # c
    <3>1. \A y \in IssuedBy(i) : IsLastOf(i, y) => IsLastOf(i, y)'
      BY <1>1, <1>2, <1>4, <2>2 DEF IsLastOf, KeepsNumbers
    <3> QED
      BY <1>1, <1>2, <2>2, <3>1 DEF Numbered, LastCertificates
  <2> QED
    BY <2>1, <2>2
<1> QED
  BY <1>5, <1>6, <1>7, <1>8, <1>9 DEF Numbered

\* Joining and revoking change no number.
LEMMA KeepNumbers ==
  ASSUME Numbered, KeepsNumbers, Issued' = Issued, \A i : IssuedBy(i)' = IssuedBy(i),
         UNCHANGED <<consortiumCounter, issuerCounter>>
  PROVE  Numbered'
<1>1. \A i : IssuedBy(i) \subseteq Issued
  BY DEF IssuedBy
<1>2. ConsortiumNumbersAreDense'
  <2>1. {certificates'[x].consortiumNumber : x \in Issued} = {certificates[x].consortiumNumber : x \in Issued}
    BY DEF KeepsNumbers
  <2> QED
    BY <2>1 DEF Numbered, ConsortiumNumbersAreDense
<1>3. OneNumberEach'
  BY DEF Numbered, OneNumberEach, KeepsNumbers
<1>4. IssuerNumbersFollowConsortiumOrder'
  <2>1. ASSUME NEW i \in Institution, NEW x \in IssuedBy(i)
        PROVE  {y \in IssuedBy(i) : certificates'[y].consortiumNumber <= certificates'[x].consortiumNumber}
                 = {y \in IssuedBy(i) : certificates[y].consortiumNumber <= certificates[x].consortiumNumber}
    BY <1>1 DEF KeepsNumbers
  <2> QED
    BY <1>1, <2>1 DEF Numbered, IssuerNumbersFollowConsortiumOrder, KeepsNumbers
<1>5. LastCertificates'
  <2>1. \A i \in Institution, x \in Issued : IsLastOf(i, x) => IsLastOf(i, x)'
    BY <1>1 DEF IsLastOf, KeepsNumbers
  <2> QED
    BY <1>1, <2>1 DEF Numbered, LastCertificates
<1> QED
  BY <1>2, <1>3, <1>4, <1>5 DEF Numbered

LEMMA StepNumbers ==
  ASSUME TypeOK, Numbered, SerialStep
  PROVE  Numbered'
<1>1. ASSUME NEW i \in Institution, Joins(i)
      PROVE  Numbered'
  BY <1>1, KeepNumbers DEF Joins, KeepsNumbers, Issued, IssuedBy
<1>2. ASSUME NEW c \in Institution, NEW x \in CertificateId, Issues(c, x)
      PROVE  Numbered'
  BY <1>2, IssueNumbers
<1>3. ASSUME NEW x \in CertificateId, NEW r \in Reason \cup {""}, Revokes(x, r)
      PROVE  Numbered'
  <2>1. UNCHANGED <<consortiumCounter, issuerCounter>>
    BY <1>3 DEF Revokes
  <2> QED
    BY <1>3, <2>1, RevokeEffect, KeepNumbers
<1> QED
  BY <1>1, <1>2, <1>3 DEF SerialStep

LEMMA AlwaysNumbered == Spec => []Numbered
<1>1. Init => Numbered
  <2> SUFFICES ASSUME Init PROVE Numbered
    OBVIOUS
  <2>1. Issued = {} /\ \A i : IssuedBy(i) = {}
    BY DEF Init, Issued, IssuedBy
  <2>2. consortiumCounter = 0 /\ \A i \in Institution : issuerCounter[i] = 0
    BY DEF Init
  <2> QED
    BY <2>1, <2>2, FS_EmptySet DEF Numbered, ConsortiumNumbersAreDense, OneNumberEach,
       IssuerNumbersFollowConsortiumOrder, LastCertificates
<1>2. ASSUME Numbered, UNCHANGED ledger
      PROVE  Numbered'
  BY <1>2, KeepNumbers DEF ledger, KeepsNumbers, Issued, IssuedBy
<1>3. TypeOK /\ Numbered /\ [SerialStep]_ledger => Numbered'
  BY <1>2, StepNumbers
<1> QED
  BY <1>1, <1>3, TypeCorrect, Serializable, PTL DEF Spec

\* The consortium numbers of the issued certificates are 1, 2, 3, ..., and those of
\* one issuer too, in the same order (issuecertificate.go:80-104).
THEOREM NumberedCertificates == Spec => []CertificatesAreNumbered
BY AlwaysNumbered, PTL DEF Numbered, CertificatesAreNumbered

-----------------------------------------------------------------------------
(* Refinement of CertificateRegistry *)

registerNow == [n \in 1..consortiumCounter |-> Line(n)]
revokedNow == {x \in Issued : certificates[x].status = "revoked"}

\* A line holds the only certificate with its number.
LEMMA LineHolds ==
  ASSUME Numbered, NEW x \in Issued
  PROVE  LET l == Line(certificates[x].consortiumNumber) IN
         /\ l = [id |-> x, issuer |-> certificates[x].issuer,
                 nth |-> certificates[x].issuerSequenceNumber]
         /\ l.id = x /\ l.issuer = certificates[x].issuer
         /\ l.nth = certificates[x].issuerSequenceNumber
<1> DEFINE n == certificates[x].consortiumNumber
           y == CHOOSE y \in Issued : certificates[y].consortiumNumber = n
<1>1. y \in Issued /\ certificates[y].consortiumNumber = n
  OBVIOUS
<1>2. y = x
  BY <1>1 DEF Numbered, OneNumberEach
<1> QED
  BY <1>2 DEF Line

\* Every line has its certificate.
LEMMA LinesAreIssued ==
  ASSUME TypeOK, Numbered, NEW n \in 1..consortiumCounter
  PROVE  \E x \in Issued : certificates[x].consortiumNumber = n
<1>1. n \in {certificates[x].consortiumNumber : x \in Issued}
  BY DEF Numbered, ConsortiumNumbersAreDense
<1> QED
  BY <1>1

\* A step that keeps the numbers keeps the lines.
LEMMA LinesStay ==
  ASSUME TypeOK, Numbered, Numbered', KeepsNumbers, Issued \subseteq Issued',
         NEW n \in 1..consortiumCounter
  PROVE  Line(n)' = Line(n)
<1>1. PICK x \in Issued : certificates[x].consortiumNumber = n
  BY LinesAreIssued
<1>2. Line(n) = [id |-> x, issuer |-> certificates[x].issuer, nth |-> certificates[x].issuerSequenceNumber]
  BY <1>1, LineHolds
<1>3. x \in Issued' /\ certificates'[x].consortiumNumber = n
  BY <1>1 DEF KeepsNumbers
<1>4. Line(n)' = [id |-> x, issuer |-> certificates'[x].issuer, nth |-> certificates'[x].issuerSequenceNumber]
  <2> DEFINE y == CHOOSE y \in Issued' : certificates'[y].consortiumNumber = n
  <2>1. y \in Issued' /\ certificates'[y].consortiumNumber = n
    BY <1>3
  <2>2. y = x
    BY <1>3, <2>1 DEF Numbered, OneNumberEach
  <2> QED
    BY <2>2 DEF Line
<1> QED
  BY <1>1, <1>2, <1>4 DEF KeepsNumbers

WritesNext(i, x, before, after) ==
  LET earlier == {n \in DOMAIN before : before[n].issuer = i}
      nth == 1 + (IF earlier = {} THEN 0
                  ELSE before[CHOOSE n \in earlier : \A m \in earlier : m <= n].nth) IN
  after = Append(before, [id |-> x, issuer |-> i, nth |-> nth])

\* What Append does to a sequence of length n.
LEMMA OneMore ==
  ASSUME NEW n \in Nat, NEW S, NEW s \in [1..n -> S], NEW e
  PROVE  Append(s, e) = [m \in 1..(n + 1) |-> IF m = n + 1 THEN e ELSE s[m]]
<1>1. s \in Seq(S \cup {e}) /\ Len(s) = n
  OBVIOUS
<1>2. /\ Append(s, e) \in Seq(S \cup {e}) /\ Len(Append(s, e)) = n + 1
      /\ \A m \in 1..n : Append(s, e)[m] = s[m]
      /\ Append(s, e)[n + 1] = e
  BY <1>1
<1>3. DOMAIN Append(s, e) = 1..(n + 1)
  BY <1>2
<1>4. Append(s, e) = [m \in 1..(n + 1) |-> Append(s, e)[m]]
  <2>1. \A t \in Seq(S \cup {e}) : t = [m \in DOMAIN t |-> t[m]]
    OBVIOUS
  <2> QED
    BY <1>2, <1>3, <2>1
<1>5. \A m \in 1..(n + 1) : Append(s, e)[m] = IF m = n + 1 THEN e ELSE s[m]
  BY <1>2
<1> QED
  BY <1>4, <1>5

\* An issue writes the next line.
LEMMA IssueWrites ==
  ASSUME TypeOK, Numbered, Numbered', NEW c \in Institution, NEW x \in CertificateId, Issues(c, x)
  PROVE  Registry!Issue(c, x)
<1> DEFINE n == consortiumCounter
           earlier == {m \in 1..n : Line(m).issuer = c}
           last == CHOOSE m \in earlier : \A l \in earlier : l <= m
           new == [id |-> x, issuer |-> c, nth |-> issuerCounter[c] + 1]
<1>1. /\ x \notin Issued /\ Issued' = Issued \cup {x} /\ KeepsNumbers
      /\ certificates'[x].issuer = c
      /\ certificates'[x].consortiumNumber = n + 1
      /\ certificates'[x].issuerSequenceNumber = issuerCounter[c] + 1
  BY IssueEffect
<1>2. n \in Nat /\ consortiumCounter' = n + 1 /\ active' = active /\ c \in active
  BY DEF Issues, TypeOK
<1>3. ASSUME NEW m, m = n + 1
      PROVE  Line(m)' = new
  <2> DEFINE y == CHOOSE y \in Issued' : certificates'[y].consortiumNumber = m
  <2>1. y \in Issued' /\ certificates'[y].consortiumNumber = m
    BY <1>1, <1>3
  <2>2. y = x
    BY <1>1, <1>3, <2>1 DEF Numbered, OneNumberEach
  <2>3. Line(m)' = [id |-> x, issuer |-> certificates'[x].issuer,
                    nth |-> certificates'[x].issuerSequenceNumber]
    BY <2>2 DEF Line
  <2> QED
    BY <1>1, <2>3
<1>4. \A m \in 1..n : Line(m)' = Line(m)
  BY <1>1, LinesStay
<1>5. registerNow' = Append(registerNow, new)
  <2>1. registerNow' = [m \in 1..(n + 1) |-> IF m = n + 1 THEN new ELSE Line(m)]
    <3>1. registerNow' = [m \in 1..(n + 1) |-> Line(m)']
      BY <1>2 DEF registerNow
    <3>2. \A m \in 1..(n + 1) : Line(m)' = IF m = n + 1 THEN new ELSE Line(m)
      BY <1>2, <1>3, <1>4
    <3> QED
      BY <3>1, <3>2
  <2>2. registerNow \in [1..n -> {Line(m) : m \in 1..n}]
    BY DEF registerNow
  <2>3. Append(registerNow, new) = [m \in 1..(n + 1) |-> IF m = n + 1 THEN new ELSE registerNow[m]]
    <3> HIDE DEF n, new, registerNow
    <3>1. n \in Nat
      BY <1>2
    <3> QED
      BY <2>2, <3>1, OneMore, Zenon
  <2>4. \A m \in 1..(n + 1) : m # n + 1 => registerNow[m] = Line(m)
    BY <1>2 DEF registerNow
  <2> QED
    BY <2>1, <2>3, <2>4
<1>6. \A m \in 1..n : Line(m).id # x
  <2> SUFFICES ASSUME NEW m \in 1..n PROVE Line(m).id \in Issued
    BY <1>1
  <2>1. PICK y \in Issued : certificates[y].consortiumNumber = m
    BY LinesAreIssued
  <2> QED
    BY <2>1, LineHolds
<1>7. IF earlier = {} THEN issuerCounter[c] = 0
      ELSE last \in earlier /\ issuerCounter[c] = Line(last).nth
  <2>1. \A y \in IssuedBy(c) :
          LET m == certificates[y].consortiumNumber IN
          m \in earlier /\ Line(m).nth = certificates[y].issuerSequenceNumber
    <3> SUFFICES ASSUME NEW y \in IssuedBy(c)
                 PROVE  LET m == certificates[y].consortiumNumber IN
                        m \in earlier /\ Line(m).nth = certificates[y].issuerSequenceNumber
      OBVIOUS
    <3> DEFINE m == certificates[y].consortiumNumber
    <3>1. y \in Issued /\ certificates[y].issuer = c
      BY DEF IssuedBy
    <3>2. m \in 1..n
      BY <3>1 DEF Numbered, ConsortiumNumbersAreDense
    <3> QED
      BY <3>1, <3>2, LineHolds
  <2>2. \A m \in earlier : \E y \in IssuedBy(c) : certificates[y].consortiumNumber = m
    <3> SUFFICES ASSUME NEW m \in earlier
                 PROVE  \E y \in IssuedBy(c) : certificates[y].consortiumNumber = m
      OBVIOUS
    <3>1. PICK y \in Issued : certificates[y].consortiumNumber = m
      BY LinesAreIssued
    <3>2. certificates[y].issuer = c
      BY <3>1, LineHolds
    <3> QED
      BY <3>1, <3>2 DEF IssuedBy
  <2>3. CASE IssuedBy(c) = {}
    BY <2>2, <2>3 DEF Numbered, LastCertificates
  <2>4. CASE IssuedBy(c) # {}
    <3>1. PICK y \in IssuedBy(c) : IsLastOf(c, y)
      BY <2>4 DEF Numbered, LastCertificates
    <3> DEFINE m == certificates[y].consortiumNumber
    <3>2. m \in earlier /\ Line(m).nth = issuerCounter[c]
      BY <2>1, <3>1 DEF IsLastOf
    <3>3. \A l \in earlier : l <= m
      BY <2>2, <3>1 DEF IsLastOf
    <3>4. \A l \in earlier : (\A j \in earlier : j <= l) => l = m
      BY <3>2, <3>3
    <3> QED
      BY <3>2, <3>3, <3>4
  <2> QED
    BY <2>3, <2>4
<1>8. revokedNow' = revokedNow
  <2>1. certificates'[x].status = "active" /\ \A y \in Issued : certificates'[y] = certificates[y]
    <3>1. certificates'[x] = NewCertificate(c)
      BY DEF Issues, TypeOK
    <3>2. \A y \in Issued : certificates'[y] = certificates[y]
      BY <1>1 DEF Issues, TypeOK, Issued
    <3>3. NewCertificate(c).status = "active"
      BY DEF NewCertificate
    <3> QED
      BY <3>1, <3>2, <3>3
  <2> QED
    BY <1>1, <2>1 DEF revokedNow
<1> QED
  <2>1. DOMAIN registerNow = 1..n /\ \A m \in 1..n : registerNow[m] = Line(m)
    BY DEF registerNow
  <2>2. {m \in DOMAIN registerNow : registerNow[m].issuer = c} = earlier
    BY <2>1
  <2>3. WritesNext(c, x, registerNow, registerNow')
    <3>1. issuerCounter[c] \in Nat
      BY DEF TypeOK
    <3>2. issuerCounter[c] + 1 = 1 + (IF earlier = {} THEN 0 ELSE registerNow[last].nth)
      BY <1>7, <2>1, <3>1
    <3>3. earlier = {m \in DOMAIN registerNow : registerNow[m].issuer = c}
      BY <2>2
    <3> HIDE DEF earlier, registerNow
    <3> QED
      BY <1>5, <3>2, <3>3 DEF WritesNext
  <2> QED
    BY <1>2, <1>6, <1>8, <2>1, <2>3 DEF Registry!Issue, Registry!Lines, registerNow, revokedNow, WritesNext

\* A step that changes neither the numbers nor who holds a certificate leaves
\* the register as it is.
LEMMA RegisterStays ==
  ASSUME TypeOK, Numbered, Numbered', KeepsNumbers, Issued' = Issued,
         consortiumCounter' = consortiumCounter
  PROVE  registerNow' = registerNow
<1>1. \A n \in 1..consortiumCounter : Line(n)' = Line(n)
  BY LinesStay
<1> QED
  BY <1>1 DEF registerNow

\* A revocation strikes a line that was not struck.
LEMMA RevokeStrikes ==
  ASSUME TypeOK, Numbered, Numbered', NEW x \in CertificateId, NEW r \in Reason \cup {""},
         Revokes(x, r)
  PROVE  Registry!Revoke(x)
<1>1. /\ x \in Issued /\ x \notin revokedNow
      /\ active' = active /\ consortiumCounter' = consortiumCounter
  BY DEF Revokes, Issued, revokedNow
<1>2. Issued' = Issued /\ KeepsNumbers
  BY RevokeEffect
<1>3. registerNow' = registerNow
  BY <1>1, <1>2, RegisterStays
<1>4. \E n \in 1..consortiumCounter : Line(n).id = x
  <2>1. certificates[x].consortiumNumber \in 1..consortiumCounter
    BY <1>1 DEF Numbered, ConsortiumNumbersAreDense
  <2> QED
    BY <1>1, <2>1, LineHolds
<1>5. revokedNow' = revokedNow \cup {x}
  <2>1. certificates'[x] = Revoked(x, r) /\ \A y \in CertificateId : y # x => certificates'[y] = certificates[y]
    BY DEF Revokes, TypeOK
  <2>2. Revoked(x, r).status = "revoked"
    <3>1. certificates[x] \in CertificateRecord
      BY RecordsAreNotNone DEF Revokes
    <3> QED
      BY <3>1 DEF Revoked, CertificateRecord
  <2> QED
    BY <1>1, <1>2, <2>1, <2>2 DEF revokedNow, Issued
<1> QED
  BY <1>1, <1>3, <1>4, <1>5 DEF Registry!Revoke, Registry!Lines, registerNow, revokedNow

\* A registration lets one more institution issue.
LEMMA JoinJoins ==
  ASSUME TypeOK, Numbered, Numbered', NEW i \in Institution, Joins(i)
  PROVE  Registry!Join(i)
<1>1. /\ active' = active \cup {i} /\ consortiumCounter' = consortiumCounter
      /\ Issued' = Issued /\ KeepsNumbers /\ revokedNow' = revokedNow
  BY DEF Joins, Issued, KeepsNumbers, revokedNow
<1>2. registerNow' = registerNow
  BY <1>1, RegisterStays
<1> QED
  BY <1>1, <1>2 DEF Registry!Join, registerNow, revokedNow

\* The ledger keeps the promise of CertificateRegistry: issuing and revoking in
\* overlapping transactions is writing and striking lines of one register.
THEOREM Implementation == Spec => ImplementsRegistry
<1>1. Init => Registry!Start
  <2> SUFFICES ASSUME Init PROVE Registry!Start
    OBVIOUS
  <2>1. Issued = {} /\ consortiumCounter = 0 /\ active = {}
    BY DEF Init, Issued
  <2>2. [n \in 1..consortiumCounter |-> Line(n)] = <<>>
    <3>1. 1..consortiumCounter = {}
      BY <2>1
    <3> QED
      BY <3>1
  <2> QED
    BY <2>1, <2>2 DEF Registry!Start
<1>2. ASSUME TypeOK, Numbered, Numbered', SerialStep
      PROVE  Registry!Step
  <2>1. ASSUME NEW i \in Institution, Joins(i) PROVE Registry!Step
    BY <1>2, <2>1, JoinJoins DEF Registry!Step
  <2>2. ASSUME NEW c \in Institution, NEW x \in CertificateId, Issues(c, x) PROVE Registry!Step
    BY <1>2, <2>2, IssueWrites DEF Registry!Step
  <2>3. ASSUME NEW x \in CertificateId, NEW r \in Reason \cup {""}, Revokes(x, r) PROVE Registry!Step
    BY <1>2, <2>3, RevokeStrikes DEF Registry!Step
  <2> QED
    BY <1>2, <2>1, <2>2, <2>3 DEF SerialStep
<1>3. ASSUME TypeOK, Numbered, Numbered', UNCHANGED ledger
      PROVE  UNCHANGED Registry!abstract
  <2>1. /\ active' = active /\ consortiumCounter' = consortiumCounter
        /\ Issued' = Issued /\ KeepsNumbers /\ revokedNow' = revokedNow
    BY <1>3 DEF ledger, Issued, KeepsNumbers, revokedNow
  <2>2. registerNow' = registerNow
    BY <1>3, <2>1, RegisterStays
  <2> QED
    BY <2>1, <2>2 DEF Registry!abstract, registerNow, revokedNow
<1>4. TypeOK /\ Numbered /\ Numbered' /\ [SerialStep]_ledger => [Registry!Step]_(Registry!abstract)
  BY <1>2, <1>3
<1> QED
  BY <1>1, <1>4, TypeCorrect, AlwaysNumbered, Serializable, PTL
  DEF Spec, ImplementsRegistry, Registry!Promise

=============================================================================
