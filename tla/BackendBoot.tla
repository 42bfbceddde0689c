---------------------------- MODULE BackendBoot ----------------------------
(***************************************************************************)
(* How a backend instance comes up: it checks its environment, reads the   *)
(* certificate and then the only private key of its organization's admin   *)
(* once each, and keeps that identity until it stops.  Nothing locks the   *)
(* files: an operator's commands may come between the two reads.           *)
(*                                                                         *)
(* The material is made by fabric-ca-client (external), which names every  *)
(* private key differently: enrolling again leaves the old key beside the  *)
(* new one, and the key is there before its certificate.  Variables of the *)
(* environment other than these paths do not change while a backend is     *)
(* deployed.                                                               *)
(***************************************************************************)
EXTENDS Integers, FiniteSets

CONSTANTS
  Backend,  \* the instances, one for each organization
  KeyPair,  \* the pairs an enrollment may generate
  Issued,   \* the pair of the first enrollment
  Provisioned, \* the backends whose material operators change (bounds the model)
  MaxFaults, \* enrollments, wipes, crashes and lost answers (bounds the model)
  None

ASSUME BootConstants ==
  /\ Issued \in KeyPair /\ None \notin KeyPair
  /\ Provisioned \subseteq Backend /\ MaxFaults \in Nat

VARIABLES
  keystore, \* the *_sk files in ADMIN_KEYSTORE_DIR of each backend
  cert,     \* the pair the file at ADMIN_CERT_PATH certifies, or None
  identity, \* what a backend signs with, None when it is down: cert, key (None as long
            \* as it has not been read) and wiped, whether the material was removed
            \* between the two reads (history)
  faults

boot == <<keystore, cert, identity, faults>>

Fault == faults < MaxFaults /\ faults' = faults + 1

Booting(b) == identity[b] # None /\ identity[b].key = None

\* It listens.
Running(b) == identity[b] # None /\ identity[b].key # None

\* validate: the paths of the environment exist (the directory outlives its files).
Validate(b) == cert[b] # None

\* Mutant: whichever key the directory lists first.
ReadSoleKeystoreFile_First(b) == keystore[b]

\* The key to sign with: none unless there is exactly one.
ReadSoleKeystoreFile(b) == IF Cardinality(keystore[b]) = 1 THEN keystore[b] ELSE {}

\* bootstrap: validate, then onModuleInit up to the certificate.
ReadCertificate(b) ==
  /\ identity[b] = None
  /\ Validate(b)
  /\ identity' = [identity EXCEPT ![b] = [cert |-> cert[b], key |-> None, wiped |-> FALSE]]

\* The rest of onModuleInit, and listen; any failure ends the process.
ReadKey(b) ==
  /\ Booting(b)
  /\ \/ \E key \in ReadSoleKeystoreFile(b) : identity' = [identity EXCEPT ![b].key = key]
     \/ ReadSoleKeystoreFile(b) = {} /\ identity' = [identity EXCEPT ![b] = None]

Bootstrap(b) ==
  /\ ReadCertificate(b) \/ ReadKey(b)
  /\ UNCHANGED <<keystore, cert, faults>>

GenerateKey(b, pair) ==
  /\ Fault
  /\ pair \notin keystore[b]
  /\ keystore' = [keystore EXCEPT ![b] = @ \cup {pair}]
  /\ UNCHANGED <<cert, identity>>

StoreCertificate(b, pair) ==
  /\ Fault
  /\ pair \in keystore[b] /\ cert[b] # pair
  /\ cert' = [cert EXCEPT ![b] = pair]
  /\ UNCHANGED <<keystore, identity>>

WipeCrypto(b) ==
  /\ Fault
  /\ keystore' = [keystore EXCEPT ![b] = {}]
  /\ cert' = [cert EXCEPT ![b] = None]
  /\ identity' = IF Booting(b) THEN [identity EXCEPT ![b].wiped = TRUE] ELSE identity

Provision(b) ==
  /\ b \in Provisioned
  /\ \/ WipeCrypto(b)
     \/ \E pair \in KeyPair : GenerateKey(b, pair) \/ StoreCertificate(b, pair)

BootInit ==
  /\ keystore = [b \in Backend |-> {Issued}]
  /\ cert = [b \in Backend |-> Issued]
  /\ identity = [b \in Backend |-> None]
  /\ faults = 0

Identity == [cert: KeyPair, key: KeyPair \cup {None}, wiped: BOOLEAN]

\* None is no identity.
ASSUME NoneIsNoIdentity == None \notin Identity

BootTypeOK ==
  /\ keystore \in [Backend -> SUBSET KeyPair]
  /\ cert \in [Backend -> KeyPair \cup {None}]
  /\ identity \in [Backend -> Identity \cup {None}]
  /\ faults \in 0..MaxFaults

\* A running backend signs with the key its certificate was issued for, whatever
\* enrollments, wipes and restarts happened in between: a keystore with a left-over
\* or a premature key stops the backend from starting instead.  Only a wipe and an
\* enrollment between its two reads can give it the key of another certificate
\* (fabric-identity.util.ts:10-23, fabric-gateway.service.ts:34-41).
SignsForItsCertificate ==
  \A b \in Backend : Running(b) /\ ~identity[b].wiped => identity[b].cert = identity[b].key

=============================================================================
