-------------------------- MODULE CredentialProofs --------------------------
(***************************************************************************)
(* Theorems about credential rotation and about the identity a backend     *)
(* signs with, for any accounts, guests, backends, credentials and key     *)
(* pairs, and any number of rotations, crashes and lost answers.           *)
(***************************************************************************)
EXTENDS CredentialRotation, FiniteSetTheorems, TLAPS

Member == Account \ Guest

-----------------------------------------------------------------------------
(* Types *)

\* Every backend has one owner, a member, and a member owns the backend it uses.
LEMMA Owners ==
  /\ \A b \in Backend : Owner(b) \in Member /\ ServedBy[Owner(b)] = b
  /\ \A a \in Member : ServedBy[a] \in Backend /\ Owner(ServedBy[a]) = a
  /\ \A x, a \in Member : ServedBy[x] = ServedBy[a] => x = a
<1>1. \A b \in Backend : \E a \in Member : \A x \in Member : ServedBy[x] = b <=> x = a
  BY RotationConstants DEF Member
<1>2. ASSUME NEW b \in Backend
      PROVE  Owner(b) \in Member /\ ServedBy[Owner(b)] = b
  BY <1>1 DEF Owner, Member
<1>3. ASSUME NEW a \in Member, NEW x \in Member, ServedBy[x] = ServedBy[a]
      PROVE  x = a
  <2>1. ServedBy[a] \in Backend
    BY RotationConstants DEF Member
  <2> QED
    BY <1>1, <1>3, <2>1
<1>4. ASSUME NEW a \in Member
      PROVE  ServedBy[a] \in Backend /\ Owner(ServedBy[a]) = a
  <2>1. ServedBy[a] \in Backend
    BY RotationConstants DEF Member
  <2> QED
    BY <1>2, <1>3, <2>1
<1> QED
  BY <1>2, <1>3, <1>4

LEMMA Rotations ==
  ASSUME TypeOK, NEW t \in Tab, rotation[t] # None
  PROVE  rotation[t] \in Rotation /\ BackendOf(t) \in Backend
<1>1. rotation[t] \in Rotation
  BY DEF TypeOK
<1> QED
  BY <1>1, RotationConstants DEF Rotation, BackendOf

\* What the portal presents for an account, and what a backend expects.
LEMMA Credentials ==
  ASSUME TypeOK
  PROVE  /\ override # Torn => \A a \in Account : ApiKey(a) \in Credential
         /\ \A b \in Backend : GetCurrent(b) \in Credential \cup {Torn}
         /\ None \notin Credential /\ None # Torn /\ Torn \notin Credential
<1>1. \A a \in Account : Deployed[a] \in Credential
  BY RotationConstants
<1>2. override # Torn => \A a \in Account : override[a] \in Credential \cup {None}
  BY DEF TypeOK
<1>3. \A b \in Backend : store[b] \in Credential \cup {None, Torn}
  BY DEF TypeOK
<1>4. \A b \in Backend : Owner(b) \in Account
  BY Owners DEF Member
<1> QED
  BY <1>1, <1>2, <1>3, <1>4, RotationConstants DEF ApiKey, GetCurrent

\* A rotation of its type, whose header is there until the guard has seen it.
IsRotation(r) ==
  r # None => r \in Rotation /\ (r.apiKey # None <=> r.at = "sent")

LEMMA TypedRotations ==
  ASSUME NEW f, f = [t \in Tab |-> f[t]], \A t \in Tab : IsRotation(f[t])
  PROVE  f \in [Tab -> Rotation \cup {None}]
<1>1. \A t \in Tab : f[t] \in Rotation \cup {None}
  BY DEF IsRotation
<1> QED
  BY <1>1

\* The part of TypeOK about rotations.
RotationsOK == rotation \in [Tab -> Rotation \cup {None}] /\ \A t \in Tab : IsRotation(rotation[t])

InParts ==
  /\ BootTypeOK
  /\ store \in [Backend -> Credential \cup {None, Torn}]
  /\ override \in [Account -> Credential \cup {None}] \cup {Torn}
  /\ RotationsOK
  /\ rotations \in 0..MaxRotations /\ overlapped \subseteq Account

LEMMA TypesInParts == (TypeOK <=> InParts) /\ (TypeOK' <=> InParts')
<1>1. RotationsOK <=>
        /\ rotation \in [Tab -> Rotation \cup {None}]
        /\ \A t \in Tab : rotation[t] # None => (rotation[t].apiKey # None <=> At(t, "sent"))
  BY DEF RotationsOK, IsRotation, At
<1>2. RotationsOK' <=>
        /\ rotation' \in [Tab -> Rotation \cup {None}]
        /\ \A t \in Tab : rotation'[t] # None => (rotation'[t].apiKey # None <=> At(t, "sent")')
  BY DEF RotationsOK, IsRotation, At
<1> QED
  BY <1>1, <1>2 DEF TypeOK, InParts

\* A rotation changed in one field stays a rotation, and keeps the others.
LEMMA ChangedRotation ==
  ASSUME NEW r \in Rotation
  PROVE  /\ \A place \in {"sent", "admitted", "changed"} : [r EXCEPT !.at = place] \in Rotation
         /\ [r EXCEPT !.waiting = FALSE] \in Rotation
         /\ [r EXCEPT !.at = "admitted", !.apiKey = None] \in Rotation
         /\ r # None
BY NoneAndTornAreApart DEF Rotation

\* A rotation whose answer went astray is over or goes on unattended.
LEMMA UnheardRotations ==
  ASSUME RotationsOK, NEW lost, NEW t \in Tab
  PROVE  /\ IsRotation(Unheard(lost)[t])
         /\ rotation[t] = None => Unheard(lost)[t] = None
         /\ Unheard(lost)[t] # None =>
              /\ rotation[t] # None
              /\ Unheard(lost)[t].account = rotation[t].account
              /\ Unheard(lost)[t].current = rotation[t].current
              /\ Unheard(lost)[t].new = rotation[t].new
              /\ Unheard(lost)[t].apiKey = rotation[t].apiKey
              /\ Unheard(lost)[t].at = rotation[t].at
<1>1. CASE t \notin lost \/ rotation[t] = None
  BY <1>1 DEF Unheard, RotationsOK
<1>2. CASE t \in lost /\ rotation[t] # None /\ rotation[t].at = "changed"
  BY <1>2 DEF Unheard, IsRotation
<1>3. CASE t \in lost /\ rotation[t] # None /\ rotation[t].at # "changed"
  <2>1. rotation[t] \in Rotation /\ IsRotation(rotation[t])
    BY <1>3 DEF RotationsOK
  <2>2. Unheard(lost)[t] = [rotation[t] EXCEPT !.waiting = FALSE]
    BY <1>3 DEF Unheard
  <2>3. [rotation[t] EXCEPT !.waiting = FALSE] \in Rotation
    BY <2>1, ChangedRotation
  <2> QED
    BY <1>3, <2>1, <2>2, <2>3 DEF IsRotation, Rotation
<1> QED
  BY <1>1, <1>2, <1>3

\* Ending a rotation, or giving it another value of its type, keeps them typed.
LEMMA OneRotationChanges ==
  ASSUME RotationsOK, NEW t \in Tab, NEW r, IsRotation(r),
         rotation' = [rotation EXCEPT ![t] = r]
  PROVE  RotationsOK'
<1>1. rotation'[t] = r /\ \A u \in Tab \ {t} : rotation'[u] = rotation[u]
  BY DEF RotationsOK
<1>2. \A u \in Tab : IsRotation(rotation'[u])
  BY <1>1 DEF RotationsOK
<1>3. rotation' = [u \in Tab |-> rotation'[u]]
  BY DEF RotationsOK
<1>4. rotation' \in [Tab -> Rotation \cup {None}]
  BY <1>2, <1>3, TypedRotations
<1> QED
  BY <1>2, <1>4 DEF RotationsOK, IsRotation

\* A backend that comes up first has the certificate that is there, then the only key.
LEMMA Boots ==
  ASSUME BootTypeOK, NEW b \in Backend, Bootstrap(b)
  PROVE  /\ UNCHANGED <<keystore, cert, faults>>
         /\ \A x \in Backend \ {b} : identity'[x] = identity[x]
         /\ identity' \in [Backend -> Identity \cup {None}]
         /\ \/ identity'[b] = None
            \/ /\ cert[b] \in KeyPair
               /\ identity'[b] = [cert |-> cert[b], key |-> None, wiped |-> FALSE]
            \/ /\ identity[b] \in Identity /\ identity[b].key = None
               /\ \E key \in KeyPair : /\ key \in keystore[b] /\ Cardinality(keystore[b]) = 1
                                       /\ identity'[b] = [identity[b] EXCEPT !.key = key]
<1>1. CASE ReadCertificate(b)
  <2>1. PICK i : i = [cert |-> cert[b], key |-> None, wiped |-> FALSE]
    OBVIOUS
  <2>2. identity' = [identity EXCEPT ![b] = i]
    BY <1>1, <2>1 DEF ReadCertificate
  <2>3. cert[b] \in KeyPair /\ i \in Identity
    BY <1>1, <2>1 DEF ReadCertificate, Validate, BootTypeOK, Identity
  <2> QED
    BY <2>1, <2>2, <2>3 DEF Bootstrap, BootTypeOK
<1>2. CASE ReadKey(b)
  <2>1. identity[b] \in Identity /\ identity[b].key = None
    BY <1>2 DEF ReadKey, Booting, BootTypeOK
  <2>2. ASSUME NEW key \in ReadSoleKeystoreFile(b), identity' = [identity EXCEPT ![b].key = key]
        PROVE  /\ key \in keystore[b] /\ Cardinality(keystore[b]) = 1 /\ key \in KeyPair
               /\ identity'[b] = [identity[b] EXCEPT !.key = key] /\ identity'[b] \in Identity
               /\ identity' \in [Backend -> Identity \cup {None}]
               /\ \A x \in Backend \ {b} : identity'[x] = identity[x]
    <3>1. key \in keystore[b] /\ Cardinality(keystore[b]) = 1 /\ key \in KeyPair
      BY <2>2 DEF ReadSoleKeystoreFile, BootTypeOK
    <3>2. PICK i : i = [identity[b] EXCEPT !.key = key]
      OBVIOUS
    <3>3. i \in Identity
      BY <2>1, <3>1, <3>2 DEF Identity
    <3>4. identity' = [identity EXCEPT ![b] = i]
      BY <2>2, <3>2 DEF BootTypeOK
    <3> QED
      BY <3>1, <3>2, <3>3, <3>4 DEF BootTypeOK
  <2>3. CASE identity' = [identity EXCEPT ![b] = None]
    BY <2>3 DEF Bootstrap, BootTypeOK
  <2> QED
    BY <1>2, <2>1, <2>2, <2>3 DEF Bootstrap, ReadKey
<1> QED
  BY <1>1, <1>2 DEF Bootstrap

\* A wipe is noted with a backend that has only read its certificate.
LEMMA Wipes ==
  ASSUME BootTypeOK, NEW b \in Backend, WipeCrypto(b)
  PROVE  /\ \A x \in Backend \ {b} : identity'[x] = identity[x]
         /\ identity' \in [Backend -> Identity \cup {None}]
         /\ Booting(b)' => identity'[b].wiped
         /\ Running(b)' => identity'[b] = identity[b]
<1>1. CASE Booting(b)
  <2>1. identity[b] \in Identity /\ identity[b] # None /\ identity[b].key = None
    BY <1>1 DEF Booting, BootTypeOK
  <2>2. PICK i : i = [identity[b] EXCEPT !.wiped = TRUE]
    OBVIOUS
  <2>3. i \in Identity /\ i.key = None /\ i.wiped
    BY <2>1, <2>2 DEF Identity
  <2>4. identity' = [identity EXCEPT ![b] = i]
    BY <1>1, <2>2 DEF WipeCrypto, BootTypeOK
  <2> QED
    BY <2>3, <2>4 DEF Running, BootTypeOK
<1>2. CASE ~Booting(b)
  BY <1>2 DEF WipeCrypto, Booting, Running, BootTypeOK
<1> QED
  BY <1>1, <1>2

\* The material on disk, the identities and the number of faults have their types.
LEMMA BootTypes ==
  ASSUME BootTypeOK, NEW b \in Backend, Bootstrap(b) \/ Provision(b)
  PROVE  BootTypeOK'
<1>1. CASE Bootstrap(b)
  BY <1>1, Boots DEF BootTypeOK
<1>2. CASE WipeCrypto(b)
  <2>1. identity' \in [Backend -> Identity \cup {None}]
    BY <1>2, Wipes
  <2> QED
    BY <1>2, <2>1, BootConstants DEF WipeCrypto, Fault, BootTypeOK
<1>3. CASE \E pair \in KeyPair : GenerateKey(b, pair) \/ StoreCertificate(b, pair)
  BY <1>3, BootConstants DEF GenerateKey, StoreCertificate, Fault, BootTypeOK
<1> QED
  BY <1>1, <1>2, <1>3 DEF Provision

\* The variables of the two processes and of the rotations keep their types.
THEOREM TypeCorrect == Spec => []TypeOK
<1>1. Init => TypeOK
  <2>1. Init => BootTypeOK
    BY BootConstants DEF Init, BootInit, BootTypeOK
  <2> QED
    BY <2>1, RotationConstants DEF Init, TypeOK
<1>2. TypeOK /\ [Next]_vars => TypeOK'
  <2> SUFFICES ASSUME TypeOK, [Next]_vars PROVE TypeOK'
    OBVIOUS
  <2>0. /\ BootTypeOK /\ RotationsOK
        /\ store \in [Backend -> Credential \cup {None, Torn}]
        /\ override \in [Account -> Credential \cup {None}] \cup {Torn}
        /\ rotations \in 0..MaxRotations /\ overlapped \subseteq Account
        /\ IsRotation(None)
    BY TypesInParts DEF InParts, IsRotation
  <2>1. ASSUME NEW t \in Tab, NEW a \in Account, NEW current \in KnownCredential,
               NEW new \in NewCredential, Submit(t, a, current, new)
        PROVE  TypeOK'
    <3> DEFINE r == [account |-> a, current |-> current, new |-> new, apiKey |-> ApiKey(a),
                     at |-> "sent", waiting |-> TRUE]
    <3>1. ApiKey(a) \in Credential /\ ApiKey(a) # None
      BY <2>1, Credentials DEF Submit
    <3>2. IsRotation(r)
      BY <3>1 DEF IsRotation, Rotation
    <3>3. RotationsOK'
      BY <2>0, <2>1, <3>2, OneRotationChanges DEF Submit
    <3>4. rotations' \in 0..MaxRotations /\ overlapped' \subseteq Account
      BY <2>0, <2>1, RotationConstants DEF Submit
    <3>5. BootTypeOK'
      BY <2>0, <2>1 DEF Submit, boot, BootTypeOK
    <3> QED
      BY <2>0, <2>1, <3>3, <3>4, <3>5, TypesInParts DEF InParts, Submit, files
  <2>2. ASSUME NEW t \in Tab, Guard(t)
        PROVE  TypeOK'
    <3>1. rotation[t] \in Rotation
      BY <2>0, <2>2 DEF Guard, At, RotationsOK
    <3>2. IsRotation([rotation[t] EXCEPT !.at = "admitted", !.apiKey = None])
      BY <3>1, ChangedRotation DEF IsRotation, Rotation
    <3>3. RotationsOK'
      <4>1. CASE CanActivate(t)
        <5>1. rotation' = [rotation EXCEPT ![t] =
                             [rotation[t] EXCEPT !.at = "admitted", !.apiKey = None]]
          BY <2>0, <2>2, <3>1, <4>1 DEF Guard, RotationsOK, Rotation
        <5> QED
          BY <2>0, <3>2, <5>1, OneRotationChanges
      <4>2. CASE ~CanActivate(t)
        BY <2>0, <2>2, <4>2, OneRotationChanges DEF Guard, Return
      <4> QED
        BY <4>1, <4>2
    <3> QED
      BY <2>0, <2>2, <3>3, TypesInParts DEF InParts, Guard, boot, files, history, BootTypeOK
  <2>3. ASSUME NEW t \in Tab, ChangeCredential(t)
        PROVE  TypeOK'
    <3>1. rotation[t] \in Rotation /\ BackendOf(t) \in Backend
      BY <2>3, Rotations DEF ChangeCredential, At
    <3>2. store' \in [Backend -> Credential \cup {None, Torn}]
      BY <2>0, <2>3, <3>1, RotationConstants DEF ChangeCredential, SetCredential, Rotation
    <3>3. IsRotation([rotation[t] EXCEPT !.at = "changed"])
      <4>1. rotation[t].apiKey = None
        BY <2>0, <2>3 DEF ChangeCredential, At, RotationsOK, IsRotation
      <4> QED
        BY <3>1, <4>1, ChangedRotation DEF IsRotation, Rotation
    <3>4. RotationsOK'
      <4>1. CASE KnowsCurrent(t) /\ rotation[t].waiting
        <5>1. rotation' = [rotation EXCEPT ![t] = [rotation[t] EXCEPT !.at = "changed"]]
          BY <2>0, <2>3, <4>1 DEF ChangeCredential, RotationsOK
        <5> QED
          BY <2>0, <3>3, <5>1, OneRotationChanges
      <4>2. CASE ~(KnowsCurrent(t) /\ rotation[t].waiting)
        BY <2>0, <2>3, <4>2, OneRotationChanges DEF ChangeCredential, Return
      <4> QED
        BY <4>1, <4>2
    <3> QED
      BY <2>0, <2>3, <3>2, <3>4, TypesInParts DEF InParts, ChangeCredential, boot, history, BootTypeOK
  <2>4. ASSUME NEW t \in Tab, Unreachable(t)
        PROVE  TypeOK'
    <3>1. RotationsOK'
      BY <2>0, <2>4, OneRotationChanges DEF Unreachable, Return
    <3> QED
      BY <2>0, <2>4, <3>1, TypesInParts DEF InParts, Unreachable, boot, files, history, BootTypeOK
  <2>5. ASSUME NEW t \in Tab, Confirmed(t)
        PROVE  TypeOK'
    <3>1. rotation[t] \in Rotation
      BY <2>5, Rotations DEF Confirmed, At
    <3>2. override' \in [Account -> Credential \cup {None}] \cup {Torn}
      BY <2>0, <2>5, <3>1, RotationConstants DEF Confirmed, SetCredentialOverride, Rotation
    <3>3. RotationsOK'
      BY <2>0, <2>5, OneRotationChanges DEF Confirmed, Return
    <3> QED
      BY <2>0, <2>5, <3>2, <3>3, TypesInParts DEF InParts, Confirmed, boot, history, BootTypeOK
  <2>6. ASSUME NEW t \in Tab, LoseAnswer(t)
        PROVE  TypeOK'
    <3>1. \A u \in Tab : IsRotation(rotation'[u])
      BY <2>0, <2>6, UnheardRotations DEF LoseAnswer
    <3>2. RotationsOK'
      BY <2>6, <3>1 DEF LoseAnswer, Unheard, RotationsOK, IsRotation
    <3> QED
      BY <2>0, <2>6, <3>2, TypesInParts, BootConstants
      DEF InParts, LoseAnswer, Fault, files, history, BootTypeOK
  <2>7. ASSUME NEW torn \in BOOLEAN, RestartPortal(torn)
        PROVE  TypeOK'
    <3>1. \A u \in Tab : IsRotation(rotation'[u])
      BY <2>0, <2>7, UnheardRotations DEF RestartPortal
    <3>2. RotationsOK'
      BY <2>7, <3>1 DEF RestartPortal, Unheard, RotationsOK, IsRotation
    <3> QED
      BY <2>0, <2>7, <3>2, TypesInParts, BootConstants
      DEF InParts, RestartPortal, Fault, history, BootTypeOK
  <2>8. ASSUME NEW b \in Backend, NEW torn \in BOOLEAN, Stop(b, torn)
        PROVE  TypeOK'
    <3>1. PICK lost, handled :
            rotation' = [t \in Tab |-> IF t \in handled THEN None ELSE Unheard(lost)[t]]
      BY <2>8 DEF Stop
    <3>2. \A u \in Tab : IsRotation(rotation'[u])
      BY <2>0, <3>1, UnheardRotations
    <3>3. RotationsOK'
      BY <3>1, <3>2 DEF RotationsOK, IsRotation
    <3>4. store' \in [Backend -> Credential \cup {None, Torn}]
      BY <2>0, <2>8 DEF Stop
    <3>5. BootTypeOK'
      BY <2>0, <2>8, BootConstants DEF Stop, Fault, BootTypeOK
    <3> QED
      BY <2>0, <2>8, <3>3, <3>4, <3>5, TypesInParts DEF InParts, Stop, history
  <2>9. ASSUME NEW b \in Backend, Start(b) \/ ProvisionCrypto(b)
        PROVE  TypeOK'
    <3>1. BootTypeOK'
      BY <2>0, <2>9, BootTypes DEF Start, ProvisionCrypto
    <3> QED
      BY <2>0, <2>9, <3>1, TypesInParts
      DEF InParts, Start, ProvisionCrypto, files, history, RotationsOK, IsRotation
  <2>10. CASE UNCHANGED vars
    BY <2>0, <2>10, TypesInParts
    DEF InParts, vars, boot, files, history, BootTypeOK, RotationsOK, IsRotation
  <2> QED
    BY <2>1, <2>2, <2>3, <2>4, <2>5, <2>6, <2>7, <2>8, <2>9, <2>10 DEF Next, Continue
<1> QED
  BY <1>1, <1>2, PTL DEF Spec

-----------------------------------------------------------------------------
(* What a backend signs with *)

\* A certificate is of a key that is there, also the one a booting backend has read
\* unless the material was removed since: then a keystore with a single key holds the
\* key of the certificate.
KeysAreThere ==
  \A b \in Backend :
    /\ IsFiniteSet(keystore[b]) /\ (cert[b] # None => cert[b] \in keystore[b])
    /\ Booting(b) /\ ~identity[b].wiped => identity[b].cert \in keystore[b]

Matching == KeysAreThere /\ SignsForItsCertificate

\* A backend that comes up keeps the certificate and the key that belong together.
LEMMA BootSigns ==
  ASSUME BootTypeOK, Matching, NEW b \in Backend, Bootstrap(b)
  PROVE  Matching'
<1>1. UNCHANGED <<keystore, cert, faults>> /\ \A x \in Backend \ {b} : identity'[x] = identity[x]
  BY Boots
<1>2. \A x \in Backend : IsFiniteSet(keystore[x]) /\ (cert[x] # None => cert[x] \in keystore[x])
  BY DEF Matching, KeysAreThere
<1>3. /\ Booting(b)' /\ ~identity'[b].wiped => identity'[b].cert \in keystore[b]
      /\ Running(b)' /\ ~identity'[b].wiped => identity'[b].cert = identity'[b].key
  <2>1. CASE identity'[b] = None
    BY <2>1 DEF Booting, Running
  <2>2. CASE cert[b] \in KeyPair /\ identity'[b] = [cert |-> cert[b], key |-> None, wiped |-> FALSE]
    BY <1>2, <2>2, BootConstants DEF Running
  <2>3. ASSUME identity[b] \in Identity, identity[b].key = None,
               NEW key \in KeyPair, key \in keystore[b], Cardinality(keystore[b]) = 1,
               identity'[b] = [identity[b] EXCEPT !.key = key]
        PROVE  /\ ~Booting(b)'
               /\ ~identity'[b].wiped => identity'[b].cert = identity'[b].key
    <3>1. /\ identity'[b].key = key /\ identity'[b].cert = identity[b].cert
          /\ identity'[b].wiped = identity[b].wiped
      BY <2>3 DEF Identity
    <3>2. ~identity[b].wiped => identity[b].cert \in keystore[b]
      BY <2>3, NoneIsNoIdentity DEF Matching, KeysAreThere, Booting
    <3>3. \E x : keystore[b] = {x}
      BY <1>2, <2>3, FS_Singleton
    <3> QED
      BY <2>3, <3>1, <3>2, <3>3, BootConstants DEF Booting
  <2> QED
    BY <2>1, <2>2, <2>3, Boots
<1> QED
  BY <1>1, <1>2, <1>3 DEF Matching, KeysAreThere, SignsForItsCertificate, Booting, Running

\* Enrollments only add keys, and a wipe is noted.
LEMMA ProvisionSigns ==
  ASSUME BootTypeOK, Matching, NEW b \in Backend, Provision(b)
  PROVE  Matching'
<1>1. CASE WipeCrypto(b)
  <2>1. /\ \A x \in Backend \ {b} : /\ identity'[x] = identity[x] /\ keystore'[x] = keystore[x]
                                    /\ cert'[x] = cert[x]
        /\ keystore'[b] = {} /\ cert'[b] = None
    BY <1>1, Wipes DEF WipeCrypto, BootTypeOK
  <2>2. /\ Booting(b)' => identity'[b].wiped
        /\ Running(b)' => identity'[b] = identity[b] /\ Running(b)
    BY <1>1, Wipes DEF Booting, Running
  <2> QED
    BY <2>1, <2>2, FS_EmptySet
    DEF Matching, KeysAreThere, SignsForItsCertificate, Booting, Running
<1>2. ASSUME NEW pair \in KeyPair, GenerateKey(b, pair)
      PROVE  Matching'
  <2>1. IsFiniteSet(keystore[b] \cup {pair})
    BY FS_AddElement DEF Matching, KeysAreThere
  <2>2. keystore' = [keystore EXCEPT ![b] = keystore[b] \cup {pair}] /\ UNCHANGED <<cert, identity>>
    BY <1>2 DEF GenerateKey
  <2> QED
    BY <2>1, <2>2
    DEF Matching, KeysAreThere, SignsForItsCertificate, Booting, Running, BootTypeOK
<1>3. ASSUME NEW pair \in KeyPair, StoreCertificate(b, pair)
      PROVE  Matching'
  BY <1>3 DEF StoreCertificate, Matching, KeysAreThere, SignsForItsCertificate, Booting, Running,
              BootTypeOK
<1> QED
  BY <1>1, <1>2, <1>3 DEF Provision

\* A running backend signs with the key its certificate was issued for, unless the
\* material was removed between its two reads (fabric-identity.util.ts:10-23).
THEOREM MatchingIdentity == Spec => []SignsForItsCertificate
<1>1. Init => Matching
  BY FS_Singleton DEF Init, BootInit, Matching, KeysAreThere, SignsForItsCertificate, Booting, Running
<1>2. TypeOK /\ Matching /\ [Next]_vars => Matching'
  <2> SUFFICES ASSUME TypeOK, Matching, [Next]_vars
               PROVE  Matching'
    OBVIOUS
  <2>1. BootTypeOK
    BY DEF TypeOK
  <2>2. CASE UNCHANGED <<keystore, cert, identity>>
    BY <2>2 DEF Matching, KeysAreThere, SignsForItsCertificate, Booting, Running
  <2>3. ASSUME NEW b \in Backend, NEW torn \in BOOLEAN, Stop(b, torn)
        PROVE  Matching'
    BY <2>1, <2>3
    DEF Stop, Matching, KeysAreThere, SignsForItsCertificate, Booting, Running, BootTypeOK
  <2>4. ASSUME NEW b \in Backend, Start(b) \/ ProvisionCrypto(b)
        PROVE  Matching'
    BY <2>1, <2>4, BootSigns, ProvisionSigns DEF Start, ProvisionCrypto
  <2>5. ASSUME NEW t \in Tab, Continue(t) \/ LoseAnswer(t)
        PROVE  UNCHANGED <<keystore, cert, identity>>
    BY <2>5 DEF Continue, Guard, ChangeCredential, Unreachable, Confirmed, LoseAnswer, boot
  <2>6. ASSUME NEW t \in Tab, NEW a \in Account, NEW current \in KnownCredential,
               NEW new \in NewCredential, Submit(t, a, current, new)
        PROVE  UNCHANGED <<keystore, cert, identity>>
    BY <2>6 DEF Submit, boot
  <2>7. ASSUME NEW torn \in BOOLEAN, RestartPortal(torn)
        PROVE  UNCHANGED <<keystore, cert, identity>>
    BY <2>7 DEF RestartPortal
  <2>8. CASE UNCHANGED vars
    BY <2>2, <2>8 DEF vars, boot
  <2> QED
    BY <2>2, <2>3, <2>4, <2>5, <2>6, <2>7, <2>8 DEF Next
<1>3. Matching => SignsForItsCertificate
  BY DEF Matching
<1> QED
  BY <1>1, <1>2, <1>3, TypeCorrect, PTL DEF Spec

-----------------------------------------------------------------------------
(* Guests *)

\* A guest's rotation waits for the guard with the key the guest was deployed with.
GuestWaits(r) ==
  r # None /\ r.account \in Guest => r.at = "sent" /\ r.apiKey = Deployed[r.account]

\* The guard stands because no backend ever expects a guest's key.
GuestsShutOut ==
  /\ \A t \in Tab : GuestWaits(rotation[t])
  /\ override # Torn => \A g \in Guest : override[g] = None
  /\ \A b \in Backend : store[b] \in NewCredential \cup {None, Torn}

LEMMA GuestKeysOpenNothing ==
  ASSUME GuestsShutOut, NEW g \in Guest, NEW b \in Backend
  PROVE  GetCurrent(b) # Deployed[g]
<1>1. Owner(b) \in Member
  BY Owners
<1>2. Deployed[g] \in Credential /\ Deployed[g] \notin NewCredential
      /\ Deployed[g] # Deployed[Owner(b)] /\ Deployed[g] # Torn
  BY <1>1, RotationConstants DEF Member
<1> QED
  BY <1>2 DEF GuestsShutOut, GetCurrent

LEMMA StepShutsGuestsOut ==
  ASSUME TypeOK, GuestsShutOut, [Next]_vars
  PROVE  GuestsShutOut'
<1>0. /\ RotationsOK
      /\ \A t \in Tab : GuestWaits(rotation[t])
      /\ override # Torn => \A g \in Guest : override[g] = None
      /\ \A b \in Backend : store[b] \in NewCredential \cup {None, Torn}
      /\ GuestWaits(None)
  BY TypesInParts DEF InParts, GuestsShutOut, GuestWaits
<1>1. ASSUME NEW t \in Tab, NEW a \in Account, NEW current \in KnownCredential,
             NEW new \in NewCredential, Submit(t, a, current, new)
      PROVE  GuestsShutOut'
  <2> DEFINE r == [account |-> a, current |-> current, new |-> new, apiKey |-> ApiKey(a),
                   at |-> "sent", waiting |-> TRUE]
  <2>1. GuestWaits(r)
    BY <1>0, <1>1 DEF Submit, GuestWaits, ApiKey
  <2>2. \A u \in Tab : rotation'[u] = IF u = t THEN r ELSE rotation[u]
    BY <1>0, <1>1 DEF Submit, RotationsOK
  <2>3. \A u \in Tab : GuestWaits(rotation'[u])
    BY <1>0, <2>1, <2>2
  <2> QED
    BY <1>0, <1>1, <2>3 DEF Submit, files, GuestsShutOut, GuestWaits
<1>2. ASSUME NEW t \in Tab, Guard(t)
      PROVE  GuestsShutOut'
  <2>1. rotation[t] \in Rotation /\ BackendOf(t) \in Backend
    BY <1>2, Rotations DEF Guard, At
  <2>2. CanActivate(t) => rotation[t].account \notin Guest
    BY <1>0, <2>1, GuestKeysOpenNothing, NoneAndTornAreApart DEF CanActivate, GuestWaits
  <2>3. \A u \in Tab \ {t} : rotation'[u] = rotation[u]
    BY <1>0, <1>2 DEF Guard, Return, RotationsOK
  <2>4. GuestWaits(rotation'[t])
    BY <1>0, <1>2, <2>1, <2>2 DEF Guard, Return, RotationsOK, GuestWaits, Rotation
  <2>5. \A u \in Tab : GuestWaits(rotation'[u])
    BY <1>0, <2>3, <2>4
  <2> QED
    BY <1>0, <1>2, <2>5 DEF Guard, files, GuestsShutOut, GuestWaits
<1>3. ASSUME NEW t \in Tab, ChangeCredential(t)
      PROVE  GuestsShutOut'
  <2>1. rotation[t] \in Rotation /\ rotation[t].account \notin Guest
    BY <1>0, <1>3, Rotations DEF ChangeCredential, At, GuestWaits
  <2>2. \A u \in Tab \ {t} : rotation'[u] = rotation[u]
    BY <1>0, <1>3 DEF ChangeCredential, Return, RotationsOK
  <2>3. GuestWaits(rotation'[t])
    BY <1>0, <1>3, <2>1 DEF ChangeCredential, Return, RotationsOK, GuestWaits, Rotation
  <2>4. \A u \in Tab : GuestWaits(rotation'[u])
    BY <1>0, <2>2, <2>3
  <2>5. \A b \in Backend : store'[b] \in NewCredential \cup {None, Torn}
    BY <1>0, <1>3, <2>1 DEF ChangeCredential, SetCredential, Rotation, TypeOK
  <2> QED
    BY <1>0, <1>3, <2>4, <2>5 DEF ChangeCredential, GuestsShutOut, GuestWaits
<1>4. ASSUME NEW t \in Tab, Unreachable(t)
      PROVE  GuestsShutOut'
  <2>1. \A u \in Tab : rotation'[u] \in {rotation[u], None}
    BY <1>0, <1>4 DEF Unreachable, Return, RotationsOK
  <2> QED
    BY <1>0, <1>4, <2>1 DEF Unreachable, files, GuestsShutOut, GuestWaits
<1>5. ASSUME NEW t \in Tab, Confirmed(t)
      PROVE  GuestsShutOut'
  <2>1. rotation[t] \in Rotation /\ rotation[t].account \notin Guest
    BY <1>0, <1>5, Rotations DEF Confirmed, At, GuestWaits
  <2>2. \A u \in Tab : rotation'[u] \in {rotation[u], None}
    BY <1>0, <1>5 DEF Confirmed, Return, RotationsOK
  <2>3. override' # Torn => \A g \in Guest : override'[g] = None
    BY <1>0, <1>5, <2>1, RotationConstants DEF Confirmed, SetCredentialOverride, Rotation, TypeOK
  <2> QED
    BY <1>0, <1>5, <2>2, <2>3 DEF Confirmed, GuestsShutOut, GuestWaits
<1>7. ASSUME NEW t \in Tab, LoseAnswer(t)
      PROVE  GuestsShutOut'
  <2>1. rotation' = Unheard({t})
    BY <1>7 DEF LoseAnswer
  <2>2. \A u \in Tab : GuestWaits(rotation'[u])
    BY <1>0, <2>1, UnheardRotations DEF GuestWaits
  <2> QED
    BY <1>0, <1>7, <2>2 DEF LoseAnswer, files, GuestsShutOut, GuestWaits
<1>8. ASSUME NEW torn \in BOOLEAN, RestartPortal(torn)
      PROVE  GuestsShutOut'
  <2>1. rotation' = Unheard(Tab)
    BY <1>8 DEF RestartPortal
  <2>2. \A u \in Tab : GuestWaits(rotation'[u])
    BY <1>0, <2>1, UnheardRotations DEF GuestWaits
  <2> QED
    BY <1>0, <1>8, <2>2 DEF RestartPortal, GuestsShutOut, GuestWaits
<1>9. ASSUME NEW b \in Backend, NEW torn \in BOOLEAN, Stop(b, torn)
      PROVE  GuestsShutOut'
  <2>1. PICK lost, handled :
          rotation' = [t \in Tab |-> IF t \in handled THEN None ELSE Unheard(lost)[t]]
    BY <1>9 DEF Stop
  <2>2. \A u \in Tab : GuestWaits(rotation'[u])
    BY <1>0, <2>1, UnheardRotations DEF GuestWaits
  <2>3. \A x \in Backend : store'[x] \in NewCredential \cup {None, Torn}
    BY <1>0, <1>9 DEF Stop, TypeOK
  <2> QED
    BY <1>0, <1>9, <2>2, <2>3 DEF Stop, GuestsShutOut, GuestWaits
<1>10. ASSUME NEW b \in Backend, Start(b) \/ ProvisionCrypto(b)
       PROVE  GuestsShutOut'
  BY <1>0, <1>10 DEF Start, ProvisionCrypto, files, GuestsShutOut, GuestWaits
<1>11. CASE UNCHANGED vars
  BY <1>0, <1>11 DEF vars, files, GuestsShutOut, GuestWaits
<1> QED
  BY <1>1, <1>2, <1>3, <1>4, <1>5, <1>7, <1>8, <1>9, <1>10, <1>11 DEF Next, Continue

LEMMA AlwaysShutOut == Spec => []GuestsShutOut
<1>1. Init => GuestsShutOut
  BY NoneAndTornAreApart, RotationConstants DEF Init, GuestsShutOut, GuestWaits
<1>2. TypeOK /\ GuestsShutOut /\ [Next]_vars => GuestsShutOut'
  BY StepShutsGuestsOut
<1> QED
  BY <1>1, <1>2, TypeCorrect, PTL DEF Spec

\* No guest gets past the guard or leaves an override (api-key.guard.ts:30-44).
THEOREM GuestsStayOut == Spec => []GuestsNeverRotate
<1>1. GuestsShutOut => GuestsNeverRotate
  BY DEF GuestsShutOut, GuestWaits, GuestsNeverRotate, Rotating
<1> QED
  BY <1>1, AlwaysShutOut, PTL

-----------------------------------------------------------------------------
(* Being locked out lasts *)

\* What keeps a locked out: the backend's file and the portal's stay as they are for a,
\* and a's rotations present what the portal presents for it.
LEMMA LockOutKept ==
  ASSUME TypeOK, NEW a \in Member, LockedOut(a),
         store'[ServedBy[a]] = store[ServedBy[a]],
         override' = Torn \/ (override # Torn /\ override'[a] = override[a]),
         \A t \in Tab : rotation'[t] # None /\ rotation'[t].account = a =>
           /\ rotation'[t].at = "sent"
           /\ \/ rotation[t] # None /\ rotation[t].account = a
                 /\ rotation'[t].apiKey = rotation[t].apiKey
              \/ override # Torn /\ rotation'[t].apiKey = ApiKey(a)
  PROVE  LockedOut(a)'
<1>1. GetCurrent(ServedBy[a])' = GetCurrent(ServedBy[a])
  BY DEF GetCurrent, Owner
<1>2. ~InSync(a)'
  BY <1>1 DEF LockedOut, InSync, ApiKey
<1>3. ASSUME NEW t \in Tab, rotation'[t] # None, rotation'[t].account = a
      PROVE  rotation'[t].at = "sent" /\ rotation'[t].apiKey # GetCurrent(ServedBy[a])
  BY <1>3 DEF LockedOut, InSync, Rotating, At, BackendOf
<1> QED
  BY <1>1, <1>2, <1>3 DEF LockedOut, Rotating, At, BackendOf

LEMMA StepKeepsLockOut ==
  ASSUME TypeOK, GuestsShutOut, NEW a \in Member, LockedOut(a), [Next]_vars
  PROVE  LockedOut(a)'
<1>0. /\ RotationsOK
      /\ \A t \in Tab : rotation[t] # None /\ rotation[t].account = a =>
           rotation[t].at = "sent" /\ rotation[t].apiKey # GetCurrent(ServedBy[a])
      /\ \A t \in Tab : rotation[t] # None => rotation[t].account \in Account
      /\ \A t \in Tab : rotation[t] # None /\ rotation[t].account \in Guest => rotation[t].at = "sent"
      /\ ServedBy[a] \in Backend /\ a \in Account
  BY TypesInParts, Rotations, Owners
  DEF InParts, LockedOut, Rotating, At, BackendOf, Rotation, GuestsShutOut, GuestWaits, Member
\* A backend that has admitted a rotation is not the one of a.
<1>1. \A t \in Tab : rotation[t] # None /\ rotation[t].at # "sent" =>
        rotation[t].account \in Member /\ rotation[t].account # a /\ BackendOf(t) # ServedBy[a]
  BY <1>0, Owners DEF BackendOf, Member
<1>2. ASSUME NEW t \in Tab, NEW x \in Account, NEW current \in KnownCredential,
             NEW new \in NewCredential, Submit(t, x, current, new)
      PROVE  LockedOut(a)'
  <2> DEFINE r == [account |-> x, current |-> current, new |-> new, apiKey |-> ApiKey(x),
                   at |-> "sent", waiting |-> TRUE]
  <2>1. \A u \in Tab : rotation'[u] = IF u = t THEN r ELSE rotation[u]
    BY <1>0, <1>2 DEF Submit, RotationsOK
  <2>2. override # Torn /\ override' = override /\ store' = store
    BY <1>2 DEF Submit, files
  <2> QED
    BY <1>0, <2>1, <2>2, LockOutKept
<1>3. ASSUME NEW t \in Tab, Guard(t)
      PROVE  LockedOut(a)'
  <2>1. \A u \in Tab \ {t} : rotation'[u] = rotation[u]
    BY <1>0, <1>3 DEF Guard, Return, RotationsOK
  <2>2. rotation[t] \in Rotation
    BY <1>3, Rotations DEF Guard, At
  <2>3. rotation'[t] = None \/ (CanActivate(t) /\ rotation'[t].account = rotation[t].account)
    BY <1>0, <1>3, <2>2 DEF Guard, Return, RotationsOK, Rotation
  <2>4. rotation[t].account = a => ~CanActivate(t)
    BY <1>0, <1>3 DEF Guard, At, CanActivate, BackendOf
  <2>5. rotation'[t] = None \/ rotation'[t].account # a
    BY <2>3, <2>4
  <2>6. override' = override /\ store' = store
    BY <1>3 DEF Guard, files
  <2> QED
    BY <1>0, <2>1, <2>5, <2>6, LockOutKept
<1>4. ASSUME NEW t \in Tab, ChangeCredential(t)
      PROVE  LockedOut(a)'
  <2>1. rotation[t] \in Rotation /\ rotation[t].account # a /\ BackendOf(t) # ServedBy[a]
    BY <1>1, <1>4, Rotations DEF ChangeCredential, At
  <2>2. \A u \in Tab \ {t} : rotation'[u] = rotation[u]
    BY <1>0, <1>4 DEF ChangeCredential, Return, RotationsOK
  <2>3. rotation'[t] = None \/ rotation'[t].account # a
    BY <1>0, <1>4, <2>1 DEF ChangeCredential, Return, RotationsOK, Rotation
  <2>4. override' = override /\ store'[ServedBy[a]] = store[ServedBy[a]]
    BY <1>0, <1>4, <2>1 DEF ChangeCredential, SetCredential, TypeOK
  <2> QED
    BY <1>0, <2>2, <2>3, <2>4, LockOutKept
<1>5. ASSUME NEW t \in Tab, Unreachable(t)
      PROVE  LockedOut(a)'
  <2>1. \A u \in Tab : rotation'[u] \in {rotation[u], None}
    BY <1>0, <1>5 DEF Unreachable, Return, RotationsOK
  <2>2. override' = override /\ store' = store
    BY <1>5 DEF Unreachable, files
  <2> QED
    BY <1>0, <2>1, <2>2, LockOutKept
<1>6. ASSUME NEW t \in Tab, Confirmed(t)
      PROVE  LockedOut(a)'
  <2>1. \A u \in Tab : rotation'[u] \in {rotation[u], None}
    BY <1>0, <1>6 DEF Confirmed, Return, RotationsOK
  <2>2. rotation[t].account # a
    BY <1>1, <1>6 DEF Confirmed, At
  <2>3. override' = Torn \/ (override # Torn /\ override'[a] = override[a])
    BY <1>0, <1>6, <2>2 DEF Confirmed, SetCredentialOverride, TypeOK
  <2>4. store' = store
    BY <1>6 DEF Confirmed
  <2> QED
    BY <1>0, <2>1, <2>3, <2>4, LockOutKept
<1>7. ASSUME NEW t \in Tab, LoseAnswer(t)
      PROVE  LockedOut(a)'
  <2>1. rotation' = Unheard({t}) /\ override' = override /\ store' = store
    BY <1>7 DEF LoseAnswer, files
  <2> QED
    BY <1>0, <2>1, UnheardRotations, LockOutKept
<1>8. ASSUME NEW torn \in BOOLEAN, RestartPortal(torn)
      PROVE  LockedOut(a)'
  <2>1. rotation' = Unheard(Tab) /\ override' \in {override, Torn} /\ store' = store
    BY <1>8 DEF RestartPortal
  <2> QED
    BY <1>0, <2>1, UnheardRotations, LockOutKept
<1>9. ASSUME NEW b \in Backend, NEW torn \in BOOLEAN, Stop(b, torn)
      PROVE  LockedOut(a)'
  <2>1. PICK lost, handled :
          rotation' = [t \in Tab |-> IF t \in handled THEN None ELSE Unheard(lost)[t]]
    BY <1>9 DEF Stop
  <2>2. \A u \in Tab : rotation'[u] # None => rotation'[u] = Unheard(lost)[u]
    BY <2>1
  <2>3. torn => b # ServedBy[a]
    BY <1>1, <1>9 DEF Stop, At
  <2>4. override' = override /\ store'[ServedBy[a]] = store[ServedBy[a]]
    BY <1>0, <1>9, <2>3 DEF Stop, TypeOK
  <2> QED
    BY <1>0, <2>2, <2>4, UnheardRotations, LockOutKept
<1>10. ASSUME NEW b \in Backend, Start(b) \/ ProvisionCrypto(b)
       PROVE  LockedOut(a)'
  BY <1>0, <1>10, LockOutKept DEF Start, ProvisionCrypto, files
<1>11. CASE UNCHANGED vars
  BY <1>0, <1>11, LockOutKept DEF vars, files
<1> QED
  BY <1>2, <1>3, <1>4, <1>5, <1>6, <1>7, <1>8, <1>9, <1>10, <1>11 DEF Next, Continue

\* No rotation lets an institution in again once it is locked out
\* (password-change/design.md:29).
THEOREM LastingLockOut == Spec => LockOutLasts
<1>1. TypeOK /\ GuestsShutOut /\ [Next]_vars =>
        [\A a \in Account \ Guest : LockedOut(a) => LockedOut(a)']_vars
  BY StepKeepsLockOut DEF Member
<1> QED
  BY <1>1, TypeCorrect, AlwaysShutOut, PTL DEF Spec, LockOutLasts

-----------------------------------------------------------------------------
(* Why an institution is locked out *)

Active(t, a) == rotation[t] # None /\ rotation[t].account = a

\* Without a fault the portal hears every answer, and as long as a member rotates one
\* at a time, its two files agree, except that the backend may be one credential ahead.
Orderly ==
  faults = 0 =>
    /\ override # Torn
    /\ \A t \in Tab : rotation[t] # None => rotation[t].waiting
    /\ \A a \in Member \ overlapped :
         /\ \A t, u \in Tab : Active(t, a) /\ Active(u, a) => t = u
         /\ \A t \in Tab : Active(t, a) /\ rotation[t].at = "changed" =>
              GetCurrent(ServedBy[a]) = rotation[t].new
         /\ (\A t \in Tab : Active(t, a) => rotation[t].at # "changed") =>
              ApiKey(a) = GetCurrent(ServedBy[a])

\* A step that only ends rotations, or lets one on to the controller.
LEMMA OrderlyKept ==
  ASSUME Orderly, TypeOK, UNCHANGED <<files, overlapped, faults>>,
         \A t \in Tab : rotation'[t] # None =>
           /\ rotation[t] # None
           /\ rotation'[t].account = rotation[t].account
           /\ rotation'[t].new = rotation[t].new
           /\ rotation'[t].waiting = rotation[t].waiting
           /\ rotation'[t].at = "changed" <=> rotation[t].at = "changed",
         \A t \in Tab : rotation[t] # None /\ rotation[t].at = "changed" => rotation'[t] # None
  PROVE  Orderly'
<1>1. \A a \in Account : ApiKey(a)' = ApiKey(a)
  BY DEF ApiKey, files
<1>2. \A b \in Backend : GetCurrent(b)' = GetCurrent(b)
  BY DEF GetCurrent, Owner, files
<1>3. \A a \in Member : ServedBy[a] \in Backend /\ a \in Account
  BY Owners DEF Member
<1> QED
  BY <1>1, <1>2, <1>3 DEF Orderly, Active, files

LEMMA StepIsOrderly ==
  ASSUME TypeOK, GuestsShutOut, Orderly, [Next]_vars
  PROVE  Orderly'
<1>0. /\ RotationsOK /\ faults \in Nat
      /\ \A a \in Member : ServedBy[a] \in Backend /\ a \in Account
      /\ \A t \in Tab : rotation[t] # None =>
           rotation[t] \in Rotation /\ (rotation[t].at # "sent" => rotation[t].account \in Member)
  BY TypesInParts, Owners, Rotations
  DEF InParts, BootTypeOK, Member, GuestsShutOut, GuestWaits, Rotation
<1>1. ASSUME Fault PROVE Orderly'
  BY <1>0, <1>1 DEF Fault, Orderly
<1>2. ASSUME NEW t \in Tab, NEW x \in Account, NEW current \in KnownCredential,
             NEW new \in NewCredential, Submit(t, x, current, new)
      PROVE  Orderly'
  <2> DEFINE r == [account |-> x, current |-> current, new |-> new, apiKey |-> ApiKey(x),
                   at |-> "sent", waiting |-> TRUE]
  <2>1. rotation[t] = None /\ rotation'[t] = r /\ \A u \in Tab \ {t} : rotation'[u] = rotation[u]
    BY <1>0, <1>2 DEF Submit, FormReady, RotationsOK
  <2>2. /\ \A a \in Account : ApiKey(a)' = ApiKey(a)
        /\ \A b \in Backend : GetCurrent(b)' = GetCurrent(b)
        /\ override' = override /\ faults' = faults
    BY <1>2 DEF Submit, files, boot, ApiKey, GetCurrent, Owner
  <2>3. overlapped \subseteq overlapped'
        /\ (x \notin overlapped' => \A u \in Tab : ~Active(u, x))
    BY <1>2 DEF Submit, Active
  <2> SUFFICES ASSUME faults = 0 PROVE Orderly'
    BY <2>2 DEF Orderly
  <2>4. ASSUME NEW a \in Member \ overlapped'
        PROVE  /\ \A u, v \in Tab : Active(u, a)' /\ Active(v, a)' => u = v
               /\ \A u \in Tab : Active(u, a)' /\ rotation'[u].at = "changed" =>
                    GetCurrent(ServedBy[a])' = rotation'[u].new
               /\ (\A u \in Tab : Active(u, a)' => rotation'[u].at # "changed") =>
                    ApiKey(a)' = GetCurrent(ServedBy[a])'
    <3>1. \A u \in Tab : Active(u, a)' => (u = t /\ a = x) \/ (u # t /\ Active(u, a))
      BY <2>1 DEF Active
    <3>2. \A u \in Tab : Active(u, a) => u # t /\ Active(u, a)'
      BY <2>1 DEF Active
    <3>3. a \in Member \ overlapped /\ a \in Account /\ ServedBy[a] \in Backend
      BY <1>0, <2>3, <2>4
    <3>4. /\ \A u, v \in Tab : Active(u, a) /\ Active(v, a) => u = v
          /\ \A u \in Tab : Active(u, a) /\ rotation[u].at = "changed" =>
               GetCurrent(ServedBy[a]) = rotation[u].new
          /\ (\A u \in Tab : Active(u, a) => rotation[u].at # "changed") =>
               ApiKey(a) = GetCurrent(ServedBy[a])
      BY <3>3 DEF Orderly
    <3>5. \A u, v \in Tab : Active(u, a)' /\ Active(v, a)' => u = v
      BY <2>3, <2>4, <3>1, <3>4
    <3>6. \A u \in Tab : Active(u, a)' /\ rotation'[u].at = "changed" =>
            GetCurrent(ServedBy[a])' = rotation'[u].new
      BY <2>1, <2>2, <3>1, <3>3, <3>4
    <3>7. (\A u \in Tab : Active(u, a)' => rotation'[u].at # "changed") =>
            ApiKey(a)' = GetCurrent(ServedBy[a])'
      BY <2>1, <2>2, <3>2, <3>3, <3>4
    <3> QED
      BY <3>5, <3>6, <3>7
  <2>5. override' # Torn /\ \A u \in Tab : rotation'[u] # None => rotation'[u].waiting
    BY <2>1, <2>2 DEF Orderly
  <2> QED
    BY <2>4, <2>5 DEF Orderly
<1>3. ASSUME NEW t \in Tab, Guard(t)
      PROVE  Orderly'
  <2>1. rotation[t] \in Rotation /\ rotation[t].at = "sent" /\ rotation[t] # None
    BY <1>3, Rotations DEF Guard, At
  <2>2. \A u \in Tab \ {t} : rotation'[u] = rotation[u]
    BY <1>0, <1>3 DEF Guard, Return, RotationsOK
  <2>3. rotation'[t] \in {None, [rotation[t] EXCEPT !.at = "admitted", !.apiKey = None]}
    <3>1. CASE CanActivate(t)
      BY <1>0, <1>3, <2>1, <3>1 DEF Guard, RotationsOK, Rotation
    <3>2. CASE ~CanActivate(t)
      BY <1>0, <1>3, <3>2 DEF Guard, Return, RotationsOK
    <3> QED
      BY <3>1, <3>2
  <2>4. UNCHANGED <<files, overlapped, faults>>
    BY <1>3 DEF Guard, files, boot, history
  <2>0. LET r == [rotation[t] EXCEPT !.at = "admitted", !.apiKey = None] IN
          r.account = rotation[t].account /\ r.new = rotation[t].new
          /\ r.waiting = rotation[t].waiting /\ r.at = "admitted"
    BY <2>1 DEF Rotation
  <2>5. \A u \in Tab : rotation'[u] # None =>
           /\ rotation[u] # None
           /\ rotation'[u].account = rotation[u].account
           /\ rotation'[u].new = rotation[u].new
           /\ rotation'[u].waiting = rotation[u].waiting
           /\ rotation'[u].at = "changed" <=> rotation[u].at = "changed"
    BY <2>0, <2>1, <2>2, <2>3
  <2>6. \A u \in Tab : rotation[u] # None /\ rotation[u].at = "changed" => rotation'[u] # None
    BY <2>1, <2>2
  <2> QED
    BY <2>4, <2>5, <2>6, OrderlyKept
<1>4. ASSUME NEW t \in Tab, Unreachable(t)
      PROVE  Orderly'
  <2>1. rotation'[t] = None /\ rotation[t] # None /\ rotation[t].at = "sent"
        /\ \A u \in Tab \ {t} : rotation'[u] = rotation[u]
    BY <1>0, <1>4 DEF Unreachable, At, Return, RotationsOK
  <2>2. UNCHANGED <<files, overlapped, faults>>
    BY <1>4 DEF Unreachable, files, boot, history
  <2> QED
    BY <2>1, <2>2, OrderlyKept
<1>5. ASSUME NEW t \in Tab, ChangeCredential(t)
      PROVE  Orderly'
  <2> PICK a, new : a = rotation[t].account /\ new = rotation[t].new
    OBVIOUS
  <2>1. /\ rotation[t] \in Rotation /\ rotation[t].at = "admitted" /\ rotation[t] # None
        /\ a \in Member /\ BackendOf(t) = ServedBy[a] /\ new \in Credential /\ new # None
    BY <1>0, <1>5, RotationConstants DEF ChangeCredential, At, BackendOf, Rotation
  <2>2. \A u \in Tab \ {t} : rotation'[u] = rotation[u]
    BY <1>0, <1>5 DEF ChangeCredential, Return, RotationsOK
  <2>3. override' = override /\ overlapped' = overlapped /\ faults' = faults
    BY <1>5 DEF ChangeCredential, boot, history
  <2>4. CASE ~KnowsCurrent(t)
    <3>1. rotation'[t] = None /\ UNCHANGED files
      BY <1>0, <1>5, <2>4 DEF ChangeCredential, Return, RotationsOK, files
    <3> QED
      BY <2>1, <2>2, <2>3, <3>1, OrderlyKept
  <2>5. CASE KnowsCurrent(t)
    <3> SUFFICES ASSUME faults = 0 PROVE Orderly'
      BY <2>3 DEF Orderly
    <3>1. rotation[t].waiting
      BY <2>1 DEF Orderly
    <3>2. rotation'[t] = [rotation[t] EXCEPT !.at = "changed"]
      BY <1>0, <1>5, <2>5, <3>1 DEF ChangeCredential, RotationsOK
    <3>3. /\ rotation'[t].at = "changed" /\ rotation'[t].account = a /\ rotation'[t].new = new
          /\ rotation'[t].waiting /\ rotation'[t] # None
      <4>1. rotation'[t] \in Rotation
        BY <2>1, <3>2, ChangedRotation
      <4> QED
        BY <2>1, <3>1, <3>2, <4>1, NoneAndTornAreApart DEF Rotation
    <3>4. store' = [store EXCEPT ![ServedBy[a]] = new]
      BY <1>5, <2>1, <2>5 DEF ChangeCredential, SetCredential
    <3>5. GetCurrent(ServedBy[a])' = new
      BY <1>0, <2>1, <3>4 DEF GetCurrent, TypeOK
    <3>6. \A x \in Member : x # a => GetCurrent(ServedBy[x])' = GetCurrent(ServedBy[x])
      <4>1. \A x \in Member : x # a => ServedBy[x] # ServedBy[a]
        BY <2>1, Owners
      <4>2. \A x \in Member : x # a => store'[ServedBy[x]] = store[ServedBy[x]]
        BY <1>0, <3>4, <4>1 DEF TypeOK
      <4> QED
        BY <4>2 DEF GetCurrent, Owner
    <3>7. \A x \in Account : ApiKey(x)' = ApiKey(x)
      BY <2>3 DEF ApiKey
    <3>8. \A u \in Tab, x \in Account : Active(u, x)' <=> Active(u, x)
      BY <2>1, <2>2, <3>3 DEF Active
    <3>9. ASSUME NEW x \in Member \ overlapped'
          PROVE  /\ \A u, v \in Tab : Active(u, x)' /\ Active(v, x)' => u = v
                 /\ \A u \in Tab : Active(u, x)' /\ rotation'[u].at = "changed" =>
                      GetCurrent(ServedBy[x])' = rotation'[u].new
                 /\ (\A u \in Tab : Active(u, x)' => rotation'[u].at # "changed") =>
                      ApiKey(x)' = GetCurrent(ServedBy[x])'
      <4>1. x \in Member \ overlapped /\ x \in Account
        BY <1>0, <2>3, <3>9
      <4>2. /\ \A u, v \in Tab : Active(u, x) /\ Active(v, x) => u = v
            /\ \A u \in Tab : Active(u, x) /\ rotation[u].at = "changed" =>
                 GetCurrent(ServedBy[x]) = rotation[u].new
            /\ (\A u \in Tab : Active(u, x) => rotation[u].at # "changed") =>
                 ApiKey(x) = GetCurrent(ServedBy[x])
        BY <4>1 DEF Orderly
      <4>3. CASE x = a
        <5>1. Active(t, x) /\ Active(t, x)'
          BY <2>1, <3>3, <4>3 DEF Active
        <5>2. \A u \in Tab : Active(u, x)' => u = t
          BY <3>8, <4>1, <4>2, <5>1
        <5> QED
          BY <3>3, <3>5, <4>3, <5>1, <5>2
      <4>4. CASE x # a
        <5>1. \A u \in Tab : Active(u, x) => u # t
          BY <2>1, <4>4 DEF Active
        <5> QED
          BY <2>2, <3>6, <3>7, <3>8, <4>1, <4>2, <4>4, <5>1
      <4> QED
        BY <4>3, <4>4
    <3>10. override' # Torn /\ \A u \in Tab : rotation'[u] # None => rotation'[u].waiting
      BY <2>2, <2>3, <3>3 DEF Orderly
    <3> QED
      BY <3>9, <3>10 DEF Orderly
  <2> QED
    BY <2>4, <2>5
<1>6. ASSUME NEW t \in Tab, Confirmed(t)
      PROVE  Orderly'
  <2> PICK a, new : a = rotation[t].account /\ new = rotation[t].new
    OBVIOUS
  <2>1. /\ rotation[t] \in Rotation /\ rotation[t].at = "changed" /\ rotation[t] # None
        /\ a \in Member /\ a \in Account /\ new # None
    BY <1>0, <1>6, RotationConstants DEF Confirmed, At, Rotation
  <2>2. rotation'[t] = None /\ \A u \in Tab \ {t} : rotation'[u] = rotation[u]
    BY <1>0, <1>6 DEF Confirmed, Return, RotationsOK
  <2>3. store' = store /\ overlapped' = overlapped /\ faults' = faults
    BY <1>6 DEF Confirmed, boot, history
  <2> SUFFICES ASSUME faults = 0 PROVE Orderly'
    BY <2>3 DEF Orderly
  <2>4. override # Torn /\ override \in [Account -> Credential \cup {None}]
    BY DEF Orderly, TypeOK
  <2>5. override' = [override EXCEPT ![a] = new]
    BY <1>6, <2>4 DEF Confirmed, SetCredentialOverride
  <2>6. override' # Torn
    <3>1. override' \in [Account -> Credential \cup {None}]
      BY <2>1, <2>4, <2>5, RotationConstants DEF Rotation
    <3> QED
      BY <3>1, NoneAndTornAreApart
  <2>7. ApiKey(a)' = new /\ \A x \in Account : x # a => ApiKey(x)' = ApiKey(x)
    BY <2>1, <2>4, <2>5 DEF ApiKey
  <2>8. \A b \in Backend : GetCurrent(b)' = GetCurrent(b)
    BY <2>3 DEF GetCurrent, Owner
  <2>9. \A u \in Tab, x \in Account : Active(u, x)' <=> Active(u, x) /\ u # t
    BY <2>2 DEF Active
  <2>10. ASSUME NEW x \in Member \ overlapped'
         PROVE  /\ \A u, v \in Tab : Active(u, x)' /\ Active(v, x)' => u = v
                /\ \A u \in Tab : Active(u, x)' /\ rotation'[u].at = "changed" =>
                     GetCurrent(ServedBy[x])' = rotation'[u].new
                /\ (\A u \in Tab : Active(u, x)' => rotation'[u].at # "changed") =>
                     ApiKey(x)' = GetCurrent(ServedBy[x])'
    <3>1. x \in Member \ overlapped /\ x \in Account /\ ServedBy[x] \in Backend
      BY <1>0, <2>3, <2>10
    <3>2. /\ \A u, v \in Tab : Active(u, x) /\ Active(v, x) => u = v
          /\ \A u \in Tab : Active(u, x) /\ rotation[u].at = "changed" =>
               GetCurrent(ServedBy[x]) = rotation[u].new
          /\ (\A u \in Tab : Active(u, x) => rotation[u].at # "changed") =>
               ApiKey(x) = GetCurrent(ServedBy[x])
      BY <3>1 DEF Orderly
    <3>3. CASE x = a
      <4>1. Active(t, x)
        BY <2>1, <3>3 DEF Active
      <4>2. \A u \in Tab : ~Active(u, x)'
        BY <2>9, <3>1, <3>2, <4>1
      <4>3. GetCurrent(ServedBy[x]) = new
        BY <2>1, <3>2, <4>1
      <4> QED
        BY <2>7, <2>8, <3>1, <3>3, <4>2, <4>3
    <3>4. CASE x # a
      <4>1. \A u \in Tab : Active(u, x) => u # t
        BY <3>4 DEF Active
      <4> QED
        BY <2>2, <2>7, <2>8, <2>9, <3>1, <3>2, <3>4, <4>1
    <3> QED
      BY <3>3, <3>4
  <2>11. \A u \in Tab : rotation'[u] # None => rotation'[u].waiting
    BY <2>2 DEF Orderly
  <2> QED
    BY <2>6, <2>10, <2>11 DEF Orderly
<1>7. ASSUME NEW b \in Backend, Start(b) \/ ProvisionCrypto(b)
      PROVE  Orderly'
  <2>1. CASE Start(b)
    BY <2>1, OrderlyKept DEF Start, Bootstrap, history
  <2>2. CASE ProvisionCrypto(b)
    BY <1>1, <2>2 DEF ProvisionCrypto, Provision, WipeCrypto, GenerateKey, StoreCertificate
  <2> QED
    BY <1>7, <2>1, <2>2
<1>8. ASSUME NEW t \in Tab, LoseAnswer(t) PROVE Orderly'
  BY <1>1, <1>8 DEF LoseAnswer
<1>9. ASSUME NEW torn \in BOOLEAN, RestartPortal(torn) PROVE Orderly'
  BY <1>1, <1>9 DEF RestartPortal
<1>10. ASSUME NEW b \in Backend, NEW torn \in BOOLEAN, Stop(b, torn) PROVE Orderly'
  BY <1>1, <1>10 DEF Stop
<1>11. CASE UNCHANGED vars
  BY <1>11, OrderlyKept DEF vars, boot, history
<1> QED
  BY <1>2, <1>3, <1>4, <1>5, <1>6, <1>7, <1>8, <1>9, <1>10, <1>11 DEF Next, Continue

\* Only a fault or a second rotation at the same time locks a member out
\* (credential.ts:42-44).
THEOREM CausedLockOut == Spec => []LockOutHasACause
<1>1. Init => Orderly
  <2>1. ASSUME Init PROVE Orderly
    <3>1. override = [a \in Account |-> None] /\ \A t \in Tab : rotation[t] = None
      BY <2>1 DEF Init
    <3>2. override # Torn
      BY <3>1, NoneAndTornAreApart
    <3>3. \A a \in Member : ApiKey(a) = Deployed[a] /\ GetCurrent(ServedBy[a]) = Deployed[a]
      BY <2>1, <3>1, Owners DEF Init, ApiKey, GetCurrent, Member
    <3> QED
      BY <3>1, <3>2, <3>3 DEF Orderly, Active
  <2> QED
    BY <2>1
<1>2. TypeOK /\ GuestsShutOut /\ Orderly /\ [Next]_vars => Orderly'
  BY StepIsOrderly
<1>3. TypeOK /\ Orderly => LockOutHasACause
  <2>1. TypeOK => faults \in Nat
    BY DEF TypeOK, BootTypeOK
  <2> QED
    BY <2>1 DEF Orderly, Active, LockOutHasACause, InSync, Changing, Rotating, Member
<1> QED
  BY <1>1, <1>2, <1>3, TypeCorrect, AlwaysShutOut, PTL DEF Spec
-----------------------------------------------------------------------------
(* The register that rotation implements *)

\* The swap a rotation asks for; a rotation of no owner asks for the same one.
CallOf(r) ==
  IF r = None THEN None
  ELSE [account |-> r.account, backend |-> ServedBy[r.account],
        old |-> r.current, new |-> r.new, done |-> r.at = "changed"]

credentialNow == [b \in Backend |-> GetCurrent(b)]

callNow == [t \in Tab |-> CallOf(rotation[t])]

LEMMA Calls ==
  ASSUME NEW r, IsRotation(r)
  PROVE  /\ r = None => CallOf(r) = None
         /\ r # None => /\ CallOf(r) \in Register!Call
                        /\ CallOf(r) # None
                        /\ CallOf(r).account = r.account
                        /\ CallOf(r).backend = ServedBy[r.account]
                        /\ CallOf(r).old = r.current /\ CallOf(r).new = r.new
                        /\ r.at = "changed" => CallOf(r).done
                        /\ r.at # "changed" => ~CallOf(r).done
<1>1. CASE r = None
  BY <1>1 DEF CallOf
<1>2. CASE r # None
  <2>1. r \in Rotation
    BY <1>2 DEF IsRotation
  <2>2. /\ r.account \in Account /\ ServedBy[r.account] \in Backend
        /\ r.current \in Credential /\ r.new \in Credential
    BY <2>1, RotationConstants DEF Rotation
  <2>3. CASE r.at = "changed"
    <3>1. CallOf(r) = [account |-> r.account, backend |-> ServedBy[r.account],
                       old |-> r.current, new |-> r.new, done |-> TRUE]
      BY <1>2, <2>3 DEF CallOf
    <3>2. CallOf(r) \in Register!Call
      BY <2>2, <3>1 DEF Register!Call
    <3>3. /\ CallOf(r).account = r.account /\ CallOf(r).backend = ServedBy[r.account]
          /\ CallOf(r).old = r.current /\ CallOf(r).new = r.new
      BY <3>1
    <3>4. CallOf(r).done
      BY <3>1
    <3>5. CallOf(r) # None
      BY <3>2, NoneIsNoCall
    <3> QED
      BY <1>2, <2>3, <3>2, <3>3, <3>4, <3>5
  <2>4. CASE r.at # "changed"
    <3>1. (r.at = "changed") = FALSE
      BY <2>4
    <3>2. CallOf(r) = [account |-> r.account, backend |-> ServedBy[r.account],
                       old |-> r.current, new |-> r.new, done |-> FALSE]
      BY <1>2, <3>1 DEF CallOf
    <3>3. CallOf(r) \in Register!Call
      BY <2>2, <3>2 DEF Register!Call
    <3>4. /\ CallOf(r).account = r.account /\ CallOf(r).backend = ServedBy[r.account]
          /\ CallOf(r).old = r.current /\ CallOf(r).new = r.new
      BY <3>2
    <3>5. ~CallOf(r).done
      BY <3>2
    <3>6. CallOf(r) # None
      BY <3>3, NoneIsNoCall
    <3> QED
      BY <1>2, <2>4, <3>3, <3>4, <3>5, <3>6
  <2> QED
    BY <2>3, <2>4
<1> QED
  BY <1>1, <1>2

\* The register's calls follow the rotations.
LEMMA CallChanges ==
  ASSUME RotationsOK, NEW t \in Tab, NEW r, rotation' = [rotation EXCEPT ![t] = r]
  PROVE  callNow' = [callNow EXCEPT ![t] = CallOf(r)]
<1>1. rotation'[t] = r /\ \A u \in Tab \ {t} : rotation'[u] = rotation[u]
  BY DEF RotationsOK
<1>2. callNow' = [u \in Tab |-> CallOf(rotation'[u])]
  BY DEF callNow
<1>3. [callNow EXCEPT ![t] = CallOf(r)] =
        [u \in Tab |-> IF u = t THEN CallOf(r) ELSE CallOf(rotation[u])]
  BY DEF callNow
<1>4. \A u \in Tab : CallOf(rotation'[u]) = IF u = t THEN CallOf(r) ELSE CallOf(rotation[u])
  BY <1>1
<1> QED
  BY <1>2, <1>3, <1>4

\* A rotation over, or one more step on without a swap, is a call dropped or kept.
LEMMA CallsDropped ==
  ASSUME RotationsOK, RotationsOK',
         \A t \in Tab : \/ rotation'[t] = None
                        \/ /\ rotation[t] # None /\ rotation'[t] # None
                           /\ rotation'[t].account = rotation[t].account
                           /\ rotation'[t].current = rotation[t].current
                           /\ rotation'[t].new = rotation[t].new
                           /\ rotation'[t].at = "changed" <=> rotation[t].at = "changed"
  PROVE  \A t \in Tab : callNow'[t] \in {callNow[t], None}
<1> SUFFICES ASSUME NEW t \in Tab PROVE callNow'[t] \in {callNow[t], None}
  OBVIOUS
<1>1. callNow[t] = CallOf(rotation[t]) /\ callNow'[t] = CallOf(rotation'[t])
  BY DEF callNow
<1>2. CASE rotation'[t] = None
  BY <1>1, <1>2 DEF CallOf
<1>3. CASE rotation'[t] # None
  <2>1. CallOf(rotation'[t]) = CallOf(rotation[t])
    BY <1>3 DEF CallOf
  <2> QED
    BY <1>1, <2>1
<1> QED
  BY <1>2, <1>3

LEMMA SameCredentials ==
  ASSUME UNCHANGED store
  PROVE  credentialNow' = credentialNow
BY DEF credentialNow, GetCurrent

LEMMA StepIsRegisterStep ==
  ASSUME TypeOK, TypeOK', [Next]_vars
  PROVE  Register!Step \/ UNCHANGED Register!abstract
<1>1. InParts /\ InParts' /\ RotationsOK /\ RotationsOK'
  BY TypesInParts DEF InParts
<1>2. ASSUME UNCHANGED store, override' \in {override, Torn},
             \A t \in Tab : callNow'[t] \in {callNow[t], None}
      PROVE  Register!Step
  <2>1. \A b \in Backend : credentialNow'[b] = credentialNow[b]
    BY <1>2, SameCredentials
  <2>2. Register!Drop
    BY <1>2, <2>1 DEF Register!Drop, credentialNow, callNow, CallOf, BackendOf
  <2> QED
    BY <2>2 DEF Register!Step
<1>3. ASSUME NEW t \in Tab, Return(t), UNCHANGED files
      PROVE  Register!Step
  <2>1. \A u \in Tab : callNow'[u] \in {callNow[u], None}
    BY <1>1, <1>3, CallChanges DEF Return, CallOf, callNow
  <2> QED
    BY <1>2, <1>3, <2>1 DEF files
<1>4. ASSUME NEW t \in Tab, NEW a \in Account, NEW current \in KnownCredential,
             NEW new \in NewCredential, Submit(t, a, current, new)
      PROVE  Register!Step
  <2>1. PICK r : /\ r = [account |-> a, current |-> current, new |-> new, apiKey |-> ApiKey(a),
                         at |-> "sent", waiting |-> TRUE]
                 /\ rotation' = [rotation EXCEPT ![t] = r]
    BY <1>4 DEF Submit
  <2>2. rotation[t] = None /\ rotation'[t] = r /\ r.at = "sent"
    BY <1>1, <1>4, <2>1 DEF Submit, FormReady, RotationsOK
  <2>3. r \in Rotation /\ r # None
    <3>1. ApiKey(a) \in Credential
      BY <1>4, Credentials DEF Submit
    <3>2. r \in Rotation
      BY <2>1, <3>1 DEF Rotation
    <3> QED
      BY <3>2, NoneAndTornAreApart
  <2>4. IsRotation(r) /\ IsRotation(None) /\ CallOf(None) = None
    BY <1>1, <2>2, <2>3 DEF RotationsOK, IsRotation, CallOf
  <2>5. CallOf(r) \in Register!Call /\ ~CallOf(r).done
    BY <2>2, <2>3, <2>4, Calls
  <2>6. callNow' = [callNow EXCEPT ![t] = CallOf(r)] /\ callNow[t] = None
    BY <1>1, <2>1, <2>2, <2>4, CallChanges DEF callNow
  <2>7. callNow'[t] = CallOf(r) /\ \A u \in Tab \ {t} : callNow'[u] = callNow[u]
    BY <2>6 DEF callNow
  <2>8. credentialNow' = credentialNow /\ override' = override
    BY <1>4, SameCredentials DEF Submit, files
  <2>9. Register!Ask(t)
    BY <2>5, <2>6, <2>7, <2>8
    DEF Register!Ask, credentialNow, callNow, CallOf, BackendOf
  <2> QED
    BY <2>9 DEF Register!Step
<1>5. ASSUME NEW t \in Tab, Confirmed(t)
      PROVE  Register!Step
  <2>1. CASE override = Torn
    <3>1. Return(t) /\ UNCHANGED files
      BY <1>5, <2>1 DEF Confirmed, files
    <3> QED
      BY <1>3, <3>1
  <2>2. CASE override # Torn
    <3>1. /\ rotation[t] # None /\ rotation[t].at = "changed"
          /\ rotation' = [rotation EXCEPT ![t] = None] /\ UNCHANGED store
          /\ override' = [override EXCEPT ![rotation[t].account] = rotation[t].new]
      BY <1>5, <2>2 DEF Confirmed, At, Return, SetCredentialOverride
    <3>2. IsRotation(rotation[t]) /\ CallOf(None) = None
      BY <1>1 DEF RotationsOK, CallOf
    <3>3. /\ callNow[t] # None /\ callNow[t].done
          /\ callNow[t].account = rotation[t].account /\ callNow[t].new = rotation[t].new
      <4>1. callNow[t] = CallOf(rotation[t])
        BY DEF callNow
      <4>2. rotation[t] # None /\ IsRotation(rotation[t])
        BY <3>1, <3>2
      <4>3. /\ CallOf(rotation[t]) # None
            /\ CallOf(rotation[t]).account = rotation[t].account
            /\ CallOf(rotation[t]).backend = ServedBy[rotation[t].account]
            /\ CallOf(rotation[t]).old = rotation[t].current
            /\ CallOf(rotation[t]).new = rotation[t].new
            /\ rotation[t].at = "changed" => CallOf(rotation[t]).done
            /\ rotation[t].at # "changed" => ~CallOf(rotation[t]).done
        BY <4>2, Calls
      <4> QED
        BY <3>1, <3>2, <4>1, <4>3
    <3>4. callNow' = [callNow EXCEPT ![t] = None] /\ credentialNow' = credentialNow
      BY <1>1, <3>1, <3>2, CallChanges, SameCredentials
    <3>5. Register!Tell(t)
      BY <2>2, <3>1, <3>3, <3>4
      DEF Register!Tell, credentialNow, callNow, CallOf, BackendOf
    <3> QED
      BY <3>5 DEF Register!Step
  <2> QED
    BY <2>1, <2>2
<1>6. ASSUME NEW t \in Tab, ChangeCredential(t)
      PROVE  Register!Step
  <2>1. CASE ~KnowsCurrent(t)
    <3>1. Return(t) /\ UNCHANGED files
      BY <1>6, <2>1 DEF ChangeCredential, files
    <3> QED
      BY <1>3, <3>1
  <2>2. CASE KnowsCurrent(t)
    <3>1. /\ rotation[t] # None /\ rotation[t].at = "admitted" /\ UNCHANGED override
          /\ store' = [store EXCEPT ![BackendOf(t)] = rotation[t].new]
          /\ rotation[t].current = GetCurrent(BackendOf(t))
      BY <1>6, <2>2 DEF ChangeCredential, At, SetCredential, KnowsCurrent
    <3>2. /\ rotation[t] \in Rotation /\ BackendOf(t) \in Backend
          /\ BackendOf(t) = ServedBy[rotation[t].account]
          /\ IsRotation(rotation[t])
      BY <1>1, <3>1, Rotations DEF BackendOf, RotationsOK
    <3>3. /\ callNow[t] # None /\ ~callNow[t].done
          /\ callNow[t].backend = BackendOf(t)
          /\ callNow[t].old = rotation[t].current /\ callNow[t].new = rotation[t].new
      <4>1. callNow[t] = CallOf(rotation[t])
        BY DEF callNow
      <4>2. rotation[t] # None /\ IsRotation(rotation[t])
        BY <3>1, <3>2
      <4>3. /\ CallOf(rotation[t]) # None
            /\ CallOf(rotation[t]).account = rotation[t].account
            /\ CallOf(rotation[t]).backend = ServedBy[rotation[t].account]
            /\ CallOf(rotation[t]).old = rotation[t].current
            /\ CallOf(rotation[t]).new = rotation[t].new
            /\ rotation[t].at = "changed" => CallOf(rotation[t]).done
            /\ rotation[t].at # "changed" => ~CallOf(rotation[t]).done
        BY <4>2, Calls
      <4> QED
        BY <3>1, <3>2, <4>1, <4>3
    <3>4. credentialNow' = [credentialNow EXCEPT ![BackendOf(t)] = rotation[t].new]
      <4>1. rotation[t].new # None
        BY <3>2, RotationConstants DEF Rotation
      <4>2. store'[BackendOf(t)] = rotation[t].new
            /\ \A b \in Backend \ {BackendOf(t)} : store'[b] = store[b]
        BY <1>1, <3>1, <3>2 DEF InParts
      <4>3. \A b \in Backend : credentialNow'[b] =
              IF b = BackendOf(t) THEN rotation[t].new ELSE credentialNow[b]
        BY <4>1, <4>2 DEF credentialNow, GetCurrent
      <4> QED
        BY <4>3 DEF credentialNow
    <3>5. callNow' \in {[callNow EXCEPT ![t].done = TRUE], [callNow EXCEPT ![t] = None]}
      <4>1. CASE rotation[t].waiting
        <5>1. PICK r : r = [rotation[t] EXCEPT !.at = "changed"]
                       /\ rotation' = [rotation EXCEPT ![t] = r]
          BY <1>6, <2>2, <4>1 DEF ChangeCredential
        <5>2. /\ r # None /\ r.at = "changed" /\ r.account = rotation[t].account
              /\ r.current = rotation[t].current /\ r.new = rotation[t].new
          BY <3>2, <5>1, ChangedRotation DEF Rotation
        <5>3. CallOf(r) = [CallOf(rotation[t]) EXCEPT !.done = TRUE]
          <6>1. CallOf(r) = [account |-> r.account, backend |-> ServedBy[r.account],
                             old |-> r.current, new |-> r.new, done |-> TRUE]
            BY <5>2 DEF CallOf
          <6>2. CallOf(rotation[t]) =
                  [account |-> r.account, backend |-> ServedBy[r.account],
                   old |-> r.current, new |-> r.new, done |-> FALSE]
            <7>1. (rotation[t].at = "changed") = FALSE
              BY <3>1
            <7> QED
              BY <3>1, <5>2, <7>1 DEF CallOf
          <6>3. [account |-> r.account, backend |-> ServedBy[r.account],
                 old |-> r.current, new |-> r.new, done |-> TRUE] =
                [[account |-> r.account, backend |-> ServedBy[r.account],
                  old |-> r.current, new |-> r.new, done |-> FALSE] EXCEPT !.done = TRUE]
            <7>1. ASSUME NEW x, NEW y
                  PROVE  [account |-> r.account, backend |-> ServedBy[r.account],
                          old |-> r.current, new |-> r.new, done |-> y] =
                         [[account |-> r.account, backend |-> ServedBy[r.account],
                           old |-> r.current, new |-> r.new, done |-> x] EXCEPT !.done = y]
              OBVIOUS
            <7> QED
              BY <7>1
          <6> QED
            BY <6>1, <6>2, <6>3
        <5>4. callNow' = [callNow EXCEPT ![t] = CallOf(r)]
          BY <1>1, <5>1, CallChanges
        <5> QED
          BY <5>3, <5>4 DEF callNow
      <4>2. CASE ~rotation[t].waiting
        <5>1. rotation' = [rotation EXCEPT ![t] = None]
          BY <1>6, <2>2, <4>2 DEF ChangeCredential, Return
        <5> QED
          BY <1>1, <5>1, CallChanges DEF CallOf
      <4> QED
        BY <4>1, <4>2
    <3>6. credentialNow[callNow[t].backend] = callNow[t].old
      BY <3>1, <3>2, <3>3 DEF credentialNow
    <3>7. Register!Swap(t)
      BY <3>1, <3>3, <3>4, <3>5, <3>6
      DEF Register!Swap, credentialNow, callNow, CallOf, BackendOf
    <3> QED
      BY <3>7 DEF Register!Step
  <2> QED
    BY <2>1, <2>2
<1>7. ASSUME NEW t \in Tab, Guard(t)
      PROVE  Register!Step
  <2>1. CASE ~CanActivate(t)
    BY <1>3, <1>7, <2>1 DEF Guard
  <2>2. CASE CanActivate(t)
    <3>1. /\ rotation[t] # None /\ rotation[t].at = "sent" /\ UNCHANGED files
          /\ rotation' = [rotation EXCEPT ![t].at = "admitted", ![t].apiKey = None]
      BY <1>7, <2>2 DEF Guard, At
    <3>2. rotation[t] \in Rotation
      BY <3>1, Rotations
    <3>3. PICK r : r = [rotation[t] EXCEPT !.at = "admitted", !.apiKey = None]
      OBVIOUS
    <3>4. rotation' = [rotation EXCEPT ![t] = r]
      BY <1>1, <3>1, <3>3 DEF RotationsOK
    <3>5. /\ r # None /\ r.at = "admitted" /\ r.account = rotation[t].account
          /\ r.current = rotation[t].current /\ r.new = rotation[t].new
      BY <3>2, <3>3, ChangedRotation DEF Rotation
    <3>6. CallOf(r) = CallOf(rotation[t])
      BY <3>1, <3>5 DEF CallOf
    <3>7. callNow' = [callNow EXCEPT ![t] = CallOf(r)]
      BY <1>1, <3>4, CallChanges
    <3>8. \A u \in Tab : callNow'[u] \in {callNow[u], None}
      BY <3>6, <3>7 DEF callNow
    <3> QED
      BY <1>2, <3>1, <3>8 DEF files
  <2> QED
    BY <2>1, <2>2
<1>8. ASSUME NEW t \in Tab, Unreachable(t)
      PROVE  Register!Step
  BY <1>3, <1>8 DEF Unreachable
<1>9. ASSUME NEW lost, rotation' = Unheard(lost)
      PROVE  \A u \in Tab : callNow'[u] \in {callNow[u], None}
  <2>1. ASSUME NEW u \in Tab
        PROVE  \/ rotation'[u] = None
               \/ /\ rotation[u] # None /\ rotation'[u] # None
                  /\ rotation'[u].account = rotation[u].account
                  /\ rotation'[u].current = rotation[u].current
                  /\ rotation'[u].new = rotation[u].new
                  /\ rotation'[u].at = "changed" <=> rotation[u].at = "changed"
    BY <1>1, <1>9, UnheardRotations
  <2> QED
    BY <1>1, <2>1, CallsDropped
<1>10. ASSUME NEW t \in Tab, LoseAnswer(t)
       PROVE  Register!Step
  BY <1>2, <1>9, <1>10 DEF LoseAnswer, files
<1>11. ASSUME NEW torn \in BOOLEAN, RestartPortal(torn)
       PROVE  Register!Step
  BY <1>2, <1>9, <1>11 DEF RestartPortal
<1>12. ASSUME NEW b \in Backend, NEW torn \in BOOLEAN, Stop(b, torn)
       PROVE  Register!Step
  <2>1. PICK handled, lost :
          rotation' = [t \in Tab |-> IF t \in handled THEN None ELSE Unheard(lost)[t]]
    BY <1>12 DEF Stop
  <2>2. ASSUME NEW u \in Tab
        PROVE  \/ rotation'[u] = None
               \/ /\ rotation[u] # None /\ rotation'[u] # None
                  /\ rotation'[u].account = rotation[u].account
                  /\ rotation'[u].current = rotation[u].current
                  /\ rotation'[u].new = rotation[u].new
                  /\ rotation'[u].at = "changed" <=> rotation[u].at = "changed"
    BY <1>1, <2>1, UnheardRotations
  <2>3. \A u \in Tab : callNow'[u] \in {callNow[u], None}
    BY <1>1, <2>2, CallsDropped
  <2>4. UNCHANGED override /\ (store' = store \/ store' = [store EXCEPT ![b] = Torn])
    BY <1>12 DEF Stop
  <2>5. \A x \in Backend : credentialNow'[x] \in {credentialNow[x], Torn}
    <3>1. Torn # None
      BY Credentials
    <3> QED
      BY <1>1, <2>4, <3>1 DEF credentialNow, GetCurrent, InParts
  <2>6. Register!Drop
    BY <2>3, <2>4, <2>5 DEF Register!Drop, credentialNow, callNow, CallOf, BackendOf
  <2> QED
    BY <2>6 DEF Register!Step
<1>13. ASSUME UNCHANGED <<files, rotation>>
       PROVE  UNCHANGED Register!abstract
  <2>1. credentialNow' = credentialNow /\ override' = override /\ callNow' = callNow
    BY <1>13, SameCredentials DEF files, callNow
  <2> QED
    BY <2>1 DEF Register!abstract, credentialNow, callNow, CallOf, BackendOf
<1>14. ASSUME Next
       PROVE  Register!Step \/ UNCHANGED Register!abstract
  BY <1>4, <1>5, <1>6, <1>7, <1>8, <1>10, <1>11, <1>12, <1>13, <1>14
  DEF Next, Continue, Start, ProvisionCrypto
<1>15. CASE UNCHANGED vars
  BY <1>13, <1>15 DEF vars
<1> QED
  BY <1>14, <1>15

\* Rotation implements a compare-and-swap register (ImplementsRegister): whatever
\* the interleaving of guard, controller and portal, and through crashes and lost
\* answers, a backend's credential changes only by a swap whose caller named the
\* current one, and the portal believes only in swaps it was told of.
THEOREM Implementation == Spec => ImplementsRegister
<1>1. Init => Register!Start
  <2> SUFFICES ASSUME Init PROVE Register!Start
    OBVIOUS
  <2>1. \A b \in Backend : GetCurrent(b) = Deployed[Owner(b)] /\ Deployed[Owner(b)] \in Credential
    BY Owners, RotationConstants DEF Init, GetCurrent, Member
  <2>2. credentialNow \in [Backend -> Credential]
    BY <2>1 DEF credentialNow
  <2>3. callNow = [t \in Tab |-> None] /\ override = [a \in Account |-> None]
    BY DEF Init, callNow, CallOf
  <2> QED
    BY <2>2, <2>3 DEF Register!Start, credentialNow, callNow, CallOf, BackendOf
<1>2. TypeOK /\ TypeOK' /\ [Next]_vars => [Register!Step]_(Register!abstract)
  BY StepIsRegisterStep
<1> QED
  BY <1>1, <1>2, TypeCorrect, PTL DEF Spec, ImplementsRegister, Register!Promise

=============================================================================
