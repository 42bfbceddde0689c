------------------------- MODULE CredentialRotation -------------------------
(***************************************************************************)
(* Changing an institution's API credential from the portal: the server    *)
(* action changeCredentialAction, ApiKeyGuard and AuthController of the    *)
(* institution's backend, and the two files the credential lives in, the   *)
(* backend's credential-store.<msp>.json and the portal's                  *)
(* credential-overrides.json, one file for all accounts.                   *)
(*                                                                         *)
(* A rotation is one run of the action.  JavaScript runs each process      *)
(* without interruption between two awaits: rotation[t].at is "sent" until *)
(* the guard has run, "admitted" until the controller has, then "changed"  *)
(* until the portal has the answer.  A refusal only shows an error in the  *)
(* form, so the step that refuses ends the rotation.  writeFileSync is not *)
(* interrupted by other requests, but a crash inside it leaves the file    *)
(* Torn: JSON.parse then throws at every read.                             *)
(***************************************************************************)
EXTENDS BackendBoot

CONSTANTS
  Account,       \* the portal's accounts
  Guest,         \* those that log in with a READ_ONLY_API_KEY
  ServedBy,      \* the backend at the baseUrl of each account
  Credential,
  Deployed,      \* the apiKey each account was deployed with
  KnownCredential, \* what users type as their current credential, right or wrong
  NewCredential, \* what users choose as a new one
  Tab,           \* the rotations that can be under way at once (bounds the model)
  MaxRotations,  \* the rotations in all (bounds the model)
  Torn

\* Each organization has one account that is no guest, whose key is its backend's
\* API_KEY; nobody chooses a guest's key as the new credential.
ASSUME RotationConstants ==
  /\ Guest \subseteq Account /\ KnownCredential \cup NewCredential \subseteq Credential
  /\ ServedBy \in [Account -> Backend] /\ Deployed \in [Account -> Credential]
  /\ \A b \in Backend : \E a \in Account \ Guest :
       \A x \in Account \ Guest : ServedBy[x] = b <=> x = a
  /\ \A g \in Guest : Deployed[g] \notin NewCredential \cup {Deployed[a] : a \in Account \ Guest}
  /\ None \notin Credential /\ Torn \notin Credential \cup {None}
  /\ MaxRotations \in Nat

VARIABLES
  store,      \* the credential in each backend's file, None without a file, or Torn
  override,   \* the credential of each account in the portal's file, or None; or Torn
  rotation,   \* the rotations under way, or None
  rotations,  \* how many were submitted so far
  overlapped  \* the accounts with two rotations under way at once (history)

files == <<store, override>>
history == <<rotations, overlapped>>
vars == <<boot, files, rotation, history>>

Owner(b) == CHOOSE a \in Account \ Guest : ServedBy[a] = b

\* Mutant: the file written by a rotation is only read at start-up.
GetCurrent_Deployed(b) == Deployed[Owner(b)]

\* Torn stands for the exception.
GetCurrent(b) == IF store[b] = None THEN Deployed[Owner(b)] ELSE store[b]

ReadOnlyApiKeys(b) == {Deployed[g] : g \in {x \in Guest : ServedBy[x] = b}}

BackendOf(t) == ServedBy[rotation[t].account]

At(t, place) == rotation[t] # None /\ rotation[t].at = place

Return(t) == rotation' = [rotation EXCEPT ![t] = None]

\* getCredentialOverride ?? account.apiKey
ApiKey(a) == IF override[a] = None THEN Deployed[a] ELSE override[a]

-----------------------------------------------------------------------------
(* The portal *)

\* The form's button is disabled while its rotation is under way.
FormReady(t) == rotation[t] = None

\* The action up to its request.  A torn override file ends it with an error page.
Submit(t, a, current, new) ==
  /\ FormReady(t)
  /\ override # Torn
  /\ rotations < MaxRotations /\ rotations' = rotations + 1
  /\ rotation' = [rotation EXCEPT ![t] =
       [account |-> a, current |-> current, new |-> new, apiKey |-> ApiKey(a),
        at |-> "sent", waiting |-> TRUE]]
  /\ overlapped' = IF \E u \in Tab : rotation[u] # None /\ rotation[u].account = a
                   THEN overlapped \cup {a} ELSE overlapped
  /\ UNCHANGED <<boot, files>>

\* Mutant: the file is rewritten with this account alone.
SetCredentialOverride_Alone(a, new) == [x \in Account |-> IF x = a THEN new ELSE None]

SetCredentialOverride(a, new) == [override EXCEPT ![a] = new]

Confirmed(t) ==
  /\ At(t, "changed")
  /\ override' = IF override = Torn THEN Torn
                 ELSE SetCredentialOverride(rotation[t].account, rotation[t].new)
  /\ Return(t)
  /\ UNCHANGED <<boot, store, history>>

\* The rotations after the answers of those in lost went astray: the backend goes
\* on with a request whose answer nobody awaits.
Unheard(lost) ==
  [t \in Tab |->
     IF t \notin lost \/ rotation[t] = None THEN rotation[t]
     ELSE IF rotation[t].at = "changed" THEN None
     ELSE [rotation[t] EXCEPT !.waiting = FALSE]]

\* fetch rejects: the form shows an error.
LoseAnswer(t) ==
  /\ Fault
  /\ rotation[t] # None /\ rotation[t].waiting
  /\ rotation' = Unheard({t})
  /\ UNCHANGED <<keystore, cert, identity, files, history>>

\* The portal stops and starts again, maybe while it was rewriting its file.
RestartPortal(torn) ==
  /\ Fault
  /\ torn => \E t \in Tab : At(t, "changed")
  /\ override' = IF torn THEN Torn ELSE override
  /\ rotation' = Unheard(Tab)
  /\ UNCHANGED <<keystore, cert, identity, store, history>>

-----------------------------------------------------------------------------
(* The backend *)

\* Mutant: a read-only key is let through to the handlers.
CanActivate_AnyMethod(t) ==
  rotation[t].apiKey \in {GetCurrent(BackendOf(t))} \cup ReadOnlyApiKeys(BackendOf(t))

\* Mutant: the key the backend was deployed with stays good.
CanActivate_Both(t) ==
  rotation[t].apiKey \in {GetCurrent(BackendOf(t)), Deployed[Owner(BackendOf(t))]}

\* ApiKeyGuard, for a POST: the read-only keys only let a GET through.
CanActivate(t) == rotation[t].apiKey = GetCurrent(BackendOf(t))

\* The header is not looked at again.
Guard(t) ==
  /\ At(t, "sent") /\ Running(BackendOf(t))
  /\ IF CanActivate(t)
     THEN rotation' = [rotation EXCEPT ![t].at = "admitted", ![t].apiKey = None]
     ELSE Return(t)
  /\ UNCHANGED <<boot, files, history>>

\* Mutant: the guard's check is thought to be enough.
KnowsCurrent_Guarded(t) == GetCurrent(BackendOf(t)) # Torn

KnowsCurrent(t) == rotation[t].current = GetCurrent(BackendOf(t))

SetCredential(b, new) == store' = [store EXCEPT ![b] = new]

\* The controller reads the credential again and replaces it in one go.
ChangeCredential(t) ==
  /\ At(t, "admitted")
  /\ IF KnowsCurrent(t)
     THEN /\ SetCredential(BackendOf(t), rotation[t].new)
          /\ IF rotation[t].waiting
             THEN rotation' = [rotation EXCEPT ![t].at = "changed"]
             ELSE Return(t)
     ELSE /\ Return(t)
          /\ UNCHANGED store
  /\ UNCHANGED <<boot, override, history>>

\* Mutant: a request that finds no backend waits for one.
Unreachable_Waits(t) == At(t, "sent") /\ Running(BackendOf(t)) /\ Guard(t)

\* fetch finds nobody listening.
Unreachable(t) ==
  /\ At(t, "sent") /\ ~Running(BackendOf(t))
  /\ Return(t)
  /\ UNCHANGED <<boot, files, history>>

\* The process dies, maybe while it boots or while the controller was writing the file:
\* the requests it was handling fail, and answers it had not sent yet are lost.
Stop(b, torn) ==
  LET handled == {t \in Tab : At(t, "admitted") /\ BackendOf(t) = b}
      answered == {t \in Tab : At(t, "changed") /\ BackendOf(t) = b} IN
  /\ Fault
  /\ identity[b] # None
  /\ identity' = [identity EXCEPT ![b] = None]
  /\ torn => \E t \in handled : KnowsCurrent(t)
  /\ store' = IF torn THEN [store EXCEPT ![b] = Torn] ELSE store
  /\ \E lost \in SUBSET answered :
       rotation' = [t \in Tab |-> IF t \in handled THEN None ELSE Unheard(lost)[t]]
  /\ UNCHANGED <<keystore, cert, override, history>>

Start(b) == Bootstrap(b) /\ UNCHANGED <<files, rotation, history>>

ProvisionCrypto(b) == Provision(b) /\ UNCHANGED <<files, rotation, history>>

-----------------------------------------------------------------------------

Init ==
  /\ BootInit
  /\ store = [b \in Backend |-> None]
  /\ override = [a \in Account |-> None]
  /\ rotation = [t \in Tab |-> None]
  /\ rotations = 0 /\ overlapped = {}

Continue(t) ==
  \/ Guard(t)
  \/ ChangeCredential(t)
  \/ Unreachable(t)
  \/ Confirmed(t)

Next ==
  \/ \E t \in Tab, a \in Account, current \in KnownCredential, new \in NewCredential :
       Submit(t, a, current, new)
  \/ \E t \in Tab : Continue(t) \/ LoseAnswer(t)
  \/ \E torn \in BOOLEAN : RestartPortal(torn)
  \/ \E b \in Backend, torn \in BOOLEAN : Stop(b, torn)
  \/ \E b \in Backend : Start(b) \/ ProvisionCrypto(b)

\* Both processes run the continuations they have; nothing makes a user submit,
\* a process stop, or an operator start it again.
Fairness == \A t \in Tab : WF_vars(Continue(t))

Spec == Init /\ [][Next]_vars /\ Fairness

-----------------------------------------------------------------------------

Rotation ==
  [account: Account, current: KnownCredential, new: NewCredential,
   apiKey: Credential \cup {None}, at: {"sent", "admitted", "changed"}, waiting: BOOLEAN]

\* None is no rotation and Torn no contents of the portal's file.
ASSUME NoneAndTornAreApart ==
  None \notin Rotation /\ Torn \notin [Account -> Credential \cup {None}]

TypeOK ==
  /\ BootTypeOK
  /\ store \in [Backend -> Credential \cup {None, Torn}]
  /\ override \in [Account -> Credential \cup {None}] \cup {Torn}
  /\ rotation \in [Tab -> Rotation \cup {None}]
  /\ \A t \in Tab : rotation[t] # None => (rotation[t].apiKey # None <=> At(t, "sent"))
  /\ rotations \in 0..MaxRotations /\ overlapped \subseteq Account

\* The portal still presents the credential the backend expects of account a.
InSync(a) == override # Torn /\ ApiKey(a) = GetCurrent(ServedBy[a])

Rotating(a) == {t \in Tab : rotation[t] # None /\ rotation[t].account = a}

Changing(a) == {t \in Rotating(a) : rotation[t].at = "changed"}

\* An institution locked out of its own backend is the exception the comments of
\* credential.ts:42-44 fear: between the backend's change and the portal's, or else
\* only after a crash or a lost answer, or two rotations of the account at once.
LockOutHasACause ==
  \A a \in Account \ Guest :
    InSync(a) \/ Changing(a) # {} \/ faults > 0 \/ a \in overlapped

\* A guest's rotations never get past the guard of the backend it shares with a
\* member, even when the guest knows and types that member's credential, and
\* leave no override (api-key.guard.ts:30-44).
GuestsNeverRotate ==
  \A g \in Guest :
    /\ \A t \in Rotating(g) : rotation[t].at = "sent"
    /\ override # Torn => override[g] = None

\* Locked out, with no rotation under way that the guard may still let through.
LockedOut(a) ==
  /\ ~InSync(a)
  /\ \A t \in Rotating(a) : At(t, "sent") /\ rotation[t].apiKey # GetCurrent(BackendOf(t))

\* An institution locked out stays so: no rotation it starts brings the two files
\* together again (the "needs a redeploy/restart to fix" problem the override was
\* made to remove, password-change/design.md:29).
LockOutLasts == [][\A a \in Account \ Guest : LockedOut(a) => LockedOut(a)']_vars

\* Every rotation ends, with success or an error in its form.
RotationsEnd == \A t \in Tab : rotation[t] # None ~> rotation[t] = None

Register == INSTANCE CredentialRegister WITH
  Caller <- Tab,
  credential <- [b \in Backend |-> GetCurrent(b)],
  belief <- override,
  call <- [t \in Tab |-> IF rotation[t] = None THEN None ELSE
             [account |-> rotation[t].account, backend |-> BackendOf(t),
              old |-> rotation[t].current, new |-> rotation[t].new,
              done |-> rotation[t].at = "changed"]]

\* None is no swap either.
ASSUME NoneIsNoCall == None \notin Register!Call

\* "WHEN a caller presents an incorrect current credential THEN the change is rejected
\* and the existing credential remains unchanged" (credential-rotation/spec.md:16-18),
\* although the guard and the controller look at the file at different times: the whole
\* is a compare-and-swap register of which the portal believes only what it was told.
ImplementsRegister == Register!Promise

=============================================================================
