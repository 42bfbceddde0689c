------------------------- MODULE CredentialRegister -------------------------
(* What credential rotation promises: each backend has one credential, which *)
(* changes by compare-and-swap only, and an account believes in a new        *)
(* credential only after its own swap was done.                              *)

CONSTANTS Account, Backend, Credential, Caller, None, Torn

VARIABLES
  credential, \* the credential of each backend, or Torn once it is damaged
  belief,     \* what each account was told last, None if nothing; or Torn
  call        \* the swap each caller is asking for, or None

abstract == <<credential, belief, call>>

Call == [account: Account, backend: Backend, old: Credential, new: Credential, done: BOOLEAN]

Ask(c) ==
  /\ call[c] = None
  /\ call'[c] \in Call /\ ~call'[c].done
  /\ \A other \in Caller \ {c} : call'[other] = call[other]
  /\ UNCHANGED <<credential, belief>>

Swap(c) ==
  /\ call[c] # None /\ ~call[c].done
  /\ credential[call[c].backend] = call[c].old
  /\ credential' = [credential EXCEPT ![call[c].backend] = call[c].new]
  /\ call' \in {[call EXCEPT ![c].done = TRUE], [call EXCEPT ![c] = None]}
  /\ UNCHANGED belief

Tell(c) ==
  /\ call[c] # None /\ call[c].done /\ belief # Torn
  /\ belief' = [belief EXCEPT ![call[c].account] = call[c].new]
  /\ call' = [call EXCEPT ![c] = None]
  /\ UNCHANGED credential

\* A process stops, a call is refused or an answer lost: calls end without news, and
\* what was being written is damaged.
Drop ==
  /\ \A c \in Caller : call'[c] \in {call[c], None}
  /\ belief' \in {belief, Torn}
  /\ \A b \in Backend : credential'[b] \in {credential[b], Torn}

Step ==
  \/ \E c \in Caller : Ask(c) \/ Swap(c) \/ Tell(c)
  \/ Drop

Start ==
  /\ credential \in [Backend -> Credential]
  /\ belief = [a \in Account |-> None]
  /\ call = [c \in Caller |-> None]

Promise == Start /\ [][Step]_abstract
=============================================================================
