--------------------------- MODULE NetworkProofs ---------------------------
(***************************************************************************)
(* Theorems about network.sh, for any organizations, any number of nodes   *)
(* of each, and any sequence of commands and failures.                     *)
(***************************************************************************)
EXTENDS NetworkLifecycle, TLAPS

Crypto == [Owner -> Generation \cup {None}]

Todo == (SUBSET Owner) \cup (SUBSET Node)

Script ==
  [name: {"none", "up", "wipe"}, stage: 0..10,
   todo: Todo, at: Owner \cup {None}]

\* The steps, told by what the script does next.
LEMMA Scripts ==
  /\ Idle \in Script /\ Idle.name = "none" /\ Idle.stage = 0 /\ Idle.todo = {} /\ Idle.at = None
  /\ \A s \in 0..10 : Turns(s) \in Todo
  /\ Turns(3) = Owner /\ Turns(8) = OrdererNode /\ Turns(9) = Peer
  /\ \A s \in (0..10) \ {3, 8, 9} : Turns(s) = {}
  /\ OrdererNode \subseteq Node /\ Peer \subseteq Node
  /\ \A n \in Node : n \in OrdererNode \/ n \in Peer
<1>1. Idle \in Script /\ Idle.name = "none" /\ Idle.stage = 0 /\ Idle.todo = {} /\ Idle.at = None
  BY DEF Idle, Script, Todo
<1>2. OrdererNode \subseteq Node /\ Peer \subseteq Node
  BY DEF OrdererNode, Peer
<1>3. Turns(3) = Owner /\ Turns(8) = OrdererNode /\ Turns(9) = Peer
  BY DEF Turns
<1>4. \A s \in (0..10) \ {3, 8, 9} : Turns(s) = {}
  BY DEF Turns
<1>5. \A n \in Node : n \in OrdererNode \/ n \in Peer
  BY DEF Peer
<1>6. ASSUME NEW s \in 0..10
      PROVE  Turns(s) \in Todo
  <2>1. CASE s \in {3, 8, 9}
    <3>1. Turns(s) = Owner \/ Turns(s) = OrdererNode \/ Turns(s) = Peer
      BY <1>3, <2>1
    <3>2. {Owner, OrdererNode, Peer} \subseteq Todo
      BY <1>2 DEF Todo
    <3> QED
      BY <3>1, <3>2
  <2>2. CASE s \notin {3, 8, 9}
    BY <1>4, <2>2 DEF Todo
  <2> QED
    BY <2>1, <2>2
<1> QED
  BY <1>1, <1>2, <1>3, <1>4, <1>5, <1>6

LEMMA GenerationStays ==
  ASSUME generation \in Generation
  PROVE  (generation + 1) % Generations \in Generation
BY LifecycleConstants DEF Generation

LEMMA Advances ==
  ASSUME script \in Script, script.name = "up", script.stage \in 1..9, Advance
  PROVE  /\ script.todo = {} /\ script.at = None
         /\ script' \in Script /\ script'.name = "up" /\ script'.stage = script.stage + 1
         /\ script'.todo = Turns(script.stage + 1) /\ script'.at = None
<1>1. PICK turns : turns = Turns(script.stage + 1)
  OBVIOUS
<1>2. turns \in Todo
  BY <1>1, Scripts
<1>3. script' = [script EXCEPT !.stage = script.stage + 1, !.todo = turns]
  BY <1>1 DEF Advance, Script
<1>4. script.stage + 1 \in 0..10
  OBVIOUS
<1>5. script' \in Script
  BY <1>2, <1>3, <1>4 DEF Script
<1>6. /\ script'.name = "up" /\ script'.stage = script.stage + 1
      /\ script'.todo = turns /\ script'.at = script.at
  BY <1>3 DEF Script
<1> QED
  BY <1>1, <1>5, <1>6 DEF Advance

-----------------------------------------------------------------------------
(* Types *)

\* TypeOK with names for its sets.
LEMMA TypesNamed ==
  /\ TypeOK <=> /\ registered \subseteq Owner /\ enrolled \in Crypto
                /\ genesis \in Crypto \cup {None} /\ running \in BOOLEAN
                /\ ledger \in [Node -> Crypto \cup {None}]
                /\ script \in Script /\ outcome \in Outcome
                /\ generation \in Generation /\ failures \in 0..MaxFailures
  /\ TypeOK' <=> /\ registered' \subseteq Owner /\ enrolled' \in Crypto
                 /\ genesis' \in Crypto \cup {None} /\ running' \in BOOLEAN
                 /\ ledger' \in [Node -> Crypto \cup {None}]
                 /\ script' \in Script /\ outcome' \in Outcome
                 /\ generation' \in Generation /\ failures' \in 0..MaxFailures
BY DEF TypeOK, Crypto, Script, Todo

LEMMA Stops ==
  ASSUME NEW o \in Outcome, Stop(o)
  PROVE  script' = Idle /\ script' \in Script /\ outcome' = o /\ outcome' \in Outcome
BY Scripts DEF Stop

LEMMA Advices ==
  \A s : Advice(s) \in {"wipe", "rerun"} /\ Advice(s) \in Outcome
BY DEF Advice, Outcome

\* The script and the outcome after a turn of a loop.
LEMMA Turned ==
  ASSUME script \in Script, NEW x
  PROVE  /\ [script EXCEPT !.todo = @ \ {x}] \in Script
         /\ \A o \in Owner \cup {None} : [script EXCEPT !.at = o] \in Script
         /\ \A o \in Owner \cup {None} : [script EXCEPT !.at = o, !.todo = @ \ {x}] \in Script
         /\ [script EXCEPT !.stage = 2] \in Script /\ [script EXCEPT !.stage = 3] \in Script
<1>1. script.todo \ {x} \in Todo
  <2>1. script.todo \in Todo
    BY DEF Script
  <2> QED
    BY <2>1 DEF Todo
<1>2. [script EXCEPT !.todo = @ \ {x}] \in Script
  BY <1>1 DEF Script
<1>3. \A o \in Owner \cup {None} : [script EXCEPT !.at = o] \in Script
  BY DEF Script
<1>4. ASSUME NEW o \in Owner \cup {None}
      PROVE  [script EXCEPT !.at = o, !.todo = @ \ {x}] \in Script
  BY <1>1 DEF Script
<1>5. [script EXCEPT !.stage = 2] \in Script /\ [script EXCEPT !.stage = 3] \in Script
  BY DEF Script
<1> QED
  BY <1>2, <1>3, <1>4, <1>5

LEMMA Starts ==
  ASSUME NEW name \in {"up", "wipe"}, NEW r \in Script
  PROVE  /\ [r EXCEPT !.name = name, !.stage = 1] \in Script
         /\ [r EXCEPT !.name = name, !.stage = 1].name = name
         /\ [r EXCEPT !.name = name, !.stage = 1].stage = 1
         /\ [r EXCEPT !.name = name, !.stage = 1].todo = r.todo
         /\ [r EXCEPT !.name = name, !.stage = 1].at = r.at
<1>1. PICK s : s = [r EXCEPT !.name = name, !.stage = 1]
  OBVIOUS
<1>2. s \in Script /\ s.name = name /\ s.stage = 1 /\ s.todo = r.todo /\ s.at = r.at
  <2>1. /\ r = [name |-> r.name, stage |-> r.stage, todo |-> r.todo, at |-> r.at]
        /\ r.todo \in Todo /\ r.at \in Owner \cup {None}
    BY DEF Script
  <2>2. s = [name |-> name, stage |-> 1, todo |-> r.todo, at |-> r.at]
    BY <1>1, <2>1
  <2>3. name \in {"none", "up", "wipe"} /\ 1 \in 0..10
    OBVIOUS
  <2> QED
    BY <2>1, <2>2, <2>3 DEF Script
<1> QED
  BY <1>1, <1>2

\* Whatever the operator types and whatever fails, the network's files, ledgers and
\* the script's position keep their types.
THEOREM TypeCorrect == Spec => []TypeOK
<1>1. Init => TypeOK
  <2> SUFFICES ASSUME Init PROVE TypeOK
    OBVIOUS
  <2>1. enrolled \in Crypto /\ generation \in Generation /\ failures \in 0..MaxFailures
    BY LifecycleConstants DEF Init, Crypto, Generation
  <2>2. ledger \in [Node -> Crypto \cup {None}] /\ script \in Script /\ outcome \in Outcome
    BY Scripts DEF Init, Outcome
  <2> QED
    BY <2>1, <2>2, TypesNamed DEF Init
<1>2. ASSUME TypeOK, [Next]_vars
      PROVE  TypeOK'
  <2>1. /\ registered \subseteq Owner /\ enrolled \in Crypto
        /\ genesis \in Crypto \cup {None} /\ running \in BOOLEAN
        /\ ledger \in [Node -> Crypto \cup {None}]
        /\ script \in Script /\ outcome \in Outcome
        /\ generation \in Generation /\ failures \in 0..MaxFailures
    BY <1>2, TypesNamed
  <2>2. ASSUME NEW s \in 1..9, At(s), Advance
        PROVE  script' \in Script
    BY <2>1, <2>2, Advances DEF At
  <2>3. ASSUME NEW name \in {"up", "wipe"}, script' = [Idle EXCEPT !.name = name, !.stage = 1]
        PROVE  script' \in Script
    BY <2>3, Scripts, Starts
  <2>4. {"up", "down", "wiping", "wiped", "silent", "wipe"} \subseteq Outcome
    BY DEF Outcome
  <2>5. CASE StartUp
    BY <2>1, <2>3, <2>5, TypesNamed DEF StartUp, crypto, channel, bounds
  <2>6. CASE Proceed
    BY <2>1, <2>2, <2>6, TypesNamed DEF Proceed, crypto, channel, bounds
  <2>7. CASE BuildGenesis
    BY <2>1, <2>2, <2>7, TypesNamed DEF BuildGenesis, crypto, bounds
  <2>8. CASE StartNodes
    BY <2>1, <2>2, <2>8, TypesNamed DEF StartNodes, crypto, bounds
  <2>9. CASE VerifyMembership
    BY <2>1, <2>4, <2>9, Stops, Advices, TypesNamed DEF VerifyMembership, crypto, channel, bounds
  <2>10. ASSUME NEW o \in Owner, Register(o)
         PROVE  TypeOK'
    <3>1. script' \in Script /\ outcome' \in Outcome
      BY <2>1, <2>10, Stops, Advices, Turned DEF Register
    <3>2. registered' \subseteq Owner
      BY <2>1, <2>10 DEF Register
    <3> QED
      BY <2>1, <2>10, <3>1, <3>2, TypesNamed DEF Register, channel, bounds
  <2>11. ASSUME NEW o \in Owner, Enroll(o)
         PROVE  TypeOK'
    <3>1. script' \in Script
      BY <2>1, <2>11, Turned DEF Enroll
    <3>2. enrolled' \in Crypto
      BY <2>1, <2>11 DEF Enroll, Crypto
    <3> QED
      BY <2>1, <2>11, <3>1, <3>2, TypesNamed DEF Enroll, channel, bounds
  <2>12. ASSUME NEW n \in Node, Join(n)
         PROVE  TypeOK'
    <3>1. script' \in Script /\ outcome' \in Outcome
      BY <2>1, <2>4, <2>12, Stops, Advices, Turned DEF Join
    <3>2. ledger' \in [Node -> Crypto \cup {None}]
      BY <2>1, <2>12 DEF Join
    <3> QED
      BY <2>1, <2>12, <3>1, <3>2, TypesNamed DEF Join, crypto, bounds
  <2>13. CASE Down
    BY <2>1, <2>4, <2>13, TypesNamed DEF Down, crypto, bounds
  <2>14. CASE StartWipe
    BY <2>1, <2>3, <2>4, <2>14, TypesNamed DEF StartWipe, crypto, channel, bounds
  <2>15. CASE RemoveContainers
    <3>1. script' \in Script
      BY <2>1, <2>15, Turned DEF RemoveContainers
    <3>2. ledger' \in [Node -> Crypto \cup {None}]
      BY <2>15 DEF RemoveContainers
    <3> QED
      BY <2>1, <2>15, <3>1, <3>2, TypesNamed DEF RemoveContainers, crypto, bounds
  <2>16. CASE RemoveCrypto
    <3>1. enrolled' \in Crypto
      BY <2>16 DEF RemoveCrypto, Crypto
    <3>2. script' \in Script
      BY <2>1, <2>16, Turned DEF RemoveCrypto
    <3>3. generation' \in Generation
      BY <2>1, <2>16, GenerationStays DEF RemoveCrypto
    <3> QED
      BY <2>1, <2>16, <3>1, <3>2, <3>3, TypesNamed DEF RemoveCrypto, channel
  <2>17. CASE RemoveArtifacts
    BY <2>1, <2>4, <2>17, Stops, TypesNamed DEF RemoveArtifacts, crypto, bounds
  <2>18. CASE Fail
    <3>1. script' \in Script /\ outcome' \in Outcome
      BY <2>4, <2>18, Stops, Advices DEF Fail
    <3>2. failures' \in 0..MaxFailures
      BY <2>1, <2>18, LifecycleConstants DEF Fail
    <3> QED
      BY <2>1, <2>18, <3>1, <3>2, TypesNamed DEF Fail, crypto, channel
  <2>19. CASE UNCHANGED vars
    BY <2>1, <2>19, TypesNamed DEF vars, crypto, channel, bounds
  <2> QED
    BY <1>2, <2>5, <2>6, <2>7, <2>8, <2>9, <2>10, <2>11, <2>12, <2>13, <2>14, <2>15,
       <2>16, <2>17, <2>18, <2>19
    DEF Next, UpStep, WipeStep
<1> QED
  BY <1>1, <1>2, PTL DEF Spec
-----------------------------------------------------------------------------
(* Where the script is after a step *)

NoLedgers == \A n \in Node : ledger[n] = None

LEMMA StartFields ==
  ASSUME script = Idle, NEW name \in {"up", "wipe"},
         script' = [Idle EXCEPT !.name = name, !.stage = 1]
  PROVE  script'.name = name /\ script'.stage = 1 /\ script'.todo = {} /\ script'.at = None
BY Scripts, Starts

LEMMA AdvanceFields ==
  ASSUME TypeOK, NEW s \in 1..9, At(s), Advance
  PROVE  /\ script.name = "up" /\ script.stage = s /\ script.todo = {} /\ script.at = None
         /\ script'.name = "up" /\ script'.stage = s + 1
         /\ script'.todo = Turns(s + 1) /\ script'.at = None
BY Advances, TypesNamed DEF At

LEMMA RegisterFields ==
  ASSUME TypeOK, NEW o \in Owner, Register(o), o \notin registered
  PROVE  /\ script'.name = "up" /\ script'.stage = 3
         /\ script'.todo = script.todo /\ script'.at = o
BY TypesNamed DEF Register, At, Script

LEMMA EnrollFields ==
  ASSUME TypeOK, NEW o \in Owner, Enroll(o)
  PROVE  /\ script'.name = "up" /\ script'.stage = 3
         /\ script'.todo = script.todo \ {o} /\ script'.at = None
BY TypesNamed DEF Enroll, At, Script

LEMMA JoinFields ==
  ASSUME TypeOK, NEW n \in Node, Join(n), ledger[n] = None
  PROVE  /\ script'.name = "up" /\ script'.stage = script.stage
         /\ script'.todo = script.todo \ {n} /\ script'.at = script.at
         /\ ledger'[n] = genesis /\ \A m \in Node \ {n} : ledger'[m] = ledger[m]
BY TypesNamed DEF Join, At, Script

LEMMA WipeFields ==
  ASSUME TypeOK, NEW s \in {2, 3}, script.name = "wipe", script' = [script EXCEPT !.stage = s]
  PROVE  /\ script'.name = "wipe" /\ script'.stage = s
         /\ script'.todo = script.todo /\ script'.at = script.at
BY TypesNamed DEF Script

-----------------------------------------------------------------------------
(* The nodes trust the crypto material *)

\* The crypto material and the channel's ledgers are replaced by different steps of
\* up and wipe.  In between: ledgers only exist once every owner is registered, so
\* that stage 3 stops before it enrolls an owner anew; a genesis block is joined only
\* in the stages after the one that built it; a wipe removes the ledgers first.
Trusting ==
  /\ NodesTrustCrypto
  /\ NoLedgers \/ registered = Owner
  /\ script.at # None => At(3) /\ NoLedgers /\ script.at \in registered
  /\ At(3) => Owner \subseteq registered \cup script.todo
  /\ script.name = "up" /\ script.stage > 3 => registered = Owner
  /\ script.name = "up" /\ script.stage > 5 => genesis = enrolled
  /\ Wiping(2) \/ Wiping(3) => NoLedgers

LEMMA StepTrusts ==
  ASSUME TypeOK, Trusting, [Next]_vars
  PROVE  Trusting'
<1>1. /\ script.stage \in 0..10 /\ registered \subseteq Owner /\ None \notin Owner
      /\ Idle.name = "none" /\ Idle.at = None /\ Turns(3) = Owner
  BY Scripts, TypesNamed, LifecycleConstants DEF Script
<1> DEFINE Rest == UNCHANGED <<registered, enrolled, genesis, ledger>>
<1>2. ASSUME Rest, script' = Idle
      PROVE  Trusting'
  BY <1>1, <1>2 DEF Trusting, NodesTrustCrypto, NoLedgers, At, Wiping
<1>3. CASE StartUp \/ StartWipe
  <2>1. Rest
    BY <1>3 DEF StartUp, StartWipe, crypto, channel
  <2>2. script'.name \in {"up", "wipe"} /\ script'.stage = 1 /\ script'.at = None
    BY <1>3, StartFields DEF StartUp, StartWipe
  <2> QED
    BY <2>1, <2>2 DEF Trusting, NodesTrustCrypto, NoLedgers, At, Wiping
<1>4. CASE Proceed
  <2>1. Rest
    BY <1>4 DEF Proceed, crypto, channel
  <2>2. PICK s \in {1, 2, 3, 4, 7, 8, 9} : At(s) /\ Advance
    BY <1>4 DEF Proceed
  <2>3. /\ script.name = "up" /\ script.stage = s /\ script.todo = {} /\ script.at = None
        /\ script'.name = "up" /\ script'.stage = s + 1
        /\ script'.todo = Turns(s + 1) /\ script'.at = None
    BY <2>2, AdvanceFields
  <2>4. s + 1 # 6
    BY <2>2
  <2> QED
    BY <1>1, <2>1, <2>3, <2>4 DEF Trusting, NodesTrustCrypto, NoLedgers, At, Wiping
<1>5. ASSUME NEW o \in Owner, Register(o)
      PROVE  Trusting'
  <2>1. CASE o \in registered
    BY <1>2, <1>5, <2>1 DEF Register, Stop, channel
  <2>2. CASE o \notin registered
    <3>1. /\ script.name = "up" /\ script.stage = 3 /\ script.at = None
          /\ registered' = registered \cup {o} /\ UNCHANGED <<enrolled, genesis, ledger>>
      BY <1>5, <2>2 DEF Register, At, channel
    <3>2. NoLedgers
      BY <1>5, <2>2 DEF Trusting
    <3> QED
      BY <1>5, <2>2, <3>1, <3>2, RegisterFields
      DEF Trusting, NodesTrustCrypto, NoLedgers, At, Wiping
  <2> QED
    BY <2>1, <2>2
<1>6. ASSUME NEW o \in Owner, Enroll(o)
      PROVE  Trusting'
  <2>1. /\ script.at = o /\ script.name = "up" /\ script.stage = 3
        /\ UNCHANGED <<registered, genesis, ledger>>
    BY <1>6 DEF Enroll, At, channel
  <2>2. NoLedgers /\ o \in registered
    BY <1>1, <2>1 DEF Trusting
  <2> QED
    BY <1>6, <2>1, <2>2, EnrollFields DEF Trusting, NodesTrustCrypto, NoLedgers, At, Wiping
<1>7. CASE BuildGenesis
  <2>1. /\ script.name = "up" /\ script'.name = "up" /\ script.stage = 5 /\ script'.stage = 6
        /\ script'.at = None
    BY <1>7, AdvanceFields DEF BuildGenesis
  <2>2. genesis' = enrolled /\ UNCHANGED <<registered, enrolled, ledger>>
    BY <1>7 DEF BuildGenesis, crypto
  <2> QED
    BY <2>1, <2>2 DEF Trusting, NodesTrustCrypto, NoLedgers, At, Wiping
<1>8. CASE StartNodes
  <2>1. /\ script.name = "up" /\ script'.name = "up" /\ script.stage = 6 /\ script'.stage = 7
        /\ script'.at = None
    BY <1>8, AdvanceFields DEF StartNodes
  <2>2. Rest
    BY <1>8 DEF StartNodes, crypto
  <2> QED
    BY <2>1, <2>2 DEF Trusting, NodesTrustCrypto, NoLedgers, At, Wiping
<1>9. ASSUME NEW n \in Node, Join(n)
      PROVE  Trusting'
  <2>1. CASE ledger[n] # None
    BY <1>2, <1>9, <2>1 DEF Join, Stop, crypto
  <2>2. CASE ledger[n] = None
    <3>1. /\ script.name = "up" /\ script.stage \in {8, 9}
          /\ UNCHANGED <<registered, enrolled, genesis>>
      BY <1>9 DEF Join, At, crypto
    <3>2. genesis = enrolled /\ registered = Owner /\ script.at = None
      BY <3>1 DEF Trusting, At
    <3> QED
      BY <1>9, <2>2, <3>1, <3>2, JoinFields
      DEF Trusting, NodesTrustCrypto, NoLedgers, At, Wiping
  <2> QED
    BY <2>1, <2>2
<1>10. CASE VerifyMembership
  BY <1>2, <1>10 DEF VerifyMembership, Stop, crypto, channel
<1>11. CASE Down
  <2>1. UNCHANGED <<registered, enrolled, genesis, script>> /\ ledger' = [n \in Node |-> None]
    BY <1>11 DEF Down, crypto
  <2> QED
    BY <2>1 DEF Trusting, NodesTrustCrypto, NoLedgers, At, Wiping
<1>12. CASE RemoveContainers
  <2>1. /\ UNCHANGED <<registered, enrolled, genesis>> /\ ledger' = [n \in Node |-> None]
        /\ script.name = "wipe" /\ script'.name = "wipe" /\ script'.stage = 2
        /\ script'.at = script.at
    BY <1>12, WipeFields DEF RemoveContainers, Wiping, crypto
  <2> QED
    BY <2>1 DEF Trusting, NodesTrustCrypto, NoLedgers, At, Wiping
<1>13. CASE RemoveCrypto
  <2>1. /\ UNCHANGED <<genesis, ledger>> /\ NoLedgers
        /\ script.name = "wipe" /\ script'.name = "wipe" /\ script'.stage = 3
        /\ script'.at = script.at
    BY <1>13, WipeFields DEF RemoveCrypto, Wiping, channel, Trusting
  <2> QED
    BY <2>1 DEF Trusting, NodesTrustCrypto, NoLedgers, At, Wiping
<1>14. CASE RemoveArtifacts
  <2>1. /\ script' = Idle /\ NoLedgers /\ UNCHANGED <<registered, enrolled, ledger>>
    BY <1>14 DEF RemoveArtifacts, Stop, Trusting, crypto
  <2> QED
    BY <1>1, <2>1 DEF Trusting, NodesTrustCrypto, NoLedgers, At, Wiping
<1>15. CASE Fail
  BY <1>2, <1>15 DEF Fail, Stop, crypto, channel
<1>16. CASE UNCHANGED vars
  BY <1>16 DEF vars, crypto, channel, Trusting, NodesTrustCrypto, NoLedgers, At, Wiping
<1> QED
  BY <1>3, <1>4, <1>5, <1>6, <1>7, <1>8, <1>9, <1>10, <1>11, <1>12, <1>13, <1>14, <1>15, <1>16
  DEF Next, UpStep, WipeStep

LEMMA AlwaysTrusting == Spec => []Trusting
<1>1. Init => Trusting
  BY Scripts DEF Init, Trusting, NodesTrustCrypto, NoLedgers, At, Wiping
<1> QED
  BY <1>1, StepTrusts, TypeCorrect, PTL DEF Spec

\* No step of up, down or wipe, nor a failure between two of them, leaves a node on a
\* channel whose genesis block trusts other CAs than those of the present crypto
\* material (NodesTrustCrypto).
THEOREM MatchingTrust == Spec => []NodesTrustCrypto
<1>1. Trusting => NodesTrustCrypto
  BY DEF Trusting
<1> QED
  BY <1>1, AlwaysTrusting, PTL

-----------------------------------------------------------------------------
(* Up is complete *)

\* Of the nodes, those that still have to join.
ToJoin(n) == n \in script.todo \/ (script.stage = 8 /\ n \in Peer)

\* From stage 8 on, a node whose turn is over has joined with the present block; the
\* stages leave no block out.
Complete ==
  /\ script.name = "up" /\ script.stage > 5 => genesis # None
  /\ script.name = "up" /\ script.stage >= 8 =>
       \A n \in Node : ToJoin(n) \/ ledger[n] = genesis
  /\ script.name = "up" /\ script.stage = 10 => script.todo = {}
  /\ UpIsComplete

LEMMA StepCompletes ==
  ASSUME TypeOK, Complete, [Next]_vars
  PROVE  Complete'
<1>1. /\ script \in Script /\ script.stage \in 0..10 /\ Idle.name = "none"
      /\ Turns(8) = OrdererNode /\ Turns(9) = Peer /\ Turns(10) = {}
      /\ \A n \in Node : n \in OrdererNode \/ n \in Peer
      /\ enrolled \in Crypto /\ None \notin Crypto
  BY Scripts, TypesNamed, LifecycleConstants DEF Script, Crypto, Generation
<1>2. ASSUME script' = Idle, outcome' # "up"
      PROVE  Complete'
  BY <1>1, <1>2 DEF Complete, UpIsComplete
<1>3. \A s : Advice(s) # "up"
  BY Advices
<1>4. ASSUME script'.name # "none", script'.name = "up" => script'.stage \in 0..5
      PROVE  Complete'
  BY <1>1, <1>4 DEF Complete, UpIsComplete
<1>5. CASE StartUp \/ StartWipe
  BY <1>4, <1>5, StartFields DEF StartUp, StartWipe
<1>6. ASSUME NEW s \in (1..9) \ {5}, At(s), Advance, UNCHANGED <<genesis, ledger>>
      PROVE  Complete'
  <2>1. /\ script.name = "up" /\ script.stage = s /\ script.todo = {}
        /\ script'.name = "up" /\ script'.stage = s + 1 /\ script'.todo = Turns(s + 1)
    BY <1>6, AdvanceFields
  <2>2. CASE s < 5
    BY <1>4, <2>1, <2>2
  <2>4. CASE s \in {6, 7}
    <3>1. s + 1 > 5 /\ s > 5
      BY <2>4
    <3>2. genesis' # None
      BY <1>6, <2>1, <3>1 DEF Complete
    <3>3. s + 1 >= 8 => \A n \in Node : ToJoin(n)'
      BY <1>1, <2>1, <2>4 DEF ToJoin
    <3> QED
      BY <1>1, <2>1, <3>2, <3>3 DEF Complete, UpIsComplete
  <2>5. CASE s \in {8, 9}
    <3>1. genesis' # None
      BY <1>6, <2>1, <2>5 DEF Complete
    <3>2. \A n \in Node : ToJoin(n)' \/ ledger[n] = genesis
      <4>1. \A n \in Node : (s = 8 /\ n \in Peer) \/ ledger[n] = genesis
        BY <2>1, <2>5 DEF Complete, ToJoin
      <4> QED
        BY <1>1, <2>1, <2>5, <4>1 DEF ToJoin
    <3> QED
      BY <1>1, <1>6, <2>1, <3>1, <3>2 DEF Complete, UpIsComplete
  <2> QED
    BY <2>2, <2>4, <2>5
<1>7. CASE Proceed
  BY <1>6, <1>7 DEF Proceed, channel
<1>8. CASE StartNodes
  BY <1>6, <1>8 DEF StartNodes
<1>9. ASSUME NEW o \in Owner, Register(o)
      PROVE  Complete'
  <2>1. CASE o \in registered
    BY <1>2, <1>3, <1>9, <2>1 DEF Register, Stop
  <2>2. CASE o \notin registered
    BY <1>4, <1>9, <2>2, RegisterFields
  <2> QED
    BY <2>1, <2>2
<1>10. ASSUME NEW o \in Owner, Enroll(o)
       PROVE  Complete'
  BY <1>4, <1>10, EnrollFields
<1>11. CASE BuildGenesis
  <2>1. script'.name = "up" /\ script'.stage = 6
    BY <1>11, AdvanceFields DEF BuildGenesis
  <2>2. genesis' # None
    BY <1>1, <1>11 DEF BuildGenesis
  <2> QED
    BY <1>1, <2>1, <2>2 DEF Complete, UpIsComplete
<1>12. ASSUME NEW n \in Node, Join(n)
       PROVE  Complete'
  <2>1. CASE ledger[n] # None
    BY <1>2, <1>3, <1>12, <2>1 DEF Join, Stop
  <2>2. CASE ledger[n] = None
    <3>1. script.name = "up" /\ script.stage \in {8, 9} /\ UNCHANGED genesis
      BY <1>12 DEF Join, At
    <3>2. /\ script'.name = "up" /\ script'.stage = script.stage
          /\ script'.todo = script.todo \ {n}
          /\ ledger'[n] = genesis /\ \A m \in Node \ {n} : ledger'[m] = ledger[m]
      BY <1>12, <2>2, JoinFields
    <3>3. \A m \in Node : ToJoin(m)' \/ ledger'[m] = genesis
      BY <3>1, <3>2 DEF Complete, ToJoin
    <3> QED
      BY <1>1, <3>1, <3>2, <3>3 DEF Complete, UpIsComplete
  <2> QED
    BY <2>1, <2>2
<1>13. CASE VerifyMembership
  <2>1. /\ script.name = "up" /\ script.stage = 10 /\ script' = Idle
        /\ UNCHANGED <<genesis, ledger, running>>
    BY <1>13 DEF VerifyMembership, At, Stop, channel
  <2>2. CASE running /\ \A n \in Peer : ledger[n] # None
    <3>1. genesis # None /\ \A n \in Node : n \in script.todo \/ ledger[n] = genesis
      BY <2>1 DEF Complete, ToJoin
    <3>2. script.todo = {}
      BY <2>1 DEF Complete
    <3> QED
      BY <1>1, <2>1, <2>2, <3>1, <3>2 DEF Complete, UpIsComplete
  <2>3. CASE ~(running /\ \A n \in Peer : ledger[n] # None)
    BY <1>2, <1>3, <1>13, <2>3 DEF VerifyMembership, Stop
  <2> QED
    BY <2>2, <2>3
<1>14. CASE Down
  <2>1. script = Idle /\ UNCHANGED script /\ outcome' = "down"
    BY <1>14 DEF Down
  <2> QED
    BY <1>2, <2>1
<1>15. CASE RemoveContainers
  BY <1>4, <1>15, WipeFields DEF RemoveContainers, Wiping
<1>16. CASE RemoveCrypto
  BY <1>4, <1>16, WipeFields DEF RemoveCrypto, Wiping
<1>17. CASE RemoveArtifacts
  BY <1>2, <1>17 DEF RemoveArtifacts, Stop
<1>18. CASE Fail
  BY <1>2, <1>3, <1>18 DEF Fail, Stop
<1>19. CASE UNCHANGED vars
  BY <1>19 DEF vars, channel, Complete, UpIsComplete, ToJoin
<1> QED
  BY <1>5, <1>7, <1>8, <1>9, <1>10, <1>11, <1>12, <1>13, <1>14, <1>15, <1>16, <1>17, <1>18, <1>19
  DEF Next, UpStep, WipeStep

LEMMA AlwaysComplete == Spec => []Complete
<1>1. Init => Complete
  BY Scripts DEF Init, Complete, UpIsComplete
<1> QED
  BY <1>1, StepCompletes, TypeCorrect, PTL DEF Spec

\* When up says that the network is up, every orderer and every peer has joined with
\* the present genesis block (UpIsComplete), although the last stage looks at peers only.
THEOREM CompleteUp == Spec => []UpIsComplete
<1>1. Complete => UpIsComplete
  BY DEF Complete
<1> QED
  BY <1>1, AlwaysComplete, PTL

-----------------------------------------------------------------------------
(* A wipe makes room *)

\* After a wipe there are no identities and no ledgers, and up creates each of them
\* once: at stage 3 for the owners left, at stages 8 and 9 for the nodes left.  While a
\* wipe is under way its outcome is "wiping", and its stages leave nothing behind.
Roomy ==
  /\ script.name = "wipe" => outcome = "wiping"
  /\ Wiping(2) \/ Wiping(3) => NoLedgers
  /\ Wiping(3) => registered = {}
  /\ At(8) => script.todo \subseteq OrdererNode
  /\ At(9) => script.todo \subseteq Peer
  /\ outcome = "wiped" =>
       /\ script = Idle => registered = {} /\ NoLedgers
       /\ script.name = "up" /\ script.stage < 3 => registered = {}
       /\ At(3) => \A o \in registered \cap script.todo : o = script.at
       /\ script.name = "up" /\ script.stage < 8 => NoLedgers
       /\ At(8) => \A n \in script.todo \cup Peer : ledger[n] = None
       /\ At(9) => \A n \in script.todo : ledger[n] = None

LEMMA StepMakesRoom ==
  ASSUME TypeOK, Roomy, [Next]_vars
  PROVE  Roomy'
<1>1. /\ script \in Script /\ script.stage \in 0..10 /\ Idle.name = "none"
      /\ Turns(3) = Owner /\ Turns(8) = OrdererNode /\ Turns(9) = Peer
      /\ OrdererNode \subseteq Node /\ Peer \subseteq Node
  BY Scripts, TypesNamed DEF Script
<1>2. ASSUME script' = Idle, outcome' # "wiped"
      PROVE  Roomy'
  BY <1>1, <1>2 DEF Roomy, Wiping, At
<1>3. \A s : Advice(s) # "wiped"
  BY Advices
<1>4. CASE StartUp
  <2>1. /\ script = Idle /\ UNCHANGED <<registered, ledger, outcome>>
        /\ script'.name = "up" /\ script'.stage = 1
    BY <1>4, StartFields DEF StartUp, crypto, channel
  <2> QED
    BY <1>1, <2>1 DEF Roomy, Wiping, At, NoLedgers
<1>5. CASE StartWipe
  <2>1. script'.name = "wipe" /\ script'.stage = 1 /\ outcome' = "wiping"
    BY <1>5, StartFields DEF StartWipe
  <2> QED
    BY <2>1 DEF Roomy, Wiping, At
<1>6. ASSUME NEW s \in 1..9, At(s), Advance, UNCHANGED <<registered, ledger, outcome>>
      PROVE  Roomy'
  <2>1. /\ script.name = "up" /\ script.stage = s /\ script.todo = {}
        /\ script'.name = "up" /\ script'.stage = s + 1 /\ script'.todo = Turns(s + 1)
    BY <1>6, AdvanceFields
  <2>2. CASE outcome # "wiped"
    BY <1>1, <1>6, <2>1, <2>2 DEF Roomy, Wiping, At
  <2>3. CASE outcome = "wiped"
    <3>1. script' # Idle /\ ~Wiping(2)' /\ ~Wiping(3)'
      BY <1>1, <2>1 DEF Wiping
    <3>2. s < 3 => registered = {}
      BY <2>1, <2>3 DEF Roomy
    <3>3. s < 8 => NoLedgers
      BY <2>1, <2>3 DEF Roomy
    <3>4. s = 8 => \A n \in Peer : ledger[n] = None
      BY <1>1, <2>1, <2>3 DEF Roomy, At
    <3>5. s = 7 => \A n \in Node : ledger[n] = None
      BY <3>3 DEF NoLedgers
    <3> QED
      BY <1>1, <1>6, <2>1, <2>3, <3>1, <3>2, <3>3, <3>4, <3>5 DEF Roomy, At, NoLedgers
  <2> QED
    BY <2>2, <2>3
<1>7. CASE Proceed
  BY <1>6, <1>7 DEF Proceed, crypto, channel
<1>8. CASE StartNodes
  BY <1>6, <1>8 DEF StartNodes, crypto
<1>9. CASE BuildGenesis
  BY <1>6, <1>9 DEF BuildGenesis, crypto
<1>10. ASSUME NEW o \in Owner, Register(o)
       PROVE  Roomy'
  <2>1. CASE o \in registered
    BY <1>2, <1>3, <1>10, <2>1 DEF Register, Stop
  <2>2. CASE o \notin registered
    <3>1. /\ script.name = "up" /\ script.stage = 3 /\ script.at = None
          /\ registered' = registered \cup {o} /\ UNCHANGED <<ledger, outcome>>
      BY <1>10, <2>2 DEF Register, At, channel
    <3>2. /\ script'.name = "up" /\ script'.stage = 3
          /\ script'.todo = script.todo /\ script'.at = o
      BY <1>10, <2>2, RegisterFields
    <3>3. None \notin registered
      BY TypesNamed, LifecycleConstants
    <3> QED
      BY <1>1, <3>1, <3>2, <3>3 DEF Roomy, Wiping, At, NoLedgers
  <2> QED
    BY <2>1, <2>2
<1>11. ASSUME NEW o \in Owner, Enroll(o)
       PROVE  Roomy'
  <2>1. /\ script.name = "up" /\ script.stage = 3 /\ script.at = o
        /\ UNCHANGED <<registered, ledger, outcome>>
    BY <1>11 DEF Enroll, At, channel
  <2> QED
    BY <1>1, <1>11, <2>1, EnrollFields DEF Roomy, Wiping, At, NoLedgers
<1>12. ASSUME NEW n \in Node, Join(n)
       PROVE  Roomy'
  <2>1. CASE ledger[n] # None
    <3>1. script' = Idle /\ outcome' \in {Advice(8), "silent"}
      BY <1>12, <2>1 DEF Join, Stop
    <3> QED
      BY <1>2, <1>3, <3>1
  <2>2. CASE ledger[n] = None
    <3>1. script.name = "up" /\ script.stage \in {8, 9} /\ UNCHANGED <<registered, outcome>>
      BY <1>12, <2>2 DEF Join, At, crypto
    <3>2. /\ script'.name = "up" /\ script'.stage = script.stage
          /\ script'.todo = script.todo \ {n} /\ n \in script.todo
          /\ \A m \in Node \ {n} : ledger'[m] = ledger[m]
      BY <1>12, <2>2, JoinFields DEF Join
    <3>3. script.stage = 8 => n \notin Peer
      BY <3>1, <3>2 DEF Roomy, At, Peer
    <3>4. CASE script.stage = 8
      <4>1. script'.todo \subseteq OrdererNode
        BY <3>1, <3>2, <3>4 DEF Roomy, At
      <4>2. outcome = "wiped" => \A m \in script'.todo \cup Peer : ledger'[m] = None
        BY <1>1, <3>1, <3>2, <3>3, <3>4, <4>1 DEF Roomy, At
      <4> QED
        BY <1>1, <3>1, <3>2, <3>4, <4>1, <4>2 DEF Roomy, Wiping, At
    <3>5. CASE script.stage = 9
      <4>1. script'.todo \subseteq Peer
        BY <3>1, <3>2, <3>5 DEF Roomy, At
      <4>2. outcome = "wiped" => \A m \in script'.todo : ledger'[m] = None
        BY <1>1, <3>1, <3>2, <3>5, <4>1 DEF Roomy, At
      <4> QED
        BY <1>1, <3>1, <3>2, <3>5, <4>1, <4>2 DEF Roomy, Wiping, At
    <3> QED
      BY <3>1, <3>4, <3>5
  <2> QED
    BY <2>1, <2>2
<1>13. CASE VerifyMembership
  BY <1>2, <1>3, <1>13 DEF VerifyMembership, Stop
<1>14. CASE Down
  <2>1. script = Idle /\ UNCHANGED script /\ outcome' = "down"
    BY <1>14 DEF Down
  <2> QED
    BY <1>2, <2>1
<1>15. CASE RemoveContainers
  <2>1. /\ ledger' = [n \in Node |-> None] /\ UNCHANGED outcome
        /\ script.name = "wipe" /\ script'.name = "wipe" /\ script'.stage = 2
    BY <1>15, WipeFields DEF RemoveContainers, Wiping
  <2> QED
    BY <1>1, <2>1 DEF Roomy, Wiping, At, NoLedgers
<1>16. CASE RemoveCrypto
  <2>1. /\ UNCHANGED <<ledger, outcome>> /\ NoLedgers /\ registered' = {}
        /\ script.name = "wipe" /\ script'.name = "wipe" /\ script'.stage = 3
    BY <1>16, WipeFields DEF RemoveCrypto, Wiping, channel, Roomy
  <2> QED
    BY <1>1, <2>1 DEF Roomy, Wiping, At, NoLedgers
<1>17. CASE RemoveArtifacts
  <2>1. /\ script' = Idle /\ outcome' = "wiped" /\ UNCHANGED <<registered, ledger>>
        /\ registered = {} /\ NoLedgers
    BY <1>17 DEF RemoveArtifacts, Stop, Roomy, crypto
  <2> QED
    BY <1>1, <2>1 DEF Roomy, Wiping, At, NoLedgers
<1>18. CASE Fail
  BY <1>2, <1>3, <1>18 DEF Fail, Stop
<1>19. CASE UNCHANGED vars
  BY <1>19 DEF vars, crypto, channel, Roomy, Wiping, At, NoLedgers
<1> QED
  BY <1>4, <1>5, <1>7, <1>8, <1>9, <1>10, <1>11, <1>12, <1>13, <1>14, <1>15, <1>16, <1>17, <1>18,
     <1>19
  DEF Next, UpStep, WipeStep

LEMMA AlwaysRoomy == Spec => []Roomy
<1>1. Init => Roomy
  BY Scripts DEF Init, Roomy, Wiping, At
<1> QED
  BY <1>1, StepMakesRoom, TypeCorrect, PTL DEF Spec

\* After a wipe, up meets no remains of an earlier network (WipeMakesRoom): the stages
\* that cannot be repeated are only blocked by what this network did itself.
THEOREM RoomAfterWipe == Spec => []WipeMakesRoom
<1>1. TypeOK /\ Roomy => WipeMakesRoom
  <2> SUFFICES ASSUME TypeOK, Roomy, outcome = "wiped", Blocked
               PROVE  FALSE
    BY DEF WipeMakesRoom
  <2>1. None \notin registered
    BY TypesNamed, LifecycleConstants
  <2> QED
    BY <2>1 DEF Roomy, Blocked, At
<1> QED
  BY <1>1, AlwaysRoomy, TypeCorrect, PTL
=============================================================================
