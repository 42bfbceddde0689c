-------------------------- MODULE NetworkLifecycle --------------------------
(***************************************************************************)
(* network.sh with bootstrap-crypto.sh and lib/crypto.sh: bringing the     *)
(* network up in ten stages, taking it down and wiping it, when any        *)
(* command may fail and the operator reads what the script says about      *)
(* trying again. An owner is an organization with its own CA; a node is an *)
(* orderer or a peer. Stages and loops are those of cmd_up; the order of   *)
(* the turns within a loop is left open.                                   *)
(***************************************************************************)
EXTENDS Integers

CONSTANTS
  Owner,          \* the orderer organization and the founding and member ones
  Orderer,        \* the orderer organization
  NodesPerOwner,  \* orderers of the orderer organization, peers of another
  None,           \* no owner, no block
  MaxFailures,    \* bound: commands that fail for an outside reason
  Generations     \* bound: generations of crypto material told apart

ASSUME LifecycleConstants ==
  /\ Orderer \in Owner /\ None \notin Owner
  /\ NodesPerOwner \in Nat \ {0} /\ MaxFailures \in Nat
  /\ Generations \in Nat /\ Generations > MaxFailures + 1
  /\ None \notin [Owner -> (0..(Generations - 1)) \cup {None}]

VARIABLES
  registered,  \* owners whose identities the CA database in crypto/ca-servers holds
  enrolled,    \* crypto/organizations: the generation of the owner's CA, or None
  genesis,     \* channel-artifacts/genesis.pb: the CAs it trusts, or None
  running,     \* whether the orderer and peer containers run
  ledger,      \* the genesis block a node joined the channel with, or None
  script,      \* the command that runs, its stage, the turns left in its loop, the owner at work
  outcome,     \* what the operator knows of the network
  generation,  \* of the CAs that stage 3 would create: one per wipe
  failures

vars == <<registered, enrolled, genesis, running, ledger, script, outcome, generation, failures>>
crypto == <<registered, enrolled>>
channel == <<genesis, running, ledger>>
bounds == <<generation, failures>>

Node == Owner \X (1..NodesPerOwner)
Generation == 0..(Generations - 1)
OrdererNode == {n \in Node : n[1] = Orderer}
Peer == Node \ OrdererNode

Idle == [name |-> "none", stage |-> 0, todo |-> {}, at |-> None]
Outcome == {"none", "rerun", "wipe", "silent", "up", "down", "wiping", "wiped"}

TypeOK ==
  /\ registered \subseteq Owner
  /\ enrolled \in [Owner -> Generation \cup {None}]
  /\ genesis \in [Owner -> Generation \cup {None}] \cup {None}
  /\ running \in BOOLEAN
  /\ ledger \in [Node -> [Owner -> Generation \cup {None}] \cup {None}]
  /\ script \in [name: {"none", "up", "wipe"}, stage: 0..10,
                 todo: (SUBSET Owner) \cup (SUBSET Node), at: Owner \cup {None}]
  /\ outcome \in Outcome
  /\ generation \in Generation /\ failures \in 0..MaxFailures

Init ==
  /\ registered = {} /\ enrolled = [o \in Owner |-> None]
  /\ genesis = None /\ running = FALSE /\ ledger = [n \in Node |-> None]
  /\ script = Idle /\ outcome = "none" /\ generation = 0 /\ failures = 0

-----------------------------------------------------------------------------
(* Stages *)

At(s) == script.name = "up" /\ script.stage = s

Turns(s) == CASE s = 3 -> Owner [] s = 8 -> OrdererNode [] s = 9 -> Peer [] OTHER -> {}

Advance ==
  /\ script.todo = {} /\ script.at = None
  /\ script' = [script EXCEPT !.stage = @ + 1, !.todo = Turns(script.stage + 1)]

Stop(o) == script' = Idle /\ outcome' = o

\* Mutant: stage 3 is taken to be repeatable.
TrustingAdvice(s) == IF s \in {8, 9} THEN "wipe" ELSE "rerun"

\* What on_up_error tells the operator: the third argument of stage.
Advice(s) == IF s \in {3, 8, 9} THEN "wipe" ELSE "rerun"

-----------------------------------------------------------------------------
(* up *)

StartUp ==
  /\ script = Idle
  /\ script' = [Idle EXCEPT !.name = "up", !.stage = 1]
  /\ UNCHANGED <<crypto, channel, outcome, bounds>>

\* Mutant: a loop whose failure does not reach the shell goes on to the next stage.
ProceedPastFailure ==
  /\ \E s \in {1, 2, 3, 4, 7, 8, 9} : At(s)
  /\ script.at = None
  /\ script' = [script EXCEPT !.stage = @ + 1, !.todo = Turns(script.stage + 1)]
  /\ UNCHANGED <<crypto, channel, outcome, bounds>>

\* Stages that only write files made of the configuration, and the ends of loops.
Proceed ==
  /\ \E s \in {1, 2, 3, 4, 7, 8, 9} : At(s)
  /\ Advance
  /\ UNCHANGED <<crypto, channel, outcome, bounds>>

\* bootstrap_org registers the admin first; nothing asks whether it is there.
Register(o) ==
  /\ At(3) /\ script.at = None /\ o \in script.todo
  /\ IF o \in registered
     THEN Stop(Advice(3)) /\ UNCHANGED registered
     ELSE /\ registered' = registered \cup {o}
          /\ script' = [script EXCEPT !.at = o]
          /\ UNCHANGED outcome
  /\ UNCHANGED <<enrolled, channel, bounds>>

Enroll(o) ==
  /\ At(3) /\ script.at = o
  /\ enrolled' = [enrolled EXCEPT ![o] = generation]
  /\ script' = [script EXCEPT !.at = None, !.todo = @ \ {o}]
  /\ UNCHANGED <<registered, channel, outcome, bounds>>

\* Mutant: a genesis block that is there already is kept.
BuildGenesisOnce ==
  /\ At(5) /\ Advance
  /\ genesis' = IF genesis = None THEN enrolled ELSE genesis
  /\ UNCHANGED <<crypto, running, ledger, outcome, bounds>>

BuildGenesis ==
  /\ At(5) /\ Advance
  /\ genesis' = enrolled
  /\ UNCHANGED <<crypto, running, ledger, outcome, bounds>>

StartNodes ==
  /\ At(6) /\ Advance
  /\ running' = TRUE
  /\ UNCHANGED <<crypto, genesis, ledger, outcome, bounds>>

\* osnadmin and peer channel join refuse a node that has the channel already. The
\* refusal of a peer ends, after five attempts, in an exit of join_peers itself:
\* no command fails, and on_up_error is not run.
Join(n) ==
  /\ At(8) \/ At(9)
  /\ n \in script.todo
  /\ IF ledger[n] # None
     THEN Stop(IF At(8) THEN Advice(8) ELSE "silent") /\ UNCHANGED ledger
     ELSE /\ ledger' = [ledger EXCEPT ![n] = genesis]
          /\ script' = [script EXCEPT !.todo = @ \ {n}]
          /\ UNCHANGED outcome
  /\ UNCHANGED <<crypto, genesis, running, bounds>>

VerifyMembership ==
  /\ At(10)
  /\ Stop(IF running /\ \A n \in Peer : ledger[n] # None THEN "up" ELSE Advice(10))
  /\ UNCHANGED <<crypto, channel, bounds>>

-----------------------------------------------------------------------------
(* down, down --wipe, failures *)

\* compose removes the containers, and with them the nodes' ledgers: only
\* crypto material is mounted from the host.
Down ==
  /\ script = Idle
  /\ running' = FALSE /\ ledger' = [n \in Node |-> None]
  /\ outcome' = "down"
  /\ UNCHANGED <<crypto, genesis, script, bounds>>

Wiping(s) == script.name = "wipe" /\ script.stage = s

StartWipe ==
  /\ script = Idle
  /\ script' = [Idle EXCEPT !.name = "wipe", !.stage = 1]
  /\ outcome' = "wiping"
  /\ UNCHANGED <<crypto, channel, bounds>>

RemoveContainers ==
  /\ Wiping(1)
  /\ running' = FALSE /\ ledger' = [n \in Node |-> None]
  /\ script' = [script EXCEPT !.stage = 2]
  /\ UNCHANGED <<crypto, genesis, outcome, bounds>>

\* Mutant: the CA databases, which belong to root, are not removed.
RemoveOwnFiles ==
  /\ Wiping(2)
  /\ enrolled' = [o \in Owner |-> None]
  /\ generation' = (generation + 1) % Generations
  /\ script' = [script EXCEPT !.stage = 3]
  /\ UNCHANGED <<registered, channel, outcome, failures>>

RemoveCrypto ==
  /\ Wiping(2)
  /\ registered' = {} /\ enrolled' = [o \in Owner |-> None]
  /\ generation' = (generation + 1) % Generations
  /\ script' = [script EXCEPT !.stage = 3]
  /\ UNCHANGED <<channel, outcome, failures>>

RemoveArtifacts ==
  /\ Wiping(3)
  /\ genesis' = None
  /\ Stop("wiped")
  /\ UNCHANGED <<crypto, running, ledger, bounds>>

\* A command fails: a daemon that does not answer, a port that is not ready in
\* time. wait_for_port in stage 6 and join_peers in stage 9 leave by exit, past the trap.
Fail ==
  /\ script # Idle /\ failures < MaxFailures
  /\ failures' = failures + 1
  /\ \/ script.name = "wipe" /\ Stop("wipe")
     \/ script.name = "up" /\ ~At(9) /\ Stop(Advice(script.stage))
     \/ (At(6) \/ At(9)) /\ Stop("silent")
  /\ UNCHANGED <<crypto, channel, generation>>

-----------------------------------------------------------------------------

UpStep ==
  \/ Proceed \/ BuildGenesis \/ StartNodes \/ VerifyMembership
  \/ \E o \in Owner : Register(o) \/ Enroll(o)
  \/ \E n \in Node : Join(n)
WipeStep == RemoveContainers \/ RemoveCrypto \/ RemoveArtifacts

Next == StartUp \/ UpStep \/ Down \/ StartWipe \/ WipeStep \/ Fail

\* A script that was started goes on by itself.
Working == UpStep \/ WipeStep
Spec == Init /\ [][Next]_vars /\ WF_vars(Working)

\* An operator who does what the script says, and only that; the head of
\* network.sh asks for a wipe when the script does not say.
Obey ==
  \/ outcome \in {"none", "down", "rerun", "wiped"} /\ StartUp
  \/ outcome \in {"wipe", "silent"} /\ StartWipe
Obedience == <>[][Obey \/ Working \/ Fail]_vars /\ WF_vars(Obey)

-----------------------------------------------------------------------------

\* Stage 3, 8 or 9 is about to do what was done before.
Blocked ==
  \/ At(3) /\ script.at = None /\ script.todo \cap registered # {}
  \/ (At(8) \/ At(9)) /\ \E n \in script.todo : ledger[n] # None

\* After a wipe, up never meets the remains of an earlier network, wherever the
\* earlier commands died (network.sh:8, 290-298).
WipeMakesRoom == outcome = "wiped" => ~Blocked

\* The nodes of a channel trust the CAs that signed the present crypto material:
\* no step of up or wipe separates them, although each replaces one of the two
\* (network.sh:229-232, 282-298).
NodesTrustCrypto == \A n \in Node : ledger[n] # None => ledger[n] = enrolled

\* When up says that the network is up, every node has joined, the orderers too,
\* which stage 10 does not check (network.sh:246-250).
UpIsComplete ==
  outcome = "up" /\ script = Idle => running /\ \A n \in Node : ledger[n] = genesis /\ genesis # None

\* From whatever an operator did to the network, doing what the script says ends in
\* a network that is up, even if the advice has to be corrected on the way
\* (network.sh:43-52).
AdviceLeadsUp == Obedience => <>[](outcome = "up")
=============================================================================
