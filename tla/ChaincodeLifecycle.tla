------------------------- MODULE ChaincodeLifecycle -------------------------
(***************************************************************************)
(* chaincode.sh deploy with lib/chaincode.sh and lib/orgs.sh, for one      *)
(* chaincode whose Init is institution-cc's InitLedger. The operator edits *)
(* CC_VERSION and CC_SEQUENCE, runs one script at a time and runs it again *)
(* when it fails; any command of it may fail, after which nothing of the   *)
(* script is left but what it did to the peers, the channel and docker.    *)
(*                                                                         *)
(* The peers' lifecycle is Fabric's: an approval is kept per organization  *)
(* and sequence, a definition is committed at the next sequence only, and  *)
(* the peers of an organization launch the package it approved, by the     *)
(* identifier its chaincode container was started with.                    *)
(***************************************************************************)
EXTENDS Integers, FiniteSets

CONSTANTS
  Org,          \* the organizations of network.yaml
  Founding,     \* those whose status is founding
  Version,      \* the values the operator gives CC_VERSION
  MaxSequence,  \* bound: sequences of the definition
  None,         \* no definition, no package
  MaxPackages,  \* bound: packages an organization has of one version
  MaxFailures   \* bound: commands that fail for an outside reason

Sequence == 1..MaxSequence
Target == [version : Version, sequence : Sequence]
Definition == [version : Version, sequence : Sequence, init : BOOLEAN]
Package == [label : Version, number : 1..MaxPackages]
Approval == [version : Version, init : BOOLEAN, package : Package]

ASSUME DeployConstants ==
  /\ Founding \subseteq Org /\ Founding # {} /\ IsFiniteSet(Org)
  /\ MaxSequence \in Nat \ {0} /\ MaxPackages \in Nat /\ MaxFailures \in Nat
  /\ None \notin Definition \cup Package \cup Approval

VARIABLES
  target,       \* CC_VERSION and CC_SEQUENCE of chaincode.sh
  members,      \* organizations whose status is founding or member
  channelOrgs,  \* the channel's Application group
  approvals,    \* what an organization approved for a sequence
  committed,    \* the committed definition, or None
  initialised,  \* the versions whose Init was executed
  installed,    \* the packages an organization's first peer holds
  container,    \* the package an organization's chaincode container serves, or None
  script,       \* the deploy that runs: stage, flag, whether stage 2 asked in vain, turns left,
                \* package identifiers
  outcome,      \* of the last deploy
  failures

channel == <<members, channelOrgs, approvals, committed, initialised>>
docker == <<installed, container>>
vars == <<target, channel, docker, script, outcome, failures>>

Idle == [stage |-> "none", init |-> FALSE, blind |-> FALSE, todo |-> {},
         ids |-> [o \in Org |-> None]]

Script ==
  [stage : {"none", "build", "recover", "package", "approve", "check", "commit", "start", "init"},
   init : BOOLEAN, blind : BOOLEAN, todo : SUBSET Org, ids : [Org -> Package \cup {None}]]

TypeOK ==
  /\ target \in Target
  /\ members \subseteq Org /\ channelOrgs \subseteq Org
  /\ approvals \in [Org -> [Sequence -> Approval \cup {None}]]
  /\ committed \in Definition \cup {None}
  /\ initialised \subseteq Version
  /\ installed \in [Org -> SUBSET Package]
  /\ container \in [Org -> Package \cup {None}]
  /\ script \in Script
  /\ outcome \in {"none", "running", "failed", "deployed"}
  /\ failures \in 0..MaxFailures

Init ==
  /\ target \in Target
  /\ members = Founding /\ channelOrgs = Founding
  /\ approvals = [o \in Org |-> [s \in Sequence |-> None]]
  /\ committed = None /\ initialised = {}
  /\ installed = [o \in Org |-> {}] /\ container = [o \in Org |-> None]
  /\ script = Idle /\ outcome = "none" /\ failures = 0

-----------------------------------------------------------------------------
(* Fabric's lifecycle *)

NextSequence == IF committed = None THEN 1 ELSE committed.sequence + 1

\* A definition can be approved for the next sequence, or again as it was committed.
Approvable(d) == d.sequence = NextSequence \/ d = committed

Approves(o, d) ==
  LET a == approvals[o][d.sequence]
  IN  a # None /\ a.version = d.version /\ a.init = d.init

\* The peers of o find the package they look for.
Serves(o) ==
  /\ committed # None
  /\ approvals[o][committed.sequence] # None
  /\ container[o] = approvals[o][committed.sequence].package

-----------------------------------------------------------------------------
(* deploy *)

At(s) == script.stage = s
Turn(s, o) == At(s) /\ o \in script.todo
Enter(s) == script' = [script EXCEPT !.stage = s, !.todo = members]
EndTurn(o) == script' = [script EXCEPT !.todo = @ \ {o}]
Stop(o) == script' = Idle /\ outcome' = o

\* Mutant: --init-required goes with every deploy.
InitAlwaysWanted ==
  [version |-> target.version, sequence |-> target.sequence, init |-> TRUE]

\* The definition this run asks for: --init-required goes with --init-function.
Wanted == [version |-> target.version, sequence |-> target.sequence, init |-> script.init]

\* Mutant: a deploy does not ask what is committed.
NeverCommitted == FALSE

AlreadyCommitted ==
  committed # None /\ committed.version = target.version
    /\ committed.sequence = target.sequence

StartDeploy(flag) ==
  /\ script = Idle
  /\ script' = [Idle EXCEPT !.stage = "build", !.init = flag]
  /\ outcome' = "running"
  /\ UNCHANGED <<target, channel, docker, failures>>

\* A query whose failure the script takes for an answer.
Unanswered == failures < MaxFailures /\ failures' = failures + 1

\* A query for the committed definition that fails counts as "not committed".
BuildImage ==
  /\ At("build")
  /\ \/ /\ IF AlreadyCommitted THEN Enter("recover") ELSE Enter("package")
        /\ UNCHANGED failures
     \/ /\ Unanswered
        /\ script' = [script EXCEPT !.stage = "package", !.todo = members, !.blind = TRUE]
  /\ UNCHANGED <<target, channel, docker, outcome>>

PackagesOf(o, v) == {p \in installed[o] : p.label = v}

\* Mutant: any package of the chaincode will do.
RecoverAny(o) ==
  /\ Turn("recover", o)
  /\ \E p \in installed[o] :
       script' = [script EXCEPT !.todo = @ \ {o}, !.ids[o] = p]
  /\ UNCHANGED <<target, channel, docker, outcome, failures>>

\* The first package with the label, in the order of the answer.
Recover(o) ==
  /\ Turn("recover", o)
  /\ LET found == PackagesOf(o, target.version)
     IN  \E p \in IF found = {} THEN {None} ELSE found :
           script' = [script EXCEPT !.todo = @ \ {o}, !.ids[o] = p]
  /\ UNCHANGED <<target, channel, docker, outcome, failures>>

\* The archive holds times, so packaging again gives another identifier.
NewPackage(o, v) == [label |-> v, number |-> Cardinality(PackagesOf(o, v)) + 1]

PackageAndInstall(o) ==
  /\ Turn("package", o)
  /\ LET p == NewPackage(o, target.version)
     IN  /\ p \in Package
         /\ installed' = [installed EXCEPT ![o] = @ \cup {p}]
         /\ script' = [script EXCEPT !.todo = @ \ {o}, !.ids[o] = p]
  /\ UNCHANGED <<target, channel, container, outcome, failures>>

Approve(o) ==
  /\ Turn("approve", o)
  /\ IF Approvable(Wanted)
     THEN /\ approvals' = [approvals EXCEPT ![o][target.sequence] =
                [version |-> target.version, init |-> Wanted.init, package |-> script.ids[o]]]
          /\ EndTurn(o)
          /\ UNCHANGED outcome
     ELSE Stop("failed") /\ UNCHANGED approvals
  /\ UNCHANGED <<target, members, channelOrgs, committed, initialised, docker, failures>>

CheckCommitReadiness ==
  /\ At("check")
  /\ IF Wanted.sequence = NextSequence /\ \A o \in channelOrgs : Approves(o, Wanted)
     THEN Enter("commit") /\ UNCHANGED outcome
     ELSE Stop("failed")
  /\ UNCHANGED <<target, channel, docker, failures>>

\* The lifecycle endorsement policy asks for a majority of the channel's organizations.
CommitDefinition ==
  /\ At("commit")
  /\ IF 2 * Cardinality({o \in channelOrgs : Approves(o, Wanted)}) > Cardinality(channelOrgs)
     THEN committed' = Wanted /\ Enter("start") /\ UNCHANGED outcome
     ELSE Stop("failed") /\ UNCHANGED committed
  /\ UNCHANGED <<target, members, channelOrgs, approvals, initialised, docker, failures>>

\* A chaincode server without a CHAINCODE_ID exits, and its port never opens.
StartContainer(o) ==
  /\ Turn("start", o)
  /\ container' = [container EXCEPT ![o] = script.ids[o]]
  /\ IF script.ids[o] = None THEN Stop("failed") ELSE EndTurn(o) /\ UNCHANGED outcome
  /\ UNCHANGED <<target, channel, installed, failures>>

After == [recover |-> "start", package |-> "approve", approve |-> "check"]

Proceed ==
  /\ script.todo = {}
  /\ \/ script.stage \in DOMAIN After /\ Enter(After[script.stage]) /\ UNCHANGED outcome
     \/ At("start") /\ script.init /\ Enter("init") /\ UNCHANGED outcome
     \/ At("start") /\ ~script.init /\ Stop("deployed")
  /\ UNCHANGED <<target, channel, docker, failures>>

\* Every member endorses; InitLedger refuses a second list, and a definition that
\* requires no Init takes none.
InitAccepted ==
  committed.init /\ initialised = {} /\ \A o \in members : Serves(o)

InvokeInit ==
  /\ At("init")
  /\ IF InitAccepted
     THEN initialised' = {committed.version} /\ Stop("deployed")
     ELSE Stop("failed") /\ UNCHANGED initialised
  /\ UNCHANGED <<target, members, channelOrgs, approvals, committed, docker, failures>>

\* A command fails. In stage 5 the old container may be gone, in stage 6 the
\* transaction may have gone through.
Fail ==
  /\ script # Idle /\ failures < MaxFailures
  /\ failures' = failures + 1
  /\ Stop("failed")
  /\ \/ UNCHANGED <<container, initialised>>
     \/ \E o \in script.todo : At("start") /\ container' = [container EXCEPT ![o] = None]
        /\ UNCHANGED initialised
     \/ At("init") /\ InitAccepted /\ initialised' = {committed.version} /\ UNCHANGED container
  /\ UNCHANGED <<target, members, channelOrgs, approvals, committed, installed>>

-----------------------------------------------------------------------------
(* The operator and the host *)

Edit ==
  /\ script = Idle
  /\ \E t \in Target : t # target /\ target' = t
  /\ outcome' = "none"
  /\ UNCHANGED <<channel, docker, script, failures>>

\* The chaincode containers are run with --rm and no restart policy.
Reboot ==
  /\ script = Idle
  /\ container' = [o \in Org |-> None] /\ outcome' = "none"
  /\ UNCHANGED <<target, channel, installed, script, failures>>

DeployStep ==
  \/ BuildImage \/ CheckCommitReadiness \/ CommitDefinition \/ Proceed \/ InvokeInit
  \/ \E o \in Org : Recover(o) \/ PackageAndInstall(o) \/ Approve(o) \/ StartContainer(o)

\* The operator's rule: --init-function until the founding list exists, and "never
\* pass --init-function again" after it (docs/ERROR_LOG.md:432).
Flag == initialised = {}

Next == StartDeploy(Flag) \/ DeployStep \/ Fail \/ Edit \/ Reboot

Spec == Init /\ [][Next]_vars

\* An operator who runs the failed command again.
Obey == outcome # "deployed" /\ StartDeploy(Flag)

-----------------------------------------------------------------------------

\* A deploy that succeeds leaves every member with a container its peers can use,
\* as long as no earlier run installed another package under the label
\* (chaincode.sh:221-244).
SinglePackageServes ==
  outcome = "deployed" /\ (\A o \in members : Cardinality(PackagesOf(o, target.version)) = 1)
    => \A o \in members : Serves(o)

\* Before its commit a deploy does not disturb the definition in use, however often
\* it is repeated, if it could learn what is committed (chaincode.sh:80-95).
ServingSurvives ==
  [][~script.blind /\ script.stage \in {"build", "recover", "package", "approve", "check"} /\ committed' = committed
       => \A o \in Org : Serves(o) => Serves(o)']_vars

\* The operator who follows the rule never commits a definition that can no longer
\* be initialised, in whatever order versions are tried (chaincode.sh:424,
\* governance.go:56-58).
NeverBlocked ==
  committed # None /\ committed.init /\ initialised # {} => committed.version \in initialised
=============================================================================
