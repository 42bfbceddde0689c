------------------------------- MODULE OrgAdd -------------------------------
(***************************************************************************)
(* org-add.sh: the seven stages that bring an organization whose           *)
(* membership was voted into the channel, beside chaincode.sh. Any command *)
(* may fail; the script is then run again from its first stage, and skips  *)
(* what it finds done: stage 2 when the directory of the organization's    *)
(* MSP exists, stages 3 and 4 when the channel has the organization, a     *)
(* join when the peer knows the channel. One script runs at a time.        *)
(***************************************************************************)
EXTENDS ChaincodeLifecycle

CONSTANTS
  New,          \* the pending organization
  First,        \* the first organization of network.yaml, whose peer is asked
  AddTarget,    \* CC_VERSION and CC_SEQUENCE of org-add.sh
  FailStages    \* the stages of org-add.sh in which a command may fail

ASSUME AddConstants ==
  /\ New \in Org \ Founding /\ First \in Founding
  /\ AddTarget \in Target /\ FailStages \subseteq 1..7

VARIABLES
  voted,        \* the governance chaincode holds the organization as active
  registered,   \* its CA's database, kept in crypto/ca-servers, has its identities
  msp,          \* crypto/organizations/<org>/msp: "none", "empty" or "complete"
  peersUp,      \* its peers run
  anchored,     \* its group of the channel configuration has anchor peers
  joined,       \* its peers joined the channel
  add           \* the step org-add.sh is at, its package and whether it asks for Init

crypto == <<registered, msp, peersUp>>
onboarding == <<voted, crypto, anchored, joined, add>>
allVars == <<vars, onboarding>>

NotAdding == [step |-> "none", package |-> None, init |-> FALSE]

StageOf ==
  [guard |-> 1, register |-> 2, mkdir |-> 2, copy |-> 2, peers |-> 2, member |-> 3,
   inject |-> 3, anchor |-> 4, join |-> 5, install |-> 6, approve |-> 6, start |-> 6, flip |-> 7]

Adds == [step : DOMAIN StageOf \cup {"none"}, package : Package \cup {None}, init : BOOLEAN]

AddTypeOK ==
  /\ TypeOK
  /\ voted \in BOOLEAN /\ registered \in BOOLEAN /\ peersUp \in BOOLEAN
  /\ anchored \in BOOLEAN /\ joined \in BOOLEAN
  /\ msp \in {"none", "empty", "complete"}
  /\ add \in Adds

AddInit ==
  /\ Init
  /\ voted = FALSE /\ registered = FALSE /\ msp = "none" /\ peersUp = FALSE
  /\ anchored = FALSE /\ joined = FALSE /\ add = NotAdding

-----------------------------------------------------------------------------

Adding(s) == add.step = s
Go(s) == add' = [add EXCEPT !.step = s]
Die == add' = NotAdding

\* The governance chaincode answers the first organization's peer.
Answers == Serves(First) /\ (committed.init => committed.version \in initialised)

\* The members' votes are those of GovernanceLedger.
Vote ==
  /\ ~voted /\ Answers /\ voted' = TRUE
  /\ UNCHANGED <<vars, crypto, anchored, joined, add>>

StartAdd ==
  /\ script = Idle /\ add = NotAdding /\ New \notin members
  /\ Go("guard")
  /\ UNCHANGED <<vars, voted, crypto, anchored, joined>>

\* Stage 1, and the question whether stage 2 is done.
RequireActive ==
  /\ Adding("guard")
  /\ IF ~(voted /\ Answers) THEN Die ELSE IF msp # "none" THEN Go("member") ELSE Go("register")
  /\ UNCHANGED <<vars, voted, crypto, anchored, joined>>

\* The CA's database outlives its container, and register refuses what it holds.
RegisterIdentities ==
  /\ Adding("register")
  /\ IF registered THEN Die ELSE Go("mkdir")
  /\ registered' = TRUE
  /\ UNCHANGED <<vars, voted, msp, peersUp, anchored, joined>>

MakeMspDirectory ==
  /\ Adding("mkdir") /\ Go("copy")
  /\ msp' = "empty"
  /\ UNCHANGED <<vars, voted, registered, peersUp, anchored, joined>>

CopyMsp ==
  /\ Adding("copy") /\ Go("peers")
  /\ msp' = "complete"
  /\ UNCHANGED <<vars, voted, registered, peersUp, anchored, joined>>

StartPeers ==
  /\ Adding("peers") /\ Go("member")
  /\ peersUp' = TRUE
  /\ UNCHANGED <<vars, voted, registered, msp, anchored, joined>>

\* A configuration that cannot be fetched counts as one without the organization.
IsChannelMember ==
  /\ Adding("member")
  /\ \/ /\ IF New \in channelOrgs THEN Go("join") ELSE Go("inject")
        /\ UNCHANGED failures
     \/ Unanswered /\ 3 \in FailStages /\ Go("inject")
  /\ UNCHANGED <<target, channel, docker, script, outcome, voted, crypto, anchored, joined>>

\* The definition is made of the MSP; a majority of the channel's admins must sign,
\* and the members of network.yaml do. They cannot change the group of another.
InjectOrg ==
  /\ Adding("inject")
  /\ IF New \notin channelOrgs /\ msp = "complete"
        /\ 2 * Cardinality(members \cap channelOrgs) > Cardinality(channelOrgs)
     THEN channelOrgs' = channelOrgs \cup {New} /\ Go("anchor")
     ELSE Die /\ UNCHANGED channelOrgs
  /\ UNCHANGED <<target, members, approvals, committed, initialised, docker, script, outcome,
                 failures, voted, crypto, anchored, joined>>

SetAnchorPeers ==
  /\ Adding("anchor") /\ Go("join")
  /\ anchored' = TRUE
  /\ UNCHANGED <<vars, voted, crypto, joined>>

JoinChannel ==
  /\ Adding("join")
  /\ IF peersUp THEN Go("install") ELSE Die
  /\ joined' = (joined \/ peersUp)
  /\ UNCHANGED <<vars, voted, crypto, anchored>>

\* --init-required is taken from the committed definition, and left out when the
\* query for it fails.
InstallPackage ==
  /\ Adding("install")
  /\ \E init \in BOOLEAN :
       LET p == NewPackage(New, AddTarget.version)
       IN  /\ \/ init = committed.init /\ UNCHANGED failures
              \/ ~init /\ Unanswered /\ 6 \in FailStages
           /\ p \in Package
           /\ installed' = [installed EXCEPT ![New] = @ \cup {p}]
           /\ add' = [step |-> "approve", package |-> p, init |-> init]
  /\ UNCHANGED <<target, channel, container, script, outcome, voted, crypto, anchored, joined>>

AddWanted ==
  [version |-> AddTarget.version, sequence |-> AddTarget.sequence, init |-> add.init]

ApproveForNew ==
  /\ Adding("approve")
  /\ IF Approvable(AddWanted)
     THEN /\ approvals' = [approvals EXCEPT ![New][AddTarget.sequence] =
                [version |-> AddTarget.version, init |-> AddWanted.init, package |-> add.package]]
          /\ Go("start")
     ELSE Die /\ UNCHANGED approvals
  /\ UNCHANGED <<target, members, channelOrgs, committed, initialised, docker, script, outcome,
                 failures, voted, crypto, anchored, joined>>

\* Mutant: a container that runs is left alone.
KeepContainer ==
  /\ Adding("start") /\ Go("flip")
  /\ container' = [container EXCEPT ![New] = IF @ = None THEN add.package ELSE @]
  /\ UNCHANGED <<target, channel, installed, script, outcome, failures, voted, crypto,
                 anchored, joined>>

StartForNew ==
  /\ Adding("start") /\ Go("flip")
  /\ container' = [container EXCEPT ![New] = add.package]
  /\ UNCHANGED <<target, channel, installed, script, outcome, failures, voted, crypto,
                 anchored, joined>>

FlipStatus ==
  /\ Adding("flip") /\ Die
  /\ members' = members \cup {New}
  /\ UNCHANGED <<target, channelOrgs, approvals, committed, initialised, docker, script, outcome,
                 failures, voted, crypto, anchored, joined>>

FailAdd ==
  /\ add # NotAdding /\ failures < MaxFailures
  /\ StageOf[add.step] \in FailStages
  /\ failures' = failures + 1 /\ Die
  /\ UNCHANGED <<target, channel, docker, script, outcome, voted, crypto, anchored, joined>>

-----------------------------------------------------------------------------

AddStep ==
  \/ RequireActive \/ RegisterIdentities \/ MakeMspDirectory \/ CopyMsp \/ StartPeers
  \/ IsChannelMember \/ InjectOrg \/ SetAnchorPeers \/ JoinChannel
  \/ InstallPackage \/ ApproveForNew \/ StartForNew \/ FlipStatus

\* chaincode.sh and its operator, while org-add.sh does not run.
Deploying(A) == A /\ add = NotAdding /\ UNCHANGED onboarding

AddNext == Deploying(Next) \/ Vote \/ StartAdd \/ AddStep \/ FailAdd

AddSpec == AddInit /\ [][AddNext]_allVars

\* An operator who deploys at the values org-add.sh was written for, and runs
\* org-add.sh until the organization is a member.
ObeyDeploy == Deploying(Obey /\ target = AddTarget)
ObeyAdd == outcome = "deployed" /\ voted /\ StartAdd
ObedientAddSpec ==
  /\ AddInit /\ target = AddTarget
  /\ [][ObeyDeploy \/ Deploying(DeployStep) \/ Vote \/ ObeyAdd \/ AddStep \/ FailAdd]_allVars
  /\ WF_allVars(ObeyDeploy) /\ WF_allVars(Deploying(DeployStep)) /\ WF_allVars(Vote)
  /\ WF_allVars(ObeyAdd) /\ WF_allVars(AddStep)

-----------------------------------------------------------------------------

TakesPart ==
  /\ New \in channelOrgs /\ joined
  /\ AddTarget.sequence = committed.sequence => Serves(New)

\* An organization becomes a member when its peers can run the chaincode, however
\* often the stages before were begun (org-add.sh:41-44, 54-58).
NewMemberServes ==
  [][New \notin members /\ New \in members' => TakesPart]_allVars

\* Running org-add.sh again makes the organization a member in the end
\* (org-add.sh:57, 94).
RerunAddsMember == <>(New \in members)
=============================================================================
