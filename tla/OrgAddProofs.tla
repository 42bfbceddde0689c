---------------------------- MODULE OrgAddProofs ----------------------------
(***************************************************************************)
(* Theorems about chaincode.sh deploy and org-add.sh, for any              *)
(* organizations, versions and sequences, any order of the two scripts,    *)
(* and any number of failed commands and reboots.                          *)
(***************************************************************************)
EXTENDS OrgAdd, FiniteSetTheorems, TLAPS

Step == DOMAIN StageOf \cup {"none"}

Outcomes == {"none", "running", "failed", "deployed"}

LEMMA Steps ==
  DOMAIN StageOf = {"guard", "register", "mkdir", "copy", "peers", "member", "inject", "anchor",
                    "join", "install", "approve", "start", "flip"}
BY DEF StageOf

LEMMA Stages ==
  /\ DOMAIN After = {"recover", "package", "approve"}
  /\ After["recover"] = "start" /\ After["package"] = "approve" /\ After["approve"] = "check"
BY DEF After

LEMMA Goes ==
  ASSUME NEW s \in Step, add \in Adds, Go(s)
  PROVE  /\ add' \in Adds /\ add'.step = s
         /\ add'.package = add.package /\ add'.init = add.init
BY DEF Go, Adds, Step

LEMMA Dead == NotAdding \in Adds /\ NotAdding.step = "none"
BY DEF NotAdding, Adds

LEMMA IdleScript ==
  /\ Idle \in Script /\ Idle.stage = "none" /\ Idle.init = FALSE /\ Idle.blind = FALSE
  /\ Idle.todo = {}
BY DEF Idle, Script

\* What the turns and stages of a deploy do to its script.
LEMMA Scripts ==
  ASSUME script \in Script, members \subseteq Org
  PROVE  /\ \A s \in {"recover", "package", "approve", "check", "commit", "start", "init"} :
              Enter(s) => /\ script' \in Script /\ script'.stage = s /\ script'.todo = members
                          /\ script'.init = script.init /\ script'.blind = script.blind
                          /\ script'.ids = script.ids
         /\ \A o \in Org : EndTurn(o) =>
              /\ script' \in Script /\ script'.stage = script.stage
              /\ script'.todo = script.todo \ {o}
              /\ script'.init = script.init /\ script'.blind = script.blind
              /\ script'.ids = script.ids
         /\ \A o \in Org, p \in Package \cup {None} :
              script' = [script EXCEPT !.todo = @ \ {o}, !.ids[o] = p] =>
                /\ script' \in Script /\ script'.stage = script.stage
                /\ script'.todo = script.todo \ {o}
                /\ script'.init = script.init /\ script'.blind = script.blind
                /\ script'.ids[o] = p
                /\ \A x \in Org \ {o} : script'.ids[x] = script.ids[x]
         /\ script' = [script EXCEPT !.stage = "package", !.todo = members, !.blind = TRUE] =>
              /\ script' \in Script /\ script'.stage = "package" /\ script'.todo = members
              /\ script'.init = script.init /\ script'.blind
         /\ \A flag \in BOOLEAN : script' = [Idle EXCEPT !.stage = "build", !.init = flag] =>
              /\ script' \in Script /\ script'.stage = "build" /\ script'.init = flag
              /\ script'.blind = FALSE
<1>1. \A s \in {"recover", "package", "approve", "check", "commit", "start", "init"} :
        Enter(s) => /\ script' \in Script /\ script'.stage = s /\ script'.todo = members
                    /\ script'.init = script.init /\ script'.blind = script.blind
                    /\ script'.ids = script.ids
  BY DEF Enter, Script
<1>2. \A o \in Org : EndTurn(o) =>
        /\ script' \in Script /\ script'.stage = script.stage
        /\ script'.todo = script.todo \ {o}
        /\ script'.init = script.init /\ script'.blind = script.blind
        /\ script'.ids = script.ids
  BY DEF EndTurn, Script
<1>3. ASSUME NEW o \in Org, NEW p \in Package \cup {None},
             script' = [script EXCEPT !.todo = @ \ {o}, !.ids[o] = p]
      PROVE  /\ script' \in Script /\ script'.stage = script.stage
             /\ script'.todo = script.todo \ {o}
             /\ script'.init = script.init /\ script'.blind = script.blind
             /\ script'.ids[o] = p
             /\ \A x \in Org \ {o} : script'.ids[x] = script.ids[x]
  BY <1>3 DEF Script
<1>4. script' = [script EXCEPT !.stage = "package", !.todo = members, !.blind = TRUE] =>
        /\ script' \in Script /\ script'.stage = "package" /\ script'.todo = members
        /\ script'.init = script.init /\ script'.blind
  BY DEF Script
<1>5. \A flag \in BOOLEAN : script' = [Idle EXCEPT !.stage = "build", !.init = flag] =>
        /\ script' \in Script /\ script'.stage = "build" /\ script'.init = flag
        /\ script'.blind = FALSE
  BY IdleScript DEF Script
<1> QED
  BY <1>1, <1>2, <1>3, <1>4, <1>5

-----------------------------------------------------------------------------
(* Types *)

\* The types, and what they need: one script runs at a time, and a deploy only approves
\* packages it has installed.
Orderly ==
  /\ AddTypeOK
  /\ script = Idle \/ add = NotAdding
  /\ Founding \subseteq members
  /\ script.todo \subseteq members
  /\ At("package") => \A o \in members \ script.todo : script.ids[o] \in Package
  /\ At("approve") => \A o \in members : script.ids[o] \in Package
  /\ add.step \in {"approve", "start", "flip"} => add.package \in Package
  /\ add.step \notin {"none", "guard"} => committed # None

\* A step of chaincode.sh or of its surroundings.
LEMMA DeployIsOrderly ==
  ASSUME Orderly, Deploying(Next)
  PROVE  Orderly'
<1>1. /\ TypeOK /\ add = NotAdding /\ UNCHANGED onboarding /\ script \in Script
      /\ members \subseteq Org /\ AddTypeOK
  BY DEF Orderly, AddTypeOK, TypeOK, Deploying
<1>2. ASSUME TypeOK', script'.todo \subseteq members',
             script'.stage = "package" =>
               \A o \in members' \ script'.todo : script'.ids[o] \in Package,
             script'.stage = "approve" => \A o \in members' : script'.ids[o] \in Package,
             members' = members
      PROVE  Orderly'
  <2>1. AddTypeOK' /\ add' = NotAdding /\ NotAdding.step = "none"
    BY <1>1, <1>2, Dead DEF AddTypeOK, onboarding, crypto
  <2> QED
    BY <1>2, <2>1 DEF Orderly, At
<1>3. ASSUME NEW o, Stop(o)
      PROVE  script' = Idle /\ script' \in Script /\ outcome' = o
  BY <1>3, IdleScript DEF Stop
<1>4. ASSUME NEW o \in Org, NEW v \in Version, NewPackage(o, v) \in Package
      PROVE  installed[o] \cup {NewPackage(o, v)} \subseteq Package
  BY <1>1, <1>4 DEF TypeOK
<1>5. CASE StartDeploy(Flag)
  <2>1. Flag \in BOOLEAN
    BY DEF Flag
  <2>2. script' \in Script /\ script'.stage = "build" /\ script'.todo = {}
    BY <1>1, <1>5, <2>1, Scripts, IdleScript DEF StartDeploy, Script
  <2> QED
    BY <1>1, <1>2, <1>5, <2>2 DEF StartDeploy, TypeOK, channel, docker
<1>6. CASE BuildImage
  <2>1. script' \in Script /\ script'.todo = members /\ script'.stage \in {"recover", "package"}
    BY <1>1, <1>6, Scripts DEF BuildImage
  <2>2. failures' \in 0..MaxFailures
    BY <1>1, <1>6, DeployConstants DEF BuildImage, Unanswered, TypeOK
  <2> QED
    BY <1>1, <1>2, <1>6, <2>1, <2>2 DEF BuildImage, TypeOK, channel, docker
<1>7. CASE CheckCommitReadiness
  <2>1. \/ script' \in Script /\ script'.todo = members /\ script'.stage = "commit"
           /\ outcome' = outcome
        \/ script' = Idle /\ outcome' = "failed"
    BY <1>1, <1>3, <1>7, Scripts DEF CheckCommitReadiness
  <2> QED
    BY <1>1, <1>2, <1>7, <2>1, IdleScript DEF CheckCommitReadiness, TypeOK, channel, docker
<1>8. CASE CommitDefinition
  <2>1. \/ /\ script' \in Script /\ script'.todo = members /\ script'.stage = "start"
           /\ outcome' = outcome /\ committed' = Wanted
        \/ script' = Idle /\ outcome' = "failed" /\ committed' = committed
    BY <1>1, <1>3, <1>8, Scripts DEF CommitDefinition
  <2>2. Wanted \in Definition
    BY <1>1 DEF Wanted, Definition, TypeOK, Target, Script
  <2> QED
    BY <1>1, <1>2, <1>8, <2>1, <2>2, IdleScript DEF CommitDefinition, TypeOK, docker
<1>9. CASE Proceed
  <2>1. \/ /\ script' \in Script /\ script'.todo = members /\ script'.ids = script.ids
           /\ \/ At("recover") /\ script'.stage = "start"
              \/ At("package") /\ script'.stage = "approve"
              \/ At("approve") /\ script'.stage = "check"
              \/ At("start") /\ script'.stage = "init"
           /\ outcome' = outcome
        \/ script' = Idle /\ outcome' = "deployed"
    <3>1. CASE script.stage \in DOMAIN After /\ Enter(After[script.stage]) /\ UNCHANGED outcome
      <4>1. script.stage \in {"recover", "package", "approve"}
        BY <3>1, Stages
      <4> QED
        BY <1>1, <3>1, <4>1, Scripts, Stages DEF At
    <3>2. CASE At("start") /\ Enter("init") /\ UNCHANGED outcome
      BY <1>1, <3>2, Scripts
    <3>3. CASE Stop("deployed")
      BY <1>3, <3>3
    <3> QED
      BY <1>9, <3>1, <3>2, <3>3 DEF Proceed
  <2>2. At("package") => \A o \in members : script.ids[o] \in Package
    BY <1>9 DEF Proceed, Orderly
  <2> QED
    BY <1>1, <1>2, <1>9, <2>1, <2>2, IdleScript DEF Proceed, TypeOK, channel, docker
<1>10. \A v : committed # None /\ v = committed.version => v \in Version
  BY <1>1 DEF TypeOK, Definition
<1>11. InitAccepted => committed # None
  BY DeployConstants DEF InitAccepted, Serves, Orderly
<1>12. CASE InvokeInit
  <2>1. \/ initialised' = {committed.version} /\ committed # None /\ script' = Idle
           /\ outcome' = "deployed"
        \/ initialised' = initialised /\ script' = Idle /\ outcome' = "failed"
    BY <1>1, <1>3, <1>11, <1>12 DEF InvokeInit
  <2>2. initialised' \subseteq Version
    BY <1>1, <1>10, <2>1 DEF TypeOK
  <2> QED
    BY <1>1, <1>2, <1>12, <2>1, <2>2, IdleScript DEF InvokeInit, TypeOK, docker
<1>13. ASSUME NEW o \in Org, Recover(o)
       PROVE  Orderly'
  <2>1. PICK p \in Package \cup {None} : script' = [script EXCEPT !.todo = @ \ {o}, !.ids[o] = p]
    BY <1>1, <1>13 DEF Recover, PackagesOf, TypeOK
  <2>2. script' \in Script /\ script'.stage = "recover" /\ script'.todo = script.todo \ {o}
    BY <1>1, <1>13, <2>1, Scripts DEF Recover, Turn, At
  <2> QED
    BY <1>1, <1>2, <1>13, <2>2 DEF Recover, TypeOK, channel, docker, Orderly
<1>14. ASSUME NEW o \in Org, PackageAndInstall(o)
       PROVE  Orderly'
  <2> DEFINE p == NewPackage(o, target.version)
  <2>1. /\ p \in Package /\ installed' = [installed EXCEPT ![o] = @ \cup {p}]
        /\ script' = [script EXCEPT !.todo = @ \ {o}, !.ids[o] = p]
        /\ At("package") /\ o \in script.todo
    BY <1>14 DEF PackageAndInstall, Turn
  <2> HIDE DEF p
  <2>2. /\ script' \in Script /\ script'.stage = "package" /\ script'.todo = script.todo \ {o}
        /\ script'.ids[o] = p /\ \A x \in Org \ {o} : script'.ids[x] = script.ids[x]
    BY <1>1, <2>1, Scripts DEF At
  <2>3. installed' \in [Org -> SUBSET Package]
    BY <1>1, <2>1 DEF TypeOK
  <2>4. \A x \in members \ script'.todo : script'.ids[x] \in Package
    BY <1>1, <2>1, <2>2 DEF Orderly
  <2> QED
    BY <1>1, <1>2, <1>14, <2>2, <2>3, <2>4 DEF PackageAndInstall, TypeOK, channel, Orderly
<1>15. ASSUME NEW o \in Org, Approve(o)
       PROVE  Orderly'
  <2>1. /\ At("approve") /\ o \in script.todo
        /\ members' = members /\ UNCHANGED <<target, channelOrgs, committed, initialised, docker, failures>>
    BY <1>15 DEF Approve, Turn
  <2>2. CASE Approvable(Wanted)
    <3>1. /\ EndTurn(o) /\ outcome' = outcome
          /\ approvals' = [approvals EXCEPT ![o][target.sequence] =
               [version |-> target.version, init |-> Wanted.init, package |-> script.ids[o]]]
      BY <1>15, <2>2 DEF Approve
    <3>2. /\ script' \in Script /\ script'.stage = "approve" /\ script'.todo = script.todo \ {o}
          /\ script'.ids = script.ids
      BY <1>1, <2>1, <3>1, Scripts DEF At
    <3>3. script.ids[o] \in Package
      BY <2>1 DEF Orderly
    <3>4. PICK a \in Approval :
            a = [version |-> target.version, init |-> Wanted.init, package |-> script.ids[o]]
      BY <1>1, <3>3 DEF Wanted, Approval, TypeOK, Target, Script
    <3>5. approvals' \in [Org -> [Sequence -> Approval \cup {None}]]
      <4>1. approvals' = [approvals EXCEPT ![o][target.sequence] = a]
        BY <3>1, <3>4
      <4>2. target.sequence \in Sequence
        BY <1>1 DEF TypeOK, Target
      <4> QED
        BY <1>1, <4>1, <4>2 DEF TypeOK
    <3>6. \A x \in members' : script'.ids[x] \in Package
      BY <2>1, <3>2 DEF Orderly
    <3> QED
      BY <1>1, <1>2, <2>1, <3>1, <3>2, <3>5, <3>6 DEF TypeOK, docker, Orderly
  <2>3. CASE ~Approvable(Wanted)
    <3>1. script' = Idle /\ outcome' = "failed" /\ approvals' = approvals
      BY <1>3, <1>15, <2>3 DEF Approve
    <3> QED
      BY <1>1, <1>2, <2>1, <3>1, IdleScript DEF TypeOK, docker
  <2> QED
    BY <2>2, <2>3
<1>16. ASSUME NEW o \in Org, StartContainer(o)
       PROVE  Orderly'
  <2>1. \/ /\ script' \in Script /\ script'.stage = "start" /\ script'.todo = script.todo \ {o}
           /\ outcome' = outcome
        \/ script' = Idle /\ outcome' = "failed"
    BY <1>1, <1>3, <1>16, Scripts DEF StartContainer, Turn, At
  <2>2. container' \in [Org -> Package \cup {None}]
    BY <1>1, <1>16 DEF StartContainer, TypeOK, Script
  <2> QED
    BY <1>1, <1>2, <1>16, <2>1, <2>2, IdleScript DEF StartContainer, TypeOK, channel, Orderly
<1>17. CASE Fail
  <2>1. script' = Idle /\ outcome' = "failed" /\ failures' \in 0..MaxFailures
    BY <1>1, <1>3, <1>17, DeployConstants DEF Fail, TypeOK
  <2>2. container' \in [Org -> Package \cup {None}] /\ initialised' \subseteq Version
    BY <1>1, <1>10, <1>11, <1>17 DEF Fail, TypeOK
  <2> QED
    BY <1>1, <1>2, <1>17, <2>1, <2>2, IdleScript DEF Fail, TypeOK
<1>18. CASE Edit
  BY <1>1, <1>2, <1>18, IdleScript DEF Edit, TypeOK, channel, docker
<1>19. CASE Reboot
  BY <1>1, <1>2, <1>19, IdleScript DEF Reboot, TypeOK, channel
<1> QED
  BY <1>5, <1>6, <1>7, <1>8, <1>9, <1>12, <1>13, <1>14, <1>15, <1>16, <1>17, <1>18, <1>19
  DEF Deploying, Next, DeployStep

\* A step of org-add.sh, which leaves the deploy alone.
LEMMA AddIsOrderly ==
  ASSUME Orderly, Vote \/ StartAdd \/ AddStep \/ FailAdd
  PROVE  Orderly'
<1>1. /\ TypeOK /\ AddTypeOK /\ add \in Adds /\ members \subseteq Org
      /\ New \in Org /\ AddTarget \in Target
  BY AddConstants DEF Orderly, AddTypeOK, TypeOK
<1>2. \A s \in Step : Go(s) => add' \in Adds /\ add'.step = s /\ add'.package = add.package
  BY <1>1, Goes
<1>3. Die => add' = NotAdding /\ add' \in Adds /\ add'.step = "none"
  BY Dead DEF Die
<1>4. \A s : Adding(s) => add.step = s /\ (s # "none" => add # NotAdding)
  BY Dead DEF Adding
<1>5. ASSUME UNCHANGED vars, AddTypeOK', script = Idle \/ add' = NotAdding,
             add'.step \in {"approve", "start", "flip"} => add'.package \in Package,
             add'.step \notin {"none", "guard"} => committed # None
      PROVE  Orderly'
  BY <1>5 DEF Orderly, vars, channel, At
<1>6. ASSUME script = Idle, UNCHANGED <<script, committed>>, AddTypeOK',
             Founding \subseteq members',
             add'.step \in {"approve", "start", "flip"} => add'.package \in Package,
             add'.step \notin {"none", "guard"} => committed # None
      PROVE  Orderly'
  BY <1>6, IdleScript DEF Orderly, At
<1>7. add # NotAdding => script = Idle
  BY DEF Orderly
<1>8. CASE Vote
  BY <1>1, <1>5, <1>8 DEF Vote, vars, channel, docker, TypeOK, AddTypeOK, crypto, Orderly
<1>9. CASE StartAdd
  BY <1>1, <1>2, <1>5, <1>9, Steps
  DEF StartAdd, vars, channel, docker, TypeOK, AddTypeOK, crypto, Step
<1>10. CASE RequireActive
  <2>1. Answers => committed # None
    BY DEF Answers, Serves
  <2> QED
    BY <1>1, <1>2, <1>3, <1>4, <1>5, <1>7, <1>10, <2>1, Steps
    DEF RequireActive, vars, channel, docker, TypeOK, AddTypeOK, crypto, Step
<1>11. CASE RegisterIdentities \/ MakeMspDirectory \/ CopyMsp \/ StartPeers \/ SetAnchorPeers
  <2>1. add'.step \in {"none", "mkdir", "copy", "peers", "member", "join"} /\ add' \in Adds
    BY <1>2, <1>3, <1>11, Steps
    DEF RegisterIdentities, MakeMspDirectory, CopyMsp, StartPeers, SetAnchorPeers, Step
  <2>2. add.step \notin {"none", "guard"} /\ script = Idle /\ UNCHANGED vars
    BY <1>4, <1>7, <1>11
    DEF RegisterIdentities, MakeMspDirectory, CopyMsp, StartPeers, SetAnchorPeers
  <2>3. AddTypeOK'
    BY <1>1, <1>11, <2>1, <2>2
    DEF RegisterIdentities, MakeMspDirectory, CopyMsp, StartPeers, SetAnchorPeers,
        vars, channel, docker, TypeOK, AddTypeOK, crypto
  <2> QED
    BY <1>5, <2>1, <2>2, <2>3 DEF Orderly
<1>12. CASE IsChannelMember
  <2>1. add'.step \in {"join", "inject"} /\ add' \in Adds
    BY <1>2, <1>12, Steps DEF IsChannelMember, Step
  <2>2. add.step = "member" /\ script = Idle
    BY <1>4, <1>7, <1>12 DEF IsChannelMember
  <2>3. failures' \in 0..MaxFailures
    BY <1>1, <1>12, DeployConstants DEF IsChannelMember, Unanswered, TypeOK
  <2> QED
    BY <1>1, <1>6, <1>12, <2>1, <2>2, <2>3
    DEF IsChannelMember, channel, docker, TypeOK, AddTypeOK, crypto, Orderly
<1>13. CASE InjectOrg
  <2>1. add'.step \in {"none", "anchor"} /\ add' \in Adds
    BY <1>2, <1>3, <1>13, Steps DEF InjectOrg, Step
  <2>2. add.step = "inject" /\ script = Idle
    BY <1>4, <1>7, <1>13 DEF InjectOrg
  <2> QED
    BY <1>1, <1>6, <1>13, <2>1, <2>2 DEF InjectOrg, docker, TypeOK, AddTypeOK, crypto, Orderly
<1>14. CASE JoinChannel
  <2>1. add'.step \in {"none", "install"} /\ add' \in Adds
    BY <1>2, <1>3, <1>14, Steps DEF JoinChannel, Step
  <2>2. add.step = "join" /\ script = Idle
    BY <1>4, <1>7, <1>14 DEF JoinChannel
  <2> QED
    BY <1>1, <1>5, <1>14, <2>1, <2>2
    DEF JoinChannel, vars, channel, docker, TypeOK, AddTypeOK, crypto, Orderly
<1>15. CASE InstallPackage
  <2>1. PICK init \in BOOLEAN, p \in Package :
          /\ installed' = [installed EXCEPT ![New] = @ \cup {p}]
          /\ add' = [step |-> "approve", package |-> p, init |-> init]
          /\ UNCHANGED failures \/ Unanswered
    BY <1>15 DEF InstallPackage
  <2>2. add' \in Adds /\ add'.step = "approve" /\ add'.package \in Package
    BY <2>1, Steps DEF Adds
  <2>3. add.step = "install" /\ script = Idle
    BY <1>4, <1>7, <1>15 DEF InstallPackage
  <2>4. failures' \in 0..MaxFailures
    BY <1>1, <2>1, DeployConstants DEF Unanswered, TypeOK
  <2>5. installed' \in [Org -> SUBSET Package]
    BY <1>1, <2>1 DEF TypeOK
  <2> QED
    BY <1>1, <1>6, <1>15, <2>2, <2>3, <2>4, <2>5
    DEF InstallPackage, channel, TypeOK, AddTypeOK, crypto, Orderly
<1>16. CASE ApproveForNew
  <2>1. add.step = "approve" /\ script = Idle /\ add.package \in Package
    BY <1>4, <1>7, <1>16 DEF ApproveForNew, Orderly
  <2>2. /\ add'.step \in {"none", "start"} /\ add' \in Adds
        /\ add'.step = "start" => add'.package = add.package
    BY <1>2, <1>3, <1>16, Steps DEF ApproveForNew, Step
  <2>3. PICK a \in Approval :
          a = [version |-> AddTarget.version, init |-> AddWanted.init, package |-> add.package]
    BY <1>1, <2>1 DEF AddWanted, Approval, Target, Adds
  <2>4. approvals' \in [Org -> [Sequence -> Approval \cup {None}]]
    <3>1. \/ approvals' = approvals
          \/ approvals' = [approvals EXCEPT ![New][AddTarget.sequence] = a]
      BY <1>16, <2>3 DEF ApproveForNew
    <3>2. AddTarget.sequence \in Sequence
      BY <1>1 DEF Target
    <3> QED
      BY <1>1, <3>1, <3>2 DEF TypeOK
  <2> QED
    BY <1>1, <1>6, <1>16, <2>1, <2>2, <2>4
    DEF ApproveForNew, docker, TypeOK, AddTypeOK, crypto, Orderly
<1>17. CASE StartForNew
  <2>1. add.step = "start" /\ script = Idle /\ add.package \in Package
    BY <1>4, <1>7, <1>17 DEF StartForNew, Orderly
  <2>2. add'.step = "flip" /\ add' \in Adds /\ add'.package = add.package
    BY <1>2, <1>17, Steps DEF StartForNew, Step
  <2>3. container' \in [Org -> Package \cup {None}]
    BY <1>1, <1>17, <2>1 DEF StartForNew, TypeOK
  <2> QED
    BY <1>1, <1>6, <1>17, <2>1, <2>2, <2>3
    DEF StartForNew, channel, TypeOK, AddTypeOK, crypto, Orderly
<1>18. CASE FlipStatus
  <2>1. script = Idle
    BY <1>4, <1>7, <1>18 DEF FlipStatus
  <2> QED
    BY <1>1, <1>3, <1>6, <1>18, <2>1
    DEF FlipStatus, docker, TypeOK, AddTypeOK, crypto, Orderly
<1>19. CASE FailAdd
  <2>1. failures' \in 0..MaxFailures
    BY <1>1, <1>19, DeployConstants DEF FailAdd, TypeOK
  <2>2. script = Idle /\ add'.step = "none" /\ add' \in Adds
    BY <1>3, <1>7, <1>19 DEF FailAdd
  <2> QED
    BY <1>1, <1>6, <1>19, <2>1, <2>2
    DEF FailAdd, channel, docker, TypeOK, AddTypeOK, crypto, Orderly
<1> QED
  BY <1>8, <1>9, <1>10, <1>11, <1>12, <1>13, <1>14, <1>15, <1>16, <1>17, <1>18, <1>19 DEF AddStep

LEMMA AlwaysOrderly == AddSpec => []Orderly
<1>1. AddInit => Orderly
  <2> SUFFICES ASSUME AddInit PROVE Orderly
    OBVIOUS
  <2>1. TypeOK
    BY IdleScript, DeployConstants DEF AddInit, Init, TypeOK
  <2> QED
    BY <2>1, IdleScript, Dead DEF AddInit, Init, AddTypeOK, Orderly, At
<1>2. Orderly /\ [AddNext]_allVars => Orderly'
  <2>1. ASSUME Orderly, UNCHANGED allVars PROVE Orderly'
    BY <2>1 DEF allVars, vars, channel, docker, onboarding, crypto, Orderly, AddTypeOK, TypeOK, At
  <2> QED
    BY <2>1, DeployIsOrderly, AddIsOrderly DEF AddNext
<1> QED
  BY <1>1, <1>2, PTL DEF AddSpec

\* The channel, the containers, the state of both scripts and what they leave behind
\* when they die keep their types (AddTypeOK), in any order of the scripts.
THEOREM TypeCorrect == AddSpec => []AddTypeOK
<1>1. Orderly => AddTypeOK
  BY DEF Orderly
<1> QED
  BY <1>1, AlwaysOrderly, PTL

-----------------------------------------------------------------------------
(* Definitions stay initialisable *)

\* A deploy only asks for Init while there is no founding list, since a list cannot
\* come to be while it runs.
Initialisable == (script.init => initialised = {}) /\ NeverBlocked

LEMMA StepInitialises ==
  ASSUME Orderly, Initialisable, [AddNext]_allVars
  PROVE  Initialisable'
<1>1. script \in Script /\ members \subseteq Org /\ Idle.init = FALSE
  BY IdleScript DEF Orderly, AddTypeOK, TypeOK
<1>2. ASSUME UNCHANGED <<committed, initialised>>, script'.init => script.init \/ initialised = {}
      PROVE  Initialisable'
  BY <1>2 DEF Initialisable, NeverBlocked
<1>3. \A o : Stop(o) => script'.init = FALSE
  BY <1>1 DEF Stop
<1>4. CASE StartDeploy(Flag)
  <2>1. script'.init = Flag
    BY <1>1, <1>4, Scripts DEF StartDeploy, Flag
  <2> QED
    BY <1>2, <1>4, <2>1 DEF StartDeploy, Flag, channel
<1>5. CASE BuildImage
  BY <1>1, <1>2, <1>5, Scripts DEF BuildImage, channel
<1>6. CASE CheckCommitReadiness
  BY <1>1, <1>2, <1>3, <1>6, Scripts DEF CheckCommitReadiness, channel
<1>7. CASE CommitDefinition
  <2>1. CASE committed' = Wanted /\ Enter("start")
    <3>1. script'.init = script.init /\ committed'.init = script.init
      BY <1>1, <2>1, Scripts DEF Wanted
    <3>2. initialised' = initialised
      BY <1>7 DEF CommitDefinition
    <3> QED
      BY <3>1, <3>2 DEF Initialisable, NeverBlocked
  <2>2. CASE Stop("failed") /\ UNCHANGED committed
    BY <1>2, <1>3, <1>7, <2>2 DEF CommitDefinition
  <2> QED
    BY <1>7, <2>1, <2>2 DEF CommitDefinition
<1>8. CASE Proceed
  <2>1. script'.init => script.init
    <3>1. CASE script.stage \in DOMAIN After /\ Enter(After[script.stage])
      <4>1. script.stage \in {"recover", "package", "approve"}
        BY <3>1, Stages
      <4> QED
        BY <1>1, <3>1, <4>1, Scripts, Stages
    <3>2. CASE At("start") /\ Enter("init")
      BY <1>1, <3>2, Scripts
    <3> QED
      BY <1>3, <1>8, <3>1, <3>2 DEF Proceed
  <2> QED
    BY <1>2, <1>8, <2>1 DEF Proceed, channel
<1>9. CASE InvokeInit \/ Fail
  <2>1. script'.init = FALSE /\ committed' = committed
    BY <1>3, <1>9 DEF InvokeInit, Fail
  <2>2. initialised' = initialised \/ initialised' = {committed.version}
    BY <1>9 DEF InvokeInit, Fail
  <2> QED
    BY <2>1, <2>2 DEF Initialisable, NeverBlocked
<1>10. ASSUME NEW o \in Org, Recover(o)
       PROVE  Initialisable'
  <2>1. script'.init = script.init
    BY <1>10 DEF Recover
  <2> QED
    BY <1>2, <1>10, <2>1 DEF Recover, channel
<1>11. ASSUME NEW o \in Org, PackageAndInstall(o)
       PROVE  Initialisable'
  <2>1. script'.init = script.init
    BY <1>11 DEF PackageAndInstall
  <2> QED
    BY <1>2, <1>11, <2>1 DEF PackageAndInstall, channel
<1>12. ASSUME NEW o \in Org, Approve(o) \/ StartContainer(o)
       PROVE  Initialisable'
  BY <1>1, <1>2, <1>3, <1>12, Scripts DEF Approve, StartContainer, channel
<1>13. CASE Edit \/ Reboot
  BY <1>2, <1>13 DEF Edit, Reboot, channel
<1>14. CASE Vote \/ StartAdd \/ AddStep \/ FailAdd
  <2>1. UNCHANGED <<script, committed, initialised>>
    BY <1>14 DEF Vote, StartAdd, AddStep, FailAdd, RequireActive, RegisterIdentities,
      MakeMspDirectory, CopyMsp, StartPeers, IsChannelMember, InjectOrg, SetAnchorPeers,
      JoinChannel, InstallPackage, ApproveForNew, StartForNew, FlipStatus, vars, channel
  <2> QED
    BY <1>2, <2>1
<1>15. CASE UNCHANGED allVars
  BY <1>2, <1>15 DEF allVars, vars, channel
<1> QED
  BY <1>4, <1>5, <1>6, <1>7, <1>8, <1>9, <1>10, <1>11, <1>12, <1>13, <1>14, <1>15
  DEF AddNext, Deploying, Next, DeployStep

\* No order of versions, failures and runs commits a definition that requires an Init
\* which is refused, as long as the operator follows the rule (NeverBlocked).
THEOREM NothingBlocked == AddSpec => []NeverBlocked
<1>1. AddInit => Initialisable
  BY IdleScript DEF AddInit, Init, Initialisable, NeverBlocked
<1>2. Initialisable => NeverBlocked
  BY DEF Initialisable
<1> QED
  BY <1>1, <1>2, StepInitialises, AlwaysOrderly, PTL DEF AddSpec

-----------------------------------------------------------------------------
(* What serves goes on serving until a commit *)

\* A deploy that learnt what is committed only approves what is not.
Informed ==
  ~script.blind /\ script.stage \in {"package", "approve"} => ~AlreadyCommitted

LEMMA StepInforms ==
  ASSUME Orderly, Informed, [AddNext]_allVars
  PROVE  Informed'
<1>1. /\ script \in Script /\ members \subseteq Org
      /\ Idle.stage = "none"
  BY IdleScript DEF Orderly, AddTypeOK, TypeOK
<1>2. ASSUME UNCHANGED <<target, committed>>, script'.blind = script.blind, script'.stage = script.stage
      PROVE  Informed'
  BY <1>2 DEF Informed, AlreadyCommitted
<1>3. script'.stage \notin {"package", "approve"} => Informed'
  BY DEF Informed
<1>4. \A o : Stop(o) => Informed'
  BY <1>1, <1>3 DEF Stop
<1>5. CASE StartDeploy(Flag)
  <2>1. script'.stage = "build"
    BY <1>1, <1>5, Scripts DEF StartDeploy, Flag
  <2> QED
    BY <1>3, <2>1
<1>6. CASE BuildImage
  <2>1. CASE script' = [script EXCEPT !.stage = "package", !.todo = members, !.blind = TRUE]
    <3>1. script'.blind
      BY <1>1, <2>1, Scripts
    <3> QED
      BY <3>1 DEF Informed
  <2>2. CASE AlreadyCommitted /\ Enter("recover")
    BY <1>1, <1>3, <2>2, Scripts
  <2>3. CASE ~AlreadyCommitted /\ Enter("package")
    BY <1>6, <2>3 DEF BuildImage, channel, Informed, AlreadyCommitted
  <2> QED
    BY <1>6, <2>1, <2>2, <2>3 DEF BuildImage
<1>7. CASE CheckCommitReadiness
  BY <1>1, <1>3, <1>4, <1>7, Scripts DEF CheckCommitReadiness
<1>8. CASE CommitDefinition
  BY <1>1, <1>3, <1>4, <1>8, Scripts DEF CommitDefinition
<1>9. CASE Proceed
  <2>1. CASE At("package") /\ Enter("approve") /\ UNCHANGED <<target, committed>>
    <3>1. script'.blind = script.blind /\ script.stage = "package"
      BY <1>1, <2>1, Scripts DEF At
    <3> QED
      BY <2>1, <3>1 DEF Informed, AlreadyCommitted
  <2>2. CASE Enter("start") \/ Enter("check") \/ Enter("init")
    BY <1>1, <1>3, <2>2, Scripts
  <2>3. script.stage \in DOMAIN After /\ Enter(After[script.stage]) =>
          \/ At("package") /\ Enter("approve")
          \/ Enter("start") \/ Enter("check")
    BY Stages DEF At
  <2> QED
    BY <1>4, <1>9, <2>1, <2>2, <2>3 DEF Proceed, channel
<1>10. CASE InvokeInit \/ Fail
  BY <1>4, <1>10 DEF InvokeInit, Fail
<1>11. ASSUME NEW o \in Org, Recover(o)
       PROVE  Informed'
  BY <1>1, <1>3, <1>11 DEF Recover, Turn, At, Script
<1>12. ASSUME NEW o \in Org, PackageAndInstall(o)
       PROVE  Informed'
  <2>1. script'.blind = script.blind /\ script'.stage = script.stage
    BY <1>12 DEF PackageAndInstall
  <2> QED
    BY <1>2, <1>12, <2>1 DEF PackageAndInstall, channel
<1>13. ASSUME NEW o \in Org, Approve(o) \/ StartContainer(o)
       PROVE  Informed'
  BY <1>1, <1>2, <1>4, <1>13, Scripts DEF Approve, StartContainer, channel
<1>14. CASE Edit \/ Reboot
  BY <1>1, <1>3, <1>14 DEF Edit, Reboot
<1>15. CASE Vote \/ StartAdd \/ AddStep \/ FailAdd
  <2>1. UNCHANGED <<script, target, committed>>
    BY <1>15 DEF Vote, StartAdd, AddStep, FailAdd, RequireActive, RegisterIdentities,
      MakeMspDirectory, CopyMsp, StartPeers, IsChannelMember, InjectOrg, SetAnchorPeers,
      JoinChannel, InstallPackage, ApproveForNew, StartForNew, FlipStatus, vars, channel
  <2> QED
    BY <1>2, <2>1
<1>16. CASE UNCHANGED allVars
  BY <1>2, <1>16 DEF allVars, vars, channel
<1> QED
  BY <1>5, <1>6, <1>7, <1>8, <1>9, <1>10, <1>11, <1>12, <1>13, <1>14, <1>15, <1>16
  DEF AddNext, Deploying, Next, DeployStep

BeforeCommit == script.stage \in {"build", "recover", "package", "approve", "check"}

LEMMA StepServes ==
  ASSUME Orderly, Informed, [AddNext]_allVars, ~script.blind, BeforeCommit,
         committed' = committed, NEW o \in Org, Serves(o)
  PROVE  Serves(o)'
<1>1. /\ script \in Script /\ members \subseteq Org /\ committed \in Definition
      /\ approvals \in [Org -> [Sequence -> Approval \cup {None}]] /\ target \in Target
  BY DEF Orderly, AddTypeOK, TypeOK, Serves
<1>2. ASSUME approvals'[o][committed.sequence] = approvals[o][committed.sequence],
             container' = container
      PROVE  Serves(o)'
  BY <1>2 DEF Serves
<1>3. script # Idle /\ add = NotAdding
  BY IdleScript DEF BeforeCommit, Orderly
<1>4. ~(Vote \/ StartAdd \/ AddStep \/ FailAdd) \/ UNCHANGED <<approvals, container>>
  BY <1>3, Dead DEF Vote, StartAdd, AddStep, FailAdd, RequireActive, RegisterIdentities,
    MakeMspDirectory, CopyMsp, StartPeers, IsChannelMember, InjectOrg, SetAnchorPeers, Adding,
    JoinChannel, InstallPackage, ApproveForNew, StartForNew, FlipStatus, vars, channel, docker
<1>5. ASSUME NEW x \in Org, Approve(x)
      PROVE  Serves(o)'
  <2>1. At("approve") /\ container' = container
    BY <1>5 DEF Approve, Turn, docker
  <2>2. ~AlreadyCommitted
    BY <2>1 DEF Informed, At
  <2>3. Approvable(Wanted) => target.sequence # committed.sequence
    <3>1. committed # None /\ target.sequence \in Nat /\ committed.sequence \in Nat
      BY <1>1, DeployConstants DEF Definition, Target, Sequence
    <3>2. Wanted # committed
      <4>1. Wanted.version = target.version /\ Wanted.sequence = target.sequence
        BY DEF Wanted
      <4> QED
        BY <2>2, <3>1, <4>1 DEF AlreadyCommitted
    <3>3. Wanted.sequence = target.sequence
      BY DEF Wanted
    <3> QED
      BY <3>1, <3>2, <3>3 DEF Approvable, NextSequence
  <2>4. approvals'[o][committed.sequence] = approvals[o][committed.sequence]
    <3>1. CASE UNCHANGED approvals
      BY <3>1
    <3>2. CASE Approvable(Wanted)
      <4>1. PICK a : approvals' = [approvals EXCEPT ![x][target.sequence] = a]
        BY <1>5, <3>2 DEF Approve
      <4>2. committed.sequence \in Sequence /\ target.sequence \in Sequence
        BY <1>1 DEF Definition, Target
      <4> QED
        BY <1>1, <2>3, <3>2, <4>1, <4>2
    <3> QED
      BY <1>5, <3>1, <3>2 DEF Approve
  <2> QED
    BY <1>2, <2>1, <2>4
<1>6. ASSUME NEW x \in Org, Recover(x) \/ PackageAndInstall(x) \/ StartContainer(x)
      PROVE  UNCHANGED <<approvals, container>>
  BY <1>6 DEF Recover, PackageAndInstall, StartContainer, Turn, At, BeforeCommit, channel, docker
<1>7. Fail => UNCHANGED <<approvals, container>>
  BY DEF Fail, At, BeforeCommit
<1>8. StartDeploy(Flag) \/ BuildImage \/ CheckCommitReadiness \/ CommitDefinition \/ Proceed
        \/ InvokeInit \/ Edit \/ Reboot
      => UNCHANGED <<approvals, container>>
  BY <1>3 DEF StartDeploy, BuildImage, CheckCommitReadiness, CommitDefinition, Proceed,
    InvokeInit, Edit, Reboot, channel, docker
<1>9. CASE UNCHANGED allVars
  BY <1>2, <1>9 DEF allVars, vars, channel, docker
<1> QED
  BY <1>2, <1>4, <1>5, <1>6, <1>7, <1>8, <1>9 DEF AddNext, Deploying, Next, DeployStep

\* A deploy that learnt what is committed takes no container out of service before it
\* commits, however often it was begun before (ServingSurvives).
THEOREM SafeRepeats == AddSpec => ServingSurvives
<1>1. AddInit => Informed
  BY IdleScript DEF AddInit, Init, Informed
<1>2. ASSUME Orderly, Informed, [AddNext]_allVars
      PROVE  [~script.blind /\ BeforeCommit /\ committed' = committed
                => \A o \in Org : Serves(o) => Serves(o)']_vars
  BY <1>2, StepServes
<1> QED
  BY <1>1, <1>2, StepInforms, AlwaysOrderly, PTL DEF AddSpec, ServingSurvives, BeforeCommit

-----------------------------------------------------------------------------
(* A new member takes part *)

\* What org-add.sh has behind it at each of its steps.
Onboarding ==
  /\ add.step \in {"anchor", "join", "install", "approve", "start", "flip"} => New \in channelOrgs
  /\ add.step \in {"install", "approve", "start", "flip"} => joined
  /\ add.step \in {"start", "flip"} =>
       /\ approvals[New][AddTarget.sequence] # None
       /\ approvals[New][AddTarget.sequence].package = add.package
  /\ add.step = "flip" => container[New] = add.package

LEMMA StepOnboards ==
  ASSUME Orderly, Onboarding, [AddNext]_allVars
  PROVE  Onboarding'
<1>1. /\ add \in Adds /\ New \in Org /\ AddTarget \in Target
      /\ approvals \in [Org -> [Sequence -> Approval \cup {None}]]
      /\ container \in [Org -> Package \cup {None}]
  BY AddConstants DEF Orderly, AddTypeOK, TypeOK
<1>2. \A s \in Step : Go(s) => add'.step = s /\ add'.package = add.package
  BY <1>1, Goes
<1>3. Die => add'.step = "none"
  BY Dead DEF Die
<1>4. add'.step \in {"none", "guard", "register", "mkdir", "copy", "peers", "member", "inject"}
        => Onboarding'
  BY DEF Onboarding
<1>5. ASSUME UNCHANGED <<channelOrgs, approvals, container, joined, add>>
      PROVE  Onboarding'
  BY <1>5 DEF Onboarding
<1>6. CASE Deploying(Next)
  <2>1. add'.step = "none"
    BY <1>6, Dead DEF Deploying, onboarding
  <2> QED
    BY <1>4, <2>1
<1>7. CASE Vote
  BY <1>5, <1>7 DEF Vote, vars, channel, docker
<1>8. CASE StartAdd \/ RequireActive \/ RegisterIdentities \/ MakeMspDirectory \/ CopyMsp
             \/ StartPeers \/ FlipStatus \/ FailAdd
  <2>1. add'.step \in {"none", "guard", "register", "mkdir", "copy", "peers", "member"}
    BY <1>2, <1>3, <1>8, Steps DEF StartAdd, RequireActive, RegisterIdentities,
      MakeMspDirectory, CopyMsp, StartPeers, FlipStatus, FailAdd, Step
  <2> QED
    BY <1>4, <2>1
<1>9. CASE IsChannelMember
  <2>1. add'.step = "inject" \/ (add'.step = "join" /\ New \in channelOrgs')
    BY <1>2, <1>9, Steps DEF IsChannelMember, Step, channel
  <2> QED
    BY <1>4, <2>1 DEF Onboarding
<1>10. CASE InjectOrg
  <2>1. add'.step = "none" \/ (add'.step = "anchor" /\ New \in channelOrgs')
    BY <1>2, <1>3, <1>10, Steps DEF InjectOrg, Step
  <2> QED
    BY <1>4, <2>1 DEF Onboarding
<1>11. CASE SetAnchorPeers
  <2>1. add.step = "anchor" /\ add'.step = "join" /\ channelOrgs' = channelOrgs
    BY <1>2, <1>11, Steps DEF SetAnchorPeers, Adding, Step, vars, channel
  <2> QED
    BY <2>1 DEF Onboarding
<1>12. CASE JoinChannel
  <2>1. /\ add.step = "join" /\ channelOrgs' = channelOrgs
        /\ add'.step = "none" \/ (add'.step = "install" /\ joined')
    BY <1>2, <1>3, <1>12, Steps DEF JoinChannel, Adding, Step, vars, channel
  <2> QED
    BY <1>4, <2>1 DEF Onboarding
<1>13. CASE InstallPackage
  <2>1. /\ add.step = "install" /\ channelOrgs' = channelOrgs /\ joined' = joined
        /\ add'.step = "approve"
    BY <1>13 DEF InstallPackage, Adding, channel
  <2> QED
    BY <2>1 DEF Onboarding
<1>14. CASE ApproveForNew
  <2>1. add.step = "approve" /\ channelOrgs' = channelOrgs /\ joined' = joined
    BY <1>14 DEF ApproveForNew, Adding
  <2>2. CASE Approvable(AddWanted)
    <3>1. /\ add'.step = "start" /\ add'.package = add.package
          /\ approvals' = [approvals EXCEPT ![New][AddTarget.sequence] =
               [version |-> AddTarget.version, init |-> AddWanted.init, package |-> add.package]]
      BY <1>2, <1>14, <2>2, Steps DEF ApproveForNew, Step
    <3>2. PICK a :
            /\ a = [version |-> AddTarget.version, init |-> AddWanted.init, package |-> add.package]
            /\ a.package = add.package /\ a # None
      <4>1. add.package \in Package
        BY <2>1 DEF Orderly
      <4>2. [version |-> AddTarget.version, init |-> AddWanted.init, package |-> add.package]
              \in Approval
        BY <1>1, <4>1 DEF AddWanted, Approval, Target, Adds
      <4> QED
        BY <4>2, DeployConstants
    <3>3. approvals'[New][AddTarget.sequence] = a
      <4>1. AddTarget.sequence \in Sequence
        BY <1>1 DEF Target
      <4> QED
        BY <1>1, <3>1, <3>2, <4>1
    <3> QED
      BY <2>1, <3>1, <3>2, <3>3 DEF Onboarding
  <2>3. CASE ~Approvable(AddWanted)
    BY <1>3, <1>4, <1>14, <2>3 DEF ApproveForNew
  <2> QED
    BY <2>2, <2>3
<1>15. CASE StartForNew
  <2>1. /\ add.step = "start" /\ add'.step = "flip" /\ add'.package = add.package
        /\ UNCHANGED <<channelOrgs, approvals, joined>>
    BY <1>2, <1>15, Steps DEF StartForNew, Adding, Step, channel
  <2>2. container'[New] = add.package
    BY <1>1, <1>15 DEF StartForNew
  <2> QED
    BY <2>1, <2>2 DEF Onboarding
<1>16. CASE UNCHANGED allVars
  BY <1>5, <1>16 DEF allVars, vars, channel, docker, onboarding
<1> QED
  BY <1>6, <1>7, <1>8, <1>9, <1>10, <1>11, <1>12, <1>13, <1>14, <1>15, <1>16 DEF AddNext, AddStep

\* The status only flips when the organization is in the channel, its peers joined, and
\* its container serves the package it approved at the sequence in use (NewMemberServes),
\* whatever died before and whatever version and sequence org-add.sh holds.
THEOREM ServingMembers == AddSpec => NewMemberServes
<1>1. AddInit => Onboarding
  BY Dead DEF AddInit, Onboarding
<1>2. ASSUME Orderly, Onboarding, [AddNext]_allVars, New \notin members, New \in members'
      PROVE  TakesPart
  <2>1. FlipStatus
    <3>1. Deploying(Next) => members' = members
      BY DEF Deploying, Next, DeployStep, StartDeploy, BuildImage, CheckCommitReadiness,
        CommitDefinition, Proceed, InvokeInit, Fail, Edit, Reboot, Recover, PackageAndInstall,
        Approve, StartContainer, channel
    <3>2. Vote \/ StartAdd \/ (AddStep /\ ~FlipStatus) \/ FailAdd => members' = members
      BY DEF Vote, StartAdd, AddStep, FailAdd, RequireActive, RegisterIdentities,
        MakeMspDirectory, CopyMsp, StartPeers, IsChannelMember, InjectOrg, SetAnchorPeers,
        JoinChannel, InstallPackage, ApproveForNew, StartForNew, vars, channel
    <3>3. UNCHANGED allVars => members' = members
      BY DEF allVars, vars, channel
    <3> QED
      BY <1>2, <3>1, <3>2, <3>3 DEF AddNext
  <2>2. add.step = "flip"
    BY <2>1 DEF FlipStatus, Adding
  <2>3. committed # None
    BY <1>2, <2>2 DEF Orderly
  <2> QED
    BY <1>2, <2>2, <2>3 DEF Onboarding, TakesPart, Serves
<1>3. ASSUME Orderly, Onboarding, [AddNext]_allVars
      PROVE  [New \notin members /\ New \in members' => TakesPart]_allVars
  BY <1>2, <1>3
<1> QED
  BY <1>1, <1>3, StepOnboards, AlwaysOrderly, PTL DEF AddSpec, NewMemberServes

-----------------------------------------------------------------------------
(* What a deploy leaves serves *)

\* The packages of the version that is deployed.
Held(o) == PackagesOf(o, target.version)

\* Members are in the channel, an organization approves packages it holds of the
\* version it approves, and members approved the definition in use.
Accounted ==
  /\ members \subseteq channelOrgs
  /\ \A o \in Org, s \in Sequence : approvals[o][s] # None =>
       approvals[o][s].package \in PackagesOf(o, approvals[o][s].version)
  /\ committed # None => \A o \in members :
       /\ approvals[o][committed.sequence] # None
       /\ approvals[o][committed.sequence].version = committed.version

\* What a deploy has behind it at each of its stages.
Ready ==
  /\ script.stage # "none" => outcome = "running"
  /\ At("recover") => \A o \in members \ script.todo : script.ids[o] \in Held(o) \cup {None}
  /\ At("package") => \A o \in members \ script.todo : script.ids[o] \in Held(o)
  /\ script.stage \in {"approve", "check", "commit"} =>
       \A o \in members : script.ids[o] \in Held(o)
  /\ At("commit") => \A o \in channelOrgs : Approves(o, Wanted)
  /\ At("start") => \A o \in members :
       /\ script.ids[o] \in Held(o) \cup {None}
       /\ o \notin script.todo => container[o] \in Held(o)
  /\ script.stage \in {"recover", "start", "init"} => AlreadyCommitted

Deployed ==
  At("init") \/ outcome = "deployed" =>
    AlreadyCommitted /\ \A o \in members : container[o] \in Held(o)

\* What org-add.sh has approved is the definition in use.
Adopted ==
  /\ add.step \in {"approve", "start", "flip"} =>
       add.package \in PackagesOf(New, AddTarget.version)
  /\ add.step \in {"start", "flip"} =>
       /\ committed.version = AddTarget.version /\ committed.sequence = AddTarget.sequence
       /\ approvals[New][AddTarget.sequence].version = AddTarget.version

Serving == Accounted /\ Ready /\ Deployed /\ Adopted

\* Packages are never removed.
Grown == \A o \in Org : installed[o] \subseteq installed'[o]

LEMMA KeepsAccounts ==
  ASSUME Accounted, Grown, UNCHANGED <<members, approvals, committed>>,
         channelOrgs \subseteq channelOrgs'
  PROVE  Accounted'
BY DEF Accounted, Grown, PackagesOf

LEMMA NewIsHeld ==
  ASSUME NEW o \in Org, NEW v, NEW p, p = NewPackage(o, v), Orderly,
         installed' = [installed EXCEPT ![o] = @ \cup {p}]
  PROVE  Grown /\ p \in installed'[o] /\ p.label = v
<1>1. p.label = v
  BY DEF NewPackage
<1>2. installed \in [Org -> SUBSET Package]
  BY DEF Orderly, AddTypeOK, TypeOK
<1> QED
  BY <1>1, <1>2 DEF Grown

\* One approval more, of the definition in use or of the one after it.
LEMMA ApprovalAccounts ==
  ASSUME Orderly, Accounted, NEW o \in Org, NEW d \in Definition, Approvable(d), NEW a \in Approval,
         a.version = d.version, a.package \in PackagesOf(o, d.version),
         approvals' = [approvals EXCEPT ![o][d.sequence] = a],
         UNCHANGED <<members, channelOrgs, committed, installed>>
  PROVE  Accounted'
<1>1. /\ approvals \in [Org -> [Sequence -> Approval \cup {None}]] /\ members \subseteq Org
      /\ committed # None => committed.sequence \in Nat /\ committed \in Definition
      /\ d.sequence \in Sequence /\ d.sequence \in Nat
  BY DeployConstants DEF Orderly, AddTypeOK, TypeOK, Definition, Sequence
<1>2. /\ approvals'[o][d.sequence] = a
      /\ \A x \in Org, s \in Sequence :
           (x = o /\ s = d.sequence) \/ approvals'[x][s] = approvals[x][s]
  BY <1>1
<1>3. a # None
  BY DeployConstants
<1>4. ASSUME NEW x \in Org, NEW s \in Sequence, approvals'[x][s] # None
      PROVE  approvals'[x][s].package \in PackagesOf(x, approvals'[x][s].version)
  <2>1. CASE x = o /\ s = d.sequence
    BY <1>2, <2>1
  <2>2. CASE approvals'[x][s] = approvals[x][s]
    BY <1>4, <2>2 DEF Accounted
  <2> QED
    BY <1>2, <2>1, <2>2
<1>5. ASSUME committed # None, NEW x \in members
      PROVE  /\ approvals'[x][committed.sequence] # None
             /\ approvals'[x][committed.sequence].version = committed.version
  <2>1. committed.sequence = d.sequence => d = committed
    BY <1>1, <1>5 DEF Approvable, NextSequence
  <2>2. committed.sequence \in Sequence /\ x \in Org
    BY <1>1, <1>5 DEF Definition
  <2>3. CASE x = o /\ committed.sequence = d.sequence
    BY <1>2, <1>3, <2>1, <2>3
  <2>4. CASE approvals'[x][committed.sequence] = approvals[x][committed.sequence]
    BY <1>5, <2>4 DEF Accounted
  <2> QED
    BY <1>2, <2>2, <2>3, <2>4
<1> QED
  BY <1>4, <1>5 DEF Accounted, PackagesOf

LEMMA DeployAccounts ==
  ASSUME Orderly, Accounted, Ready, Deploying(Next)
  PROVE  Accounted'
<1>1. /\ target \in Target /\ script \in Script /\ members \subseteq Org /\ Wanted \in Definition
      /\ Wanted.version = target.version /\ Wanted.sequence = target.sequence
  BY DEF Orderly, AddTypeOK, TypeOK, Wanted, Definition, Target, Script
<1>2. ASSUME UNCHANGED <<members, channelOrgs, approvals, committed, installed>>
      PROVE  Accounted'
  BY <1>2, KeepsAccounts DEF Grown
<1>3. ASSUME NEW o \in Org, PackageAndInstall(o)
      PROVE  Accounted'
  <2>1. PICK p : /\ p = NewPackage(o, target.version)
                 /\ installed' = [installed EXCEPT ![o] = @ \cup {p}]
    BY <1>3 DEF PackageAndInstall
  <2>2. Grown
    BY <2>1, NewIsHeld
  <2> QED
    BY <1>3, <2>2, KeepsAccounts DEF PackageAndInstall, channel
<1>4. ASSUME NEW o \in Org, Approve(o)
      PROVE  Accounted'
  <2>1. /\ At("approve") /\ o \in members
        /\ UNCHANGED <<members, channelOrgs, committed, installed>>
    BY <1>4 DEF Approve, Turn, Orderly, docker
  <2>2. CASE Approvable(Wanted)
    <3>1. script.ids[o] \in PackagesOf(o, target.version) /\ script.ids[o] \in Package
      BY <2>1 DEF Ready, Held, At, Orderly
    <3>2. PICK a \in Approval :
            a = [version |-> target.version, init |-> Wanted.init, package |-> script.ids[o]]
      BY <1>1, <3>1 DEF Approval, Target, Definition
    <3>3. approvals' = [approvals EXCEPT ![o][Wanted.sequence] = a]
      BY <1>1, <1>4, <2>2, <3>2 DEF Approve
    <3>4. a.version = Wanted.version /\ a.package \in PackagesOf(o, Wanted.version)
      BY <1>1, <3>1, <3>2
    <3> QED
      BY <1>1, <2>1, <2>2, <3>3, <3>4, ApprovalAccounts
  <2>3. CASE ~Approvable(Wanted)
    BY <1>2, <1>4, <2>1, <2>3 DEF Approve
  <2> QED
    BY <2>2, <2>3
<1>5. CASE CommitDefinition
  <2>1. CASE committed' = Wanted
    <3>1. /\ At("commit") /\ UNCHANGED <<members, channelOrgs, approvals, installed>>
      BY <1>5 DEF CommitDefinition, docker
    <3>2. \A o \in members : Approves(o, Wanted)
      BY <3>1 DEF Ready, Accounted
    <3>3. \A o \in members : /\ approvals[o][Wanted.sequence] # None
                             /\ approvals[o][Wanted.sequence].version = Wanted.version
      BY <3>2 DEF Approves
    <3>4. PICK d : d = Wanted
      OBVIOUS
    <3> QED
      BY <2>1, <3>1, <3>3, <3>4 DEF Accounted, PackagesOf
  <2>2. CASE UNCHANGED committed
    BY <1>2, <1>5, <2>2 DEF CommitDefinition, docker
  <2> QED
    BY <1>5, <2>1, <2>2 DEF CommitDefinition
<1>6. ASSUME \/ StartDeploy(Flag) \/ BuildImage \/ CheckCommitReadiness \/ Proceed
             \/ InvokeInit \/ Fail \/ Edit \/ Reboot
             \/ \E o \in Org : Recover(o) \/ StartContainer(o)
      PROVE  UNCHANGED <<members, channelOrgs, approvals, committed, installed>>
  BY <1>6 DEF StartDeploy, BuildImage, CheckCommitReadiness, Proceed, InvokeInit, Fail, Edit,
    Reboot, Recover, StartContainer, channel, docker
<1> QED
  BY <1>2, <1>3, <1>4, <1>5, <1>6 DEF Deploying, Next, DeployStep

LEMMA AddAdopts ==
  ASSUME AddTarget.sequence = 1, Orderly, Accounted, Adopted, [AddNext]_allVars
  PROVE  Adopted'
<1>1. /\ add \in Adds /\ New \in Org /\ AddTarget \in Target
      /\ installed \in [Org -> SUBSET Package]
      /\ approvals \in [Org -> [Sequence -> Approval \cup {None}]]
  BY AddConstants DEF Orderly, AddTypeOK, TypeOK
<1>2. \A s \in Step : Go(s) => add'.step = s /\ add'.package = add.package
  BY <1>1, Goes
<1>3. Die => add'.step = "none"
  BY Dead DEF Die
<1>4. add'.step \notin {"approve", "start", "flip"} => Adopted'
  BY DEF Adopted
<1>5. CASE Deploying(Next)
  <2>1. add'.step = "none"
    BY <1>5, Dead DEF Deploying, onboarding
  <2> QED
    BY <1>4, <2>1
<1>6. CASE \/ StartAdd \/ RequireActive \/ RegisterIdentities \/ MakeMspDirectory \/ CopyMsp
           \/ StartPeers \/ IsChannelMember \/ InjectOrg \/ SetAnchorPeers \/ JoinChannel
           \/ FlipStatus \/ FailAdd
  <2>1. add'.step \in {"none", "guard", "register", "mkdir", "copy", "peers", "member", "inject",
                       "anchor", "join", "install"}
    BY <1>2, <1>3, <1>6, Steps DEF StartAdd, RequireActive, RegisterIdentities,
      MakeMspDirectory, CopyMsp, StartPeers, IsChannelMember, InjectOrg, SetAnchorPeers,
      JoinChannel, FlipStatus, FailAdd, Step
  <2> QED
    BY <1>4, <2>1
<1>7. CASE InstallPackage
  <2>1. PICK p, init : /\ p = NewPackage(New, AddTarget.version)
                       /\ installed' = [installed EXCEPT ![New] = @ \cup {p}]
                       /\ add' = [step |-> "approve", package |-> p, init |-> init]
    BY <1>7 DEF InstallPackage
  <2>2. p = NewPackage(New, AddTarget.version) /\ installed' = [installed EXCEPT ![New] = @ \cup {p}]
    BY <2>1
  <2>3. p \in installed'[New] /\ p.label = AddTarget.version
    BY <1>1, <2>2, NewIsHeld
  <2>4. add'.step = "approve" /\ add'.package = p
    BY <2>1
  <2> QED
    BY <2>3, <2>4 DEF Adopted, PackagesOf
<1>8. CASE ApproveForNew
  <2>1. add.step = "approve" /\ committed' = committed /\ installed' = installed
    BY <1>8 DEF ApproveForNew, Adding, docker
  <2>2. CASE Approvable(AddWanted)
    <3>1. /\ add'.step = "start" /\ add'.package = add.package
          /\ approvals' = [approvals EXCEPT ![New][AddTarget.sequence] =
               [version |-> AddTarget.version, init |-> AddWanted.init, package |-> add.package]]
      BY <1>2, <1>8, <2>2, Steps DEF ApproveForNew, Step
    <3>2. approvals'[New][AddTarget.sequence].version = AddTarget.version
      <4>1. AddTarget.sequence \in Sequence
        BY <1>1 DEF Target
      <4> QED
        BY <1>1, <3>1, <4>1
    <3>3. committed = AddWanted
      <4>1. committed # None /\ committed.sequence \in Nat \ {0}
        BY <2>1, DeployConstants DEF Orderly, AddTypeOK, TypeOK, Definition, Sequence
      <4>2. AddWanted.sequence = 1
        BY DEF AddWanted
      <4> QED
        BY <2>2, <4>1, <4>2 DEF Approvable, NextSequence
    <3>4. AddWanted.version = AddTarget.version /\ AddWanted.sequence = AddTarget.sequence
      BY DEF AddWanted
    <3>5. add.package \in PackagesOf(New, AddTarget.version)
      BY <2>1 DEF Adopted
    <3> QED
      BY <2>1, <3>1, <3>2, <3>3, <3>4, <3>5 DEF Adopted, PackagesOf
  <2>3. CASE ~Approvable(AddWanted)
    BY <1>3, <1>4, <1>8, <2>3 DEF ApproveForNew
  <2> QED
    BY <2>2, <2>3
<1>9. CASE StartForNew
  <2>1. /\ add.step = "start" /\ add'.package = add.package
        /\ UNCHANGED <<approvals, committed, installed>>
    BY <1>2, <1>9, Steps DEF StartForNew, Adding, Step, channel
  <2> QED
    BY <2>1 DEF Adopted, PackagesOf
<1>10. CASE Vote \/ UNCHANGED allVars
  BY <1>10 DEF Vote, allVars, vars, channel, docker, onboarding, Adopted, PackagesOf
<1> QED
  BY <1>5, <1>6, <1>7, <1>8, <1>9, <1>10 DEF AddNext, AddStep

LEMMA AddAccounts ==
  ASSUME AddTarget.sequence = 1, Orderly, Onboarding, Accounted, Adopted,
         Vote \/ StartAdd \/ AddStep \/ FailAdd
  PROVE  Accounted'
<1>1. add \in Adds /\ New \in Org /\ AddTarget \in Target
  BY AddConstants DEF Orderly, AddTypeOK
<1>2. CASE InstallPackage
  <2>1. PICK p : /\ p = NewPackage(New, AddTarget.version)
                 /\ installed' = [installed EXCEPT ![New] = @ \cup {p}]
    BY <1>2 DEF InstallPackage
  <2>2. Grown
    BY <1>1, <2>1, NewIsHeld
  <2> QED
    BY <1>2, <2>2, KeepsAccounts DEF InstallPackage, channel
<1>3. CASE InjectOrg
  BY <1>3, KeepsAccounts DEF InjectOrg, docker, Grown
<1>4. CASE ApproveForNew
  <2>1. /\ add.step = "approve"
        /\ UNCHANGED <<members, channelOrgs, committed, installed>>
    BY <1>4 DEF ApproveForNew, Adding, docker
  <2>2. CASE Approvable(AddWanted)
    <3>1. /\ AddWanted \in Definition
          /\ AddWanted.version = AddTarget.version /\ AddWanted.sequence = AddTarget.sequence
      BY <1>1 DEF AddWanted, Definition, Target, Adds
    <3>2. add.package \in PackagesOf(New, AddTarget.version) /\ add.package \in Package
      BY <2>1 DEF Adopted, Orderly
    <3>3. PICK a \in Approval :
            a = [version |-> AddTarget.version, init |-> AddWanted.init, package |-> add.package]
      BY <1>1, <3>1, <3>2 DEF Approval, Target, Definition
    <3>4. approvals' = [approvals EXCEPT ![New][AddWanted.sequence] = a]
      BY <1>4, <2>2, <3>1, <3>3 DEF ApproveForNew
    <3>5. a.version = AddWanted.version /\ a.package \in PackagesOf(New, AddWanted.version)
      BY <3>1, <3>2, <3>3
    <3> QED
      BY <1>1, <2>1, <2>2, <3>1, <3>4, <3>5, ApprovalAccounts
  <2>3. CASE ~Approvable(AddWanted)
    BY <1>4, <2>1, <2>3, KeepsAccounts DEF ApproveForNew, Grown
  <2> QED
    BY <2>2, <2>3
<1>5. CASE FlipStatus
  <2>1. /\ add.step = "flip" /\ members' = members \cup {New}
        /\ UNCHANGED <<channelOrgs, approvals, committed, installed>>
    BY <1>5 DEF FlipStatus, Adding, docker
  <2>2. /\ New \in channelOrgs
        /\ approvals[New][committed.sequence] # None
        /\ approvals[New][committed.sequence].version = committed.version
    BY <2>1 DEF Onboarding, Adopted
  <2> QED
    BY <2>1, <2>2 DEF Accounted, PackagesOf
<1>6. ASSUME \/ Vote \/ StartAdd \/ RequireActive \/ RegisterIdentities \/ MakeMspDirectory
             \/ CopyMsp \/ StartPeers \/ IsChannelMember \/ SetAnchorPeers \/ JoinChannel
             \/ StartForNew \/ FailAdd
      PROVE  Accounted'
  <2>1. UNCHANGED <<members, channelOrgs, approvals, committed, installed>>
    BY <1>6 DEF Vote, StartAdd, RequireActive, RegisterIdentities, MakeMspDirectory, CopyMsp,
      StartPeers, IsChannelMember, SetAnchorPeers, JoinChannel, StartForNew, FailAdd, vars,
      channel, docker
  <2> QED
    BY <2>1, KeepsAccounts DEF Grown
<1> QED
  BY <1>2, <1>3, <1>4, <1>5, <1>6 DEF AddStep

\* org-add.sh runs beside no deploy and puts the package it approved into service.
LEMMA AddDeployed ==
  ASSUME Orderly, Onboarding, Adopted, Ready, Deployed, Vote \/ StartAdd \/ AddStep \/ FailAdd
  PROVE  Ready' /\ Deployed'
<1>1. /\ New \in Org /\ members \subseteq Org /\ AddTarget \in Target
      /\ installed \in [Org -> SUBSET Package]
      /\ container \in [Org -> Package \cup {None}]
  BY AddConstants DEF Orderly, AddTypeOK, TypeOK
<1>2. CASE Vote
  BY <1>2 DEF Vote, vars, channel, docker, Ready, Deployed, Held, PackagesOf, At,
    AlreadyCommitted, Approves, Wanted
<1>3. CASE StartAdd \/ AddStep \/ FailAdd
  <2>1. /\ script = Idle /\ UNCHANGED <<script, outcome, target, committed>>
    <3>1. script = Idle
      BY <1>3, Dead DEF StartAdd, FailAdd, AddStep, RequireActive, RegisterIdentities,
        MakeMspDirectory, CopyMsp, StartPeers, IsChannelMember, InjectOrg, SetAnchorPeers,
        JoinChannel, InstallPackage, ApproveForNew, StartForNew, FlipStatus, Adding, Orderly
    <3> QED
      BY <1>3, <3>1 DEF StartAdd, FailAdd, AddStep, RequireActive, RegisterIdentities,
        MakeMspDirectory, CopyMsp, StartPeers, IsChannelMember, InjectOrg, SetAnchorPeers,
        JoinChannel, InstallPackage, ApproveForNew, StartForNew, FlipStatus, vars, channel
  <2>2. Ready'
    BY <2>1, IdleScript DEF Ready, At
  <2>3. ASSUME outcome = "deployed"
        PROVE  AlreadyCommitted' /\ \A o \in members' : container'[o] \in Held(o)'
    <3>1. AlreadyCommitted' /\ committed.version = target.version
          /\ \A o \in members : container[o] \in Held(o)
      BY <2>1, <2>3 DEF Deployed, AlreadyCommitted
    <3>2. CASE InstallPackage
      <4>1. PICK p : /\ p = NewPackage(New, AddTarget.version)
                     /\ installed' = [installed EXCEPT ![New] = @ \cup {p}]
        BY <3>2 DEF InstallPackage
      <4>2. Grown /\ UNCHANGED <<members, container, target>>
        BY <1>1, <3>2, <4>1, NewIsHeld DEF InstallPackage, channel
      <4> QED
        BY <1>1, <3>1, <4>2 DEF Grown, Held, PackagesOf
    <3>3. CASE StartForNew
      <4>1. /\ add.step = "start" /\ container' = [container EXCEPT ![New] = add.package]
            /\ UNCHANGED <<members, installed, target>>
        BY <3>3 DEF StartForNew, Adding, channel
      <4>2. add.package \in Held(New)
        BY <3>1, <4>1 DEF Adopted, Held
      <4> QED
        BY <1>1, <3>1, <4>1, <4>2 DEF Held, PackagesOf
    <3>4. CASE FlipStatus
      <4>1. /\ add.step = "flip" /\ members' = members \cup {New}
            /\ UNCHANGED <<container, installed, target>>
        BY <3>4 DEF FlipStatus, Adding, docker
      <4>2. container[New] \in Held(New)
        BY <3>1, <4>1 DEF Adopted, Onboarding, Held
      <4> QED
        BY <3>1, <4>1, <4>2 DEF Held, PackagesOf
    <3>5. ASSUME \/ StartAdd \/ RequireActive \/ RegisterIdentities \/ MakeMspDirectory
                 \/ CopyMsp \/ StartPeers \/ IsChannelMember \/ InjectOrg \/ SetAnchorPeers
                 \/ JoinChannel \/ ApproveForNew \/ FailAdd
          PROVE  UNCHANGED <<members, container, installed, target>>
      BY <3>5 DEF StartAdd, RequireActive, RegisterIdentities, MakeMspDirectory, CopyMsp,
        StartPeers, IsChannelMember, InjectOrg, SetAnchorPeers, JoinChannel, ApproveForNew,
        FailAdd, vars, channel, docker
    <3>6. UNCHANGED <<members, container, installed, target>> =>
            \A o \in members' : container'[o] \in Held(o)'
      BY <3>1 DEF Held, PackagesOf
    <3> QED
      BY <1>3, <3>1, <3>2, <3>3, <3>4, <3>5, <3>6 DEF AddStep
  <2> QED
    BY <2>1, <2>2, <2>3, IdleScript DEF Deployed, At
<1> QED
  BY <1>2, <1>3

LEMMA StepIsReady ==
  ASSUME Orderly, Accounted, Ready, Deployed, Deploying(Next)
  PROVE  Ready' /\ Deployed'
<1>1. /\ script \in Script /\ members \subseteq Org /\ target \in Target
      /\ installed \in [Org -> SUBSET Package]
      /\ container \in [Org -> Package \cup {None}]
      /\ script.todo \subseteq members
  BY DEF Orderly, AddTypeOK, TypeOK
<1>2. ASSUME NEW o, Stop(o), o # "deployed"
      PROVE  Ready' /\ Deployed'
  BY <1>2, IdleScript DEF Stop, Ready, Deployed, At
<1>3. ASSUME script' = Idle, outcome' = "none"
      PROVE  Ready' /\ Deployed'
  BY <1>3, IdleScript DEF Ready, Deployed, At
<1>4. CASE StartDeploy(Flag)
  <2>1. script'.stage = "build" /\ outcome' = "running"
    BY <1>1, <1>4, Scripts DEF StartDeploy, Flag
  <2> QED
    BY <2>1 DEF Ready, Deployed, At
<1>5. CASE BuildImage
  <2>1. At("build") /\ outcome' = outcome /\ UNCHANGED <<target, channel, docker>>
    BY <1>5 DEF BuildImage
  <2>2. outcome' = "running"
    BY <2>1 DEF Ready, At
  <2>3. /\ script'.todo = members
        /\ script'.stage = "package" \/ (script'.stage = "recover" /\ AlreadyCommitted)
    BY <1>1, <1>5, Scripts DEF BuildImage
  <2> QED
    BY <2>1, <2>2, <2>3 DEF Ready, Deployed, At, AlreadyCommitted, channel
<1>6. ASSUME NEW o \in Org, Recover(o)
      PROVE  Ready' /\ Deployed'
  <2>1. /\ At("recover") /\ outcome' = "running"
        /\ UNCHANGED <<target, channel, docker>> /\ AlreadyCommitted
    BY <1>6 DEF Recover, Turn, Ready, At
  <2>2. PICK p \in Held(o) \cup {None} : script' = [script EXCEPT !.todo = @ \ {o}, !.ids[o] = p]
    BY <1>6 DEF Recover, Held
  <2>3. p \in Package \cup {None}
    BY <1>1, <2>2 DEF Held, PackagesOf
  <2>4. /\ script'.stage = "recover" /\ script'.todo = script.todo \ {o} /\ script'.ids[o] = p
        /\ \A x \in Org \ {o} : script'.ids[x] = script.ids[x]
    BY <1>1, <2>1, <2>2, <2>3, Scripts DEF At
  <2>5. \A x \in members \ script'.todo : script'.ids[x] \in Held(x) \cup {None}
    BY <1>1, <2>1, <2>2, <2>4 DEF Ready
  <2> QED
    BY <2>1, <2>4, <2>5 DEF Ready, Deployed, At, AlreadyCommitted, Held, PackagesOf, channel, docker
<1>7. ASSUME NEW o \in Org, PackageAndInstall(o)
      PROVE  Ready' /\ Deployed'
  <2>1. /\ At("package") /\ outcome' = "running" /\ UNCHANGED <<target, channel, container>>
    BY <1>7 DEF PackageAndInstall, Turn, Ready, At
  <2>2. PICK p \in Package : /\ p = NewPackage(o, target.version)
                             /\ installed' = [installed EXCEPT ![o] = @ \cup {p}]
                             /\ script' = [script EXCEPT !.todo = @ \ {o}, !.ids[o] = p]
    BY <1>7 DEF PackageAndInstall
  <2>3. Grown /\ p \in installed'[o] /\ p.label = target.version
    BY <2>2, NewIsHeld
  <2>4. /\ script'.stage = "package" /\ script'.todo = script.todo \ {o} /\ script'.ids[o] = p
        /\ \A x \in Org \ {o} : script'.ids[x] = script.ids[x]
    BY <1>1, <2>1, <2>2, Scripts DEF At
  <2>5. \A x \in members \ script'.todo :
          script'.ids[x] \in installed'[x] /\ script'.ids[x].label = target.version
    BY <1>1, <2>1, <2>3, <2>4 DEF Ready, Held, PackagesOf, Grown
  <2> QED
    BY <2>1, <2>4, <2>5 DEF Ready, Deployed, At, Held, PackagesOf, channel
<1>8. ASSUME NEW o \in Org, Approve(o)
      PROVE  Ready' /\ Deployed'
  <2>1. CASE EndTurn(o) /\ UNCHANGED outcome
    <3>1. /\ At("approve") /\ outcome' = "running" /\ UNCHANGED <<target, members, installed>>
      BY <1>8, <2>1 DEF Approve, Turn, Ready, At, docker
    <3>2. script'.stage = "approve" /\ script'.ids = script.ids
      BY <1>1, <2>1, <3>1, Scripts DEF At
    <3> QED
      BY <3>1, <3>2 DEF Ready, Deployed, At, Held, PackagesOf
  <2>2. CASE Stop("failed")
    BY <1>2, <2>2
  <2> QED
    BY <1>8, <2>1, <2>2 DEF Approve
<1>9. CASE CheckCommitReadiness
  <2>1. CASE (\A o \in channelOrgs : Approves(o, Wanted)) /\ Enter("commit") /\ UNCHANGED outcome
    <3>1. At("check") /\ outcome' = "running" /\ UNCHANGED <<target, channel, docker>>
      BY <1>9, <2>1 DEF CheckCommitReadiness, Ready, At
    <3>2. /\ script'.stage = "commit" /\ script'.ids = script.ids /\ script'.init = script.init
      BY <1>1, <2>1, Scripts
    <3>3. (\A o \in channelOrgs : Approves(o, Wanted))'
      BY <2>1, <3>1, <3>2 DEF Approves, Wanted, channel
    <3> QED
      BY <3>1, <3>2, <3>3 DEF Ready, Deployed, At, Held, PackagesOf, channel, docker
  <2>2. CASE Stop("failed")
    BY <1>2, <2>2
  <2> QED
    BY <1>9, <2>1, <2>2 DEF CheckCommitReadiness
<1>10. CASE CommitDefinition
  <2>1. CASE committed' = Wanted /\ Enter("start") /\ UNCHANGED outcome
    <3>1. At("commit") /\ outcome' = "running" /\ UNCHANGED <<target, members, docker>>
      BY <1>10, <2>1 DEF CommitDefinition, Ready, At
    <3>2. script'.stage = "start" /\ script'.todo = members /\ script'.ids = script.ids
      BY <1>1, <2>1, Scripts
    <3>3. AlreadyCommitted'
      <4>1. Wanted \in Definition /\ Wanted.version = target.version
            /\ Wanted.sequence = target.sequence
        BY <1>1 DEF Wanted, Definition, Target, Script
      <4> QED
        BY <2>1, <3>1, <4>1, DeployConstants DEF AlreadyCommitted
    <3> QED
      BY <3>1, <3>2, <3>3 DEF Ready, Deployed, At, Held, PackagesOf, docker
  <2>2. CASE Stop("failed")
    BY <1>2, <2>2
  <2> QED
    BY <1>10, <2>1, <2>2 DEF CommitDefinition
<1>11. ASSUME NEW o \in Org, StartContainer(o)
       PROVE  Ready' /\ Deployed'
  <2>1. CASE script.ids[o] # None /\ EndTurn(o) /\ UNCHANGED outcome
    <3>1. /\ At("start") /\ outcome' = "running" /\ UNCHANGED <<target, members, installed, committed>>
          /\ container' = [container EXCEPT ![o] = script.ids[o]] /\ o \in members
          /\ AlreadyCommitted
      BY <1>1, <1>11, <2>1 DEF StartContainer, Turn, Ready, At, channel
    <3>2. /\ script'.stage = "start" /\ script'.todo = script.todo \ {o}
          /\ script'.ids = script.ids
      BY <1>1, <2>1, <3>1, Scripts DEF At
    <3>3. script.ids[o] \in Held(o)
      BY <2>1, <3>1 DEF Ready
    <3>4. \A x \in members : x \notin script'.todo => container'[x] \in Held(x)
      BY <1>1, <3>1, <3>2, <3>3 DEF Ready
    <3> QED
      BY <3>1, <3>2, <3>4 DEF Ready, Deployed, At, Held, PackagesOf, AlreadyCommitted
  <2>2. CASE Stop("failed")
    BY <1>2, <2>2
  <2> QED
    BY <1>11, <2>1, <2>2 DEF StartContainer
<1>12. CASE Proceed
  <2>1. UNCHANGED <<target, channel, docker>> /\ script.todo = {}
    BY <1>12 DEF Proceed
  <2>2. AlreadyCommitted => AlreadyCommitted'
    BY <2>1 DEF AlreadyCommitted, channel
  <2>3. CASE At("recover") /\ Enter("start") /\ UNCHANGED outcome
    <3>1. script'.stage = "start" /\ script'.todo = members /\ script'.ids = script.ids
      BY <1>1, <2>3, Scripts
    <3>2. outcome' = "running" /\ AlreadyCommitted'
      BY <2>2, <2>3 DEF Ready, At
    <3> QED
      BY <2>1, <2>3, <3>1, <3>2 DEF Ready, Deployed, At, Held, PackagesOf, channel, docker
  <2>4. CASE \/ At("package") /\ Enter("approve") /\ UNCHANGED outcome
             \/ At("approve") /\ Enter("check") /\ UNCHANGED outcome
    <3>1. script'.stage \in {"approve", "check"} /\ script'.ids = script.ids
      BY <1>1, <2>4, Scripts
    <3>2. outcome' = "running"
      BY <2>4 DEF Ready, At
    <3>3. \A o \in members : script.ids[o] \in Held(o)
      BY <2>1, <2>4 DEF Ready, At
    <3> QED
      BY <2>1, <3>1, <3>2, <3>3 DEF Ready, Deployed, At, Held, PackagesOf, channel, docker
  <2>5. At("start") => AlreadyCommitted' /\ \A o \in members : container[o] \in Held(o)
    BY <2>1, <2>2 DEF Ready, At
  <2>6. CASE At("start") /\ Enter("init") /\ UNCHANGED outcome
    <3>1. script'.stage = "init" /\ outcome' = "running"
      BY <1>1, <2>6, Scripts DEF Ready, At
    <3> QED
      BY <2>1, <2>5, <2>6, <3>1 DEF Ready, Deployed, At, Held, PackagesOf, channel, docker
  <2>7. CASE At("start") /\ Stop("deployed")
    BY <2>1, <2>5, <2>7, IdleScript DEF Stop, Ready, Deployed, At, Held, PackagesOf, channel, docker
  <2>8. script.stage \in DOMAIN After /\ Enter(After[script.stage]) =>
          \/ At("recover") /\ Enter("start")
          \/ At("package") /\ Enter("approve")
          \/ At("approve") /\ Enter("check")
    BY Stages DEF At
  <2> QED
    BY <1>12, <2>3, <2>4, <2>6, <2>7, <2>8 DEF Proceed
<1>13. CASE InvokeInit
  <2>1. /\ At("init") /\ UNCHANGED <<target, members, committed, docker>>
        /\ Stop("deployed") \/ Stop("failed")
    BY <1>13 DEF InvokeInit
  <2>2. CASE Stop("deployed")
    BY <2>1, <2>2, IdleScript DEF Stop, Ready, Deployed, At, Held, PackagesOf, docker, AlreadyCommitted
  <2> QED
    BY <1>2, <2>1, <2>2
<1>14. CASE Fail
  BY <1>2, <1>14 DEF Fail
<1>15. CASE Edit \/ Reboot
  BY <1>3, <1>15 DEF Edit, Reboot
<1> QED
  BY <1>4, <1>5, <1>6, <1>7, <1>8, <1>9, <1>10, <1>11, <1>12, <1>13, <1>14, <1>15
  DEF Deploying, Next, DeployStep

LEMMA StepServing ==
  ASSUME AddTarget.sequence = 1, Orderly, Onboarding, Serving, [AddNext]_allVars
  PROVE  Serving'
<1>1. Adopted'
  BY AddAdopts DEF Serving
<1>2. CASE Deploying(Next)
  BY <1>1, <1>2, DeployAccounts, StepIsReady DEF Serving
<1>3. CASE Vote \/ StartAdd \/ AddStep \/ FailAdd
  BY <1>1, <1>3, AddAccounts, AddDeployed DEF Serving
<1>4. CASE UNCHANGED allVars
  BY <1>1, <1>4 DEF allVars, vars, channel, docker, Serving, Accounted, Ready, Deployed, Held,
    PackagesOf, At, AlreadyCommitted, Approves, Wanted
<1> QED
  BY <1>2, <1>3, <1>4 DEF AddNext

\* An organization has finitely many packages of one version.
LEMMA FinitelyMany ==
  ASSUME Orderly, NEW o \in Org, NEW v
  PROVE  IsFiniteSet(PackagesOf(o, v))
<1>1. PackagesOf(o, v) \subseteq Package
  BY DEF Orderly, AddTypeOK, TypeOK, PackagesOf
<1>2. IsFiniteSet(1..MaxPackages)
  BY DeployConstants, FS_Interval
<1>3. PICK f : f = [p \in PackagesOf(o, v) |-> p.number]
  OBVIOUS
<1>4. f \in [PackagesOf(o, v) -> 1..MaxPackages]
  BY <1>1, <1>3 DEF Package
<1>5. ASSUME NEW p \in PackagesOf(o, v), NEW q \in PackagesOf(o, v), f[p] = f[q]
      PROVE  p = q
  BY <1>1, <1>3, <1>5 DEF Package, PackagesOf
<1>6. f \in Injection(PackagesOf(o, v), 1..MaxPackages)
  BY <1>4, <1>5 DEF Injection, IsInjective
<1> QED
  BY <1>2, <1>6, FS_Injection

\* org-add.sh is written for the first sequence (org-add.sh:80).  Then every deploy that
\* succeeds, and every organization added after it, leaves the members with containers
\* their peers can use, unless a label stands for several packages
\* (SinglePackageServes), in whatever order the scripts run, fail and run again.
THEOREM DeploysServe ==
  ASSUME AddTarget.sequence = 1
  PROVE  AddSpec => []SinglePackageServes
<1>1. AddInit => Onboarding /\ Serving
  BY IdleScript, Dead DEF AddInit, Init, Onboarding, Serving, Accounted, Ready, Deployed,
    Adopted, At
<1>2. ASSUME Orderly, Serving
      PROVE  SinglePackageServes
  <2> SUFFICES ASSUME outcome = "deployed", NEW o \in members,
                      Cardinality(PackagesOf(o, target.version)) = 1
               PROVE  Serves(o)
    BY DEF SinglePackageServes
  <2>1. /\ o \in Org /\ committed # None /\ committed.version = target.version
        /\ committed.sequence \in Sequence /\ container[o] \in Held(o)
    BY <1>2 DEF Orderly, AddTypeOK, TypeOK, Definition, Serving, Deployed, AlreadyCommitted
  <2>2. /\ approvals[o][committed.sequence] # None
        /\ approvals[o][committed.sequence].package \in Held(o)
    BY <1>2, <2>1 DEF Serving, Accounted, Held
  <2>3. PICK p : PackagesOf(o, target.version) = {p}
    BY <1>2, <2>1, FinitelyMany, FS_Singleton
  <2> QED
    BY <2>1, <2>2, <2>3 DEF Serves, Held
<1> QED
  BY <1>1, <1>2, StepServing, StepOnboards, AlwaysOrderly, PTL DEF AddSpec

=============================================================================
