# Verification of the BLC consortium network

TLA+ specifications of the programs in this repository, TLC configurations that
model-check them on small instances, and TLAPS proofs of what can be shown for every
instance. Paths are relative to the repository root; `governance.go` without a path is
`chaincode/institution-cc/governance.go`, and so on for the other file names that
occur only once.

## 1. The system

A consortium of institutions shares a Hyperledger Fabric channel. Each institution runs
a backend, which submits transactions to two chaincodes, and a frontend over that
backend. Scripts build and grow the network. A small service relays a product manager's
Slack answers to GitHub.

| component | state it keeps | operations | interacts with |
|---|---|---|---|
| `institution-cc` | founding list; `Institution`, `MembershipProposal` and `Vote` records | `InitLedger`, `RegisterInstitution`, `ProposeNewMember`, `CastVote`; queries | invoked by backends and by `certificate-cc` |
| `certificate-cc` | `Certificate` records, the consortium counter, one counter per issuer | `IssueCertificate`, `RevokeCertificate`; queries, `VerifyCertificate` | reads `institution-cc` through `InvokeChaincode` |
| Fabric (external) | committed world state with versions, transactions in flight | endorse, order, validate (MVCC) and commit | runs both chaincodes |
| backend | the API key in a credential file; a gRPC connection | one `submitTransaction` or `evaluateTransaction` per request; credential rotation | Fabric gateway; frontend |
| frontend | session cookie; credential override file | pages, server actions, session redirects | backend of the session's institution |
| `slack-relay` | three deduplication layers, one of them on disk | one handler per delivered event | Slack (Socket Mode, Web API), GitHub |
| `network.sh`, `bootstrap-crypto.sh` | containers, CA databases, crypto material, channel | up, down, wipe | Fabric binaries |
| `chaincode.sh` | installed packages, approvals, committed definition | deploy (also for an upgrade), teardown | peers of every organization |
| `org-add.sh` | channel configuration, `network.yaml` status, the new peer | seven stages, skipped when found done | everything above |
| `blcgen` | none | `network.yaml` to compose files, connection profiles, `configtx` | read by the scripts |
| GitHub workflows | issue and project state on GitHub | scheduled scripts | GitHub |

### What is hard, and what correct means

*Governance.* Requests of several institutions are endorsed on a snapshot and commit
later. `CastVote` is a read-modify-write of two counters and may create a member; the
electorate is counted when a proposal is made although the membership changes while the
vote runs; `ProposeNewMember` decides on the result of rich queries, which Fabric does
not validate. Correct means: no vote lost or counted twice, the outcome follows from the
votes, no proposal can neither pass nor fail, only an approved or founding institution is
a member, an approval admits in the same transaction, settled things stay settled.

*Certificates.* Every issuer increments the same counter. Correct means: numbers without
gap or repetition, the issuer's own numbers in the same order, only members issue, only
the issuer revokes, once.

*Backend and frontend.* A timeout leaves the outcome of a transaction unknown, and a
person retries, or has the same list open in two tabs. The credential is stored in two
files of two processes that are written one after the other. Two checks of one session
cookie have to agree. Correct means: what the portal tells its user is true, what it calls
an error has not happened, a retry counts once, every button comes back; a credential is
replaced as by compare-and-swap, and an institution is only locked out of its backend for a
reason; a browser neither loses a session nor is redirected for ever.

*Slack relay.* Handlers interleave at every `await`; Slack redelivers events; requests to
Slack and GitHub fail, or succeed without an answer; the process restarts. Correct means:
a thread is relayed once unless something failed at the one moment that cannot be
protected, success is never claimed falsely, no failure blocks a thread for ever, and a
comment lands on the issue the reply answers.

*Scripts.* Each is a sequence of external effects that may die anywhere and is run again.
Correct means: running again reaches the same end as running once, and the flag in
`network.yaml` agrees with the channel.

## 2. The modules

```
InstitutionCC ── GovernanceLedger ── GovernanceRefinement ─┬─ MCGovernanceLedger
     │                                    └ INSTANCE MembershipVoting
     ├ MCInstitutionCC                                     └─ GovernanceProofs
     └ INSTANCE in Portal
CertificateLedger ── CertificateRefinement ─┬─ MCCertificateLedger
                       └ INSTANCE CertificateRegistry
                                            └─ CertificateProofs
PortalErrors ── Portal ─┬─ PortalProofs
                        └─ MCPortal (with PortalSession)
PortalSession ── SessionProofs
BackendBoot ── CredentialRotation ─┬─ MCCredentialRotation
                  └ INSTANCE CredentialRegister
                                   └─ CredentialProofs
LinkResolver ── SlackRelay ─┬─ MCSlackRelay
                            └─ RelayProofs
ChaincodeLifecycle ── OrgAdd ─┬─ MCOrgAdd
                              └─ OrgAddProofs
NetworkLifecycle ── NetworkProofs
```

A line is EXTENDS. The MC modules give the constants their values for TLC; the others are
parameterised.

**InstitutionCC** (`institution-cc/governance.go`, `model.go`). A chaincode function is
split in two: its guard (`CanPropose`, `CanVote`, ...: the early returns of the function,
in the order of the code) and the records it writes (`NewProposal`, `VotedProposal`,
`Admission`). The actions `InitLedger`, `RegisterInstitution`, `ProposeNewMember` and
`CastVote` apply them at once: that is what the unit tests exercise, one transaction at a
time. `founding`, `institutions`, `proposals` and `votes` are the four kinds of keys.
Names, timestamps and identifiers nothing depends on are left out.

**GovernanceLedger** puts Fabric in between. `Endorse*(k, ...)` simulates a function for
request `k` on the committed state: it keeps in `inflight[k]` what will be written and
the keys that were read. `Commit*(k)` applies the writes if the transaction is not stale
and marks every other transaction that read one of the keys written (`Retire`):
optimistic concurrency control seen from the writer. `Discard(k)` covers everything that
ends without a commit: MVCC conflict, peers that disagree, a lost or abandoned request.
Read sets follow the calls to `GetState` and the keys a rich query *iterates over*; a
query adds nothing for what it does not return, and `hasLiveProposalForApplicant` only
succeeds when its query returns nothing.

`IsCurrent(t)` says that a transaction holds what its function would compute now, and
`SerialStep` is the ledger without transactions: the four functions run alone, except that
a new proposal only has to be one that `ProposeNewMember` could have written for *some*
result of its rich queries (`OpenProposal`), since nothing validates those.

**MembershipVoting** is the promise: a charter, a membership that grows, ballots that are
two sets of voters against a fixed electorate. It has no counters, no status and no
transactions. **GovernanceRefinement** maps the ledger to it, taking the voters from the
`Vote` records, so that `ImplementsVoting` fails as soon as the counters or the status
disagree with the votes.

**CertificateLedger** does for `certificate-cc` what GovernanceLedger does for
`institution-cc`; `WriteInstitution(i)` is the environment, a commit of `institution-cc`
that writes the key `certificate-cc` read across chaincodes.
**CertificateRegistry** is its promise, an append-only register whose line numbers are
the certificates' numbers, and **CertificateRefinement** the mapping.

**LinkResolver** (`linkResolver.ts`) is a pure module: a nudge is a sequence of lines with
the issues they link and their distinctive words, a reply is the issues it mentions and
its words, and the result is the set of issues the reply may be about.

**SlackRelay** (`relayHandler.ts`, `dedupeStore.ts`, `socketReceiver.ts`,
`eventFilter.ts`). `handler[h]` is one run of `handleSocketMessage`; an action is the code
between two `await`s, so its label says which promise it waits for. `Restart` is a crash
and a start: memory is gone, `relayedThreads` comes from the file; requests that were
under way may still have created their comment. `CommentFails(h, TRUE)` is the answer that
got lost after the comment was created, `CommentPosted(h, FALSE)` the failed write of the
store.

**NetworkLifecycle** (`network.sh`, `bootstrap-crypto.sh`, `lib/crypto.sh`). `script` is the
command that runs, with `CURRENT_STAGE` and the turns its loop has left; everything else is
what a command leaves behind when it dies: the CA databases under `crypto/ca-servers`
(`registered`), the enrolled material (`enrolled`, by the *generation* of the CA that signed
it), `genesis.pb`, the containers, the ledgers. `Register` and `Enroll` are the two halves of
`bootstrap_org` for one organization; `Join` is one turn of stages 8 and 9. `Fail` ends a
command at any point, and `Advice` is the sentence `on_up_error` prints; `outcome` is what
the operator therefore knows, `"silent"` when the script left by `exit`, past the ERR trap.

**ChaincodeLifecycle** (`chaincode.sh deploy`, `lib/chaincode.sh`, `lib/orgs.sh`). The state of
Fabric's peer lifecycle is explicit: `approvals` per organization and sequence, the
`committed` definition, the packages `installed`, and the package each container was started
with. A package is named by its label and a number, because the archive holds times and
packaging again gives another identifier. `Approvable`, `NextSequence` and `Serves` are the
rules of Fabric the scripts rely on, marked external. The operator edits `CC_VERSION` and
`CC_SEQUENCE` between runs (`Edit`), the host may reboot (`Reboot`), and `--init-function`
is given as `docs/ERROR_LOG.md:432` asks: until the founding list exists, and never again.

**OrgAdd** (`org-add.sh`) EXTENDS it by one pending organization and the seven stages, each
split where a run may die between two effects: stage 2 into the registration, the MSP
directory, its contents and the peers; stage 6 into install, approve and container. The
questions a later run asks (`org_crypto_exists`, `is_channel_member`) are steps of their own.
Three queries of the two scripts stand where `set -e` does not reach, and their failure is
taken for an answer (`Unanswered`): not committed, not a channel member, no Init required.
`Vote` stands for the vote of GovernanceLedger: it needs a chaincode that answers, which
ties the two scripts together. One script runs at a time.

**PortalErrors** (`fabric-exception.filter.ts`, `error-messages.ts`) is a pure module: the
backend's map from an exception to a status, and the portal's map from its message to a
sentence. The wordings the filter lumps together are one set; what matters is the order in
which the two sides test them.

**Portal** (the controllers and services of `src/backend`, the pages, forms and server
actions of `src/frontend`) puts one tab, the server actions behind its buttons, the backends
and the ledger together. `Get` is the routing and the handlers of both controllers: `Routes`
are in the order of declaration and the first that matches answers. `Fetches` says what each
page asks for, one query at a time, so that the ledger may change in between; `view[t].got`
is what it has. A button starts an entry of `request`: `Submit` is the server action up to
its POST, `Endorse` the guard and the simulation, `Commit` the block, `Answer` and
`LoseTrack` the two ways in which the portal learns something, after which the action
rerenders the page (`Rerender`). `BreakOff` is an answer that ends behind its status: an error
loses its message and has the generic sentence; a success cannot be parsed, which is no
`BackendError`, so the action throws it on (`Throw`) to the error page of Next.js and nothing is
revalidated. The chaincode functions are those of InstitutionCC, taken
with INSTANCE; `Elsewhere` is every other client of the ledger.

**PortalSession** (`proxy.ts`, `session.ts`, `actions/auth.ts`) has what Portal leaves out:
signing in and out. `cookie` is the browser's, `tab[t]` a request on its way through the
proxy (`Proxy`), the page's own check (`RequireSession`) or the actions, and back
(`Receive`). A request carries the cookie of the moment it was sent; an answer changes it
when it arrives. `NextResponse.redirect` (proxy.ts:38,44) answers 307, so the browser repeats a
form's POST at the target (`"repeat"`), where the proxy may let it through to the action
(`LetThrough`): a login filled in on a stale page is run at `/`, a logout after the session's
end arrives at `/login`. A page without the form may know its action (the navigation bar
imports `actions/auth.ts`) or not (`ActionNotFound`).

**BackendBoot** (`env.validation.ts`, `fabric-identity.util.ts`,
`fabric-gateway.service.ts`) is a backend's start: the certificate and then the only key in the
keystore, each read once, in two steps (`ReadCertificate`, `ReadKey`). `Provision` is what
`fabric-ca-client` and a wipe do to those files meanwhile, also between the two.
**CredentialRotation** (`credential.ts`, `api-key.guard.ts`,
`auth.controller.ts`, `credential-store.service.ts`, `credential-overrides.ts`) EXTENDS it
by the rotation of the API credential: `Submit`, the guard, the controller and `Confirmed`
are the code between two awaits, `RestartPortal` and the backend's crash leave the file that
was being written `Torn`. **CredentialRegister** is its promise: each backend holds one
credential that changes by compare-and-swap, and an account only believes in a new one after
its own swap. It leaves open who may be locked out; that is what `LockOutHasACause` is about.

**MCPortal** runs PortalSession and Portal in one run, in five parts chosen by the first
state: `voting`, `proposing`, `issuing`, `reading` and `session`. `Parts` names what each
part contains and how much of it; the parts do not touch each other's variables.

## 3. The runs

| run | shows | instance |
|---|---|---|
| `governance_mvcc` | the invariants of governance under concurrent requests | 4 institutions, 2 proposals, 2 in flight; 1.5 million states |
| `governance_refinement` | overlapping transactions change the ledger like functions run one at a time, and it implements the abstract ballot | 3 institutions, 2 proposals, 2 in flight |
| `certificate_mvcc` | numbering, revocation, refinement of the register | 2 institutions, 3 certificates, 3 in flight |
| `relay` | claims, duplicates, honesty, topics and termination with redelivery, crashes and lost answers | 2 replies in a thread, 2 deliveries each, 3 handlers, 2 faults; or 7 replies of all sorts in 4 threads |
| `credential` | who is locked out, why and for how long; the backend's credential is a compare-and-swap register | 2 institutions and a guest, 3 rotations, 2 at once, 2 faults; 802 119 states |
| `portal` | what the portal says and does while answers are lost, tabs disagree and others write | five parts, each with up to 2 requests and 2 transactions of others, or 2 tabs and 2 sign-ins |
| `network_operator` | wipes make room, nodes trust the present CAs, "up" is complete, the advice leads up | the orderer organization and two others, 2 nodes each, 2 failures, any number of wipes; 9196 states |
| `orgadd_operator` | deploy and org-add in any order with failures and reboots | 2 founders and 1 pending organization, 2 versions, 2 sequences, 2 failures; 3.4 million states |
| `governance_duplicate` | *violation*: two live proposals for one applicant | 3 institutions |
| `governance_recreated` | *violation*: an Institution record is written twice | 3 institutions |
| `orgadd_enrollment` | *violation*: a failure in stage 2 is never repaired by running again | 1 failure, in stage 2 |
| `session_loop` | *violation*: the session of a removed account is redirected to and fro | 1 tab, 1 sign-in, 1 removal |

**What the properties say.**

*Governance.* `VotesDecide`: the counters equal the stored votes, the applicant has none, no
more votes than the electorate are counted although later members may vote, and the status is
the arithmetic of the votes. `NoStuckProposal`: an open proposal always has enough
outstanding voters to settle it; it takes the place of a liveness property, because nothing
in the code makes an institution vote. `MembershipMatchesApprovals`: a member is a founder or
names the majority that voted it in, and the applicant of an approved proposal is an active
institution. `SettledIsFinal`: what a step may never revise. `FreshTxIsCurrent`: the lemma
on which concurrency rests, that a transaction which can still commit holds what the function
would compute on the present state. `SerialCommits`: every change of the ledger is one
function run alone on the present state (a step of `SerialStep`), so a reader may reason
about the chaincode one transaction at a time, except about what a rich query did not return.

*Certificates.* `CertificatesAreNumbered`: the consortium's numbers are 1, 2, 3, ... and so
are each issuer's, in the same order. `RevocationIsFinal`, `ImplementsRegistry`.

*Relay.* `ClaimsAreHeld`: one handler per thread, and no claim outlives its handler.
`DuplicatesNeedFaults`: each duplicate comment costs a crash, a lost answer or a failed
write. `SuccessIsReal`: what Slack, memory and disk say was relayed was relayed.
`CommentsAreOnTopic`: a comment goes where the reply, alone with the first message of its
thread, points. `ClaimsEnd`: a claim ends or leads to a comment.

*Credential.* `SignsForItsCertificate`: no order of enrollments and restarts makes a backend
sign with the key of one and the certificate of another, unless the material is wiped and
another key enrolled between the two reads of one start. `LockOutHasACause`: portal and
backend only differ while a rotation is between them, after a fault, or after two rotations
of one account overlapped. `LockOutLasts`: then no rotation repairs it, an operator has to.
`GuestsNeverRotate`, `RotationsEnd`, `ImplementsRegister`.

*Portal.* `NoticesAreTrue`: the toast or sentence a tab shows about its request is true of the
ledger then and ever after, and no button leads to a "couldn't find". Two sentences are only
true when they are said: of "isn't an active member" what stays is that the caller is no founder
(it may be admitted), of "already an open or approved proposal" that there is a proposal (it may
be rejected). `ClientErrorsAreFinal`: what was answered with 400, 403, 404 or 409 never happens
later; 503 and 504 do not say. `RetriesCountOnce`: a vote or a revocation tried again is written
once. `VoteIsReflected`: after the answer the buttons of that vote are gone, also when the
answer was an error. `ListedOnce`: the two queries of the governance page neither lose nor
repeat a proposal, except one that was resolved between them. `NotFoundFits`: no route is taken
for another. `RequestsEnd`: no button waits for ever, also when a transaction is never ordered.
`PagesNeedSignIn`: an account's page needs a sign-in. `SessionsEndForAReason`: a live session is
only taken by a logout, by the answer to a request that was sent without it, or by a login that
was filled in on a stale page and repeated at `/`. `OnlyOrphansLoop`: a redirect ends, except
with the live token of an account that was removed.

*Scripts.* `WipeMakesRoom`: wherever earlier commands died, after a wipe no stage of `up` meets
what it would refuse. `NodesTrustCrypto`: genesis block and crypto material are never of
different generations under a running node. `UpIsComplete`: "up" means that all nodes joined,
the orderers too, which stage 10 does not look at. `AdviceLeadsUp`: doing what the script says
ends in a network that is up. `SinglePackageServes`: a deploy that succeeds leaves usable
containers, if the label was packaged once. `ServingSurvives`: before its commit a deploy,
however often it is begun, takes no serving container away, if its query was answered.
`NeverBlocked`: no order of versions commits a definition that cannot be initialised any more.
`NewMemberServes`: the status flips only when the organization's peers can run the chaincode,
however many runs began before.

The type invariants are theorems (section 4) where a proof module exists, and are not
repeated as properties of the runs.

**Bounds.** Four institutions are the smallest consortium in which a tie is possible while
a second proposal changes the electorate of the first (three founders and one
admitted, or two and two); two proposals suffice for the interplay of proposals, because
no function looks at more than its own and the applicant's; two requests in flight give
every pair of conflicting transactions, and a transaction only conflicts with commits one
at a time. Three in flight and three certificates let one issuer's counter and the
consortium's be contended by different transactions. In the relay, three handlers are the
two replies and a redelivery at once; two faults allow the crash that follows a lost
answer or a failed write. `MaxFailures` of 2 lets a repeated run die as well: a first failure
leaves remains, the second one strikes while they are being dealt with. Two sequences are a
release and one upgrade, two packages per label a run and its repetition. `Generations`
exceeds the number of wipes that can matter between two ledgers: the counter wraps, and an
old generation may only meet a new one if one of the failed commands kept it. Three rotations,
two at once, are an overlap and one that comes after it; two faults are a crash that tears a
file and the lost answer before it, or an enrollment and the restart that reads it. `Provisioned`
is one backend, because no two share material or a rotation's file. Two
requests of one tab, or of a tab and its predecessor that was navigated away from, are a
request and its retry while the first is still under way; two transactions of others change
what was read before and after the simulation. `Tab` is one tab in Portal since other tabs
only reach it through the ledger, as `Elsewhere` does, and through the session, which
`SignInAs` changes at any time; `BrowserTab` of PortalSession has two, because they share
the cookie.
`Client`, `Handler`, `Provisioned`, `MaxDeliveries`, `MaxFaults`, `MaxPackages`, `MaxFailures`,
`MaxRotations`, `MaxRequests`, `MaxElsewhere`, `MaxSessions` and `MaxRemovals` bound only
the model; deadlock is not checked where the bounds, or a complete membership, leave
nothing to do.

**Fairness.** The ledger modules state none: the code guarantees no participation, and
none of their properties needs it. `SlackRelay` assumes weak fairness of each handler's
continuation: `fetch` and the Slack client settle every promise (undici gives up by
itself), and the event loop runs every continuation. Deliveries and restarts are not fair.
`NetworkLifecycle` assumes that a command which was started goes on (`Working`);
`AdviceLeadsUp` adds, as its premise, an operator who from some point on does what the script
says and only that (`Obedience`), with a wipe when it says nothing, as network.sh:8 asks.
`ObedientAddSpec` assumes the same of the operator of `org-add.sh`: running again until the
organization is a member. Failures are bounded and never fair.
`CredentialRotation`, `Portal` and `PortalSession` assume that a process which runs goes on:
the guard, the controller and the portal's continuation of a rotation; `fetch` has its answer
or gives up (undici's headers timeout) although the backend has no deadline for a commit
status; the proxy and the pages answer and the browser follows a redirect. Nobody has to
click, to start a backend or to navigate, and no transaction has to be ordered.
No run with a liveness property uses symmetry.

**Disagreements found.**

1. *Duplicate proposals* (`governance_duplicate`). The comment at governance.go:232-234
   says the check makes one live proposal per applicant self-contained, and
   `openspec/specs/institution-governance-ui/spec.md:20` lists the rejection of
   duplicates. It holds one transaction at a time. Two concurrent `ProposeNewMember` for
   one applicant share no written key that the other reads: both commit.
2. *A record written twice* (`governance_recreated`). `context/product/DOMAIN.md:19` says
   an Institution record is created only once. A founder proposed before it registered
   has its record overwritten when the proposal passes, since `CastVote` stores the new
   record without a look at the key.
3. *Re-running org-add* (`orgadd_enrollment`). `on_add_error` (org-add.sh:94) says "safe to
   re-run". If stage 2 dies after the registration and before the MSP directory exists, every
   later run registers again and is refused by the CA; if it dies later in the stage, every
   later run skips it, although the MSP may be empty and the peers down. With failures in the
   six other stages only, `RerunAddsMember` holds.

4. *A redirect loop* (`session_loop`). proxy.ts:23-31 and session.ts:63-69 say that the proxy
   rejects what `requireSession()` rejects, so that no cookie is redirected for ever. A valid
   token of an account that is no longer in `INSTITUTIONS` (session.ts:57) passes the proxy,
   which sends `/login` to `/`, and is rejected by the layout, which sends `/` to `/login`,
   until the token expires. `OnlyOrphansLoop` shows that this is the only such cookie.

The models show more of the kind that is not worth a run of its own:

- relayHandler.ts:162-164 says a retry by Slack can succeed after a failed relay; the event ID
  is remembered since before the attempt, so `DismissDuplicate` drops it. Another reply of the
  thread can succeed (`ClaimsEnd`).
- dedupeStore.ts:14-18 says a restart must not forget which threads produced a comment; it does
  if the process dies after the comment was created and before the record is on disk.
  `DuplicatesNeedFaults` is the guarantee that remains.
- A certificate issued again after a timeout is a second certificate, and a proposal made again
  by a client that reads an old state may be a second proposal: nothing tells the two requests
  apart. `RetriesCountOnce` is therefore about votes and revocations.
- The backend of a guest is that of its host, so the `callerVoteDecision` a guest sees is the
  host's.
- `loginAction` (auth.ts:14-29) asks for no state of the session, and a login page left open in
  a second tab posts through the proxy's 307 to `/`: it replaces the session the first tab has
  by one of the account filled in there, without a logout. `SessionsEndForAReason` names this
  case.
- A vote, revocation, proposal or issue whose answer breaks off after a 201 or 200 ends at the
  error page, although it was committed (institutions.ts:77).
- A revocation that is answered with an error does not revalidate the page
  (certificates.ts:86), as a vote does: its button stays until the next visit.
- backend.ts:42 has a sentence of its own for a backend that cannot be reached, and TESTING.md:118
  expects a specific one; `humanizeBackendError` does not know it and shows the generic one.
- network.sh:49 says "safe to re-run" of a failure in stages 4 to 7 and 10 (also
  `docs/BUILD_LOG.md:601`), but `up` always begins at stage 1 and stage 3 registers again. The
  next run's advice, a wipe, is right, which is why `AdviceLeadsUp` holds all the same.
- `wait_for_port` (lib/common.sh:97) and `join_peers` (network.sh:165) end with `exit`, which
  does not run the ERR trap: these two failures come without the advice (`outcome = "silent"`).
- `installed_package_id_for_org` (chaincode.sh:239) takes the first package of the label. When
  a run died between install and approval there are two, and the container may be started
  with the one nobody approved: hence the premise of `SinglePackageServes`, where
  `docs/ERROR_LOG.md:1434` promises the conclusion alone.
- `already_committed` (chaincode.sh:198-219) discards the error of its query, so a peer that
  does not answer means "not committed", and deploy approves a new package under the sequence
  in use, the case chaincode.sh:83-95 sets out to prevent. `ServingSurvives` therefore speaks
  of runs that got an answer (`~script.blind`); it is violated without that premise.
- Between stages 3 and 4 of org-add the organization is in the channel without anchor peers; a
  run that dies there is followed by runs that skip both (org-add.sh:692-694, 848).
- org-add.sh:79-80 has version 1.1 and sequence 1, chaincode.sh:114,126 has 1.2 and 2, and
  org-add.sh:71-73 asks for equal values. The model takes org-add's as a constant.
- A wipe does not remove the chaincode containers of a pending organization, nor the status
  `member` of an admitted one in `network.yaml`.

## 4. The proofs

The theorems hold for any finite sets of institutions, organizations, issues and handlers, any
sets of identifiers, replies, accounts and tabs, and any number of requests, rotations, faults
and runs. They rest on the assumptions named in the modules, which TLC evaluates for the
instances above: `FinitelyManyInstitutions`; that the value for "no record", "no definition",
"no transaction", "no ballot", "no call" or "no handler" is not one (`NoneIsNoRecord`,
`NoneIsNoTx`, `NoneIsNoBallot`, `NoneIsNoCall`, parts of `SessionConstants`,
`LifecycleConstants`, `DeployConstants` and `RelayConstants`; `BootConstants` and
`NoneIsNoIdentity` for key pairs and identities); that a torn file is not a
missing one (`NoneAndTornAreApart`); `ReasonsAreNotEmpty`, the empty reason being a
separate value; `PortalConstants`, by which an account that is not a guest's is its
institution's and no institution has the identifier "proposals", a word of the routes
(institutions.controller.ts); and, for `DeploysServe` alone, that org-add.sh is written for
sequence 1, as it is (org-add.sh:80).

*Governance* (`GovernanceProofs`). Each stage is an or action property that the next one uses.

1. `TypeCorrect`: the type invariant is inductive as it stands.
2. `Validation` (`FreshTxIsCurrent`). It is not inductive: that a fresh transaction is
   still current after another one commits depends on its read set holding every key its
   function depends on. `Validated` adds that (`ReadsCoverNeeds`) and that requests in
   flight create different proposals (`NewIdsAreUnique`: a transaction ID). A commit then
   either leaves what a transaction depends on alone or marks it stale.
3. `Serializable` (`SerialCommits`): what commits is fresh, hence current, hence a function
   run alone. From here on the proofs speak of the four functions only.
4. `Finality`, `NewProposals`: action properties of the functions.
5. `DecidedByVotes` (`VotesDecide`): the invariant `Counting` counts each proposal's votes,
   relates them to its status, and bounds them by its electorate; with an even electorate the
   bound follows from the tie rejecting the proposal.
6. `MatchingMembership`; `NothingStuck`, for which
   `Electorates` says that every open proposal has at least as many institutions that may
   vote as electors were counted: the membership only grows, by an applicant at a time, and
   the applicant of an open proposal has no vote in it.
7. `Implementation`: the ledger implements `MembershipVoting`, the ballots being the `Vote`
   records. `InitLedger`, `RegisterInstitution`, `OpenProposal` and `CastVote` each map to
   one step of the promise.

*Certificates* (`CertificateProofs`). Types, `Validation` and serial steps as above (the
consortium counter in the read set of an issue covers the issuer's counter as well, because
whoever writes the one writes the other). `Numbered` is the inductive invariant of the numbers:
dense, one certificate each, an issuer's numbers are ranks among its own, and the last
certificate of an issuer carries the value of its counter; `NumberedCertificates` follows.
`Finality` follows from validation; `Implementation` maps an issue to writing the next line of
the register and a revocation to striking one.

*Credential* (`CredentialProofs`). `TypeCorrect` already needs to say that a rotation carries
its header exactly until the guard has looked at it. `MatchingIdentity` needs `KeysAreThere`: a
certificate is stored after its key, so the only key of a keystore is the one of its
certificate; and keys only leave by a wipe, so the one of the certificate a start has read is
still there when it reads the key, alone or not, unless the start was `wiped`. `GuestsStayOut`
needs that no backend ever expects a guest's key (`GuestsShutOut`). `LastingLockOut` is an
action property: the guard and the portal's override each stay put while the other does not
match. `CausedLockOut` rests on `Orderly`: without a fault every answer is heard, and as long as
an account rotates one at a time, its two files agree, except that the backend may be the one
credential ahead that the rotation under way carries. `Implementation` maps a submission to
asking, the controller to the swap and the portal's answer to telling; what the guard lets
through is a stutter, and refusals, crashes and lost answers are `Drop`.

*Session* (`SessionProofs`). The types say that the tokens of cookies, requests and answers are
numbers, signed or forged; `PagesSignedIn` follows from what each step may do to a tab
(`Effects`). For `ReasonsToEnd`, `Honest` says of every answer which sets the cookie that its
request was sent without a live one, or logs out, or signed in to the account it was filled in
for, the repetitions of a request included: the proxy only deletes what does not verify, and a
token that does not verify never will, because the next one signed has a number of its own.

*Network* (`NetworkProofs`). Crypto material and ledgers are replaced by different steps.
`Trusting`: ledgers only exist once every owner is registered, so that stage 3 stops before it
enrolls anew; a genesis block is joined only in the stages after the one that built it; a wipe
removes the ledgers first. `Complete`: from stage 8 on a node whose turn is over has joined with
the present block. `Roomy`: after a wipe there are no identities and no ledgers, and `up`
creates each of them once. Each names the stages from which it holds, which is why it survives a
failure at any command.

*Relay* (`RelayProofs`). `Informed` says what a handler has established before it reached its
await: that its reply is relayable, its thread a bot's, its issue the only one. Every action is
first put into one of seven shapes, by what it does to claims, records and comments (`Shapes`),
so that the three invariants need not look at each action again. `Exclusive`: a busy handler
holds the claim of its thread, whose record is empty, and no other handler is busy there.
`Honest`: comments only grow, and whoever is about to report success has its comment already.
`OnTopic` follows from `Informed` and the comments growing one at a time, also at a crash.
`FewDuplicates` counts: the comments of a thread are a finite set (`Posted`), and the invariant
`Bounded` says that each is paid for, one by a record in the file and the others by a fault each.
A handler only comments while its thread has no record, and leaves a record or a fault behind;
the handlers that die in a crash may have commented, but only one of a thread had its claim.

*Scripts that deploy* (`OrgAddProofs`), with `chaincode.sh` and `org-add.sh` run in any order.
`Orderly` carries the types and says that one script runs at a time, and that a package is
installed before it is approved. `Initialisable`: a deploy asks for an Init only while there is
no founding list, and none can come to be while it runs. `Informed`: a deploy that learnt what is
committed only goes on to approve what is not, so its approvals leave the sequence in use alone.
`Onboarding`: what org-add has behind it at each of its steps; the channel only grows, so a run
that skips what an earlier one did finds it done. `DeploysServe` needs to know what is on the
peers: `Accounted` says that an approval names a package its organization holds and that the
members approved the definition in use; `Ready` what a deploy has behind it at each stage, that
every container started so far runs a package of the version it deploys. Where the label stands
for one package these are the approved ones. org-add starts a container too, of the version in
use: a founder's deploy must have committed before stage 6 is reached, so that approving
sequence 1 again only succeeds with the definition that is committed.

*Portal* (`PortalProofs`). `PortalInv` joins three parts. `LedgerOK`: the records of both
chaincodes, and that founders are members. `RequestsOK`: as long as the record a request read is
the one on the ledger, it holds what its function would write now, as `Validated` says of
GovernanceLedger; what the portal was told fits what became of the request, and no two votes or
revocations of one caller were written; a request is about a record that exists (`About`), since
a tab only names what is on the ledger (`OnLedger`). `TabsOK`: the lists of a tab are an earlier
state of the ledger (proposals may since have gained votes or been resolved), a rerendered list
shows the caller's vote, and a notice is about the tab's own request. `Grows`, what every step
leaves of the ledger, is the lemma by which what a tab has read stays true of it. The properties
are then read off: `FinalClientErrors` and `RetriesOnce` are about the requests,
`ReflectedVotes` and `ProposalsListedOnce` about the lists, `TrueNotices` about both: `Sayable`
lists the sentences an error of that request can become, without a "couldn't find", and each
stays true because the ledger grows. `FittingNotFound` rests on the order of the routes, which
`Get` follows path by path.

A request of Portal only remembers the record it is about, where a transaction of the ledgers
has its whole read set. `SerialLedger` says what that loses: every change of the ledger is a
chaincode function run alone on the present one, except that a proposal may count an electorate
that has grown since and overlook a live proposal, because both come from rich queries. It
needs `Current` beside `PortalInv`: an admission that was computed on a proposal that still has
the same counts is the admission of now, since every vote moves a count (`StillThere`).

*Only model-checked.* Every invariant and safety property of the runs that hold is a theorem,
except that the proofs leave to TLC what is out of the prover's reach: liveness (`ClaimsEnd`,
`AdviceLeadsUp`, `RotationsEnd`, `RequestsEnd`, `OnlyOrphansLoop`), ENABLED,
and induction over data.

## 5. Not modelled

- The content hash of a certificate, so `VerifyCertificate` never says TAMPERED here: a hash
  of payloads has no state, and its collisions are not the program's.
- Of the backend the DTO validation of a body, whose failures are a 400 before anything
  happens, and the Swagger annotations; of the frontend layout, styling and `components/ui`.
- `slackText.ts` and configuration loading: wording. A store file that something other than
  the relay has damaged.
- `blcgen`, a pure function from `network.yaml` to files; most of it is formatting.
- The GitHub workflows: calls to an API, without a protocol of their own.
- Of the scripts, `status` changes nothing and teardown is part of a wipe; the second
  chaincode of stage 6 of `org-add.sh` repeats the first, and the order of the organizations
  within a loop is left open. A stage that only writes files made of `network.yaml` has no
  state in the models.
- Vendored Go code and generated files are third-party.

Some hazards have no property, because no document or code promises the opposite: a reply that
was acknowledged and whose handler died is lost; a wipe leaves the chaincode containers of a
pending organization and the status `member` in `network.yaml`.

## 6. The plan

These parts exist, each with its proofs: the chaincodes with their ledgers and promises; the
relay; the credential with its register; the session; the portal; `NetworkLifecycle`;
`ChaincodeLifecycle` and `OrgAdd`. Next, in this order:

1. A refinement of `OrgAdd` to a one-way status `pending -> member` that implies membership in
   the channel.
2. `blcgen`: validation and port allocation against a reference definition.
3. The composition of `NetworkLifecycle` and `OrgAdd`: what a wipe leaves of an organization
   that was added.
