-------------------------- MODULE GovernanceLedger --------------------------
(***************************************************************************)
(* institution-cc on a Fabric channel.  A client's transaction is first    *)
(* endorsed: peers simulate the chaincode function on the committed state  *)
(* and return the keys it read and the records it writes.  It is ordered   *)
(* and validated later: it commits only if no key it read was written in   *)
(* between (MVCC), otherwise it is recorded as invalid and changes nothing.*)
(* Fabric itself is external; the keys are those each chaincode function   *)
(* passes to GetState, and those its rich queries iterate over.  A rich    *)
(* query has no phantom protection: a key that starts to match it after    *)
(* endorsement is in no read set.                                          *)
(*                                                                         *)
(* backend/src/institutions/institutions.service.ts submits one transaction*)
(* per request and never resubmits: several requests, of the same          *)
(* institution too, can be in flight at once.                              *)
(***************************************************************************)
EXTENDS InstitutionCC

CONSTANT Client   \* requests that can be in flight at once (bounds the model)

VARIABLE inflight \* the endorsed transaction of each client, or None

vars == <<ledger, inflight>>

-----------------------------------------------------------------------------
(* Keys, and the read set of each function *)

FoundingKey == [type |-> "founding", id |-> {}]
InstitutionKey(i) == [type |-> "institution", id |-> i]
ProposalKey(p) == [type |-> "proposal", id |-> p]
VoteKey(p, i) == [type |-> "vote", id |-> <<p, i>>]

Key ==
  {FoundingKey} \cup {InstitutionKey(i) : i \in Institution}
    \cup {ProposalKey(p) : p \in ProposalId}
    \cup {VoteKey(p, i) : p \in ProposalId, i \in Institution}

InitLedgerReads == {FoundingKey}

\* Mutant: the caller's own record is not looked up.
RegisterReads_Unread(c) == {FoundingKey}

RegisterReads(c) == {FoundingKey, InstitutionKey(c)}

\* hasLiveProposalForApplicant calls HasNext only, and succeeds only when the
\* query finds nothing: it adds no key.  countActiveInstitutions iterates.
ProposeReads(c, a) ==
  {InstitutionKey(c), InstitutionKey(a)} \cup {InstitutionKey(i) : i \in ActiveInstitutions}

\* Mutant: the proposal comes from a query result that is not re-read.
CastVoteReads_Unread(c, p) ==
  {InstitutionKey(c), VoteKey(p, c)} \cup {VoteKey(p, i) : i \in Voters(p, "yes")}

CastVoteReads(c, p) ==
  {InstitutionKey(c), ProposalKey(p), VoteKey(p, c)}
    \cup {VoteKey(p, i) : i \in Voters(p, "yes")}

-----------------------------------------------------------------------------
(* Endorsed transactions *)

InitTx ==
  [fn: {"InitLedger"}, founders: SUBSET Institution, reads: SUBSET Key, stale: BOOLEAN]
RegisterTx ==
  [fn: {"RegisterInstitution"}, caller: Institution, reads: SUBSET Key, stale: BOOLEAN]
ProposeTx ==
  [fn: {"ProposeNewMember"}, caller: Institution, id: ProposalId,
   proposal: ProposalRecord, reads: SUBSET Key, stale: BOOLEAN]
VoteTx ==
  [fn: {"CastVote"}, caller: Institution, id: ProposalId, decision: Decision,
   proposal: ProposalRecord, admission: InstitutionRecord \cup {None},
   reads: SUBSET Key, stale: BOOLEAN]

Tx == InitTx \cup RegisterTx \cup ProposeTx \cup VoteTx

ASSUME NoneIsNoTx == None \notin Tx

Idle(k) == inflight[k] = None

Endorsed(k, fn) == inflight[k] # None /\ inflight[k].fn = fn

Endorse(k, tx) ==
  /\ Idle(k)
  /\ inflight' = [inflight EXCEPT ![k] = tx]
  /\ UNCHANGED ledger

EndorseInitLedger(k, founders) ==
  /\ CanInitLedger(founders)
  /\ Endorse(k, [fn |-> "InitLedger", founders |-> founders,
                 reads |-> InitLedgerReads, stale |-> FALSE])

EndorseRegister(k, c) ==
  /\ CanRegister(c)
  /\ Endorse(k, [fn |-> "RegisterInstitution", caller |-> c,
                 reads |-> RegisterReads(c), stale |-> FALSE])

\* Transaction IDs are unique: p belongs to no other proposal, stored or in flight.
EndorsePropose(k, c, a, p) ==
  /\ ~Exists(p)
  /\ \A j \in Client : Endorsed(j, "ProposeNewMember") => inflight[j].id # p
  /\ CanPropose(c, a)
  /\ Endorse(k, [fn |-> "ProposeNewMember", caller |-> c, id |-> p,
                 proposal |-> NewProposal(c, a),
                 reads |-> ProposeReads(c, a), stale |-> FALSE])

EndorseVote(k, c, p, d) ==
  /\ CanVote(c, p)
  /\ Endorse(k, [fn |-> "CastVote", caller |-> c, id |-> p, decision |-> d,
                 proposal |-> VotedProposal(p, d), admission |-> Admission(c, p, d),
                 reads |-> CastVoteReads(c, p), stale |-> FALSE])

-----------------------------------------------------------------------------
(* Ordering and validation *)

\* k's transaction leaves; every other one that read a key it wrote is stale.
Retire(k, written) ==
  inflight' = [j \in Client |->
                 IF j = k \/ Idle(j) THEN None
                 ELSE [inflight[j] EXCEPT !.stale = @ \/ inflight[j].reads \cap written # {}]]

CommitInitLedger(k) ==
  /\ Endorsed(k, "InitLedger")
  /\ ~inflight[k].stale
  /\ founding' = inflight[k].founders
  /\ Retire(k, {FoundingKey})
  /\ UNCHANGED <<institutions, proposals, votes>>

CommitRegister(k) ==
  LET t == inflight[k] IN
  /\ Endorsed(k, "RegisterInstitution")
  /\ ~t.stale
  /\ institutions' = [institutions EXCEPT ![t.caller] = FoundingRecord]
  /\ Retire(k, {InstitutionKey(t.caller)})
  /\ UNCHANGED <<founding, proposals, votes>>

CommitPropose(k) ==
  LET t == inflight[k] IN
  /\ Endorsed(k, "ProposeNewMember")
  /\ ~t.stale
  /\ proposals' = [proposals EXCEPT ![t.id] = t.proposal]
  /\ Retire(k, {ProposalKey(t.id)})
  /\ UNCHANGED <<founding, institutions, votes>>

CommitVote(k) ==
  LET t == inflight[k]
      admitted == IF t.admission = None THEN {} ELSE {t.proposal.applicant} IN
  /\ Endorsed(k, "CastVote")
  /\ ~t.stale
  /\ votes' = [votes EXCEPT ![t.id][t.caller] = t.decision]
  /\ proposals' = [proposals EXCEPT ![t.id] = t.proposal]
  /\ institutions' = [i \in Institution |->
                        IF i \in admitted THEN t.admission ELSE institutions[i]]
  /\ Retire(k, {VoteKey(t.id, t.caller), ProposalKey(t.id)}
                 \cup {InstitutionKey(i) : i \in admitted})
  /\ UNCHANGED founding

\* Never committed: invalidated by MVCC (a 409 for the client), refused because
\* endorsing peers disagreed, lost before ordering, or the client gave up.
Discard(k) ==
  /\ ~Idle(k)
  /\ inflight' = [inflight EXCEPT ![k] = None]
  /\ UNCHANGED ledger

-----------------------------------------------------------------------------

LedgerInit == Init /\ inflight = [k \in Client |-> None]

LedgerNext ==
  \E k \in Client :
    \/ \E founders \in SUBSET Institution : EndorseInitLedger(k, founders)
    \/ \E c \in Institution : EndorseRegister(k, c)
    \/ \E c, a \in Institution, p \in ProposalId : EndorsePropose(k, c, a, p)
    \/ \E c \in Institution, p \in ProposalId, d \in Decision : EndorseVote(k, c, p, d)
    \/ CommitInitLedger(k)
    \/ CommitRegister(k)
    \/ CommitPropose(k)
    \/ CommitVote(k)
    \/ Discard(k)

LedgerSpec == LedgerInit /\ [][LedgerNext]_vars

-----------------------------------------------------------------------------

LedgerTypeOK == TypeOK /\ inflight \in [Client -> Tx \cup {None}]

\* What t writes is what its function would compute on the present state.  Only
\* what rich queries returned may be out of date, and then in one direction: the
\* electorate counted by ProposeNewMember is at most the institutions active now.
IsCurrent(t) ==
  /\ t.fn = "InitLedger" => CanInitLedger(t.founders)
  /\ t.fn = "RegisterInstitution" => CanRegister(t.caller)
  /\ t.fn = "ProposeNewMember" =>
       /\ ~Exists(t.id)
       /\ IsActive(t.caller)
       /\ institutions[t.proposal.applicant] = None
       /\ t.proposal.totalEligibleVoters \in 1..Cardinality(ActiveInstitutions)
  /\ t.fn = "CastVote" =>
       /\ CanVote(t.caller, t.id)
       /\ t.proposal = VotedProposal(t.id, t.decision)
       /\ t.admission = Admission(t.caller, t.id, t.decision)

\* What validation has to deliver: a transaction that can still commit computed
\* what it writes from records that have not changed since (governance.go:335-365,
\* 371-492).
FreshTxIsCurrent ==
  \A k \in Client : ~Idle(k) /\ ~inflight[k].stale => IsCurrent(inflight[k])

\* A proposal whose electorate was counted at most as large as it would be now.
OpenProposal(p) ==
  LET t == proposals'[p] IN
  /\ ~Exists(p) /\ t # None
  /\ institutions[t.applicant] = None
  /\ t.status = "open" /\ t.votesFor = 0 /\ t.votesAgainst = 0
  /\ t.totalEligibleVoters \in 1..Cardinality(ActiveInstitutions)
  /\ proposals' = [proposals EXCEPT ![p] = t]
  /\ UNCHANGED <<founding, institutions, votes>>

SerialStep ==
  \/ \E founders \in SUBSET Institution : InitLedger(founders)
  \/ \E c \in Institution : RegisterInstitution(c)
  \/ \E p \in ProposalId : OpenProposal(p)
  \/ \E c \in Institution, p \in ProposalId, d \in Decision : CastVote(c, p, d)

\* Concurrency changes nothing that validation should prevent: whatever commits has
\* the effect the chaincode function has when it runs alone on the present state
\* (governance.go:51-492), except for what ProposeNewMember took from rich queries.
SerialCommits == [][SerialStep]_ledger

=============================================================================
