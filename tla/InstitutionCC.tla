--------------------------- MODULE InstitutionCC ---------------------------
(***************************************************************************)
(* chaincode/institution-cc: the governance chaincode of the consortium.   *)
(*                                                                         *)
(* Each chaincode function is given here twice: as a guard and the records *)
(* it writes (what a peer computes when it simulates the function), and as *)
(* an action that applies them at once (what the unit tests exercise: one  *)
(* transaction at a time).  GovernanceLedger.tla reuses the former with    *)
(* Fabric's endorse / order / validate pipeline in between.                *)
(*                                                                         *)
(* Data that no decision depends on is left out: names, timestamps,        *)
(* docType, the vote's own id.  joinedAt only matters as "the record was   *)
(* rewritten", which the properties state on the record itself.            *)
(***************************************************************************)
EXTENDS Integers, FiniteSets

CONSTANTS
  Institution,  \* the MSP IDs of the organizations, founders or not
  ProposalId,   \* the transaction IDs under which proposals are stored
  None          \* "no record under this key"

VARIABLES
  founding,     \* the list under foundingListKey; {} when the key is absent
  institutions, \* the Institution record of each MSP ID, or None
  proposals,    \* the MembershipProposal record of each ID, or None
  votes         \* the decision stored under each (proposal, voter) key

ledger == <<founding, institutions, proposals, votes>>

Decision == {"yes", "no"}

InstitutionRecord ==
  [status: {"active"}, type: {"founding", "approved"},
   approvedBy: SUBSET Institution]

ProposalRecord ==
  [applicant: Institution, proposedBy: Institution,
   status: {"open", "approved", "rejected"},
   votesFor: Nat, votesAgainst: Nat, totalEligibleVoters: Nat]

\* The absent value is not a record and the organizations are finitely many.
ASSUME NoneIsNoRecord == None \notin InstitutionRecord \cup ProposalRecord
ASSUME FinitelyManyInstitutions == IsFiniteSet(Institution)

-----------------------------------------------------------------------------
(* Reads *)

IsActive(i) == institutions[i] # None /\ institutions[i].status = "active"

ActiveInstitutions == {i \in Institution : IsActive(i)}

Exists(p) == proposals[p] # None

\* The rich query of ProposeNewMember: an open or an approved proposal.
HasLiveProposal(a) ==
  \E p \in ProposalId :
    Exists(p) /\ proposals[p].applicant = a /\ proposals[p].status \in {"open", "approved"}

Voters(p, d) == {i \in Institution : votes[p][i] = d}

RequiredVotesToApprove(n) == (n \div 2) + 1

-----------------------------------------------------------------------------
(* What each chaincode function requires, and the records it writes *)

CanInitLedger(founders) == founding = {} /\ founders # {}

CanRegister(c) == c \in founding /\ institutions[c] = None

FoundingRecord == [status |-> "active", type |-> "founding", approvedBy |-> {}]

CanPropose(c, a) ==
  /\ IsActive(c)
  /\ institutions[a] = None
  /\ ~HasLiveProposal(a)

NewProposal(c, a) ==
  [applicant |-> a, proposedBy |-> c, status |-> "open", votesFor |-> 0,
   votesAgainst |-> 0, totalEligibleVoters |-> Cardinality(ActiveInstitutions)]

\* Mutants of CanVote: no look-up of the proposal's status or of its applicant.
CanVote_Resolved(c, p) ==
  IsActive(c) /\ Exists(p) /\ c # proposals[p].applicant /\ votes[p][c] = "none"
CanVote_ForItself(c, p) ==
  IsActive(c) /\ Exists(p) /\ proposals[p].status = "open" /\ votes[p][c] = "none"

CanVote(c, p) ==
  /\ IsActive(c)
  /\ Exists(p)
  /\ proposals[p].status = "open"
  /\ c # proposals[p].applicant
  /\ votes[p][c] = "none"

\* The proposal with the caller's vote counted but its status not yet decided.
Counted(p, d) ==
  IF d = "yes" THEN [proposals[p] EXCEPT !.votesFor = @ + 1]
               ELSE [proposals[p] EXCEPT !.votesAgainst = @ + 1]

IsApprovedBy(t) == t.votesFor >= RequiredVotesToApprove(t.totalEligibleVoters)

\* Mutants: wait until every vote is in against it; mirror the approval threshold.
IsBeyondApproval_Unanimous(t) == t.votesAgainst >= t.totalEligibleVoters
IsBeyondApproval_Mirrored(t) == t.votesAgainst >= RequiredVotesToApprove(t.totalEligibleVoters)

\* votesFor plus every vote still outstanding cannot reach the majority.
IsBeyondApproval(t) ==
  t.totalEligibleVoters - t.votesAgainst < RequiredVotesToApprove(t.totalEligibleVoters)

StatusAfter(t) ==
  IF IsApprovedBy(t) THEN "approved"
  ELSE IF IsBeyondApproval(t) THEN "rejected" ELSE "open"

VotedProposal(p, d) ==
  [Counted(p, d) EXCEPT !.status = StatusAfter(Counted(p, d))]

\* The voters approvingVoters() finds committed, and the caller itself.
Approvers(c, p, d) == Voters(p, "yes") \cup (IF d = "yes" THEN {c} ELSE {})

\* Mutant: the status is tested before the vote is counted.
Admission_BeforeCount(c, p, d) ==
  IF proposals[p].status = "approved"
  THEN [status |-> "active", type |-> "approved", approvedBy |-> Approvers(c, p, d)]
  ELSE None

\* The Institution record a vote writes for the applicant: None unless it approves.
Admission(c, p, d) ==
  IF VotedProposal(p, d).status = "approved"
  THEN [status |-> "active", type |-> "approved", approvedBy |-> Approvers(c, p, d)]
  ELSE None

-----------------------------------------------------------------------------
(* The functions as one-at-a-time transactions *)

Init ==
  /\ founding = {}
  /\ institutions = [i \in Institution |-> None]
  /\ proposals = [p \in ProposalId |-> None]
  /\ votes = [p \in ProposalId |-> [i \in Institution |-> "none"]]

InitLedger(founders) ==
  /\ CanInitLedger(founders)
  /\ founding' = founders
  /\ UNCHANGED <<institutions, proposals, votes>>

RegisterInstitution(c) ==
  /\ CanRegister(c)
  /\ institutions' = [institutions EXCEPT ![c] = FoundingRecord]
  /\ UNCHANGED <<founding, proposals, votes>>

\* p is the transaction's own ID, hence never used before.
ProposeNewMember(c, a, p) ==
  /\ ~Exists(p)
  /\ CanPropose(c, a)
  /\ proposals' = [proposals EXCEPT ![p] = NewProposal(c, a)]
  /\ UNCHANGED <<founding, institutions, votes>>

CastVote(c, p, d) ==
  /\ CanVote(c, p)
  /\ votes' = [votes EXCEPT ![p][c] = d]
  /\ proposals' = [proposals EXCEPT ![p] = VotedProposal(p, d)]
  /\ institutions' = IF Admission(c, p, d) = None THEN institutions
                     ELSE [institutions EXCEPT ![proposals[p].applicant] = Admission(c, p, d)]
  /\ UNCHANGED founding

Next ==
  \/ \E founders \in SUBSET Institution : InitLedger(founders)
  \/ \E c \in Institution : RegisterInstitution(c)
  \/ \E c, a \in Institution, p \in ProposalId : ProposeNewMember(c, a, p)
  \/ \E c \in Institution, p \in ProposalId, d \in Decision : CastVote(c, p, d)

Spec == Init /\ [][Next]_ledger

-----------------------------------------------------------------------------
(* Type invariant *)

TypeOK ==
  /\ founding \subseteq Institution
  /\ institutions \in [Institution -> InstitutionRecord \cup {None}]
  /\ proposals \in [ProposalId -> ProposalRecord \cup {None}]
  /\ votes \in [ProposalId -> [Institution -> Decision \cup {"none"}]]

-----------------------------------------------------------------------------
(* Safety *)

\* The counters CastVote increments in the proposal record are exactly the
\* votes stored under the composite keys (governance.go:427-447): no vote is
\* lost, counted twice, or counted for an institution that cannot vote.
TallyIsExact ==
  \A p \in ProposalId :
    IF Exists(p)
    THEN /\ proposals[p].votesFor = Cardinality(Voters(p, "yes"))
         /\ proposals[p].votesAgainst = Cardinality(Voters(p, "no"))
         /\ votes[p][proposals[p].applicant] = "none"
    ELSE Voters(p, "none") = Institution

\* Institutions admitted after a proposal was made may vote on it although its
\* electorate was fixed earlier (governance.go:335): the proposal is always
\* resolved before more than totalEligibleVoters votes come in, and a majority
\* for it never coexists with a majority against it.
NeverOverVoted ==
  \A p \in ProposalId : Exists(p) =>
    /\ proposals[p].votesFor + proposals[p].votesAgainst <= proposals[p].totalEligibleVoters
    /\ proposals[p].votesFor <= RequiredVotesToApprove(proposals[p].totalEligibleVoters)

\* A proposal is approved exactly when a majority of its electorate voted yes,
\* rejected exactly when that has become impossible, and open otherwise
\* (governance.go:449-486); at most half of the electorate ever voted for a
\* proposal that is not approved.
StatusFollowsTally ==
  \A p \in ProposalId : Exists(p) =>
    LET t == proposals[p] IN
    /\ (t.status = "approved") <=> (2 * t.votesFor > t.totalEligibleVoters)
    /\ (t.status = "rejected") <=> (2 * t.votesAgainst >= t.totalEligibleVoters)

\* A proposal is decided by the votes that were cast, all of them, and by nothing
\* else, however they were in flight together (governance.go:371-486).
VotesDecide == TallyIsExact /\ NeverOverVoted /\ StatusFollowsTally

\* The institutions that may still vote on p.
OutstandingVoters(p) ==
  {i \in ActiveInstitutions : i # proposals[p].applicant /\ votes[p][i] = "none"}

\* No open proposal is stuck (the hazard of governance.go:471-479): as many
\* institutions as its electorate still lacks can vote, so whatever they vote
\* the proposal is resolved at the latest by the last of them.
NoStuckProposal ==
  \A p \in ProposalId : Exists(p) /\ proposals[p].status = "open" =>
    /\ OutstandingVoters(p) # {}
    /\ proposals[p].totalEligibleVoters
         <= Cardinality(OutstandingVoters(p)) + proposals[p].votesFor + proposals[p].votesAgainst

\* Nobody is a member without title: a founding record belongs to an
\* organization of the founding list, and an approved record names as
\* approvedBy all the yes voters of a proposal that approved it, a majority of
\* its electorate (governance.go:154-179, 417, 453-469).
MembershipIsEarned ==
  \A i \in Institution : institutions[i] # None =>
    IF institutions[i].type = "founding"
    THEN i \in founding
    ELSE \E p \in ProposalId :
           /\ Exists(p)
           /\ proposals[p].applicant = i
           /\ proposals[p].status = "approved"
           /\ institutions[i].approvedBy = Voters(p, "yes")
           /\ 2 * Cardinality(institutions[i].approvedBy) > proposals[p].totalEligibleVoters

\* Approval and admission are one transaction: no ledger state has an approved
\* proposal whose applicant is not an active institution (governance.go:218-230).
ApprovedIsMember ==
  \A p \in ProposalId :
    Exists(p) /\ proposals[p].status = "approved" => IsActive(proposals[p].applicant)

\* Membership and approvals imply each other: no member without title, no approved
\* applicant left outside (governance.go:154-179, 449-486).
MembershipMatchesApprovals == MembershipIsEarned /\ ApprovedIsMember

\* "one live proposal per applicant" (governance.go:232-234).
OneLiveProposalPerApplicant ==
  \A p, q \in ProposalId :
    /\ Exists(p) /\ Exists(q)
    /\ proposals[p].applicant = proposals[q].applicant
    /\ proposals[p].status # "rejected" /\ proposals[q].status # "rejected"
    => p = q

-----------------------------------------------------------------------------
(* Action properties *)

\* What is settled stays settled: the founding list, a cast vote and a resolved
\* proposal never change, nor does an open proposal's electorate or applicant,
\* and no member ever stops being active (governance.go:56-58, 396-413).
SettledIsFinal ==
  [][/\ founding # {} => founding' = founding
     /\ \A i \in Institution : IsActive(i) => IsActive(i)'
     /\ \A p \in ProposalId : Exists(p) =>
          /\ proposals[p].status # "open" => proposals'[p] = proposals[p]
          /\ proposals'[p].applicant = proposals[p].applicant
          /\ proposals'[p].totalEligibleVoters = proposals[p].totalEligibleVoters
          /\ \A i \in Institution : votes[p][i] # "none" => votes'[p][i] = votes[p][i]]_ledger

\* A member is never proposed again (governance.go:218-220), and the electorate
\* of a new proposal never exceeds the institutions active when it commits.
MembersAreNotProposed ==
  [][\A p \in ProposalId : ~Exists(p) /\ proposals'[p] # None =>
       /\ institutions[proposals'[p].applicant] = None
       /\ proposals'[p].totalEligibleVoters \in 1..Cardinality(ActiveInstitutions)]_ledger

\* An Institution record is "created only once, either by `InitLedger` for a founding
\* org, or by `CastVote`" (context/product/DOMAIN.md:19): no later transaction rewrites it.
InstitutionCreatedOnce ==
  [][\A i \in Institution : institutions[i] # None => institutions'[i] = institutions[i]]_ledger

=============================================================================
