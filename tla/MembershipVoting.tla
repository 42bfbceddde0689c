-------------------------- MODULE MembershipVoting --------------------------
(***************************************************************************)
(* What consortium governance promises, free of records, counters, status  *)
(* fields and transactions: a membership that only grows, by founders      *)
(* joining and by ballots; a ballot is a set of yes and a set of no voters *)
(* against an electorate size fixed when it is opened, and it is decided   *)
(* by those sets alone.                                                    *)
(***************************************************************************)
EXTENDS Integers, FiniteSets

CONSTANTS
  Institution,  \* the organizations
  ProposalId,   \* the ballots' identities
  None          \* a ballot not opened yet

VARIABLES
  charter,      \* the founding organizations, {} until the charter is signed
  members,      \* the institutions admitted so far
  ballots       \* [applicant, size, yes, no] of each opened ballot, or None

abstract == <<charter, members, ballots>>

HasMajority(b) == 2 * Cardinality(b.yes) > b.size

CannotPass(b) == 2 * (b.size - Cardinality(b.no)) <= b.size

Decided(b) == HasMajority(b) \/ CannotPass(b)

Start ==
  /\ charter = {}
  /\ members = {}
  /\ ballots = [p \in ProposalId |-> None]

SignCharter(founders) ==
  /\ charter = {} /\ founders # {}
  /\ charter' = founders
  /\ UNCHANGED <<members, ballots>>

FounderJoins(f) ==
  /\ f \in charter \ members
  /\ members' = members \cup {f}
  /\ UNCHANGED <<charter, ballots>>

\* The electorate may miss members that joined while the ballot was prepared.
OpenBallot(p, a, n) ==
  /\ ballots[p] = None
  /\ a \notin members
  /\ n \in 1..Cardinality(members)
  /\ ballots' = [ballots EXCEPT ![p] = [applicant |-> a, size |-> n, yes |-> {}, no |-> {}]]
  /\ UNCHANGED <<charter, members>>

\* A member votes once, on an undecided ballot that is not its own; the vote
\* that makes the majority admits the applicant.
Vote(p, m, inFavour) ==
  LET b == ballots[p]
      after == IF inFavour THEN [b EXCEPT !.yes = @ \cup {m}] ELSE [b EXCEPT !.no = @ \cup {m}] IN
  /\ b # None
  /\ ~Decided(b)
  /\ m \in members \ (b.yes \cup b.no \cup {b.applicant})
  /\ ballots' = [ballots EXCEPT ![p] = after]
  /\ members' = members \cup (IF HasMajority(after) THEN {b.applicant} ELSE {})
  /\ UNCHANGED charter

Step ==
  \/ \E founders \in SUBSET Institution : SignCharter(founders)
  \/ \E f \in Institution : FounderJoins(f)
  \/ \E p \in ProposalId, a \in Institution, n \in 1..Cardinality(Institution) : OpenBallot(p, a, n)
  \/ \E p \in ProposalId, m \in Institution, f \in BOOLEAN : Vote(p, m, f)

Promise == Start /\ [][Step]_abstract
=============================================================================
