-------------------------- MODULE GovernanceProofs --------------------------
(***************************************************************************)
(* Theorems about institution-cc under Fabric's optimistic transactions,   *)
(* for any finite set of institutions and any transaction IDs and requests.*)
(*                                                                         *)
(* First the types, then that every change of the ledger is a SerialStep;  *)
(* what institution-cc promises about voting and membership follows from   *)
(* these two.  The last section shows that the chaincode implements        *)
(* MembershipVoting.                                                       *)
(***************************************************************************)
EXTENDS GovernanceRefinement, FiniteSetTheorems, TLAPS

-----------------------------------------------------------------------------
(* Types *)

\* A stored record is not the absent value.
LEMMA RecordsAreNotNone ==
  ASSUME TypeOK
  PROVE  /\ \A i \in Institution : institutions[i] # None => institutions[i] \in InstitutionRecord
         /\ \A p \in ProposalId : Exists(p) => proposals[p] \in ProposalRecord
BY DEF TypeOK, Exists

\* The sets of voters and of members are finite and no larger than the consortium.
LEMMA FiniteElectorates ==
  /\ IsFiniteSet(ActiveInstitutions) /\ Cardinality(ActiveInstitutions) \in Nat
  /\ \A p, d : IsFiniteSet(Voters(p, d)) /\ Cardinality(Voters(p, d)) \in Nat
<1>1. ActiveInstitutions \subseteq Institution
  BY DEF ActiveInstitutions
<1>2. \A p, d : Voters(p, d) \subseteq Institution
  BY DEF Voters
<1> QED
  BY <1>1, <1>2, FinitelyManyInstitutions, FS_Subset, FS_CardinalityType

\* What ProposeNewMember stores is a proposal.
LEMMA NewProposalType ==
  ASSUME TypeOK, NEW c \in Institution, NEW a \in Institution
  PROVE  NewProposal(c, a) \in ProposalRecord
BY FiniteElectorates DEF NewProposal, ProposalRecord

\* What CastVote stores is a proposal.
LEMMA VotedProposalType ==
  ASSUME TypeOK, NEW p \in ProposalId, Exists(p), NEW d \in Decision
  PROVE  VotedProposal(p, d) \in ProposalRecord
<1>1. proposals[p] \in ProposalRecord
  BY RecordsAreNotNone
<1>2. Counted(p, d) \in ProposalRecord
  BY <1>1 DEF Counted, ProposalRecord
<1>3. StatusAfter(Counted(p, d)) \in {"open", "approved", "rejected"}
  BY DEF StatusAfter
<1> QED
  BY <1>2, <1>3 DEF VotedProposal, ProposalRecord

\* What CastVote stores for the applicant, if anything, is a member.
LEMMA AdmissionType ==
  ASSUME NEW p \in ProposalId, NEW c \in Institution, NEW d \in Decision
  PROVE  Admission(c, p, d) \in InstitutionRecord \cup {None}
<1>1. Approvers(c, p, d) \in SUBSET Institution
  BY DEF Approvers, Voters
<1> QED
  BY <1>1 DEF Admission, InstitutionRecord

\* The read sets are sets of keys.
LEMMA ReadsAreKeys ==
  ASSUME NEW c \in Institution, NEW a \in Institution, NEW p \in ProposalId
  PROVE  /\ InitLedgerReads \subseteq Key
         /\ RegisterReads(c) \subseteq Key
         /\ ProposeReads(c, a) \subseteq Key
         /\ CastVoteReads(c, p) \subseteq Key
<1>1. ActiveInstitutions \subseteq Institution
  BY DEF ActiveInstitutions
<1>2. Voters(p, "yes") \subseteq Institution
  BY DEF Voters
<1> QED
  BY <1>1, <1>2 DEF InitLedgerReads, RegisterReads, ProposeReads, CastVoteReads, Key

\* A transaction is of the function it names.
LEMMA TxOfFunction ==
  ASSUME NEW t \in Tx
  PROVE  /\ t.fn = "InitLedger" => t \in InitTx
         /\ t.fn = "RegisterInstitution" => t \in RegisterTx
         /\ t.fn = "ProposeNewMember" => t \in ProposeTx
         /\ t.fn = "CastVote" => t \in VoteTx
BY DEF Tx, InitTx, RegisterTx, ProposeTx, VoteTx

\* Validation only touches the mark of staleness.
LEMMA MarkedTxType ==
  ASSUME NEW t \in Tx, NEW b \in BOOLEAN
  PROVE  [t EXCEPT !.stale = b] \in Tx
<1>1. CASE t \in InitTx
  BY <1>1 DEF Tx, InitTx
<1>2. CASE t \in RegisterTx
  BY <1>2 DEF Tx, RegisterTx
<1>3. CASE t \in ProposeTx
  BY <1>3 DEF Tx, ProposeTx
<1>4. CASE t \in VoteTx
  BY <1>4 DEF Tx, VoteTx
<1> QED
  BY <1>1, <1>2, <1>3, <1>4 DEF Tx

LEMMA RetireType ==
  ASSUME inflight \in [Client -> Tx \cup {None}], NEW k \in Client, NEW written,
         Retire(k, written)
  PROVE  inflight' \in [Client -> Tx \cup {None}]
<1> DEFINE mark(j) == inflight[j].stale \/ inflight[j].reads \cap written # {}
<1>1. ASSUME NEW j \in Client, ~Idle(j)
      PROVE  [inflight[j] EXCEPT !.stale = mark(j)] \in Tx
  <2>1. inflight[j] \in Tx
    BY <1>1 DEF Idle
  <2>2. mark(j) \in BOOLEAN
    BY <2>1 DEF Tx, InitTx, RegisterTx, ProposeTx, VoteTx
  <2> QED
    BY <2>1, <2>2, MarkedTxType
<1> QED
  BY <1>1 DEF Retire

LEMMA EndorseType ==
  ASSUME LedgerTypeOK, NEW k \in Client, NEW tx \in Tx, Endorse(k, tx)
  PROVE  LedgerTypeOK'
BY DEF LedgerTypeOK, TypeOK, Endorse, ledger

\* The state variables and the transactions in flight have their types.
THEOREM TypeCorrect == LedgerSpec => []LedgerTypeOK
<1>1. LedgerInit => LedgerTypeOK
  BY DEF LedgerInit, Init, LedgerTypeOK, TypeOK
<1>2. LedgerTypeOK /\ [LedgerNext]_vars => LedgerTypeOK'
  <2> SUFFICES ASSUME LedgerTypeOK, [LedgerNext]_vars PROVE LedgerTypeOK'
    OBVIOUS
  <2> USE DEF LedgerTypeOK
  <2>1. ASSUME NEW k \in Client, NEW founders \in SUBSET Institution, EndorseInitLedger(k, founders)
        PROVE  LedgerTypeOK'
    <3> DEFINE tx == [fn |-> "InitLedger", founders |-> founders,
                      reads |-> InitLedgerReads, stale |-> FALSE]
    <3>1. InitLedgerReads \subseteq Key
      BY DEF InitLedgerReads, Key
    <3>2. tx \in Tx
      BY <3>1 DEF Tx, InitTx
    <3> QED
      BY <2>1, <3>2, EndorseType DEF EndorseInitLedger
  <2>2. ASSUME NEW k \in Client, NEW c \in Institution, EndorseRegister(k, c)
        PROVE  LedgerTypeOK'
    <3> DEFINE tx == [fn |-> "RegisterInstitution", caller |-> c,
                      reads |-> RegisterReads(c), stale |-> FALSE]
    <3>1. RegisterReads(c) \subseteq Key
      BY DEF RegisterReads, Key
    <3>2. tx \in Tx
      BY <3>1 DEF Tx, RegisterTx
    <3> QED
      BY <2>2, <3>2, EndorseType DEF EndorseRegister
  <2>3. ASSUME NEW k \in Client, NEW c \in Institution, NEW a \in Institution,
               NEW p \in ProposalId, EndorsePropose(k, c, a, p)
        PROVE  LedgerTypeOK'
    <3> DEFINE tx == [fn |-> "ProposeNewMember", caller |-> c, id |-> p,
                      proposal |-> NewProposal(c, a),
                      reads |-> ProposeReads(c, a), stale |-> FALSE]
    <3>1. tx \in Tx
      BY NewProposalType, ReadsAreKeys DEF Tx, ProposeTx
    <3> QED
      BY <2>3, <3>1, EndorseType DEF EndorsePropose
  <2>4. ASSUME NEW k \in Client, NEW c \in Institution, NEW p \in ProposalId,
               NEW d \in Decision, EndorseVote(k, c, p, d)
        PROVE  LedgerTypeOK'
    <3> DEFINE tx == [fn |-> "CastVote", caller |-> c, id |-> p, decision |-> d,
                      proposal |-> VotedProposal(p, d), admission |-> Admission(c, p, d),
                      reads |-> CastVoteReads(c, p), stale |-> FALSE]
    <3>1. Exists(p)
      BY <2>4 DEF EndorseVote, CanVote
    <3>2. tx \in Tx
      BY <3>1, VotedProposalType, AdmissionType, ReadsAreKeys DEF Tx, VoteTx
    <3> QED
      BY <2>4, <3>2, EndorseType DEF EndorseVote
  <2>5. ASSUME NEW k \in Client, CommitInitLedger(k)
        PROVE  LedgerTypeOK'
    <3>1. inflight[k] \in InitTx
      BY <2>5, TxOfFunction DEF CommitInitLedger, Endorsed
    <3>2. inflight' \in [Client -> Tx \cup {None}]
      BY <2>5, RetireType DEF CommitInitLedger
    <3> QED
      BY <2>5, <3>1, <3>2 DEF CommitInitLedger, InitTx, TypeOK
  <2>6. ASSUME NEW k \in Client, CommitRegister(k)
        PROVE  LedgerTypeOK'
    <3>1. inflight[k] \in RegisterTx
      BY <2>6, TxOfFunction DEF CommitRegister, Endorsed
    <3>2. inflight' \in [Client -> Tx \cup {None}]
      BY <2>6, RetireType DEF CommitRegister
    <3>3. FoundingRecord \in InstitutionRecord
      BY DEF FoundingRecord, InstitutionRecord
    <3> QED
      BY <2>6, <3>1, <3>2, <3>3 DEF CommitRegister, RegisterTx, TypeOK
  <2>7. ASSUME NEW k \in Client, CommitPropose(k)
        PROVE  LedgerTypeOK'
    <3>1. inflight[k] \in ProposeTx
      BY <2>7, TxOfFunction DEF CommitPropose, Endorsed
    <3>2. inflight' \in [Client -> Tx \cup {None}]
      BY <2>7, RetireType DEF CommitPropose
    <3> QED
      BY <2>7, <3>1, <3>2 DEF CommitPropose, ProposeTx, TypeOK
  <2>8. ASSUME NEW k \in Client, CommitVote(k)
        PROVE  LedgerTypeOK'
    <3>1. inflight[k] \in VoteTx
      BY <2>8, TxOfFunction DEF CommitVote, Endorsed
    <3>2. inflight' \in [Client -> Tx \cup {None}]
      BY <2>8, RetireType DEF CommitVote
    <3>3. institutions' \in [Institution -> InstitutionRecord \cup {None}]
      BY <2>8, <3>1 DEF CommitVote, VoteTx, TypeOK
    <3> QED
      BY <2>8, <3>1, <3>2, <3>3 DEF CommitVote, VoteTx, TypeOK
  <2>9. ASSUME NEW k \in Client, Discard(k)
        PROVE  LedgerTypeOK'
    BY <2>9 DEF Discard, ledger, TypeOK
  <2>10. CASE UNCHANGED vars
    BY <2>10 DEF vars, ledger, TypeOK
  <2> QED
    BY <2>1, <2>2, <2>3, <2>4, <2>5, <2>6, <2>7, <2>8, <2>9, <2>10 DEF LedgerNext
<1> QED
  BY <1>1, <1>2, PTL DEF LedgerSpec

-----------------------------------------------------------------------------
(* Validation: what can still commit is current *)

\* What an endorsed transaction, stale or not, keeps from its endorsement: it read
\* the keys its effect depends on, and a new proposal starts open.
CoversNeeds(t) ==
  /\ t.fn = "InitLedger" => FoundingKey \in t.reads
  /\ t.fn = "RegisterInstitution" => {FoundingKey, InstitutionKey(t.caller)} \subseteq t.reads
  /\ t.fn = "ProposeNewMember" =>
       /\ {InstitutionKey(t.caller), InstitutionKey(t.proposal.applicant)} \subseteq t.reads
       /\ t.proposal.status = "open" /\ t.proposal.votesFor = 0 /\ t.proposal.votesAgainst = 0
  /\ t.fn = "CastVote" => {InstitutionKey(t.caller), ProposalKey(t.id)} \subseteq t.reads

ReadsCoverNeeds == \A k \in Client : ~Idle(k) => CoversNeeds(inflight[k])

\* Transaction IDs are unique.
NewIdsAreUnique ==
  \A j, k \in Client :
    j # k /\ Endorsed(j, "ProposeNewMember") /\ Endorsed(k, "ProposeNewMember")
      => inflight[j].id # inflight[k].id

Validated == LedgerTypeOK /\ ReadsCoverNeeds /\ NewIdsAreUnique /\ FreshTxIsCurrent

\* The keys of two kinds, or of two things, differ.
LEMMA KeysDiffer ==
  /\ \A i : FoundingKey # InstitutionKey(i) /\ FoundingKey # ProposalKey(i)
  /\ \A i, j : InstitutionKey(i) # ProposalKey(j)
  /\ \A i, j : InstitutionKey(i) = InstitutionKey(j) => i = j
  /\ \A p, q : ProposalKey(p) = ProposalKey(q) => p = q
BY DEF FoundingKey, InstitutionKey, ProposalKey

\* A transaction that stays in flight keeps everything but its mark.
LEMMA RetireKeeps ==
  ASSUME LedgerTypeOK, NEW k \in Client, NEW written, Retire(k, written),
         NEW j \in Client, ~Idle(j)'
  PROVE  /\ j # k /\ ~Idle(j)
         /\ inflight'[j] = [inflight[j] EXCEPT !.stale = inflight'[j].stale]
         /\ ~inflight'[j].stale => /\ inflight'[j] = inflight[j]
                                   /\ ~inflight[j].stale
                                   /\ inflight[j].reads \cap written = {}
<1> DEFINE mark == inflight[j].stale \/ inflight[j].reads \cap written # {}
<1>1. j # k /\ ~Idle(j)
  BY DEF Retire, Idle
<1>2. inflight'[j] = [inflight[j] EXCEPT !.stale = mark]
  BY <1>1 DEF Retire, Idle
<1>3. inflight[j] \in Tx
  BY <1>1 DEF LedgerTypeOK, Idle
<1>4. /\ inflight[j] = [inflight[j] EXCEPT !.stale = inflight[j].stale]
      /\ inflight[j].stale \in BOOLEAN
      /\ \A b \in BOOLEAN : [inflight[j] EXCEPT !.stale = b].stale = b
  BY <1>3 DEF Tx, InitTx, RegisterTx, ProposeTx, VoteTx
<1>5. mark \in BOOLEAN
  BY <1>4
<1>6. inflight'[j].stale = mark
  BY <1>2, <1>4, <1>5
<1> QED
  BY <1>1, <1>2, <1>4, <1>6

\* Whether a transaction is current depends on the ledger alone.
LEMMA StaysCurrent ==
  ASSUME UNCHANGED ledger, NEW t, IsCurrent(t)
  PROVE  IsCurrent(t)'
BY DEF ledger, IsCurrent, CanInitLedger, CanRegister, Exists, IsActive, ActiveInstitutions,
   CanVote, VotedProposal, StatusAfter, IsApprovedBy, IsBeyondApproval, Counted, Admission,
   Approvers, Voters

\* A new transaction in flight that is covered and current does no harm.
LEMMA EndorseValidated ==
  ASSUME Validated, NEW k \in Client, NEW tx \in Tx, Endorse(k, tx),
         CoversNeeds(tx), IsCurrent(tx),
         tx.fn = "ProposeNewMember" =>
           \A j \in Client : Endorsed(j, "ProposeNewMember") => inflight[j].id # tx.id
  PROVE  Validated'
<1> USE DEF Validated
<1>1. /\ inflight' = [inflight EXCEPT ![k] = tx]
      /\ Idle(k) /\ UNCHANGED <<founding, institutions, proposals, votes>>
  BY DEF Endorse, ledger
<1>2. inflight'[k] = tx /\ \A j \in Client : j # k => inflight'[j] = inflight[j]
  BY <1>1 DEF LedgerTypeOK
<1>3. LedgerTypeOK'
  BY EndorseType
<1>4. ReadsCoverNeeds'
  BY <1>2 DEF ReadsCoverNeeds, CoversNeeds, Idle
<1>5. NewIdsAreUnique'
  BY <1>2 DEF NewIdsAreUnique, Endorsed
<1>6. \A t : IsCurrent(t) => IsCurrent(t)'
  BY <1>1, StaysCurrent DEF ledger
<1>7. FreshTxIsCurrent'
  BY <1>2, <1>6 DEF FreshTxIsCurrent, IsCurrent, Idle
<1> QED
  BY <1>3, <1>4, <1>5, <1>7

\* What is true of every step of the ledger: founders and members stay, and
\* founding stays as long as it is not empty.
MembersStay == \A i \in Institution : IsActive(i) => IsActive(i)'

\* Every change of the state variables is the write of a key.
WritesKeys(written) ==
  /\ founding' # founding => FoundingKey \in written
  /\ \A i \in Institution : institutions'[i] # institutions[i] => InstitutionKey(i) \in written
  /\ \A p \in ProposalId :
       proposals'[p] # proposals[p] \/ votes'[p] # votes[p] => ProposalKey(p) \in written

LEMMA ActiveGrow ==
  ASSUME MembersStay
  PROVE  /\ ActiveInstitutions \subseteq ActiveInstitutions'
         /\ Cardinality(ActiveInstitutions) <= Cardinality(ActiveInstitutions')
         /\ Cardinality(ActiveInstitutions) \in Nat /\ Cardinality(ActiveInstitutions') \in Nat
<1>1. ActiveInstitutions \subseteq ActiveInstitutions'
  BY DEF MembersStay, ActiveInstitutions
<1>2. ActiveInstitutions' \subseteq Institution
  BY DEF ActiveInstitutions
<1>3. IsFiniteSet(ActiveInstitutions')
  BY <1>2, FinitelyManyInstitutions, FS_Subset
<1> QED
  BY <1>1, <1>3, FS_Subset, FS_CardinalityType

\* A commit leaves the other transactions stale, or as current as they were.
LEMMA CommitValidated ==
  ASSUME Validated, LedgerTypeOK', NEW k \in Client, NEW written, Retire(k, written),
         WritesKeys(written), MembersStay,
         \A j \in Client : j # k /\ Endorsed(j, "ProposeNewMember") /\ ~Exists(inflight[j].id)
                             => proposals'[inflight[j].id] = None
  PROVE  Validated'
<1> USE DEF Validated
<1>1. ReadsCoverNeeds'
  <2> SUFFICES ASSUME NEW j \in Client, ~Idle(j)' PROVE CoversNeeds(inflight[j])'
    BY DEF ReadsCoverNeeds, Idle
  <2>1. /\ ~Idle(j)
        /\ inflight'[j] = [inflight[j] EXCEPT !.stale = inflight'[j].stale]
    BY RetireKeeps
  <2>2. CoversNeeds(inflight[j]) /\ inflight[j] \in Tx
    BY <2>1 DEF ReadsCoverNeeds, LedgerTypeOK, Idle
  <2> QED
    BY <2>1, <2>2 DEF CoversNeeds, Tx, InitTx, RegisterTx, ProposeTx, VoteTx
<1>2. NewIdsAreUnique'
  <2>1. ASSUME NEW j \in Client, Endorsed(j, "ProposeNewMember")'
        PROVE  Endorsed(j, "ProposeNewMember") /\ inflight'[j].id = inflight[j].id
    <3>1. /\ ~Idle(j)
          /\ inflight'[j] = [inflight[j] EXCEPT !.stale = inflight'[j].stale]
      BY <2>1, RetireKeeps DEF Endorsed, Idle
    <3>2. inflight[j] \in Tx
      BY <3>1 DEF LedgerTypeOK, Idle
    <3> QED
      BY <2>1, <3>1, <3>2 DEF Endorsed, Idle, Tx, InitTx, RegisterTx, ProposeTx, VoteTx
  <2> QED
    BY <2>1 DEF NewIdsAreUnique, Endorsed
<1>3. FreshTxIsCurrent'
  <2> SUFFICES ASSUME NEW j \in Client, ~Idle(j)', ~inflight'[j].stale
               PROVE  IsCurrent(inflight[j])'
    BY DEF FreshTxIsCurrent, Idle
  <2>1. /\ j # k /\ ~Idle(j) /\ ~inflight[j].stale
        /\ inflight'[j] = inflight[j]
        /\ inflight[j].reads \cap written = {}
    BY RetireKeeps
  <2> DEFINE t == inflight[j]
  <2>2. t \in Tx /\ CoversNeeds(t) /\ IsCurrent(t)
    BY <2>1 DEF LedgerTypeOK, ReadsCoverNeeds, FreshTxIsCurrent, Idle
  <2>3. ASSUME t.fn = "InitLedger" PROVE CanInitLedger(t.founders)'
    BY <2>1, <2>2, <2>3 DEF CoversNeeds, IsCurrent, WritesKeys, CanInitLedger
  <2>4. ASSUME t.fn = "RegisterInstitution" PROVE CanRegister(t.caller)'
    <3>1. t \in RegisterTx
      BY <2>2, <2>4, TxOfFunction
    <3> QED
      BY <2>1, <2>2, <2>4, <3>1 DEF CoversNeeds, IsCurrent, WritesKeys, CanRegister, RegisterTx
  <2>5. ASSUME t.fn = "ProposeNewMember"
        PROVE  /\ ~Exists(t.id)'
               /\ IsActive(t.caller)'
               /\ institutions'[t.proposal.applicant] = None
               /\ t.proposal.totalEligibleVoters \in 1..Cardinality(ActiveInstitutions')
    <3>1. t \in ProposeTx
      BY <2>2, <2>5, TxOfFunction
    <3>2. ~Exists(t.id)'
      BY <2>1, <2>2, <2>5 DEF IsCurrent, Endorsed, Idle, Exists
    <3>3. IsActive(t.caller)' /\ institutions'[t.proposal.applicant] = None
      BY <2>1, <2>2, <2>5, <3>1
      DEF CoversNeeds, IsCurrent, WritesKeys, IsActive, ProposeTx, ProposalRecord
    <3>4. t.proposal.totalEligibleVoters \in 1..Cardinality(ActiveInstitutions')
      BY <2>2, <2>5, <3>1, ActiveGrow DEF IsCurrent, ProposeTx, ProposalRecord
    <3> QED
      BY <3>2, <3>3, <3>4
  <2>6. ASSUME t.fn = "CastVote"
        PROVE  /\ CanVote(t.caller, t.id)'
               /\ t.proposal = VotedProposal(t.id, t.decision)'
               /\ t.admission = Admission(t.caller, t.id, t.decision)'
    <3>1. t \in VoteTx
      BY <2>2, <2>6, TxOfFunction
    <3>2. /\ institutions'[t.caller] = institutions[t.caller]
          /\ proposals'[t.id] = proposals[t.id]
          /\ votes'[t.id] = votes[t.id]
      BY <2>1, <2>2, <2>6, <3>1 DEF CoversNeeds, WritesKeys, VoteTx
    <3>3. CanVote(t.caller, t.id)'
      BY <2>1, <2>2, <2>6, <3>2 DEF IsCurrent, CanVote, IsActive, Exists
    <3>4. /\ VotedProposal(t.id, t.decision)' = VotedProposal(t.id, t.decision)
          /\ Approvers(t.caller, t.id, t.decision)' = Approvers(t.caller, t.id, t.decision)
      BY <2>1, <3>2 DEF VotedProposal, StatusAfter, IsApprovedBy, IsBeyondApproval, Counted,
        Approvers, Voters
    <3> QED
      BY <2>1, <2>2, <2>6, <3>3, <3>4 DEF IsCurrent, Admission
  <2> QED
    BY <2>1, <2>3, <2>4, <2>5, <2>6 DEF IsCurrent
<1> QED
  BY <1>1, <1>2, <1>3

\* Endorsing.
LEMMA EndorsingValidates ==
  ASSUME Validated, LedgerTypeOK', NEW k \in Client,
         \/ \E founders \in SUBSET Institution : EndorseInitLedger(k, founders)
         \/ \E c \in Institution : EndorseRegister(k, c)
         \/ \E c, a \in Institution, p \in ProposalId : EndorsePropose(k, c, a, p)
         \/ \E c \in Institution, p \in ProposalId, d \in Decision : EndorseVote(k, c, p, d)
  PROVE  Validated'
<1>0. TypeOK
  BY DEF Validated, LedgerTypeOK
<1>1. ASSUME NEW founders \in SUBSET Institution, EndorseInitLedger(k, founders)
      PROVE  Validated'
  <2> DEFINE tx == [fn |-> "InitLedger", founders |-> founders,
                    reads |-> InitLedgerReads, stale |-> FALSE]
  <2>1. tx \in Tx
    BY DEF Tx, InitTx, InitLedgerReads, Key
  <2>2. CoversNeeds(tx) /\ IsCurrent(tx)
    BY <1>1 DEF EndorseInitLedger, CoversNeeds, IsCurrent, InitLedgerReads
  <2> QED
    BY <1>1, <2>1, <2>2, EndorseValidated DEF EndorseInitLedger
<1>2. ASSUME NEW c \in Institution, EndorseRegister(k, c)
      PROVE  Validated'
  <2> DEFINE tx == [fn |-> "RegisterInstitution", caller |-> c,
                    reads |-> RegisterReads(c), stale |-> FALSE]
  <2>1. tx \in Tx
    BY DEF Tx, RegisterTx, RegisterReads, Key
  <2>2. CoversNeeds(tx) /\ IsCurrent(tx)
    BY <1>2 DEF EndorseRegister, CoversNeeds, IsCurrent, RegisterReads
  <2> QED
    BY <1>2, <2>1, <2>2, EndorseValidated DEF EndorseRegister
<1>3. ASSUME NEW c \in Institution, NEW a \in Institution, NEW p \in ProposalId,
             EndorsePropose(k, c, a, p)
      PROVE  Validated'
  <2> DEFINE tx == [fn |-> "ProposeNewMember", caller |-> c, id |-> p,
                    proposal |-> NewProposal(c, a),
                    reads |-> ProposeReads(c, a), stale |-> FALSE]
  <2>1. tx \in Tx
    BY <1>0, NewProposalType, ReadsAreKeys DEF Tx, ProposeTx
  <2>2. Cardinality(ActiveInstitutions) \in 1..Cardinality(ActiveInstitutions)
    <3>1. c \in ActiveInstitutions
      BY <1>3 DEF EndorsePropose, CanPropose, ActiveInstitutions
    <3> QED
      BY <3>1, FiniteElectorates, FS_EmptySet
  <2>3. CoversNeeds(tx)
    BY DEF CoversNeeds, ProposeReads, NewProposal
  <2>4. IsCurrent(tx)
    BY <1>3, <2>2 DEF EndorsePropose, CanPropose, IsCurrent, NewProposal
  <2> QED
    BY <1>3, <2>1, <2>3, <2>4, EndorseValidated DEF EndorsePropose
<1>4. ASSUME NEW c \in Institution, NEW p \in ProposalId, NEW d \in Decision,
             EndorseVote(k, c, p, d)
      PROVE  Validated'
  <2> DEFINE tx == [fn |-> "CastVote", caller |-> c, id |-> p, decision |-> d,
                    proposal |-> VotedProposal(p, d), admission |-> Admission(c, p, d),
                    reads |-> CastVoteReads(c, p), stale |-> FALSE]
  <2>1. CanVote(c, p) /\ Exists(p)
    BY <1>4 DEF EndorseVote, CanVote
  <2>2. tx \in Tx
    BY <1>0, <2>1, VotedProposalType, AdmissionType, ReadsAreKeys DEF Tx, VoteTx
  <2>3. CoversNeeds(tx) /\ IsCurrent(tx)
    BY <2>1 DEF CoversNeeds, IsCurrent, CastVoteReads
  <2> QED
    BY <1>4, <2>2, <2>3, EndorseValidated DEF EndorseVote
<1> QED
  BY <1>1, <1>2, <1>3, <1>4

\* Founders and voters are admitted as active members.
LEMMA AdmissionIsActive ==
  ASSUME NEW c, NEW p, NEW d, Admission(c, p, d) # None
  PROVE  Admission(c, p, d).status = "active"
BY DEF Admission

\* A commit runs its function on the present state.
LEMMA CommitIsSerial ==
  ASSUME Validated, NEW k \in Client
  PROVE  LET t == inflight[k] IN
         /\ CommitInitLedger(k) => t.founders \in SUBSET Institution /\ InitLedger(t.founders)
         /\ CommitRegister(k) => t.caller \in Institution /\ RegisterInstitution(t.caller)
         /\ CommitPropose(k) => t.id \in ProposalId /\ OpenProposal(t.id)
         /\ CommitVote(k) => /\ t.caller \in Institution /\ t.id \in ProposalId
                             /\ t.decision \in Decision
                             /\ CastVote(t.caller, t.id, t.decision)
<1> DEFINE t == inflight[k]
<1>0. TypeOK /\ (t # None => t \in Tx)
  BY DEF Validated, LedgerTypeOK
<1>1. ASSUME t # None, ~t.stale PROVE IsCurrent(t)
  BY <1>1 DEF Validated, FreshTxIsCurrent, Idle
<1>2. ASSUME CommitInitLedger(k)
      PROVE  t.founders \in SUBSET Institution /\ InitLedger(t.founders)
  <2>1. t \in InitTx /\ IsCurrent(t)
    BY <1>0, <1>1, <1>2, TxOfFunction DEF CommitInitLedger, Endorsed
  <2> QED
    BY <1>2, <2>1 DEF CommitInitLedger, InitLedger, Endorsed, IsCurrent, InitTx
<1>3. ASSUME CommitRegister(k)
      PROVE  t.caller \in Institution /\ RegisterInstitution(t.caller)
  <2>1. t \in RegisterTx /\ IsCurrent(t)
    BY <1>0, <1>1, <1>3, TxOfFunction DEF CommitRegister, Endorsed
  <2> QED
    BY <1>3, <2>1 DEF CommitRegister, RegisterInstitution, Endorsed, IsCurrent, RegisterTx
<1>4. ASSUME CommitPropose(k)
      PROVE  t.id \in ProposalId /\ OpenProposal(t.id)
  <2>1. t \in ProposeTx /\ IsCurrent(t)
    BY <1>0, <1>1, <1>4, TxOfFunction DEF CommitPropose, Endorsed
  <2>2. proposals'[t.id] = t.proposal /\ t.proposal # None
    BY <1>0, <1>4, <2>1, NoneIsNoRecord DEF CommitPropose, ProposeTx, TypeOK
  <2>3. CoversNeeds(t)
    BY <1>4 DEF Validated, ReadsCoverNeeds, CommitPropose, Endorsed, Idle
  <2> QED
    BY <1>4, <2>1, <2>2, <2>3 DEF CommitPropose, OpenProposal, Endorsed, IsCurrent, CoversNeeds,
      ProposeTx
<1>5. ASSUME CommitVote(k)
      PROVE  /\ t.caller \in Institution /\ t.id \in ProposalId /\ t.decision \in Decision
             /\ CastVote(t.caller, t.id, t.decision)
  <2>1. t \in VoteTx /\ IsCurrent(t)
    BY <1>0, <1>1, <1>5, TxOfFunction DEF CommitVote, Endorsed
  <2>2. /\ CanVote(t.caller, t.id)
        /\ t.proposal = VotedProposal(t.id, t.decision)
        /\ t.admission = Admission(t.caller, t.id, t.decision)
    BY <1>5, <2>1 DEF CommitVote, Endorsed, IsCurrent
  <2>3. t.caller \in Institution /\ t.id \in ProposalId /\ t.decision \in Decision
    BY <2>1 DEF VoteTx
  <2>4. proposals[t.id] \in ProposalRecord
    BY <1>0, <2>2, <2>3, RecordsAreNotNone DEF CanVote
  <2>5. t.proposal.applicant = proposals[t.id].applicant
    BY <2>2, <2>4 DEF VotedProposal, Counted, ProposalRecord
  <2>6. institutions' = IF t.admission = None THEN institutions
                        ELSE [institutions EXCEPT ![proposals[t.id].applicant] = t.admission]
    BY <1>0, <1>5, <2>5 DEF CommitVote, TypeOK
  <2> QED
    BY <1>5, <2>2, <2>3, <2>6 DEF CommitVote, CastVote
<1> QED
  BY <1>2, <1>3, <1>4, <1>5

\* What still commits stays current whatever the others do.
LEMMA StepValidated ==
  ASSUME Validated, LedgerTypeOK', LedgerNext
  PROVE  Validated'
<1>0. LedgerTypeOK /\ TypeOK
  BY DEF Validated, LedgerTypeOK
<1>1. PICK k \in Client :
        \/ \E founders \in SUBSET Institution : EndorseInitLedger(k, founders)
        \/ \E c \in Institution : EndorseRegister(k, c)
        \/ \E c, a \in Institution, p \in ProposalId : EndorsePropose(k, c, a, p)
        \/ \E c \in Institution, p \in ProposalId, d \in Decision : EndorseVote(k, c, p, d)
        \/ CommitInitLedger(k)
        \/ CommitRegister(k)
        \/ CommitPropose(k)
        \/ CommitVote(k)
        \/ Discard(k)
  BY DEF LedgerNext
<1> DEFINE t == inflight[k]
<1>2. t # None => t \in Tx
  BY <1>0 DEF LedgerTypeOK
<1>3. CASE CommitInitLedger(k)
  <2>1. WritesKeys({FoundingKey}) /\ MembersStay
    BY <1>3 DEF CommitInitLedger, WritesKeys, MembersStay, IsActive
  <2> QED
    BY <1>3, <2>1, CommitValidated DEF CommitInitLedger, Exists
<1>4. CASE CommitRegister(k)
  <2>1. t.caller \in Institution /\ RegisterInstitution(t.caller)
    BY <1>4, CommitIsSerial
  <2>2. WritesKeys({InstitutionKey(t.caller)}) /\ MembersStay
    BY <1>0, <1>4, <2>1 DEF CommitRegister, RegisterInstitution, CanRegister, FoundingRecord,
       WritesKeys, MembersStay, IsActive, TypeOK
  <2> QED
    BY <1>4, <2>2, CommitValidated DEF CommitRegister, Exists
<1>5. CASE CommitPropose(k)
  <2>1. t.id \in ProposalId
    BY <1>5, CommitIsSerial
  <2>2. WritesKeys({ProposalKey(t.id)}) /\ MembersStay
    BY <1>0, <1>5, <2>1 DEF CommitPropose, WritesKeys, MembersStay, IsActive, TypeOK
  <2>3. ASSUME NEW j \in Client, j # k, Endorsed(j, "ProposeNewMember"), ~Exists(inflight[j].id)
        PROVE  proposals'[inflight[j].id] = None
    <3>1. inflight[j].id # t.id
      BY <1>5, <2>3 DEF CommitPropose, Validated, NewIdsAreUnique
    <3>2. inflight[j].id \in ProposalId
      BY <1>0, <2>3, TxOfFunction DEF LedgerTypeOK, Endorsed, ProposeTx
    <3> QED
      BY <1>0, <1>5, <2>3, <3>1, <3>2 DEF CommitPropose, Exists, TypeOK
  <2> QED
    BY <1>5, <2>2, <2>3, CommitValidated DEF CommitPropose
<1>6. CASE CommitVote(k)
  <2> DEFINE admitted == IF t.admission = None THEN {} ELSE {t.proposal.applicant}
             written == {VoteKey(t.id, t.caller), ProposalKey(t.id)}
                          \cup {InstitutionKey(i) : i \in admitted}
  <2>1. /\ t.caller \in Institution /\ t.id \in ProposalId /\ t.decision \in Decision
        /\ CastVote(t.caller, t.id, t.decision)
    BY <1>6, CommitIsSerial
  <2>2. t \in VoteTx /\ Exists(t.id)
    BY <1>2, <1>6, <2>1, TxOfFunction DEF CommitVote, Endorsed, CastVote, CanVote
  <2>3. institutions' = [i \in Institution |-> IF i \in admitted THEN t.admission ELSE institutions[i]]
    BY <1>6 DEF CommitVote
  <2>4. WritesKeys(written)
    <3>1. founding' = founding
      BY <1>6 DEF CommitVote
    <3>2. ASSUME NEW i \in Institution, institutions'[i] # institutions[i]
          PROVE  InstitutionKey(i) \in written
      BY <2>3, <3>2
    <3>3. ASSUME NEW p \in ProposalId, proposals'[p] # proposals[p] \/ votes'[p] # votes[p]
          PROVE  ProposalKey(p) \in written
      BY <1>0, <1>6, <2>1, <3>3 DEF CommitVote, TypeOK
    <3> QED
      BY <3>1, <3>2, <3>3 DEF WritesKeys
  <2>5. MembersStay
    <3>1. t.admission # None => t.admission.status = "active"
      BY <1>6, <1>2, <2>2, AdmissionIsActive
      DEF Validated, FreshTxIsCurrent, IsCurrent, CommitVote, Endorsed, Idle
    <3>2. t.admission # None => t.admission # None /\ t.proposal.applicant \in Institution
      BY <2>2 DEF VoteTx, ProposalRecord
    <3> QED
      BY <2>3, <3>1, <3>2 DEF MembersStay, IsActive
  <2>6. ASSUME NEW p \in ProposalId, ~Exists(p) PROVE proposals'[p] = None
    BY <1>0, <1>6, <2>1, <2>2, <2>6 DEF CommitVote, Exists, TypeOK
  <2>7. \A j \in Client : Endorsed(j, "ProposeNewMember") => inflight[j].id \in ProposalId
    BY <1>0, TxOfFunction DEF LedgerTypeOK, Endorsed, ProposeTx
  <2>8. Retire(k, written)
    BY <1>6 DEF CommitVote
  <2> QED
    BY <2>4, <2>5, <2>6, <2>7, <2>8, CommitValidated
<1>7. CASE Discard(k)
  <2>1. UNCHANGED <<founding, institutions, proposals, votes>>
    BY <1>7 DEF Discard, ledger
  <2>2. \A j \in Client : ~Idle(j)' => ~Idle(j) /\ inflight'[j] = inflight[j]
    BY <1>0, <1>7 DEF Discard, Idle, LedgerTypeOK
  <2>3. \A u : IsCurrent(u) => IsCurrent(u)'
    BY <2>1, StaysCurrent DEF ledger
  <2>4. ReadsCoverNeeds'
    BY <2>2 DEF Validated, ReadsCoverNeeds, CoversNeeds, Idle
  <2>5. NewIdsAreUnique'
    BY <2>2 DEF Validated, NewIdsAreUnique, Endorsed, Idle
  <2>6. FreshTxIsCurrent'
    BY <2>2, <2>3 DEF Validated, FreshTxIsCurrent, IsCurrent, Idle
  <2> QED
    BY <2>4, <2>5, <2>6 DEF Validated
<1> QED
  BY <1>1, <1>3, <1>4, <1>5, <1>6, <1>7, EndorsingValidates

LEMMA AlwaysValidated == LedgerSpec => []Validated
<1>1. LedgerInit => Validated
  BY DEF LedgerInit, Init, Validated, LedgerTypeOK, TypeOK, ReadsCoverNeeds, NewIdsAreUnique,
     FreshTxIsCurrent, Idle, Endorsed
<1>2. Validated /\ LedgerTypeOK' /\ [LedgerNext]_vars => Validated'
  <2>1. CASE LedgerNext
    BY <2>1, StepValidated
  <2>2. ASSUME Validated, UNCHANGED vars PROVE Validated'
    <3>1. UNCHANGED <<founding, institutions, proposals, votes, inflight>>
      BY <2>2 DEF vars, ledger
    <3>2. LedgerTypeOK' /\ ReadsCoverNeeds' /\ NewIdsAreUnique'
      BY <2>2, <3>1 DEF Validated, LedgerTypeOK, TypeOK, ReadsCoverNeeds, CoversNeeds,
         NewIdsAreUnique, Endorsed, Idle
    <3>3. \A t : IsCurrent(t) => IsCurrent(t)'
      BY <3>1, StaysCurrent DEF ledger
    <3>4. FreshTxIsCurrent'
      BY <2>2, <3>1, <3>3 DEF Validated, FreshTxIsCurrent, Idle, IsCurrent
    <3> QED
      BY <3>2, <3>4 DEF Validated
  <2> QED
    BY <2>1, <2>2
<1> QED
  BY <1>1, <1>2, TypeCorrect, PTL DEF LedgerSpec

\* A transaction that has not become stale would compute, run again on the present
\* records, what it already computed (governance.go:335-365, 371-492).
THEOREM Validation == LedgerSpec => []FreshTxIsCurrent
BY AlwaysValidated, PTL DEF Validated

\* Whatever clients do at once, the ledger changes only as if chaincode functions
\* ran one at a time, but for what a proposal took from rich queries.
THEOREM Serializable == LedgerSpec => SerialCommits
<1>1. Validated /\ [LedgerNext]_vars => [SerialStep]_ledger
  <2> SUFFICES ASSUME Validated, [LedgerNext]_vars, ~UNCHANGED ledger PROVE SerialStep
    OBVIOUS
  <2>1. PICK k \in Client :
          CommitInitLedger(k) \/ CommitRegister(k) \/ CommitPropose(k) \/ CommitVote(k)
    BY DEF LedgerNext, vars, Discard, Endorse, EndorseInitLedger, EndorseRegister,
       EndorsePropose, EndorseVote
  <2> QED
    BY <2>1, CommitIsSerial DEF SerialStep
<1> QED
  BY <1>1, AlwaysValidated, PTL DEF LedgerSpec, SerialCommits

-----------------------------------------------------------------------------
(* The steps of the ledger *)

\* A vote changes one proposal, one vote, and the applicant if it approves.
VoteEffect(c, p, d) ==
  LET t == proposals[p]  u == proposals'[p] IN
  /\ t \in ProposalRecord /\ t.status = "open" /\ c # t.applicant /\ IsActive(c)
  /\ u \in ProposalRecord
  /\ u.applicant = t.applicant /\ u.totalEligibleVoters = t.totalEligibleVoters
  /\ u.votesFor = IF d = "yes" THEN t.votesFor + 1 ELSE t.votesFor
  /\ u.votesAgainst = IF d = "yes" THEN t.votesAgainst ELSE t.votesAgainst + 1
  /\ u.status = StatusAfter(u)
  /\ votes[p][c] = "none" /\ votes'[p] = [votes[p] EXCEPT ![c] = d]
  /\ \A q \in ProposalId : q # p => proposals'[q] = proposals[q] /\ votes'[q] = votes[q]
  /\ founding' = founding
  /\ institutions' =
       IF u.status # "approved" THEN institutions
       ELSE [institutions EXCEPT ![t.applicant] =
               [status |-> "active", type |-> "approved", approvedBy |-> Approvers(c, p, d)]]

LEMMA CastVoteEffect ==
  ASSUME TypeOK, NEW c \in Institution, NEW p \in ProposalId, NEW d \in Decision,
         CastVote(c, p, d)
  PROVE  VoteEffect(c, p, d)
<1> DEFINE t == proposals[p]
           u == proposals'[p]
<1>1. /\ t \in ProposalRecord /\ t.status = "open" /\ c # t.applicant /\ IsActive(c)
      /\ votes[p][c] = "none"
  BY RecordsAreNotNone DEF CastVote, CanVote
<1>2. u = VotedProposal(p, d) /\ u \in ProposalRecord
  BY VotedProposalType DEF CastVote, CanVote, TypeOK
<1>3. /\ u.applicant = t.applicant /\ u.totalEligibleVoters = t.totalEligibleVoters
      /\ u.votesFor = IF d = "yes" THEN t.votesFor + 1 ELSE t.votesFor
      /\ u.votesAgainst = IF d = "yes" THEN t.votesAgainst ELSE t.votesAgainst + 1
      /\ u.status = StatusAfter(u)
  BY <1>1, <1>2 DEF VotedProposal, Counted, StatusAfter, IsApprovedBy, IsBeyondApproval,
     ProposalRecord
<1>4. /\ votes'[p] = [votes[p] EXCEPT ![c] = d]
      /\ \A q \in ProposalId : q # p => proposals'[q] = proposals[q] /\ votes'[q] = votes[q]
      /\ founding' = founding
  BY DEF CastVote, TypeOK
<1>5. Admission(c, p, d) # None <=> u.status = "approved"
  <2>1. [status |-> "active", type |-> "approved", approvedBy |-> Approvers(c, p, d)] \in InstitutionRecord
    BY DEF InstitutionRecord, Approvers, Voters
  <2> QED
    BY <1>2, <2>1, NoneIsNoRecord DEF Admission
<1>6. institutions' =
        IF u.status # "approved" THEN institutions
        ELSE [institutions EXCEPT ![t.applicant] =
                [status |-> "active", type |-> "approved", approvedBy |-> Approvers(c, p, d)]]
  BY <1>2, <1>5 DEF CastVote, Admission
<1> QED
  BY <1>1, <1>2, <1>3, <1>4, <1>6 DEF VoteEffect

\* Founders, proposals and votes never take a membership away.
LEMMA StepKeepsMembers ==
  ASSUME TypeOK, SerialStep
  PROVE  MembersStay
<1>1. ASSUME NEW founders \in SUBSET Institution, InitLedger(founders)
      PROVE  MembersStay
  BY <1>1 DEF InitLedger, MembersStay, IsActive
<1>2. ASSUME NEW c \in Institution, RegisterInstitution(c)
      PROVE  MembersStay
  BY <1>2 DEF RegisterInstitution, CanRegister, MembersStay, IsActive, TypeOK
<1>3. ASSUME NEW p \in ProposalId, OpenProposal(p)
      PROVE  MembersStay
  BY <1>3 DEF OpenProposal, MembersStay, IsActive
<1>4. ASSUME NEW c \in Institution, NEW p \in ProposalId, NEW d \in Decision, CastVote(c, p, d)
      PROVE  MembersStay
  <2> DEFINE admitted == [status |-> "active", type |-> "approved", approvedBy |-> Approvers(c, p, d)]
  <2>1. admitted \in InstitutionRecord
    BY DEF InstitutionRecord, Approvers, Voters
  <2>2. VoteEffect(c, p, d)
    BY <1>4, CastVoteEffect
  <2>3. \/ institutions' = institutions
        \/ institutions' = [institutions EXCEPT ![proposals[p].applicant] = admitted]
    BY <2>2 DEF VoteEffect
  <2> QED
    BY <2>1, <2>3, NoneIsNoRecord DEF MembersStay, IsActive, TypeOK
<1> QED
  BY <1>1, <1>2, <1>3, <1>4 DEF SerialStep

\* What is settled stays settled.
THEOREM Finality == LedgerSpec => SettledIsFinal
<1> DEFINE Settled ==
             /\ founding # {} => founding' = founding
             /\ \A i \in Institution : IsActive(i) => IsActive(i)'
             /\ \A p \in ProposalId : Exists(p) =>
                  /\ proposals[p].status # "open" => proposals'[p] = proposals[p]
                  /\ proposals'[p].applicant = proposals[p].applicant
                  /\ proposals'[p].totalEligibleVoters = proposals[p].totalEligibleVoters
                  /\ \A i \in Institution : votes[p][i] # "none" => votes'[p][i] = votes[p][i]
<1>1. TypeOK /\ SerialStep => Settled
  <2> SUFFICES ASSUME TypeOK, SerialStep PROVE Settled
    OBVIOUS
  <2>1. ASSUME NEW founders \in SUBSET Institution, InitLedger(founders)
        PROVE  Settled
    BY <2>1 DEF InitLedger, CanInitLedger, IsActive
  <2>2. ASSUME NEW c \in Institution, RegisterInstitution(c)
        PROVE  Settled
    BY <2>2 DEF RegisterInstitution, CanRegister, IsActive, TypeOK
  <2>3. ASSUME NEW p \in ProposalId, OpenProposal(p)
        PROVE  Settled
    BY <2>3 DEF OpenProposal, Exists, IsActive, TypeOK
  <2>4. ASSUME NEW c \in Institution, NEW p \in ProposalId, NEW d \in Decision, CastVote(c, p, d)
        PROVE  Settled
    <3>0. VoteEffect(c, p, d)
      BY <2>4, CastVoteEffect
    <3>1. \A i \in Institution : IsActive(i) => IsActive(i)'
      BY StepKeepsMembers DEF MembersStay
    <3>2. ASSUME NEW q \in ProposalId, Exists(q)
          PROVE  /\ proposals[q].status # "open" => proposals'[q] = proposals[q]
                 /\ proposals'[q].applicant = proposals[q].applicant
                 /\ proposals'[q].totalEligibleVoters = proposals[q].totalEligibleVoters
                 /\ \A i \in Institution : votes[q][i] # "none" => votes'[q][i] = votes[q][i]
      <4>1. CASE q = p
        BY <3>0, <4>1 DEF VoteEffect, TypeOK
      <4>2. CASE q # p
        BY <3>0, <4>2 DEF VoteEffect
      <4> QED
        BY <4>1, <4>2
    <3>3. founding' = founding
      BY <3>0 DEF VoteEffect
    <3> QED
      BY <3>1, <3>2, <3>3
  <2> QED
    BY <2>1, <2>2, <2>3, <2>4 DEF SerialStep
<1>2. TypeOK /\ [SerialStep]_ledger => [Settled]_ledger
  BY <1>1
<1> QED
  BY <1>2, TypeCorrect, Serializable, PTL DEF SettledIsFinal, SerialCommits, LedgerTypeOK

\* A new proposal starts from an electorate of members alive now.
THEOREM NewProposals == LedgerSpec => MembersAreNotProposed
<1> DEFINE Fair == \A p \in ProposalId : ~Exists(p) /\ proposals'[p] # None =>
                     /\ institutions[proposals'[p].applicant] = None
                     /\ proposals'[p].totalEligibleVoters \in 1..Cardinality(ActiveInstitutions)
<1>1. TypeOK /\ SerialStep => Fair
  <2> SUFFICES ASSUME TypeOK, SerialStep, NEW q \in ProposalId, ~Exists(q), proposals'[q] # None
               PROVE  /\ institutions[proposals'[q].applicant] = None
                      /\ proposals'[q].totalEligibleVoters \in 1..Cardinality(ActiveInstitutions)
    OBVIOUS
  <2>1. ASSUME NEW founders \in SUBSET Institution, InitLedger(founders)
        PROVE  FALSE
    BY <2>1 DEF InitLedger, Exists
  <2>2. ASSUME NEW c \in Institution, RegisterInstitution(c)
        PROVE  FALSE
    BY <2>2 DEF RegisterInstitution, Exists
  <2>3. ASSUME NEW p \in ProposalId, OpenProposal(p)
        PROVE  q = p
    BY <2>3 DEF OpenProposal, Exists, TypeOK
  <2>4. ASSUME NEW c \in Institution, NEW p \in ProposalId, NEW d \in Decision, CastVote(c, p, d)
        PROVE  FALSE
    <3>1. VoteEffect(c, p, d)
      BY <2>4, CastVoteEffect
    <3>2. proposals[p] # None
      BY <2>4 DEF CastVote, CanVote, Exists
    <3> QED
      BY <3>1, <3>2 DEF VoteEffect, Exists
  <2> QED
    BY <2>1, <2>2, <2>3, <2>4 DEF SerialStep, OpenProposal
<1>2. TypeOK /\ [SerialStep]_ledger => [Fair]_ledger
  BY <1>1
<1> QED
  BY <1>2, TypeCorrect, Serializable, PTL DEF MembersAreNotProposed, SerialCommits, LedgerTypeOK

-----------------------------------------------------------------------------
(* Counting *)

\* A vote joins the voters of its side, and no others.
LEMMA VotersAfterVote ==
  ASSUME TypeOK, NEW c \in Institution, NEW p \in ProposalId, NEW d \in Decision,
         VoteEffect(c, p, d)
  PROVE  /\ Voters(p, d)' = Voters(p, d) \cup {c} /\ c \notin Voters(p, d)
         /\ Cardinality(Voters(p, d)') = Cardinality(Voters(p, d)) + 1
         /\ \A e \in Decision \ {d} : Voters(p, e)' = Voters(p, e)
         /\ \A q \in ProposalId : q # p => \A e : Voters(q, e)' = Voters(q, e)
<1>1. Voters(p, d)' = Voters(p, d) \cup {c} /\ c \notin Voters(p, d)
  BY DEF VoteEffect, Voters, TypeOK, Decision
<1>2. \A e \in Decision \ {d} : Voters(p, e)' = Voters(p, e)
  BY DEF VoteEffect, Voters, TypeOK, Decision
<1>3. \A q \in ProposalId : q # p => \A e : Voters(q, e)' = Voters(q, e)
  BY DEF VoteEffect, Voters
<1> QED
  BY <1>1, <1>2, <1>3, FiniteElectorates, FS_AddElement

\* The inductive invariant of counting: a non-empty electorate, exact counters, and
\* a status that follows them.
WellCounted(p) ==
  LET t == proposals[p] IN
  /\ t.totalEligibleVoters >= 1
  /\ t.votesFor + t.votesAgainst <= t.totalEligibleVoters
  /\ t.votesFor <= RequiredVotesToApprove(t.totalEligibleVoters)
  /\ (t.status = "approved") <=> (2 * t.votesFor > t.totalEligibleVoters)
  /\ (t.status = "rejected") <=> (2 * t.votesAgainst >= t.totalEligibleVoters)

Counting == TypeOK /\ TallyIsExact /\ \A p \in ProposalId : Exists(p) => WellCounted(p)

\* One more vote on an open, well counted proposal leaves it well counted.
LEMMA OneMoreVote ==
  ASSUME TypeOK, NEW c \in Institution, NEW p \in ProposalId, NEW d \in Decision,
         VoteEffect(c, p, d), WellCounted(p)
  PROVE  WellCounted(p)'
<1> DEFINE t == proposals[p]
           u == proposals'[p]
           n == t.totalEligibleVoters
<1>1. /\ n \in Nat /\ t.votesFor \in Nat /\ t.votesAgainst \in Nat
      /\ u.votesFor \in Nat /\ u.votesAgainst \in Nat
  BY DEF VoteEffect, ProposalRecord
<1>2. n >= 1 /\ 2 * t.votesFor <= n /\ 2 * t.votesAgainst < n
  BY <1>1 DEF VoteEffect, WellCounted
<1>3. /\ u.totalEligibleVoters = n
      /\ \/ u.votesFor = t.votesFor + 1 /\ u.votesAgainst = t.votesAgainst
         \/ u.votesFor = t.votesFor /\ u.votesAgainst = t.votesAgainst + 1
  BY DEF VoteEffect
<1>4. IsApprovedBy(u) <=> 2 * u.votesFor > n
  BY <1>1, <1>3 DEF IsApprovedBy, RequiredVotesToApprove
<1>5. IsBeyondApproval(u) <=> 2 * u.votesAgainst >= n
  BY <1>1, <1>3 DEF IsBeyondApproval, RequiredVotesToApprove
<1>6. u.status = IF IsApprovedBy(u) THEN "approved"
                 ELSE IF IsBeyondApproval(u) THEN "rejected" ELSE "open"
  BY DEF VoteEffect, StatusAfter
<1>7. ~(2 * u.votesFor > n /\ 2 * u.votesAgainst >= n)
  BY <1>1, <1>2, <1>3
<1>8. u.votesFor + u.votesAgainst <= n /\ u.votesFor <= RequiredVotesToApprove(n)
  BY <1>1, <1>2, <1>3 DEF RequiredVotesToApprove
<1> QED
  BY <1>2, <1>3, <1>4, <1>5, <1>6, <1>7, <1>8 DEF WellCounted

LEMMA StepCounts ==
  ASSUME Counting, TypeOK', SerialStep
  PROVE  Counting'
<1> USE DEF Counting
<1>1. ASSUME UNCHANGED <<proposals, votes>>
      PROVE  Counting'
  BY <1>1 DEF TallyIsExact, Exists, Voters, WellCounted
<1>2. ASSUME NEW founders \in SUBSET Institution, InitLedger(founders)
      PROVE  Counting'
  BY <1>1, <1>2 DEF InitLedger
<1>3. ASSUME NEW c \in Institution, RegisterInstitution(c)
      PROVE  Counting'
  BY <1>1, <1>3 DEF RegisterInstitution
<1>4. ASSUME NEW p \in ProposalId, OpenProposal(p)
      PROVE  Counting'
  <2> DEFINE t == proposals'[p]
  <2>1. /\ t # None /\ t \in ProposalRecord /\ t.status = "open"
        /\ t.votesFor = 0 /\ t.votesAgainst = 0 /\ t.totalEligibleVoters >= 1
    BY <1>4, FiniteElectorates DEF OpenProposal, TypeOK
  <2>2. /\ \A q \in ProposalId : q # p => proposals'[q] = proposals[q]
        /\ \A q, e : Voters(q, e)' = Voters(q, e)
        /\ votes' = votes
    BY <1>4 DEF OpenProposal, TypeOK, Voters
  <2>3. \A i \in Institution : votes[p][i] = "none"
    BY <1>4 DEF OpenProposal, TallyIsExact, Voters
  <2>4. Voters(p, "yes") = {} /\ Voters(p, "no") = {}
    BY <2>3 DEF Voters
  <2>5. WellCounted(p)'
    BY <2>1 DEF WellCounted, RequiredVotesToApprove, ProposalRecord
  <2>6. \A q \in ProposalId : q # p /\ WellCounted(q) => WellCounted(q)'
    BY <2>2 DEF WellCounted
  <2>7. TallyIsExact'
    <3> SUFFICES ASSUME NEW q \in ProposalId
                 PROVE  IF Exists(q)'
                        THEN /\ proposals'[q].votesFor = Cardinality(Voters(q, "yes")')
                             /\ proposals'[q].votesAgainst = Cardinality(Voters(q, "no")')
                             /\ votes'[q][proposals'[q].applicant] = "none"
                        ELSE Voters(q, "none")' = Institution
      BY DEF TallyIsExact
    <3>1. CASE q = p
      BY <2>1, <2>2, <2>3, <2>4, <3>1, FS_EmptySet DEF ProposalRecord, Exists
    <3>2. CASE q # p
      BY <2>2, <3>2 DEF TallyIsExact, Exists
    <3> QED
      BY <3>1, <3>2
  <2> QED
    BY <2>2, <2>5, <2>6, <2>7 DEF Exists
<1>5. ASSUME NEW c \in Institution, NEW p \in ProposalId, NEW d \in Decision, CastVote(c, p, d)
      PROVE  Counting'
  <2>0. VoteEffect(c, p, d) /\ Exists(p)
    BY <1>5, CastVoteEffect DEF CastVote, CanVote
  <2>1. WellCounted(p)'
    BY <2>0, OneMoreVote
  <2>2. \A q \in ProposalId : q # p /\ WellCounted(q) => WellCounted(q)'
    BY <2>0 DEF VoteEffect, WellCounted
  <2>3. TallyIsExact'
    <3> SUFFICES ASSUME NEW q \in ProposalId
                 PROVE  IF Exists(q)'
                        THEN /\ proposals'[q].votesFor = Cardinality(Voters(q, "yes")')
                             /\ proposals'[q].votesAgainst = Cardinality(Voters(q, "no")')
                             /\ votes'[q][proposals'[q].applicant] = "none"
                        ELSE Voters(q, "none")' = Institution
      BY DEF TallyIsExact
    <3>1. CASE q = p
      <4>1. /\ proposals[p].votesFor = Cardinality(Voters(p, "yes"))
            /\ proposals[p].votesAgainst = Cardinality(Voters(p, "no"))
            /\ votes[p][proposals[p].applicant] = "none"
        BY <2>0 DEF TallyIsExact
      <4>2. /\ proposals'[p].votesFor = Cardinality(Voters(p, "yes")')
            /\ proposals'[p].votesAgainst = Cardinality(Voters(p, "no")')
        <5>1. /\ Cardinality(Voters(p, d)') = Cardinality(Voters(p, d)) + 1
              /\ \A e \in Decision \ {d} : Voters(p, e)' = Voters(p, e)
          BY <2>0, VotersAfterVote
        <5>2. CASE d = "yes"
          BY <2>0, <4>1, <5>1, <5>2 DEF VoteEffect, Decision
        <5>3. CASE d = "no"
          BY <2>0, <4>1, <5>1, <5>3 DEF VoteEffect, Decision
        <5> QED
          BY <5>2, <5>3 DEF Decision
      <4>3. votes'[p][proposals'[p].applicant] = "none"
        <5>1. /\ proposals'[p].applicant = proposals[p].applicant
              /\ proposals[p].applicant \in Institution /\ proposals[p].applicant # c
              /\ votes'[p] = [votes[p] EXCEPT ![c] = d]
          BY <2>0 DEF VoteEffect, ProposalRecord
        <5>2. votes[p] \in [Institution -> Decision \cup {"none"}]
          BY DEF TypeOK
        <5> QED
          BY <4>1, <5>1, <5>2
      <4>4. Exists(p)'
        BY <2>0, NoneIsNoRecord DEF VoteEffect, Exists
      <4> QED
        BY <3>1, <4>2, <4>3, <4>4
    <3>2. CASE q # p
      <4>1. \A e : Voters(q, e)' = Voters(q, e)
        BY <2>0, <3>2, VotersAfterVote
      <4> QED
        BY <2>0, <3>2, <4>1 DEF TallyIsExact, Exists, VoteEffect
    <3> QED
      BY <3>1, <3>2
  <2> QED
    BY <2>0, <2>1, <2>2, <2>3 DEF VoteEffect, Exists
<1> QED
  BY <1>2, <1>3, <1>4, <1>5 DEF SerialStep

LEMMA AlwaysCounting == LedgerSpec => []Counting
<1>1. LedgerInit => Counting
  BY DEF LedgerInit, Init, Counting, TypeOK, TallyIsExact, Exists, Voters
<1>2. Counting /\ TypeOK' /\ [SerialStep]_ledger => Counting'
  <2>1. ASSUME Counting, UNCHANGED ledger PROVE Counting'
    BY <2>1 DEF Counting, ledger, TypeOK, TallyIsExact, Exists, Voters, WellCounted
  <2> QED
    BY <2>1, StepCounts
<1> QED
  BY <1>1, <1>2, TypeCorrect, Serializable, PTL DEF SerialCommits, LedgerTypeOK, LedgerSpec

\* The counters of a proposal are its committed votes, its status is what they say,
\* and it does not outlive its electorate (governance.go:371-486).
THEOREM DecidedByVotes == LedgerSpec => []VotesDecide
<1>1. Counting => TallyIsExact
  BY DEF Counting
<1>2. Counting => StatusFollowsTally
  BY DEF Counting, StatusFollowsTally, WellCounted
<1>3. Counting => NeverOverVoted
  BY DEF Counting, NeverOverVoted, WellCounted
<1>4. Counting => VotesDecide
  BY <1>1, <1>2, <1>3 DEF VotesDecide
<1> QED
  BY <1>4, AlwaysCounting, PTL

-----------------------------------------------------------------------------
(* Admission *)

EarnedBy(i, p) ==
  /\ Exists(p)
  /\ proposals[p].applicant = i
  /\ proposals[p].status = "approved"
  /\ institutions[i].approvedBy = Voters(p, "yes")
  /\ 2 * Cardinality(institutions[i].approvedBy) > proposals[p].totalEligibleVoters

LEMMA StepEarns ==
  ASSUME Counting, Counting', MembershipIsEarned, SerialStep
  PROVE  MembershipIsEarned'
<1>0. TypeOK
  BY DEF Counting
<1> SUFFICES ASSUME NEW i \in Institution, institutions'[i] # None
             PROVE  \/ institutions'[i].type = "founding" /\ i \in founding'
                    \/ institutions'[i].type # "founding" /\ \E p \in ProposalId : EarnedBy(i, p)'
  BY DEF MembershipIsEarned, EarnedBy
<1>1. institutions[i] # None =>
        \/ institutions[i].type = "founding" /\ i \in founding
        \/ institutions[i].type # "founding" /\ \E p \in ProposalId : EarnedBy(i, p)
  BY DEF MembershipIsEarned, EarnedBy
<1>2. ASSUME NEW founders \in SUBSET Institution, InitLedger(founders)
      PROVE  \/ institutions'[i].type = "founding" /\ i \in founding'
             \/ institutions'[i].type # "founding" /\ \E p \in ProposalId : EarnedBy(i, p)'
  BY <1>1, <1>2 DEF InitLedger, CanInitLedger, EarnedBy, Exists, Voters
<1>3. ASSUME NEW c \in Institution, RegisterInstitution(c)
      PROVE  \/ institutions'[i].type = "founding" /\ i \in founding'
             \/ institutions'[i].type # "founding" /\ \E p \in ProposalId : EarnedBy(i, p)'
  <2>1. CASE i = c
    BY <1>0, <1>3, <2>1 DEF RegisterInstitution, CanRegister, FoundingRecord, TypeOK
  <2>2. CASE i # c
    <3>1. institutions'[i] = institutions[i] /\ UNCHANGED <<founding, proposals, votes>>
      BY <1>0, <1>3, <2>2 DEF RegisterInstitution, TypeOK
    <3> QED
      BY <1>1, <3>1 DEF EarnedBy, Exists, Voters
  <2> QED
    BY <2>1, <2>2
<1>4. ASSUME NEW p \in ProposalId, OpenProposal(p)
      PROVE  \/ institutions'[i].type = "founding" /\ i \in founding'
             \/ institutions'[i].type # "founding" /\ \E q \in ProposalId : EarnedBy(i, q)'
  <2>1. /\ UNCHANGED <<founding, institutions, votes>>
        /\ \A q \in ProposalId : Exists(q) => proposals'[q] = proposals[q]
    BY <1>0, <1>4 DEF OpenProposal, Exists, TypeOK
  <2> QED
    BY <1>1, <2>1 DEF EarnedBy, Exists, Voters
<1>5. ASSUME NEW c \in Institution, NEW p \in ProposalId, NEW d \in Decision, CastVote(c, p, d)
      PROVE  \/ institutions'[i].type = "founding" /\ i \in founding'
             \/ institutions'[i].type # "founding" /\ \E q \in ProposalId : EarnedBy(i, q)'
  <2>0. VoteEffect(c, p, d)
    BY <1>0, <1>5, CastVoteEffect
  <2>1. CASE institutions'[i] = institutions[i]
    <3>1. ASSUME NEW q \in ProposalId, EarnedBy(i, q)
          PROVE  EarnedBy(i, q)'
      <4>1. q # p
        BY <2>0, <3>1 DEF VoteEffect, EarnedBy
      <4>2. Voters(q, "yes")' = Voters(q, "yes") /\ proposals'[q] = proposals[q]
        BY <1>0, <2>0, <4>1, VotersAfterVote DEF VoteEffect
      <4> QED
        BY <2>1, <3>1, <4>2 DEF EarnedBy, Exists
    <3>2. founding' = founding
      BY <2>0 DEF VoteEffect
    <3> QED
      BY <1>1, <2>1, <3>1, <3>2
  <2>2. CASE institutions'[i] # institutions[i]
    <3>1. /\ proposals'[p].status = "approved" /\ proposals'[p].applicant = i
          /\ institutions'[i].type = "approved"
          /\ institutions'[i].approvedBy = Approvers(c, p, d)
      BY <1>0, <2>0, <2>2 DEF VoteEffect, TypeOK
    <3>2. Approvers(c, p, d) = Voters(p, "yes")'
      <4>1. /\ Voters(p, d)' = Voters(p, d) \cup {c}
            /\ \A e \in Decision \ {d} : Voters(p, e)' = Voters(p, e)
        BY <1>0, <2>0, VotersAfterVote
      <4>2. CASE d = "yes"
        BY <4>1, <4>2 DEF Approvers
      <4>3. CASE d = "no"
        BY <4>1, <4>3 DEF Approvers, Decision
      <4> QED
        BY <4>2, <4>3 DEF Decision
    <3>3. Exists(p)'
      BY <2>0, NoneIsNoRecord DEF VoteEffect, Exists
    <3>4. /\ proposals'[p].votesFor = Cardinality(Voters(p, "yes")')
          /\ 2 * proposals'[p].votesFor > proposals'[p].totalEligibleVoters
      BY <3>1, <3>3 DEF Counting, TallyIsExact, WellCounted
    <3> QED
      BY <3>1, <3>2, <3>3, <3>4 DEF EarnedBy
  <2> QED
    BY <2>1, <2>2
<1> QED
  BY <1>2, <1>3, <1>4, <1>5 DEF SerialStep

\* Every member is a founder or was voted in by the majority its record names.
THEOREM EarnedMembership == LedgerSpec => []MembershipIsEarned
<1>1. LedgerInit => MembershipIsEarned
  BY DEF LedgerInit, Init, MembershipIsEarned
<1>2. Counting /\ Counting' /\ MembershipIsEarned /\ [SerialStep]_ledger => MembershipIsEarned'
  <2>1. ASSUME MembershipIsEarned, UNCHANGED ledger PROVE MembershipIsEarned'
    BY <2>1 DEF ledger, MembershipIsEarned, Exists, Voters
  <2> QED
    BY <2>1, StepEarns
<1> QED
  BY <1>1, <1>2, AlwaysCounting, Serializable, PTL DEF SerialCommits, LedgerSpec

\* The transaction that approves a proposal admits its applicant.
THEOREM AdmissionOnApproval == LedgerSpec => []ApprovedIsMember
<1>1. LedgerInit => ApprovedIsMember
  BY DEF LedgerInit, Init, ApprovedIsMember, Exists
<1>2. ASSUME TypeOK, ApprovedIsMember, SerialStep
      PROVE  ApprovedIsMember'
  <2>0. MembersStay
    BY <1>2, StepKeepsMembers
  <2> SUFFICES ASSUME NEW q \in ProposalId, Exists(q)', proposals'[q].status = "approved"
               PROVE  proposals'[q].applicant \in ActiveInstitutions'
    BY DEF ApprovedIsMember, ActiveInstitutions, IsActive
  <2>1. ASSUME proposals'[q] = proposals[q]
        PROVE  proposals'[q].applicant \in ActiveInstitutions'
    <3>1. proposals[q] \in ProposalRecord /\ IsActive(proposals[q].applicant)
      BY <1>2, <2>1, RecordsAreNotNone DEF ApprovedIsMember, Exists
    <3> QED
      BY <2>0, <2>1, <3>1 DEF MembersStay, ActiveInstitutions, ProposalRecord
  <2>2. ASSUME NEW founders \in SUBSET Institution, InitLedger(founders)
        PROVE  proposals'[q].applicant \in ActiveInstitutions'
    BY <2>1, <2>2 DEF InitLedger
  <2>3. ASSUME NEW c \in Institution, RegisterInstitution(c)
        PROVE  proposals'[q].applicant \in ActiveInstitutions'
    BY <2>1, <2>3 DEF RegisterInstitution
  <2>4. ASSUME NEW p \in ProposalId, OpenProposal(p)
        PROVE  proposals'[q].applicant \in ActiveInstitutions'
    BY <1>2, <2>1, <2>4 DEF OpenProposal, TypeOK
  <2>5. ASSUME NEW c \in Institution, NEW p \in ProposalId, NEW d \in Decision, CastVote(c, p, d)
        PROVE  proposals'[q].applicant \in ActiveInstitutions'
    <3>1. VoteEffect(c, p, d)
      BY <1>2, <2>5, CastVoteEffect
    <3>2. CASE q # p
      BY <2>1, <3>1, <3>2 DEF VoteEffect
    <3>3. CASE q = p
      <4> DEFINE a == proposals[p].applicant
                 admitted == [status |-> "active", type |-> "approved",
                              approvedBy |-> Approvers(c, p, d)]
      <4>1. institutions' = [institutions EXCEPT ![a] = admitted] /\ proposals'[q].applicant = a
        BY <3>1, <3>3 DEF VoteEffect
      <4>2. a \in Institution /\ admitted \in InstitutionRecord
        BY <3>1 DEF VoteEffect, ProposalRecord, InstitutionRecord, Approvers, Voters
      <4>3. institutions'[a] = admitted
        BY <1>2, <4>1, <4>2 DEF TypeOK
      <4> QED
        BY <4>1, <4>2, <4>3, NoneIsNoRecord DEF IsActive, ActiveInstitutions
    <3> QED
      BY <3>2, <3>3
  <2> QED
    BY <1>2, <2>2, <2>3, <2>4, <2>5 DEF SerialStep
<1>3. ASSUME ApprovedIsMember, UNCHANGED ledger
      PROVE  ApprovedIsMember'
  BY <1>3 DEF ledger, ApprovedIsMember, Exists, IsActive
<1>4. TypeOK /\ ApprovedIsMember /\ [SerialStep]_ledger => ApprovedIsMember'
  BY <1>2, <1>3
<1> QED
  BY <1>1, <1>4, TypeCorrect, Serializable, PTL DEF SerialCommits, LedgerSpec, LedgerTypeOK

\* Membership and approvals imply each other (governance.go:154-179, 449-486).
THEOREM MatchingMembership == LedgerSpec => []MembershipMatchesApprovals
BY EarnedMembership, AdmissionOnApproval, PTL DEF MembershipMatchesApprovals

-----------------------------------------------------------------------------
(* No open proposal is stuck *)

\* The inductive invariant: the electorate fixed when p was made is still there,
\* without the applicant, and only its members have voted.
Electors(p) == ActiveInstitutions \ {proposals[p].applicant}

HasElectorate(p) ==
  /\ Voters(p, "yes") \cup Voters(p, "no") \subseteq Electors(p)
  /\ proposals[p].totalEligibleVoters <= Cardinality(Electors(p))

Electorates == \A p \in ProposalId : Exists(p) => HasElectorate(p)

LEMMA ElectorsGrow ==
  ASSUME MembersStay, NEW p, proposals'[p].applicant = proposals[p].applicant
  PROVE  /\ Electors(p) \subseteq Electors(p)'
         /\ Cardinality(Electors(p)) <= Cardinality(Electors(p)')
         /\ Cardinality(Electors(p)) \in Nat /\ Cardinality(Electors(p)') \in Nat
         /\ IsFiniteSet(Electors(p)) /\ IsFiniteSet(Electors(p)')
<1>1. Electors(p) \subseteq Electors(p)'
  BY ActiveGrow DEF Electors
<1>2. Electors(p)' \subseteq Institution
  BY DEF Electors, ActiveInstitutions
<1>3. IsFiniteSet(Electors(p)')
  BY <1>2, FinitelyManyInstitutions, FS_Subset
<1> QED
  BY <1>1, <1>3, FS_Subset, FS_CardinalityType

LEMMA StepElectorates ==
  ASSUME Counting, Electorates, SerialStep
  PROVE  Electorates'
<1>0. TypeOK /\ TallyIsExact /\ MembersStay
  BY StepKeepsMembers DEF Counting
<1> SUFFICES ASSUME NEW q \in ProposalId, Exists(q)'
             PROVE  HasElectorate(q)'
  BY DEF Electorates
<1>1. ASSUME proposals'[q] = proposals[q], votes'[q] = votes[q]
      PROVE  HasElectorate(q)'
  <2>1. HasElectorate(q) /\ proposals[q] \in ProposalRecord
    BY <1>0, <1>1, RecordsAreNotNone DEF Electorates, Exists
  <2>2. Voters(q, "yes")' = Voters(q, "yes") /\ Voters(q, "no")' = Voters(q, "no")
    BY <1>1 DEF Voters
  <2> QED
    BY <1>0, <1>1, <2>1, <2>2, ElectorsGrow DEF HasElectorate, ProposalRecord
<1>2. ASSUME NEW founders \in SUBSET Institution, InitLedger(founders)
      PROVE  HasElectorate(q)'
  BY <1>1, <1>2 DEF InitLedger
<1>3. ASSUME NEW c \in Institution, RegisterInstitution(c)
      PROVE  HasElectorate(q)'
  BY <1>1, <1>3 DEF RegisterInstitution
<1>4. ASSUME NEW p \in ProposalId, OpenProposal(p)
      PROVE  HasElectorate(q)'
  <2>1. CASE q # p
    BY <1>0, <1>1, <1>4, <2>1 DEF OpenProposal, TypeOK
  <2>2. CASE q = p
    <3> DEFINE t == proposals'[p]
    <3>1. /\ institutions[t.applicant] = None
          /\ t.totalEligibleVoters \in 1..Cardinality(ActiveInstitutions)
          /\ UNCHANGED <<institutions, votes>> /\ Voters(p, "none") = Institution
      BY <1>0, <1>4 DEF OpenProposal, TallyIsExact
    <3>2. Electors(p)' = ActiveInstitutions
      BY <3>1 DEF Electors, ActiveInstitutions, IsActive
    <3>3. Voters(p, "yes")' = {} /\ Voters(p, "no")' = {}
      BY <3>1 DEF Voters
    <3> QED
      BY <2>2, <3>1, <3>2, <3>3, FiniteElectorates DEF HasElectorate
  <2> QED
    BY <2>1, <2>2
<1>5. ASSUME NEW c \in Institution, NEW p \in ProposalId, NEW d \in Decision, CastVote(c, p, d)
      PROVE  HasElectorate(q)'
  <2>0. VoteEffect(c, p, d)
    BY <1>0, <1>5, CastVoteEffect
  <2>1. CASE q # p
    BY <1>1, <2>0, <2>1 DEF VoteEffect
  <2>2. CASE q = p
    <3>1. /\ HasElectorate(p) /\ proposals[p] \in ProposalRecord /\ proposals'[p] \in ProposalRecord
          /\ proposals'[p].applicant = proposals[p].applicant
          /\ proposals'[p].totalEligibleVoters = proposals[p].totalEligibleVoters
          /\ c \in Electors(p)
      BY <1>5, <2>0 DEF VoteEffect, Electorates, CastVote, CanVote, Electors, ActiveInstitutions
    <3>2. /\ Electors(p) \subseteq Electors(p)'
          /\ Cardinality(Electors(p)) <= Cardinality(Electors(p)')
          /\ Cardinality(Electors(p)) \in Nat /\ Cardinality(Electors(p)') \in Nat
      BY <1>0, <3>1, ElectorsGrow
    <3>3. Voters(p, "yes")' \cup Voters(p, "no")'
            \subseteq Voters(p, "yes") \cup Voters(p, "no") \cup {c}
      BY <1>0, <2>0 DEF VoteEffect, Voters, TypeOK
    <3> QED
      BY <2>2, <3>1, <3>2, <3>3 DEF HasElectorate, ProposalRecord
  <2> QED
    BY <2>1, <2>2
<1> QED
  BY <1>2, <1>3, <1>4, <1>5 DEF SerialStep

\* The institutions that have not voted suffice to resolve an open proposal.
LEMMA ElectoratesSuffice ==
  ASSUME Counting, Electorates
  PROVE  NoStuckProposal
<1> SUFFICES ASSUME NEW p \in ProposalId, Exists(p), proposals[p].status = "open"
             PROVE  /\ OutstandingVoters(p) # {}
                    /\ proposals[p].totalEligibleVoters
                         <= Cardinality(OutstandingVoters(p)) + proposals[p].votesFor
                              + proposals[p].votesAgainst
  BY DEF NoStuckProposal
<1> DEFINE t == proposals[p]
           Yes == Voters(p, "yes")
           No == Voters(p, "no")
<1>1. TypeOK /\ TallyIsExact /\ WellCounted(p) /\ HasElectorate(p)
  BY DEF Counting, Electorates
<1>2. t \in ProposalRecord /\ t.votesFor = Cardinality(Yes) /\ t.votesAgainst = Cardinality(No)
  BY <1>1, RecordsAreNotNone DEF TallyIsExact
<1>3. OutstandingVoters(p) = Electors(p) \ (Yes \cup No)
  BY <1>1 DEF OutstandingVoters, Electors, Voters, TypeOK, ActiveInstitutions, Decision
<1>4. IsFiniteSet(Electors(p)) /\ Cardinality(Electors(p)) \in Nat
  <2>1. Electors(p) \subseteq Institution
    BY DEF Electors, ActiveInstitutions
  <2> QED
    BY <2>1, FinitelyManyInstitutions, FS_Subset, FS_CardinalityType
<1>5. IsFiniteSet(Yes \cup No) /\ Cardinality(Yes \cup No) = t.votesFor + t.votesAgainst
  <2>1. Yes \cap No = {}
    BY DEF Voters
  <2> QED
    BY <1>2, <2>1, FiniteElectorates, FS_Union, FS_EmptySet
<1>6. /\ IsFiniteSet(OutstandingVoters(p))
      /\ Cardinality(OutstandingVoters(p)) = Cardinality(Electors(p)) - (t.votesFor + t.votesAgainst)
  <2>1. Electors(p) \cap (Yes \cup No) = Yes \cup No
    BY <1>1 DEF HasElectorate
  <2>2. LET V == Yes \cup No  E == Electors(p) IN
        IsFiniteSet(E \ V) /\ Cardinality(E \ V) = Cardinality(E) - Cardinality(E \cap V)
    BY <1>4, FS_Difference
  <2> QED
    BY <1>3, <1>4, <1>5, <2>1, <2>2
<1>7. t.totalEligibleVoters <= Cardinality(Electors(p)) /\ t.votesFor + t.votesAgainst < t.totalEligibleVoters
  BY <1>1, <1>2 DEF WellCounted, HasElectorate, ProposalRecord
<1>8. Cardinality(OutstandingVoters(p)) > 0
  BY <1>2, <1>4, <1>6, <1>7 DEF ProposalRecord
<1> QED
  BY <1>2, <1>4, <1>6, <1>7, <1>8, FS_EmptySet DEF ProposalRecord

\* The electorate of an open proposal can always resolve it.
THEOREM NothingStuck == LedgerSpec => []NoStuckProposal
<1>1. LedgerInit => Electorates
  BY DEF LedgerInit, Init, Electorates, Exists
<1>2. Counting /\ Electorates /\ [SerialStep]_ledger => Electorates'
  <2>1. ASSUME Electorates, UNCHANGED ledger PROVE Electorates'
    BY <2>1 DEF ledger, Electorates, HasElectorate, Electors, ActiveInstitutions, IsActive, Exists, Voters
  <2> QED
    BY <2>1, StepElectorates
<1>3. Counting /\ Electorates => NoStuckProposal
  BY ElectoratesSuffice
<1> QED
  BY <1>1, <1>2, <1>3, AlwaysCounting, Serializable, PTL DEF SerialCommits, LedgerSpec

-----------------------------------------------------------------------------
(* institution-cc implements MembershipVoting *)

ballotsNow == [p \in ProposalId |-> BallotOf(p)]

\* The abstract specification counts as the ledger does.
LEMMA SameCardinality == \A S : Voting!Cardinality(S) = Cardinality(S)
BY Zenon DEF Voting!Cardinality, Cardinality

\* A proposal and its votes are all that a ballot depends on.
LEMMA SameBallot ==
  ASSUME NEW p, proposals'[p] = proposals[p], votes'[p] = votes[p]
  PROVE  BallotOf(p)' = BallotOf(p)
BY DEF BallotOf, Exists, Voters

\* The ballot of a stored proposal.
LEMMA BallotType ==
  ASSUME TypeOK, NEW p \in ProposalId, Exists(p)
  PROVE  /\ BallotOf(p) # None
         /\ BallotOf(p) = [applicant |-> proposals[p].applicant,
                           size |-> proposals[p].totalEligibleVoters,
                           yes |-> Voters(p, "yes"), no |-> Voters(p, "no")]
<1>1. /\ proposals[p].applicant \in Institution /\ proposals[p].totalEligibleVoters \in Nat
      /\ Voters(p, "yes") \in SUBSET Institution /\ Voters(p, "no") \in SUBSET Institution
  BY RecordsAreNotNone DEF ProposalRecord, Voters
<1> QED
  BY <1>1, NoneIsNoBallot DEF BallotOf

\* Joining and proposing.
LEMMA InitLedgerSigns ==
  ASSUME TypeOK, NEW founders \in SUBSET Institution, InitLedger(founders)
  PROVE  Voting!SignCharter(founders)
<1>1. ActiveInstitutions' = ActiveInstitutions /\ ballotsNow' = ballotsNow
  BY SameBallot DEF InitLedger, ActiveInstitutions, IsActive, ballotsNow
<1> QED
  BY <1>1 DEF InitLedger, CanInitLedger, Voting!SignCharter, ballotsNow

LEMMA RegisterJoins ==
  ASSUME TypeOK, NEW c \in Institution, RegisterInstitution(c)
  PROVE  Voting!FounderJoins(c)
<1>1. FoundingRecord # None /\ FoundingRecord.status = "active"
  BY NoneIsNoRecord DEF FoundingRecord, InstitutionRecord
<1>2. ActiveInstitutions' = ActiveInstitutions \cup {c} /\ c \notin ActiveInstitutions
  BY <1>1 DEF RegisterInstitution, CanRegister, ActiveInstitutions, IsActive, TypeOK
<1>3. ballotsNow' = ballotsNow
  BY SameBallot DEF RegisterInstitution, ballotsNow
<1> QED
  BY <1>2, <1>3 DEF RegisterInstitution, CanRegister, Voting!FounderJoins, ballotsNow

LEMMA ProposalOpens ==
  ASSUME Counting, TypeOK', NEW p \in ProposalId, OpenProposal(p)
  PROVE  /\ proposals'[p].applicant \in Institution
         /\ proposals'[p].totalEligibleVoters \in 1..Cardinality(Institution)
         /\ Voting!OpenBallot(p, proposals'[p].applicant, proposals'[p].totalEligibleVoters)
<1> DEFINE t == proposals'[p]
           new == [applicant |-> t.applicant, size |-> t.totalEligibleVoters, yes |-> {}, no |-> {}]
<1>1. /\ ~Exists(p) /\ t # None /\ institutions[t.applicant] = None
      /\ t.totalEligibleVoters \in 1..Cardinality(ActiveInstitutions)
      /\ UNCHANGED <<founding, institutions, votes>>
      /\ \A q \in ProposalId : q # p => proposals'[q] = proposals[q]
  BY DEF OpenProposal, Counting, TypeOK
<1>2. t \in ProposalRecord
  BY <1>1 DEF TypeOK
<1>3. t.totalEligibleVoters \in 1..Cardinality(Institution)
  <2>1. ActiveInstitutions \subseteq Institution
    BY DEF ActiveInstitutions
  <2>2. /\ Cardinality(ActiveInstitutions) <= Cardinality(Institution)
        /\ Cardinality(ActiveInstitutions) \in Nat /\ Cardinality(Institution) \in Nat
    BY <2>1, FinitelyManyInstitutions, FS_Subset, FS_CardinalityType
  <2> QED
    BY <1>1, <2>2
<1>4. BallotOf(p) = None /\ BallotOf(p)' = new
  <2>1. Voters(p, "none") = Institution
    BY <1>1 DEF Counting, TallyIsExact
  <2>2. Voters(p, "yes")' = {} /\ Voters(p, "no")' = {}
    BY <1>1, <2>1 DEF Voters
  <2> QED
    BY <1>1, <2>2 DEF BallotOf, Exists
<1>5. ballotsNow' = [ballotsNow EXCEPT ![p] = new]
  <2>1. \A q \in ProposalId : q # p => BallotOf(q)' = BallotOf(q)
    BY <1>1, SameBallot
  <2> QED
    BY <1>4, <2>1 DEF ballotsNow
<1>6. ActiveInstitutions' = ActiveInstitutions /\ t.applicant \notin ActiveInstitutions
  BY <1>1 DEF ActiveInstitutions, IsActive
<1>7. ballotsNow[p] = None
  BY <1>4 DEF ballotsNow
<1>8. Voting!OpenBallot(p, t.applicant, t.totalEligibleVoters)
  BY <1>1, <1>5, <1>6, <1>7, SameCardinality DEF Voting!OpenBallot, ballotsNow
<1>9. t.applicant \in Institution
  BY <1>2 DEF ProposalRecord
<1> QED
  BY <1>3, <1>8, <1>9

\* Voting.
LEMMA VoteVotes ==
  ASSUME Counting, Counting', NEW c \in Institution, NEW p \in ProposalId, NEW d \in Decision,
         CastVote(c, p, d)
  PROVE  Voting!Vote(p, c, d = "yes")
<1> DEFINE t == proposals[p]
           u == proposals'[p]
           b == BallotOf(p)
           after == IF d = "yes" THEN [b EXCEPT !.yes = @ \cup {c}] ELSE [b EXCEPT !.no = @ \cup {c}]
<1>0. TypeOK /\ TypeOK' /\ TallyIsExact /\ TallyIsExact'
  BY DEF Counting
<1>1. VoteEffect(c, p, d) /\ Exists(p) /\ c \in ActiveInstitutions
  BY <1>0, CastVoteEffect DEF CastVote, CanVote, ActiveInstitutions
<1>2. Exists(p)' /\ WellCounted(p) /\ WellCounted(p)'
  <2>1. Exists(p)'
    BY <1>1, NoneIsNoRecord DEF VoteEffect, Exists
  <2> QED
    BY <1>1, <2>1 DEF Counting
<1>3. /\ b # None
      /\ b = [applicant |-> t.applicant, size |-> t.totalEligibleVoters,
              yes |-> Voters(p, "yes"), no |-> Voters(p, "no")]
  BY <1>0, <1>1, BallotType
<1>4. /\ t \in ProposalRecord /\ u \in ProposalRecord
      /\ t.votesFor = Cardinality(Voters(p, "yes")) /\ t.votesAgainst = Cardinality(Voters(p, "no"))
      /\ u.votesFor = Cardinality(Voters(p, "yes")') /\ u.votesAgainst = Cardinality(Voters(p, "no")')
  BY <1>0, <1>1, <1>2 DEF TallyIsExact, VoteEffect
<1>5. after = BallotOf(p)'
  <2>1. /\ Voters(p, d)' = Voters(p, d) \cup {c}
        /\ \A e \in Decision \ {d} : Voters(p, e)' = Voters(p, e)
    BY <1>0, <1>1, VotersAfterVote
  <2>2. u.applicant = t.applicant /\ u.totalEligibleVoters = t.totalEligibleVoters
    BY <1>1 DEF VoteEffect
  <2>3. BallotOf(p)' = [applicant |-> u.applicant, size |-> u.totalEligibleVoters,
                        yes |-> Voters(p, "yes")', no |-> Voters(p, "no")']
    BY <1>2 DEF BallotOf, Exists
  <2>4. CASE d = "yes"
    BY <1>3, <2>1, <2>2, <2>3, <2>4 DEF Decision
  <2>5. CASE d = "no"
    BY <1>3, <2>1, <2>2, <2>3, <2>5 DEF Decision
  <2> QED
    BY <2>4, <2>5 DEF Decision
<1>6. ~Voting!Decided(b)
  <2>1. t.status = "open" /\ 2 * t.votesFor <= t.totalEligibleVoters /\ 2 * t.votesAgainst < t.totalEligibleVoters
    BY <1>1, <1>2, <1>4 DEF VoteEffect, WellCounted, ProposalRecord
  <2> QED
    BY <1>3, <1>4, <2>1, SameCardinality
    DEF Voting!Decided, Voting!HasMajority, Voting!CannotPass, ProposalRecord
<1>7. c \in ActiveInstitutions \ (b.yes \cup b.no \cup {b.applicant})
  BY <1>1, <1>3 DEF VoteEffect, Voters
<1>8. Voting!HasMajority(after) <=> u.status = "approved"
  <2>1. BallotOf(p)'.yes = Voters(p, "yes")' /\ BallotOf(p)'.size = u.totalEligibleVoters
    BY <1>2 DEF BallotOf, Exists
  <2> QED
    BY <1>2, <1>4, <1>5, <2>1, SameCardinality DEF WellCounted, Voting!HasMajority
<1>9. ActiveInstitutions' =
        ActiveInstitutions \cup (IF u.status = "approved" THEN {t.applicant} ELSE {})
  <2>1. CASE u.status # "approved"
    BY <1>1, <2>1 DEF VoteEffect, ActiveInstitutions, IsActive
  <2>2. CASE u.status = "approved"
    <3> DEFINE admitted == [status |-> "active", type |-> "approved", approvedBy |-> Approvers(c, p, d)]
    <3>1. institutions' = [institutions EXCEPT ![t.applicant] = admitted]
      BY <1>1, <2>2 DEF VoteEffect
    <3>2. t.applicant \in Institution /\ admitted \in InstitutionRecord
      BY <1>4 DEF ProposalRecord, InstitutionRecord, Approvers, Voters
    <3> QED
      BY <1>0, <2>2, <3>1, <3>2, NoneIsNoRecord DEF ActiveInstitutions, IsActive, TypeOK
  <2> QED
    BY <2>1, <2>2
<1>10. ballotsNow' = [ballotsNow EXCEPT ![p] = after] /\ ballotsNow[p] = b
  <2>1. \A q \in ProposalId : q # p => BallotOf(q)' = BallotOf(q)
    BY <1>1, SameBallot DEF VoteEffect
  <2> QED
    BY <1>5, <2>1 DEF ballotsNow
<1>11. founding' = founding /\ b.applicant = t.applicant
  BY <1>1, <1>3 DEF VoteEffect
<1> HIDE DEF b, after
<1> QED
  BY <1>3, <1>6, <1>7, <1>8, <1>9, <1>10, <1>11 DEF Voting!Vote, ballotsNow, after

\* The ledger keeps the promise of MembershipVoting.
THEOREM Implementation == LedgerSpec => ImplementsVoting
<1>1. LedgerInit => Voting!Start
  BY DEF LedgerInit, Init, Voting!Start, ActiveInstitutions, IsActive, BallotOf, Exists
<1>2. ASSUME Counting, Counting', SerialStep
      PROVE  Voting!Step
  <2>0. TypeOK /\ TypeOK'
    BY <1>2 DEF Counting
  <2>1. ASSUME NEW founders \in SUBSET Institution, InitLedger(founders)
        PROVE  Voting!Step
    BY <2>0, <2>1, InitLedgerSigns DEF Voting!Step
  <2>2. ASSUME NEW c \in Institution, RegisterInstitution(c)
        PROVE  Voting!Step
    BY <2>0, <2>2, RegisterJoins DEF Voting!Step
  <2>3. ASSUME NEW p \in ProposalId, OpenProposal(p)
        PROVE  Voting!Step
    BY <1>2, <2>0, <2>3, ProposalOpens, SameCardinality DEF Voting!Step
  <2>4. ASSUME NEW c \in Institution, NEW p \in ProposalId, NEW d \in Decision, CastVote(c, p, d)
        PROVE  Voting!Step
    BY <1>2, <2>4, VoteVotes DEF Voting!Step
  <2> QED
    BY <1>2, <2>1, <2>2, <2>3, <2>4 DEF SerialStep
<1>3. ASSUME UNCHANGED ledger
      PROVE  UNCHANGED Voting!abstract
  <2>1. \A p : BallotOf(p)' = BallotOf(p)
    BY <1>3 DEF ledger, BallotOf, Exists, Voters
  <2> QED
    BY <1>3, <2>1 DEF ledger, Voting!abstract, ActiveInstitutions, IsActive
<1>4. Counting /\ Counting' /\ [SerialStep]_ledger => [Voting!Step]_(Voting!abstract)
  BY <1>2, <1>3
<1> QED
  BY <1>1, <1>4, AlwaysCounting, Serializable, PTL
  DEF LedgerSpec, SerialCommits, ImplementsVoting, Voting!Promise

=============================================================================
