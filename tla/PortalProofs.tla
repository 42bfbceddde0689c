---------------------------- MODULE PortalProofs ----------------------------
(***************************************************************************)
(* Theorems about Portal, for any number of institutions, proposals,       *)
(* certificates, tabs, requests and transactions of others: what a tab     *)
(* says is true, and what a request that is tried again does to the ledger.*)
(***************************************************************************)
EXTENDS Portal, FiniteSetTheorems, SequenceTheorems, TLAPS

-----------------------------------------------------------------------------
(* The ledger *)

LedgerOK ==
  /\ CC!TypeOK
  /\ certificates \in [CertificateId -> CertificateRecord \cup {None}]
  /\ \A i \in Founders : institutions[i] # None

Tally(t) == t.votesFor + t.votesAgainst

\* What every step leaves of the ledger: nothing is forgotten, only open proposals
\* change, and their records show every vote.
Grows ==
  /\ \A i \in Institution : institutions[i] # None => institutions'[i] # None
  /\ \A p \in ProposalId : proposals[p] # None =>
       /\ proposals'[p] # None /\ proposals'[p].applicant = proposals[p].applicant
       /\ proposals[p].status # "open" => proposals'[p] = proposals[p]
       /\ \/ proposals'[p] = proposals[p] /\ votes'[p] = votes[p]
          \/ Tally(proposals'[p]) > Tally(proposals[p])
  /\ \A p \in ProposalId, i \in Institution : votes[p][i] # "none" => votes'[p][i] = votes[p][i]
  /\ \A x \in CertificateId : certificates[x] # None =>
       /\ certificates'[x] # None /\ certificates'[x].issuer = certificates[x].issuer
       /\ certificates[x].status = "revoked" => certificates'[x].status = "revoked"

LEMMA UnchangedGrows ==
  ASSUME LedgerOK, UNCHANGED ledger
  PROVE  LedgerOK' /\ Grows
BY DEF LedgerOK, Grows, CC!TypeOK, ledger

\* A vote keeps the type and the applicant of a proposal and adds to its tally.
LEMMA VotedProposals ==
  ASSUME NEW p, NEW d \in CC!Decision, proposals[p] \in CC!ProposalRecord
  PROVE  /\ CC!VotedProposal(p, d) \in CC!ProposalRecord
         /\ CC!VotedProposal(p, d).applicant = proposals[p].applicant
         /\ Tally(CC!VotedProposal(p, d)) > Tally(proposals[p])
<1>1. /\ CC!Counted(p, d) \in CC!ProposalRecord
      /\ CC!Counted(p, d).applicant = proposals[p].applicant
      /\ Tally(CC!Counted(p, d)) > Tally(proposals[p])
  BY DEF CC!Counted, CC!ProposalRecord, CC!Decision, Tally
<1>2. CC!StatusAfter(CC!Counted(p, d)) \in {"open", "approved", "rejected"}
  BY DEF CC!StatusAfter
<1> QED
  BY <1>1, <1>2 DEF CC!VotedProposal, CC!ProposalRecord, Tally

LEMMA Admissions ==
  ASSUME NEW c \in Institution, NEW p, NEW d \in CC!Decision
  PROVE  CC!Admission(c, p, d) \in CC!InstitutionRecord \cup {None}
<1>1. CC!Approvers(c, p, d) \subseteq Institution
  BY DEF CC!Approvers, CC!Voters
<1> QED
  BY <1>1 DEF CC!Admission, CC!InstitutionRecord

\* The chaincode's module counts as this one does.
LEMMA SameCardinality == \A S : CC!Cardinality(S) = Cardinality(S)
BY Zenon DEF CC!Cardinality, Cardinality

LEMMA NewProposals ==
  ASSUME NEW c \in Institution, NEW a \in Institution
  PROVE  /\ CC!NewProposal(c, a) \in CC!ProposalRecord
         /\ CC!NewProposal(c, a).applicant = a
<1>1. Cardinality(CC!ActiveInstitutions) \in Nat
  BY FS_Subset, FS_CardinalityType, PortalConstants DEF CC!ActiveInstitutions
<1> QED
  BY <1>1, SameCardinality DEF CC!NewProposal, CC!ProposalRecord

\* The ledger when a vote is written.
VoteStep(c, p, d, rec, member) ==
  /\ votes' = [votes EXCEPT ![p][c] = d]
  /\ proposals' = [proposals EXCEPT ![p] = rec]
  /\ institutions' = IF member = None THEN institutions
                     ELSE [institutions EXCEPT ![proposals[p].applicant] = member]
  /\ UNCHANGED <<founding, certificates>>

LEMMA VoteGrows ==
  ASSUME LedgerOK, NEW c \in Institution, NEW p \in ProposalId,
         NEW d \in CC!Decision, NEW rec \in CC!ProposalRecord,
         NEW member \in CC!InstitutionRecord \cup {None},
         VoteStep(c, p, d, rec, member),
         proposals[p] # None, proposals[p].status = "open", votes[p][c] = "none",
         rec.applicant = proposals[p].applicant, Tally(rec) > Tally(proposals[p])
  PROVE  LedgerOK' /\ Grows /\ votes'[p][c] = d
<1>1. /\ proposals \in [ProposalId -> CC!ProposalRecord \cup {None}]
      /\ proposals[p].applicant \in Institution
      /\ institutions \in [Institution -> CC!InstitutionRecord \cup {None}]
      /\ votes \in [ProposalId -> [Institution -> CC!Decision \cup {"none"}]]
  BY DEF LedgerOK, CC!TypeOK, CC!ProposalRecord
<1>2. rec # None /\ (member # None => member \in CC!InstitutionRecord)
  BY PortalConstants
<1>3. /\ institutions' \in [Institution -> CC!InstitutionRecord \cup {None}]
      /\ \A i \in Institution : institutions[i] # None => institutions'[i] # None
  BY <1>1, <1>2 DEF VoteStep
<1>4. /\ proposals' \in [ProposalId -> CC!ProposalRecord \cup {None}]
      /\ proposals'[p] = rec /\ \A q \in ProposalId \ {p} : proposals'[q] = proposals[q]
  BY <1>1 DEF VoteStep
<1>5. /\ votes' \in [ProposalId -> [Institution -> CC!Decision \cup {"none"}]]
      /\ votes'[p][c] = d
      /\ \A q \in ProposalId \ {p} : votes'[q] = votes[q]
      /\ \A i \in Institution \ {c} : votes'[p][i] = votes[p][i]
  BY <1>1 DEF VoteStep
<1>6. LedgerOK'
  BY <1>3, <1>4, <1>5, PortalConstants DEF LedgerOK, CC!TypeOK, VoteStep
<1>7. \A q \in ProposalId, i \in Institution : votes[q][i] # "none" => votes'[q][i] = votes[q][i]
  BY <1>5
<1>8. Grows
  BY <1>2, <1>3, <1>4, <1>5, <1>7 DEF Grows, VoteStep
<1> QED
  BY <1>5, <1>6, <1>8

LEMMA ProposeGrows ==
  ASSUME LedgerOK, NEW p \in ProposalId, NEW rec \in CC!ProposalRecord,
         proposals[p] = None, proposals' = [proposals EXCEPT ![p] = rec],
         UNCHANGED <<founding, institutions, votes, certificates>>
  PROVE  LedgerOK' /\ Grows /\ proposals'[p] = rec /\ rec # None
BY PortalConstants DEF LedgerOK, CC!TypeOK, Grows

LEMMA CertificateGrows ==
  ASSUME LedgerOK, NEW x \in CertificateId, NEW rec \in CertificateRecord,
         certificates[x] # None =>
           rec.issuer = certificates[x].issuer /\ rec.status = "revoked",
         certificates' = [certificates EXCEPT ![x] = rec],
         UNCHANGED <<founding, institutions, proposals, votes>>
  PROVE  LedgerOK' /\ Grows /\ certificates'[x] = rec /\ rec # None
BY PortalConstants DEF LedgerOK, CC!TypeOK, Grows

\* The transactions of other clients.
LEMMA ElsewhereGrows ==
  ASSUME LedgerOK, Elsewhere
  PROVE  LedgerOK' /\ Grows
<1>1. ASSUME NEW c \in Institution, NEW a \in Institution, NEW p \in ProposalId,
             CC!ProposeNewMember(c, a, p), UNCHANGED certificates
      PROVE  LedgerOK' /\ Grows
  BY <1>1, NewProposals, ProposeGrows DEF CC!ProposeNewMember, CC!Exists
<1>2. ASSUME NEW c \in Institution, NEW p \in ProposalId, NEW d \in CC!Decision,
             CC!CastVote(c, p, d), UNCHANGED certificates
      PROVE  LedgerOK' /\ Grows
  <2>1. proposals[p] \in CC!ProposalRecord
    BY <1>2 DEF CC!CastVote, CC!CanVote, CC!Exists, LedgerOK, CC!TypeOK
  <2>2. VoteStep(c, p, d, CC!VotedProposal(p, d), CC!Admission(c, p, d))
    BY <1>2 DEF CC!CastVote, VoteStep
  <2>3. proposals[p] # None /\ proposals[p].status = "open" /\ votes[p][c] = "none"
    BY <1>2 DEF CC!CastVote, CC!CanVote, CC!Exists
  <2> QED
    BY <2>1, <2>2, <2>3, VotedProposals, Admissions, VoteGrows
<1>3. ASSUME NEW x \in CertificateId, NEW c \in Institution, x \notin Issued,
             certificates' = [certificates EXCEPT ![x] = [issuer |-> c, status |-> "active"]],
             UNCHANGED <<founding, institutions, proposals, votes>>
      PROVE  LedgerOK' /\ Grows
  <2>1. certificates[x] = None /\ [issuer |-> c, status |-> "active"] \in CertificateRecord
    BY <1>3 DEF Issued, Items, LedgerOK, CertificateRecord
  <2> QED
    BY <1>3, <2>1, CertificateGrows
<1>4. ASSUME NEW x \in CertificateId, x \in Issued,
             certificates' = [certificates EXCEPT ![x].status = "revoked"],
             UNCHANGED <<founding, institutions, proposals, votes>>
      PROVE  LedgerOK' /\ Grows
  <2>1. certificates[x] \in CertificateRecord
    BY <1>4 DEF Issued, Items, LedgerOK
  <2>2. /\ [certificates[x] EXCEPT !.status = "revoked"] \in CertificateRecord
        /\ [certificates[x] EXCEPT !.status = "revoked"].issuer = certificates[x].issuer
        /\ [certificates[x] EXCEPT !.status = "revoked"].status = "revoked"
    BY <2>1 DEF CertificateRecord
  <2> QED
    BY <1>4, <2>2, CertificateGrows
<1> QED
  BY <1>1, <1>2, <1>3, <1>4 DEF Elsewhere

-----------------------------------------------------------------------------
(* Requests *)

Does == {"vote", "propose", "issue", "revoke"}

Read ==
  CC!ProposalRecord \cup CC!InstitutionRecord \cup CertificateRecord
    \cup (SUBSET CertificateId) \cup {None}

Written ==
  [proposal : CC!ProposalRecord, member : CC!InstitutionRecord \cup {None}]
    \cup CC!ProposalRecord \cup CertificateRecord \cup {None}

Error == [status : Nat, message : Message]

Request ==
  [by : Account, does : Does,
   id : ProposalId \cup Institution \cup CertificateId \cup {None},
   decision : CC!Decision \cup {None},
   at : {"sent", "endorsed", "valid", "invalid", "refused"},
   reads : Read, writes : Written, new : ProposalId \cup CertificateId \cup {None},
   error : Error \cup {None}, told : {"nothing", "done", "not done", "unknown"}]

\* What a request is about.
Fits(r) ==
  /\ r.does = "vote" => r.id \in ProposalId /\ r.decision \in CC!Decision
  /\ r.does = "propose" => r.id \in Institution
  /\ r.does = "revoke" => r.id \in CertificateId

\* What is voted on or revoked is on the ledger.
About(r) ==
  /\ r.does = "vote" => proposals[r.id] # None
  /\ r.does = "revoke" => certificates[r.id] # None

\* What an endorsed transaction knows: a vote that still finds the proposal it read
\* finds it without the caller's vote, since every vote adds to the tally.
Prepared(r) ==
  /\ r.by \notin Guest
  /\ r.does = "vote" =>
       /\ proposals[r.id] # None
       /\ r.reads \in CC!ProposalRecord /\ r.reads.status = "open"
       /\ Tally(r.reads) <= Tally(proposals[r.id])
       /\ r.writes.member \in CC!InstitutionRecord \cup {None}
       /\ proposals[r.id] = r.reads =>
            /\ votes[r.id][Caller(r)] = "none"
            /\ r.writes.proposal = CC!VotedProposal(r.id, r.decision)
  /\ r.does = "propose" => r.writes \in CC!ProposalRecord /\ r.writes.applicant = r.id
  /\ r.does = "issue" => r.writes \in CertificateRecord /\ r.writes.issuer = Caller(r)
  /\ r.does = "revoke" =>
       /\ certificates[r.id] # None
       /\ r.reads \in CertificateRecord /\ r.reads.status = "active"
       /\ r.writes = [r.reads EXCEPT !.status = "revoked"]

\* The request did what it was for.
Fulfilled(r) ==
  /\ r.does = "vote" => r.by \notin Guest /\ votes[r.id][Caller(r)] = r.decision
  /\ r.does = "propose" =>
       r.new \in ProposalId /\ proposals[r.new] # None /\ proposals[r.new].applicant = r.id
  /\ r.does = "issue" =>
       /\ r.new \in CertificateId /\ certificates[r.new] # None
       /\ certificates[r.new].issuer = Caller(r)
  /\ r.does = "revoke" => certificates[r.id] # None /\ certificates[r.id].status = "revoked"

\* The sentences a tab may say of a request.
Sayable ==
  {Done, "You've already voted on this proposal.",
   "This proposal is no longer open for voting.",
   "You can't vote on your own membership proposal.",
   "That institution is already a member.",
   "There's already an open or approved proposal for that institution.",
   "This certificate wasn't issued by your institution.",
   "This certificate has already been revoked.",
   "That institution isn't an active member of the consortium.",
   "This is a read-only account.", Generic}

\* What has to be so, and stays so, for a sentence to be said of r.
Holds(r, says) ==
  /\ says \in Sayable
  /\ says = Done => Fulfilled(r)
  /\ says = "You've already voted on this proposal." =>
       r.does = "vote" /\ r.by \notin Guest /\ votes[r.id][Caller(r)] # "none"
  /\ says = "This proposal is no longer open for voting." =>
       r.does = "vote" /\ proposals[r.id] # None /\ proposals[r.id].status # "open"
  /\ says = "You can't vote on your own membership proposal." =>
       /\ r.does = "vote" /\ r.by \notin Guest
       /\ proposals[r.id] # None /\ proposals[r.id].applicant = Caller(r)
  /\ says = "That institution is already a member." =>
       r.does = "propose" /\ institutions[r.id] # None
  /\ says = "There's already an open or approved proposal for that institution." =>
       /\ r.does = "propose"
       /\ \E p \in ProposalId : proposals[p] # None /\ proposals[p].applicant = r.id
  /\ says = "This certificate wasn't issued by your institution." =>
       /\ r.does = "revoke" /\ certificates[r.id] # None
       /\ certificates[r.id].issuer # Caller(r)
  /\ says = "This certificate has already been revoked." =>
       /\ r.does = "revoke" /\ certificates[r.id] # None
       /\ certificates[r.id].status = "revoked"
  /\ says = "That institution isn't an active member of the consortium." =>
       r.does # "revoke" /\ Caller(r) \notin Founders
  /\ says = "This is a read-only account." => r.by \in Guest

Finishing == {"valid", "invalid", "refused"}

\* What is so of every request: an error says the truth of one that has not been and
\* will not be written.
Sound(r) ==
  /\ Fits(r) /\ About(r)
  /\ r.at = "endorsed" => Prepared(r)
  /\ r.at = "valid" => Holds(r, Done)
  /\ r.error # None =>
       r.at \in {"refused", "invalid"} /\ Holds(r, HumanizeBackendError(r.error.message))
  /\ r.at \in Finishing /\ r.told = "nothing" /\ r.error = None => r.at = "valid"
  /\ r.told = "not done" => r.at \in {"refused", "invalid"}

LEMMA Callers ==
  ASSUME NEW r \in Request
  PROVE  Caller(r) \in Institution
BY PortalConstants DEF Request, Caller

\* What was true of a request stays true.
LEMMA KeepsHolding ==
  ASSUME LedgerOK, Grows, NEW r \in Request, Fits(r), NEW says, Holds(r, says)
  PROVE  Holds(r, says)'
<1>1. Caller(r) \in Institution /\ Caller(r)' = Caller(r)
  BY Callers DEF Caller
<1>2. r.decision \in CC!Decision => r.decision # "none"
  BY DEF CC!Decision
<1>3. says = Done => Fulfilled(r)'
  BY <1>1, <1>2 DEF Holds, Fulfilled, Grows, Fits
<1>4. \A p \in ProposalId : proposals[p] # None =>
        proposals'[p] # None /\ proposals'[p].applicant = proposals[p].applicant
  BY DEF Grows
<1>5. \A x \in CertificateId : certificates[x] # None =>
       /\ certificates'[x] # None /\ certificates'[x].issuer = certificates[x].issuer
       /\ certificates[x].status = "revoked" => certificates'[x].status = "revoked"
  BY DEF Grows
<1> QED
  BY <1>1, <1>3, <1>4, <1>5 DEF Holds, Grows, Fits

\* A proposal that is as it was read has not changed in this step either.
LEMMA StillThere ==
  ASSUME LedgerOK, LedgerOK', Grows, NEW r \in Request, Fits(r), Prepared(r), r.does = "vote"
  PROVE  /\ proposals'[r.id] # None /\ Tally(r.reads) <= Tally(proposals'[r.id])
         /\ proposals'[r.id] = r.reads =>
              proposals'[r.id] = proposals[r.id] /\ votes'[r.id] = votes[r.id]
<1>1. r.id \in ProposalId /\ proposals[r.id] # None /\ proposals'[r.id] # None
  BY DEF Fits, Prepared, Grows
<1>2. /\ proposals[r.id] \in CC!ProposalRecord /\ proposals'[r.id] \in CC!ProposalRecord
      /\ r.reads \in CC!ProposalRecord /\ Tally(r.reads) <= Tally(proposals[r.id])
  BY <1>1 DEF LedgerOK, CC!TypeOK, Prepared
<1>3. /\ Tally(r.reads) \in Nat /\ Tally(proposals[r.id]) \in Nat
      /\ Tally(proposals'[r.id]) \in Nat
  BY <1>2 DEF CC!ProposalRecord, Tally
<1>4. \/ proposals'[r.id] = proposals[r.id] /\ votes'[r.id] = votes[r.id]
      \/ Tally(proposals'[r.id]) > Tally(proposals[r.id])
  BY <1>1 DEF Grows
<1> QED
  BY <1>1, <1>2, <1>3, <1>4

LEMMA KeepsPrepared ==
  ASSUME LedgerOK, LedgerOK', Grows, NEW r \in Request, Fits(r), Prepared(r)
  PROVE  Prepared(r)'
<1>1. Caller(r) \in Institution /\ Caller(r)' = Caller(r)
  BY Callers DEF Caller
<1>2. CASE r.does = "vote"
  <2>1. proposals'[r.id] = proposals[r.id] =>
          CC!VotedProposal(r.id, r.decision)' = CC!VotedProposal(r.id, r.decision)
    BY DEF CC!VotedProposal, CC!Counted, CC!StatusAfter, CC!IsApprovedBy, CC!IsBeyondApproval,
      CC!RequiredVotesToApprove
  <2> QED
    BY <1>1, <1>2, <2>1, StillThere DEF Prepared, Tally
<1>3. CASE r.does # "vote"
  BY <1>1, <1>3 DEF Prepared, Fits, Grows
<1> QED
  BY <1>2, <1>3

LEMMA KeepsSound ==
  ASSUME LedgerOK, LedgerOK', Grows, NEW r \in Request, Sound(r)
  PROVE  Sound(r)'
<1>1. Fits(r) /\ About(r)
  BY DEF Sound
<1>2. About(r)'
  BY <1>1 DEF About, Fits, Grows
<1> QED
  BY <1>2, KeepsHolding, KeepsPrepared DEF Sound, Fits

-----------------------------------------------------------------------------
(* Errors *)

LEMMA Messages ==
  /\ "is not an active institution" \in Message /\ "is not a registered institution" \in Message
  /\ "proposal does not exist" \in Message /\ "proposal is not open" \in Message
  /\ "is the applicant and cannot vote on its own proposal" \in Message
  /\ "has already voted on proposal" \in Message
  /\ "is already a member institution" \in Message
  /\ "open or already-approved membership proposal exists" \in Message
  /\ "certificate does not exist" \in Message /\ "institution does not exist" \in Message
  /\ "is not the issuer of certificate" \in Message
  /\ "certificate is already revoked" \in Message
  /\ "read-only credential" \in Message /\ "failed to commit with status code" \in Message
  /\ "transport failure" \in Message /\ "Unable to reach the system" \in Message
BY DEF Message, NotFound, Forbidden, AlreadyDone

LEMMA Sentences ==
  /\ HumanizeBackendError("is not an active institution")
       = "That institution isn't an active member of the consortium."
  /\ HumanizeBackendError("is not a registered institution")
       = "That institution isn't an active member of the consortium."
  /\ HumanizeBackendError("proposal does not exist")
       = "We couldn't find a proposal with that ID."
  /\ HumanizeBackendError("proposal is not open")
       = "This proposal is no longer open for voting."
  /\ HumanizeBackendError("is the applicant and cannot vote on its own proposal")
       = "You can't vote on your own membership proposal."
  /\ HumanizeBackendError("has already voted on proposal")
       = "You've already voted on this proposal."
  /\ HumanizeBackendError("is already a member institution")
       = "That institution is already a member."
  /\ HumanizeBackendError("open or already-approved membership proposal exists")
       = "There's already an open or approved proposal for that institution."
  /\ HumanizeBackendError("certificate does not exist")
       = "We couldn't find a certificate with that ID."
  /\ HumanizeBackendError("institution does not exist") = "We couldn't find that institution."
  /\ HumanizeBackendError("is not the issuer of certificate")
       = "This certificate wasn't issued by your institution."
  /\ HumanizeBackendError("certificate is already revoked")
       = "This certificate has already been revoked."
  /\ HumanizeBackendError("read-only credential") = "This is a read-only account."
BY DEF HumanizeBackendError

LEMMA NoSentence ==
  /\ HumanizeBackendError("failed to commit with status code") = Generic
  /\ HumanizeBackendError("transport failure") = Generic
  /\ HumanizeBackendError("Unable to reach the system") = Generic
BY DEF HumanizeBackendError

LEMMA NeverDone == \A message : HumanizeBackendError(message) # Done
BY DEF HumanizeBackendError, Generic, Done

LEMMA Outcomes ==
  /\ \A status \in {422, 503, 504} : Outcome(status) = "unknown"
  /\ Outcome(200) = "done" /\ Outcome(201) = "done"
BY DEF Outcome

LEMMA ErrorRecords == \A s \in Nat, m \in Message : [status |-> s, message |-> m] \in Error
BY DEF Error

LEMMA Errors ==
  /\ \A message \in Message : Catch(Refused(message)) \in Error
       /\ Catch(Refused(message)).message = message
  /\ Catch(NotValid) \in Error /\ Catch(NotValid).message = "failed to commit with status code"
  /\ ReadOnlyError \in Error /\ ReadOnlyError.message = "read-only credential"
  /\ \A error \in TransportErrors :
       /\ error \in Error /\ HumanizeBackendError(error.message) = Generic
       /\ Outcome(error.status) = "unknown"
<1>1. \A e : MapToHttpStatus(e) \in Nat
  BY DEF MapToHttpStatus
<1>2. ASSUME NEW code \in {"UNAVAILABLE", "DEADLINE_EXCEEDED", "UNKNOWN"}
      PROVE  /\ Catch(Transport(code)) \in Error
             /\ HumanizeBackendError(Catch(Transport(code)).message) = Generic
             /\ Outcome(Catch(Transport(code)).status) = "unknown"
  <2>1. MapToHttpStatus(Transport(code)) \in {422, 503, 504}
    BY DEF MapToHttpStatus, Transport, NotFound, Forbidden, AlreadyDone, BadRequest
  <2>2. /\ Catch(Transport(code)).message = "transport failure"
        /\ Catch(Transport(code)).status = MapToHttpStatus(Transport(code))
        /\ Catch(Transport(code)) \in Error
    BY <1>1, Messages DEF Catch, Transport, Error
  <2>3. Catch(Transport(code)).status \in {422, 503, 504}
    BY <2>1, <2>2
  <2>4. Outcome(Catch(Transport(code)).status) = "unknown"
    BY <2>3, Outcomes
  <2> QED
    BY <2>2, <2>4, NoSentence
<1>3. /\ UnreachableError \in Error /\ HumanizeBackendError(UnreachableError.message) = Generic
      /\ Outcome(UnreachableError.status) = "unknown"
  <2>1. UnreachableError.message = "Unable to reach the system" /\ UnreachableError.status = 503
    BY DEF UnreachableError
  <2>2. UnreachableError \in Error
    <3>1. "Unable to reach the system" \in Message
      BY Messages
    <3>2. 503 \in Nat
      OBVIOUS
    <3> QED
      BY <3>1, <3>2, ErrorRecords DEF UnreachableError
  <2>3. UnreachableError.status \in {422, 503, 504}
    BY <2>1
  <2>4. Outcome(UnreachableError.status) = "unknown"
    BY <2>3, Outcomes
  <2> QED
    BY <2>1, <2>2, <2>4, NoSentence
<1>4. \A error \in TransportErrors :
       /\ error \in Error /\ HumanizeBackendError(error.message) = Generic
       /\ Outcome(error.status) = "unknown"
  BY <1>2, <1>3 DEF TransportErrors
<1>5. ASSUME NEW message \in Message
      PROVE  /\ Catch(Refused(message)) \in Error
             /\ Catch(Refused(message)).message = message
  BY <1>1 DEF Catch, Refused, Error
<1>6. /\ Catch(NotValid) \in Error
      /\ Catch(NotValid).message = "failed to commit with status code"
  BY <1>1, Messages DEF Catch, NotValid, Error
<1>7. ReadOnlyError \in Error /\ ReadOnlyError.message = "read-only credential"
  <2>1. "read-only credential" \in Message
    BY Messages
  <2>2. 403 \in Nat
    OBVIOUS
  <2> QED
    BY <2>1, <2>2, ErrorRecords DEF ReadOnlyError
<1> QED
  BY <1>4, <1>5, <1>6, <1>7

LEMMA Actives ==
  ASSUME LedgerOK, NEW i \in Institution
  PROVE  CC!IsActive(i) <=> institutions[i] # None
BY DEF LedgerOK, CC!TypeOK, CC!IsActive, CC!InstitutionRecord

\* A refusal is true, and what passes the checks is prepared.
LEMMA Refusals ==
  ASSUME LedgerOK, NEW r \in Request, Fits(r), About(r), r.by \notin Guest,
         Refusal(r) # None
  PROVE  Refusal(r) \in Message /\ Holds(r, HumanizeBackendError(Refusal(r)))
<1>1. /\ Caller(r) \in Institution
      /\ ~CC!IsActive(Caller(r)) => Caller(r) \notin Founders
      /\ institutions[Caller(r)] = None => Caller(r) \notin Founders
  <2>1. Caller(r) \in Institution
    BY Callers
  <2> QED
    BY <2>1, Actives DEF LedgerOK
<1>2. CASE r.does = "vote"
  <2>1. \/ /\ Refusal(r) = "is not an active institution"
           /\ Caller(r) \notin Founders
        \/ /\ Refusal(r) = "proposal is not open"
           /\ proposals[r.id] # None /\ proposals[r.id].status # "open"
        \/ /\ Refusal(r) = "is the applicant and cannot vote on its own proposal"
           /\ proposals[r.id] # None /\ proposals[r.id].applicant = Caller(r)
        \/ /\ Refusal(r) = "has already voted on proposal"
           /\ votes[r.id][Caller(r)] # "none"
    BY <1>1, <1>2 DEF Refusal, CC!Exists, About
  <2> QED
    BY <1>2, <2>1, Sentences, Messages DEF Holds, Sayable, Done, Generic
<1>3. CASE r.does = "propose"
  <2>1. \/ /\ Refusal(r) = "is not an active institution"
           /\ Caller(r) \notin Founders
        \/ Refusal(r) = "is already a member institution" /\ institutions[r.id] # None
        \/ /\ Refusal(r) = "open or already-approved membership proposal exists"
           /\ \E p \in ProposalId : proposals[p] # None /\ proposals[p].applicant = r.id
    BY <1>1, <1>3 DEF Refusal, CC!HasLiveProposal, CC!Exists
  <2> QED
    BY <1>3, <2>1, Sentences, Messages DEF Holds, Sayable, Done, Generic
<1>4. CASE r.does = "issue"
  <2>1. Refusal(r) = "is not a registered institution" /\ Caller(r) \notin Founders
    BY <1>1, <1>4 DEF Refusal
  <2> QED
    BY <1>4, <2>1, Sentences, Messages DEF Holds, Sayable, Done, Generic
<1>5. CASE r.does = "revoke"
  <2>1. certificates[r.id] # None <=> r.id \in Issued
    BY <1>5 DEF Fits, Issued, Items, LedgerOK
  <2>2. \/ /\ Refusal(r) = "is not the issuer of certificate"
           /\ certificates[r.id] # None /\ certificates[r.id].issuer # Caller(r)
        \/ /\ Refusal(r) = "certificate is already revoked"
           /\ certificates[r.id] # None /\ certificates[r.id].status = "revoked"
    BY <1>5, <2>1 DEF Refusal, About
  <2> QED
    BY <1>5, <2>2, Sentences, Messages DEF Holds, Sayable, Done, Generic
<1> QED
  BY <1>2, <1>3, <1>4, <1>5 DEF Request, Does

LEMMA Preparations ==
  ASSUME LedgerOK, NEW r \in Request, Fits(r), r.by \notin Guest,
         Refusal(r) = None,
         NEW q, q = [r EXCEPT !.at = "endorsed", !.reads = Reads(r), !.writes = Writes(r)]
  PROVE  q \in Request /\ Fits(q) /\ Prepared(q)
<1>0. None \notin Message
  BY PortalConstants
<1>1. Caller(r) \in Institution
  BY Callers
<1>2. /\ q.by = r.by /\ q.does = r.does /\ q.id = r.id /\ q.decision = r.decision
      /\ q.reads = Reads(r) /\ q.writes = Writes(r)
      /\ Caller(q) = Caller(r) /\ Fits(q)
  BY DEF Request, Caller, Fits
<1>3. Reads(r) \in Read /\ Writes(r) \in Written => q \in Request
  BY DEF Request
<1>4. CASE r.does = "vote"
  <2>1. /\ r.id \in ProposalId /\ r.decision \in CC!Decision
        /\ proposals[r.id] # None /\ proposals[r.id].status = "open"
        /\ votes[r.id][Caller(r)] = "none"
    BY <1>0, <1>4, Messages DEF Fits, Refusal, CC!Exists
  <2>2. proposals[r.id] \in CC!ProposalRecord
    BY <2>1 DEF LedgerOK, CC!TypeOK
  <2>3. /\ Reads(r) = proposals[r.id]
        /\ Writes(r) = [proposal |-> CC!VotedProposal(r.id, r.decision),
                        member |-> CC!Admission(Caller(r), r.id, r.decision)]
    BY <1>4 DEF Reads, Writes
  <2>4. Tally(Reads(r)) <= Tally(proposals[r.id])
    BY <2>2, <2>3 DEF Tally, CC!ProposalRecord
  <2>5. /\ CC!VotedProposal(r.id, r.decision) \in CC!ProposalRecord
        /\ CC!Admission(Caller(r), r.id, r.decision) \in CC!InstitutionRecord \cup {None}
    BY <1>1, <2>1, <2>2, VotedProposals, Admissions
  <2>6. /\ Writes(r).proposal = CC!VotedProposal(r.id, r.decision)
        /\ Writes(r).member \in CC!InstitutionRecord \cup {None}
        /\ Writes(r) \in Written
    BY <2>3, <2>5 DEF Written
  <2>7. Reads(r) \in Read
    BY <2>2, <2>3 DEF Read
  <2> QED
    BY <1>2, <1>3, <1>4, <2>1, <2>2, <2>3, <2>4, <2>6, <2>7 DEF Prepared
<1>5. CASE r.does = "propose"
  <2>1. Reads(r) = institutions[r.id] /\ Writes(r) = CC!NewProposal(Caller(r), r.id)
    BY <1>5 DEF Reads, Writes
  <2>2. r.id \in Institution /\ institutions[r.id] \in CC!InstitutionRecord \cup {None}
    BY <1>5 DEF Fits, LedgerOK, CC!TypeOK
  <2>3. Writes(r) \in CC!ProposalRecord /\ Writes(r).applicant = r.id
    BY <1>1, <2>1, <2>2, NewProposals
  <2>4. Reads(r) \in Read
    BY <2>1, <2>2 DEF Read
  <2>5. Writes(r) \in Written
    BY <2>3 DEF Written
  <2> QED
    BY <1>2, <1>3, <1>5, <2>3, <2>4, <2>5 DEF Prepared
<1>6. CASE r.does = "issue"
  <2>1. Reads(r) \subseteq CertificateId
    BY <1>6 DEF Reads, Issued, Items, LedgerOK
  <2>2. /\ Writes(r) = [issuer |-> Caller(r), status |-> "active"]
        /\ Writes(r) \in CertificateRecord /\ Writes(r).issuer = Caller(r)
    BY <1>1, <1>6 DEF Writes, CertificateRecord
  <2> QED
    BY <1>2, <1>3, <1>6, <2>1, <2>2 DEF Prepared, Read, Written
<1>7. CASE r.does = "revoke"
  <2>1. /\ r.id \in CertificateId /\ certificates[r.id] # None
        /\ certificates[r.id].status # "revoked"
    BY <1>0, <1>7, Messages DEF Fits, Refusal, Issued, Items
  <2>2. certificates[r.id] \in CertificateRecord
    BY <2>1 DEF LedgerOK
  <2>3. /\ Reads(r) = certificates[r.id]
        /\ Writes(r) = [certificates[r.id] EXCEPT !.status = "revoked"]
    BY <1>7 DEF Reads, Writes
  <2>4. certificates[r.id].status = "active" /\ Writes(r) \in CertificateRecord
    BY <2>1, <2>2, <2>3 DEF CertificateRecord
  <2> QED
    BY <1>2, <1>3, <1>7, <2>1, <2>2, <2>3, <2>4 DEF Prepared, Read, Written
<1> QED
  BY <1>4, <1>5, <1>6, <1>7 DEF Request, Does

-----------------------------------------------------------------------------
(* Steps of requests *)

RequestsOK ==
  /\ request \in Seq(Request)
  /\ \A n \in DOMAIN request : \A r \in {request[n]} : Sound(r)
  /\ RetriesCountOnce

LEMMA RequestAt == RequestsOK => \A n \in DOMAIN request : request[n] \in Request
BY ElementOfSeq DEF RequestsOK

\* What a step leaves of a request.
Same(r, q) ==
  /\ q.by = r.by /\ q.does = r.does /\ q.id = r.id /\ q.decision = r.decision
  /\ r.at \in Finishing => q.at = r.at /\ q.new = r.new

RequestsKept ==
  /\ Len(request) <= Len(request')
  /\ \A n \in DOMAIN request : n \in DOMAIN request' /\ Same(request[n], request'[n])

\* Nobody is told of a request.
ToldKept == \A n \in DOMAIN request : request'[n].told = request[n].told

\* No request but n did what q does.
Single(n, q) ==
  q.at = "valid" /\ q.does \in {"vote", "revoke"} =>
    \A m \in DOMAIN request \ {n} :
      /\ request[m].at = "valid" /\ request[m].does = q.does
      /\ Caller(request[m]) = Caller(q)
      => request[m].id # q.id

LEMMA OneChanges ==
  ASSUME LedgerOK, LedgerOK', Grows, RequestsOK,
         NEW n \in DOMAIN request, NEW q \in Request, request' = [request EXCEPT ![n] = q],
         Sound(q)', Same(request[n], q), Single(n, q)
  PROVE  RequestsOK' /\ RequestsKept /\ request'[n] = q
<1>1. /\ request \in Seq(Request) /\ request' \in Seq(Request)
      /\ DOMAIN request' = DOMAIN request /\ Len(request') = Len(request)
      /\ request'[n] = q /\ \A m \in DOMAIN request \ {n} : request'[m] = request[m]
      /\ \A m \in DOMAIN request : request[m] \in Request
  BY ExceptSeq DEF RequestsOK
<1>2. ASSUME NEW m \in DOMAIN request, NEW r \in {request'[m]}
      PROVE  Sound(r)'
  <2>1. CASE m = n
    BY <1>1, <1>2, <2>1
  <2>2. CASE m # n
    <3>1. r \in Request /\ Sound(r)
      BY <1>1, <1>2, <2>2 DEF RequestsOK
    <3> QED
      BY <3>1, KeepsSound
  <2> QED
    BY <2>1, <2>2
<1>3. RequestsKept
  BY <1>1 DEF RequestsKept, Same
<1>4. RetriesCountOnce'
  BY <1>1 DEF RequestsOK, RetriesCountOnce, Single, Caller
<1> QED
  BY <1>1, <1>2, <1>3, <1>4 DEF RequestsOK

\* The request when the backend has its outcome.
Settled(r, at, new, error) ==
  [r EXCEPT !.at = at, !.new = new, !.reads = None, !.writes = None,
     !.error = IF r.told = "nothing" THEN error ELSE None]

LEMMA SettledRequests ==
  ASSUME NEW r \in Request, NEW at \in Finishing,
         NEW new \in ProposalId \cup CertificateId \cup {None}, NEW error \in Error \cup {None},
         NEW q, q = Settled(r, at, new, error)
  PROVE  /\ q \in Request
         /\ q.by = r.by /\ q.does = r.does /\ q.id = r.id /\ q.decision = r.decision
         /\ q.at = at /\ q.new = new /\ q.told = r.told
         /\ r.told = "nothing" => q.error = error
         /\ r.told # "nothing" => q.error = None
<1>1. None \in Read /\ None \in Written
  BY DEF Read, Written
<1>2. q = [r EXCEPT !.at = at, !.new = new, !.reads = None, !.writes = None,
             !.error = IF r.told = "nothing" THEN error ELSE None]
  BY DEF Settled
<1> QED
  BY <1>1, <1>2 DEF Request, Finishing

LEMMA Settles ==
  ASSUME NEW n, NEW r, r = request[n], NEW at, NEW new, NEW error, Settle(n, at, new, error),
         request \in Seq(Request), n \in DOMAIN request
  PROVE  request' = [request EXCEPT ![n] = Settled(r, at, new, error)]
BY DEF Settle, Settled

\* A request that comes to nothing, for a reason that is true.
LEMMA FailedSound ==
  ASSUME NEW r \in Request, Fits(r), About(r), r.at \notin Finishing,
         r.told = "not done" => r.at \in {"refused", "invalid"},
         NEW at \in {"refused", "invalid"}, NEW error \in Error,
         Holds(r, HumanizeBackendError(error.message)),
         NEW q, q = Settled(r, at, None, error)
  PROVE  q \in Request /\ Sound(q)
<1>0. /\ at \in Finishing /\ None \in ProposalId \cup CertificateId \cup {None}
      /\ error \in Error \cup {None}
  BY DEF Finishing
<1>1. /\ q \in Request
      /\ q.by = r.by /\ q.does = r.does /\ q.id = r.id /\ q.decision = r.decision
      /\ q.at = at /\ q.told = r.told
      /\ r.told = "nothing" => q.error = error
      /\ r.told # "nothing" => q.error = None
  <2>1. q \in Request
    BY <1>0, SettledRequests
  <2> QED
    BY <2>1 DEF Settled, Request
<1>2. error # None
  BY PortalConstants DEF Error
<1>3. Fits(q) /\ About(q) /\ Caller(q) = Caller(r)
  BY <1>1 DEF Fits, About, Caller
<1>4. HumanizeBackendError(error.message) # Done
  BY NeverDone
<1>5. Holds(q, HumanizeBackendError(error.message))
  BY <1>1, <1>3, <1>4 DEF Holds
<1> QED
  BY <1>1, <1>2, <1>3, <1>5 DEF Sound

\* What every step of a request shows.
Step == LedgerOK' /\ Grows /\ RequestsOK' /\ RequestsKept /\ ToldKept

LEMMA Fails ==
  ASSUME LedgerOK, RequestsOK, UNCHANGED ledger, NEW n \in DOMAIN request,
         NEW r \in Request, r = request[n], r.at \notin Finishing,
         NEW at \in {"refused", "invalid"}, NEW error \in Error,
         Holds(r, HumanizeBackendError(error.message)), Settle(n, at, None, error)
  PROVE  Step
<1>1. PICK q : q = Settled(r, at, None, error)
  OBVIOUS
<1>2. Fits(r) /\ About(r) /\ (r.told = "not done" => r.at \in {"refused", "invalid"})
  BY DEF RequestsOK, Sound
<1>3. q \in Request /\ Sound(q)
  BY <1>1, <1>2, FailedSound
<1>4. /\ q.by = r.by /\ q.does = r.does /\ q.id = r.id /\ q.decision = r.decision
      /\ q.at = at /\ q.told = r.told
  BY <1>1, SettledRequests DEF Finishing
<1>5. LedgerOK' /\ Grows
  BY UnchangedGrows
<1>6. Sound(q)'
  BY <1>3, <1>5, KeepsSound
<1>7. request' = [request EXCEPT ![n] = q] /\ Same(request[n], q) /\ Single(n, q)
  BY <1>1, <1>4, Settles DEF RequestsOK, Same, Single
<1>8. RequestsOK' /\ RequestsKept /\ request'[n] = q
  BY <1>3, <1>4, <1>5, <1>6, <1>7, OneChanges
<1>9. ToldKept
  BY <1>4, <1>7, <1>8 DEF ToldKept, RequestsOK
<1> QED
  BY <1>5, <1>8, <1>9 DEF Step

LEMMA Endorses ==
  ASSUME LedgerOK, RequestsOK, NEW n \in DOMAIN request, Endorse(n)
  PROVE  Step
<1>1. PICK r \in Request : r = request[n]
  BY ElementOfSeq DEF RequestsOK
<1>2. Sound(r) /\ Fits(r) /\ About(r) /\ r.at = "sent" /\ r.at \notin Finishing
  BY <1>1 DEF RequestsOK, Sound, Endorse, Finishing
<1>3. UNCHANGED ledger
  BY DEF Endorse
<1>4. CASE r.by \in Guest
  <2>1. Holds(r, HumanizeBackendError(ReadOnlyError.message)) /\ ReadOnlyError \in Error
    BY <1>4, Errors, Sentences DEF Holds, Sayable, Done, Generic
  <2>2. Settle(n, "refused", None, ReadOnlyError)
    BY <1>1, <1>4 DEF Endorse, Refuse
  <2> QED
    BY <1>1, <1>2, <1>3, <2>1, <2>2, Fails
<1>5. CASE r.by \notin Guest /\ Refusal(r) # None
  <2>1. PICK reason \in Message : reason = Refusal(r)
    BY <1>2, <1>5, Refusals
  <2>2. Holds(r, HumanizeBackendError(Catch(Refused(reason)).message))
    BY <1>2, <1>5, <2>1, Refusals, Errors
  <2>3. Settle(n, "refused", None, Catch(Refused(reason))) /\ Catch(Refused(reason)) \in Error
    BY <1>1, <1>5, <2>1, Errors DEF Endorse, Refuse
  <2> QED
    BY <1>1, <1>2, <1>3, <2>2, <2>3, Fails
<1>6. CASE r.by \notin Guest /\ Refusal(r) = None
  <2>1. PICK q : q = [r EXCEPT !.at = "endorsed", !.reads = Reads(r), !.writes = Writes(r)]
    OBVIOUS
  <2>2. q \in Request /\ Fits(q) /\ Prepared(q)
    BY <1>2, <1>6, <2>1, Preparations
  <2>3. /\ q.by = r.by /\ q.does = r.does /\ q.id = r.id /\ q.decision = r.decision
        /\ q.at = "endorsed" /\ q.told = r.told /\ q.error = r.error
    BY <2>1 DEF Request
  <2>4. request' = [request EXCEPT ![n] = q]
    BY <1>1, <1>6, <2>1 DEF Endorse
  <2>5. Sound(q)
    BY <1>2, <2>2, <2>3 DEF Sound, About, Finishing
  <2>6. LedgerOK' /\ Grows
    BY <1>3, UnchangedGrows
  <2>7. Sound(q)' /\ Same(request[n], q) /\ Single(n, q)
    BY <1>1, <1>2, <2>2, <2>3, <2>5, <2>6, KeepsSound DEF Same, Single
  <2>8. RequestsOK' /\ RequestsKept /\ request'[n] = q
    BY <2>2, <2>3, <2>4, <2>6, <2>7, OneChanges
  <2>9. ToldKept
    BY <1>1, <2>3, <2>4, <2>8 DEF ToldKept, RequestsOK
  <2> QED
    BY <2>6, <2>8, <2>9 DEF Step
<1> QED
  BY <1>4, <1>5, <1>6

LEMMA Succeeds ==
  ASSUME LedgerOK, RequestsOK, LedgerOK', Grows, NEW n \in DOMAIN request,
         NEW r \in Request, r = request[n], r.at = "endorsed",
         NEW new \in ProposalId \cup CertificateId \cup {None}, Settle(n, "valid", new, None),
         NEW q, q = Settled(r, "valid", new, None), Fulfilled(q)', Single(n, q)
  PROVE  Step
<1>0. "valid" \in Finishing /\ None \in Error \cup {None}
  BY DEF Finishing
<1>1. q \in Request
  BY <1>0, SettledRequests
<1>2. /\ q.by = r.by /\ q.does = r.does /\ q.id = r.id /\ q.decision = r.decision
      /\ q.at = "valid" /\ q.told = r.told /\ q.error = None
  BY <1>1 DEF Settled, Request
<1>3. Fits(q) /\ About(q) /\ q.told # "not done"
  BY <1>2 DEF RequestsOK, Sound, Fits, About
<1>4. Sound(q)'
  <2>1. About(q)'
    BY <1>3 DEF About, Fits, Grows
  <2> QED
    BY <1>2, <1>3, <2>1 DEF Sound, Fits, Holds, Sayable, Done
<1>5. request' = [request EXCEPT ![n] = q] /\ Same(request[n], q)
  BY <1>2, Settles DEF RequestsOK, Same, Finishing
<1>6. RequestsOK' /\ RequestsKept /\ request'[n] = q
  BY <1>1, <1>4, <1>5, OneChanges
<1>7. ToldKept
  BY <1>2, <1>5, <1>6 DEF ToldKept, RequestsOK
<1> QED
  BY <1>6, <1>7 DEF Step

LEMMA Commits ==
  ASSUME LedgerOK, RequestsOK, NEW n \in DOMAIN request, Commit(n)
  PROVE  Step
<1>1. PICK r \in Request : r = request[n]
  BY ElementOfSeq DEF RequestsOK
<1>2. Fits(r) /\ r.at = "endorsed" /\ r.at \notin Finishing /\ Prepared(r)
  BY <1>1 DEF RequestsOK, Sound, Commit, Finishing
<1>3. Caller(r) \in Institution
  BY Callers
<1>4. CASE ~Unchanged(r)
  <2>1. Settle(n, "invalid", None, Catch(NotValid)) /\ UNCHANGED ledger
    BY <1>1, <1>4 DEF Commit
  <2>2. Holds(r, HumanizeBackendError(Catch(NotValid).message)) /\ Catch(NotValid) \in Error
    BY Errors, NoSentence DEF Holds, Sayable, Done, Generic
  <2> QED
    BY <1>1, <1>2, <2>1, <2>2, Fails
<1>5. ASSUME NEW new \in ProposalId \cup CertificateId \cup {None}, NEW q,
             q = Settled(r, "valid", new, None)
      PROVE  /\ q.by = r.by /\ q.does = r.does /\ q.id = r.id /\ q.decision = r.decision
             /\ q.at = "valid" /\ q.new = new /\ Caller(q) = Caller(r)
  BY <1>5 DEF Settled, Request, Caller
<1>6. CASE Unchanged(r) /\ r.does = "vote"
  <2>1. Write(r) /\ Settle(n, "valid", None, None)
    BY <1>1, <1>6 DEF Commit
  <2>2. /\ r.id \in ProposalId /\ r.decision \in CC!Decision
        /\ proposals[r.id] # None /\ proposals[r.id].status = "open"
        /\ votes[r.id][Caller(r)] = "none"
        /\ r.writes.proposal = CC!VotedProposal(r.id, r.decision)
        /\ r.writes.member \in CC!InstitutionRecord \cup {None}
    BY <1>2, <1>6 DEF Fits, Prepared, Unchanged, Reads
  <2>3. proposals[r.id] \in CC!ProposalRecord
    BY <2>2 DEF LedgerOK, CC!TypeOK
  <2>4. VoteStep(Caller(r), r.id, r.decision, r.writes.proposal, r.writes.member)
    BY <1>6, <2>1 DEF Write, VoteStep
  <2>5. LedgerOK' /\ Grows /\ votes'[r.id][Caller(r)] = r.decision
    BY <1>3, <2>2, <2>3, <2>4, VotedProposals, VoteGrows
  <2>6. PICK q : q = Settled(r, "valid", None, None)
    OBVIOUS
  <2>7. /\ q.by = r.by /\ q.does = "vote" /\ q.id = r.id /\ q.decision = r.decision
        /\ Caller(q) = Caller(r)
    BY <1>5, <1>6, <2>6
  <2>8. Fulfilled(q)'
    BY <1>2, <2>5, <2>7 DEF Fulfilled, Prepared, Caller
  <2>9. ASSUME NEW m \in DOMAIN request, request[m].at = "valid", request[m].does = "vote",
               Caller(request[m]) = Caller(r)
        PROVE  request[m].id # r.id
    <3>1. votes[request[m].id][Caller(request[m])] = request[m].decision
               /\ request[m].decision \in CC!Decision
      BY <2>9 DEF RequestsOK, Sound, Holds, Fulfilled, Fits
    <3> QED
      BY <2>2, <2>9, <3>1 DEF CC!Decision
  <2>10. Single(n, q)
    BY <2>7, <2>9 DEF Single
  <2> QED
    BY <1>1, <1>2, <2>1, <2>5, <2>6, <2>8, <2>10, Succeeds
<1>7. CASE Unchanged(r) /\ r.does = "revoke"
  <2>1. Write(r) /\ Settle(n, "valid", None, None)
    BY <1>1, <1>7 DEF Commit
  <2>2. /\ r.id \in CertificateId /\ certificates[r.id] # None
        /\ certificates[r.id] \in CertificateRecord /\ certificates[r.id].status = "active"
        /\ r.writes = [certificates[r.id] EXCEPT !.status = "revoked"]
    BY <1>2, <1>7 DEF Fits, Prepared, Unchanged, Reads
  <2>3. /\ r.writes \in CertificateRecord /\ r.writes.issuer = certificates[r.id].issuer
        /\ r.writes.status = "revoked"
    BY <2>2 DEF CertificateRecord
  <2>4. /\ certificates' = [certificates EXCEPT ![r.id] = r.writes]
        /\ UNCHANGED <<founding, institutions, proposals, votes>>
    BY <1>7, <2>1 DEF Write
  <2>5. LedgerOK' /\ Grows /\ certificates'[r.id] = r.writes /\ r.writes # None
    BY <2>2, <2>3, <2>4, CertificateGrows
  <2>6. PICK q : q = Settled(r, "valid", None, None)
    OBVIOUS
  <2>7. q.does = "revoke" /\ q.id = r.id /\ Caller(q) = Caller(r)
    BY <1>5, <1>7, <2>6
  <2>8. Fulfilled(q)'
    BY <2>3, <2>5, <2>7 DEF Fulfilled
  <2>9. ASSUME NEW m \in DOMAIN request, request[m].at = "valid", request[m].does = "revoke"
        PROVE  request[m].id # r.id
    <3>1. certificates[request[m].id].status = "revoked"
      BY <2>9 DEF RequestsOK, Sound, Holds, Fulfilled
    <3> QED
      BY <2>2, <3>1
  <2>10. Single(n, q)
    BY <2>7, <2>9 DEF Single
  <2> QED
    BY <1>1, <1>2, <2>1, <2>5, <2>6, <2>8, <2>10, Succeeds
<1>8. CASE Unchanged(r) /\ r.does = "propose"
  <2>1. PICK new \in ProposalId \cup CertificateId :
          WriteNew(r, new) /\ Settle(n, "valid", new, None)
    BY <1>1, <1>8 DEF Commit
  <2>2. /\ new \in ProposalId /\ proposals[new] = None
        /\ proposals' = [proposals EXCEPT ![new] = r.writes]
        /\ UNCHANGED <<founding, institutions, votes, certificates>>
    BY <1>8, <2>1 DEF WriteNew, Items, LedgerOK, CC!TypeOK
  <2>3. r.writes \in CC!ProposalRecord /\ r.writes.applicant = r.id
    BY <1>2, <1>8 DEF Prepared
  <2>4. LedgerOK' /\ Grows /\ proposals'[new] = r.writes /\ r.writes # None
    BY <2>2, <2>3, ProposeGrows
  <2>5. PICK q : q = Settled(r, "valid", new, None)
    OBVIOUS
  <2>6. q.does = "propose" /\ q.id = r.id /\ q.new = new
    BY <1>5, <1>8, <2>5
  <2>7. Fulfilled(q)' /\ Single(n, q)
    BY <2>2, <2>3, <2>4, <2>6 DEF Fulfilled, Single
  <2> QED
    BY <1>1, <1>2, <2>1, <2>4, <2>5, <2>7, Succeeds
<1>9. CASE Unchanged(r) /\ r.does = "issue"
  <2>1. PICK new \in ProposalId \cup CertificateId :
          WriteNew(r, new) /\ Settle(n, "valid", new, None)
    BY <1>1, <1>9 DEF Commit
  <2>2. /\ new \in CertificateId /\ certificates[new] = None
        /\ certificates' = [certificates EXCEPT ![new] = r.writes]
        /\ UNCHANGED <<founding, institutions, proposals, votes>>
    BY <1>9, <2>1 DEF WriteNew, Issued, Items, LedgerOK
  <2>3. r.writes \in CertificateRecord /\ r.writes.issuer = Caller(r)
    BY <1>2, <1>9 DEF Prepared
  <2>4. LedgerOK' /\ Grows /\ certificates'[new] = r.writes /\ r.writes # None
    BY <2>2, <2>3, CertificateGrows
  <2>5. PICK q : q = Settled(r, "valid", new, None)
    OBVIOUS
  <2>6. q.does = "issue" /\ q.id = r.id /\ q.new = new /\ Caller(q) = Caller(r)
    BY <1>5, <1>9, <2>5
  <2>7. Fulfilled(q)' /\ Single(n, q)
    BY <2>2, <2>3, <2>4, <2>6 DEF Fulfilled, Single, Caller
  <2> QED
    BY <1>1, <1>2, <2>1, <2>4, <2>5, <2>7, Succeeds
<1> QED
  BY <1>4, <1>6, <1>7, <1>8, <1>9 DEF Request, Does

\* Steps that leave the requests alone.
LEMMA NoRequest ==
  ASSUME LedgerOK, LedgerOK', Grows, RequestsOK, UNCHANGED request
  PROVE  Step
<1>1. ASSUME NEW n \in DOMAIN request, NEW r \in {request[n]}
      PROVE  Sound(r)'
  <2>1. r \in Request /\ Sound(r)
    BY ElementOfSeq DEF RequestsOK
  <2> QED
    BY <2>1, KeepsSound
<1>2. RequestsOK'
  BY <1>1 DEF RequestsOK, RetriesCountOnce, Caller
<1> QED
  BY <1>2, LenProperties DEF Step, RequestsKept, ToldKept, Same, RequestsOK

\* A new request.
LEMMA Submits ==
  ASSUME LedgerOK, RequestsOK, UNCHANGED ledger, NEW q \in Request, Fits(q), About(q),
         q.at = "sent", q.error = None, q.told = "nothing", request' = Append(request, q)
  PROVE  Step /\ Len(request') = Len(request) + 1 /\ request'[Len(request')] = q
<1>1. /\ request \in Seq(Request) /\ request' \in Seq(Request)
      /\ Len(request) \in Nat /\ Len(request') = Len(request) + 1
      /\ DOMAIN request = 1..Len(request) /\ DOMAIN request' = 1..(Len(request) + 1)
      /\ request'[Len(request) + 1] = q
      /\ \A m \in DOMAIN request : request'[m] = request[m] /\ request[m] \in Request
  BY AppendProperties, LenProperties, ElementOfSeq DEF RequestsOK
<1>2. LedgerOK' /\ Grows
  BY UnchangedGrows
<1>3. Sound(q)'
  <2>1. About(q)'
    BY <1>2 DEF About, Fits, Grows
  <2> QED
    BY <2>1 DEF Sound, Fits, Finishing
<1>4. ASSUME NEW m \in DOMAIN request', NEW r \in {request'[m]}
      PROVE  Sound(r)'
  <2>1. CASE m = Len(request) + 1
    BY <1>1, <1>3, <2>1
  <2>2. CASE m # Len(request) + 1
    <3>1. m \in DOMAIN request
      BY <1>1, <2>2
    <3>2. r \in Request /\ Sound(r)
      BY <1>1, <3>1 DEF RequestsOK
    <3> QED
      BY <1>2, <3>2, KeepsSound
  <2> QED
    BY <2>1, <2>2
<1>5. ASSUME NEW m \in DOMAIN request', request'[m].at = "valid"
      PROVE  m \in DOMAIN request /\ request'[m] = request[m]
  BY <1>1, <1>5
<1>6. RetriesCountOnce'
  BY <1>5 DEF RequestsOK, RetriesCountOnce, Caller
<1>7. RequestsOK'
  BY <1>1, <1>4, <1>6 DEF RequestsOK
<1>8. RequestsKept /\ ToldKept
  BY <1>1 DEF RequestsKept, ToldKept, Same
<1> QED
  BY <1>1, <1>2, <1>7, <1>8 DEF Step

\* Somebody is told of request n.
LEMMA Tells ==
  ASSUME LedgerOK, RequestsOK, UNCHANGED ledger, NEW n \in DOMAIN request,
         NEW o \in {"done", "not done", "unknown"},
         o = "not done" => request[n].at \in {"refused", "invalid"},
         request' = [request EXCEPT ![n].told = o, ![n].error = None]
  PROVE  /\ LedgerOK' /\ Grows /\ RequestsOK' /\ RequestsKept
         /\ \A m \in DOMAIN request \ {n} : request'[m].told = request[m].told
<1>1. PICK r \in Request : r = request[n]
  <2>1. request[n] \in Request
    BY RequestAt
  <2> QED
    BY <2>1, Zenon
<1>2. PICK q : q = [r EXCEPT !.told = o, !.error = None]
  OBVIOUS
<1>3. /\ q \in Request
      /\ q.by = r.by /\ q.does = r.does /\ q.id = r.id /\ q.decision = r.decision
      /\ q.at = r.at /\ q.reads = r.reads /\ q.writes = r.writes /\ q.new = r.new
      /\ q.told = o /\ q.error = None
  BY <1>2 DEF Request
<1>4. Sound(r)
  BY <1>1 DEF RequestsOK
<1>5. Caller(q) = Caller(r) /\ Fits(q) /\ About(q) /\ (q.at = "endorsed" => Prepared(q))
  BY <1>3, <1>4 DEF Caller, Fits, About, Prepared, Sound
<1>6. q.at = "valid" => Holds(q, Done)
  BY <1>3, <1>4, <1>5 DEF Holds, Sayable, Fulfilled, Sound, Done
<1>7. q.told # "nothing" /\ (q.told = "not done" => q.at \in {"refused", "invalid"})
  BY <1>1, <1>3
<1>8. Sound(q)
  BY <1>3, <1>5, <1>6, <1>7 DEF Sound
<1>9. LedgerOK' /\ Grows
  BY UnchangedGrows
<1>10. Sound(q)' /\ request' = [request EXCEPT ![n] = q] /\ Same(request[n], q)
  BY <1>1, <1>2, <1>3, <1>8, <1>9, KeepsSound DEF Same
<1>11. Single(n, q)
  BY <1>1, <1>3, <1>5 DEF Single, RequestsOK, RetriesCountOnce
<1>12. RequestsOK' /\ RequestsKept
  BY <1>3, <1>9, <1>10, <1>11, OneChanges
<1>13. \A m \in DOMAIN request \ {n} : request'[m] = request[m]
  BY <1>10 DEF RequestsOK
<1> QED
  BY <1>9, <1>12, <1>13

-----------------------------------------------------------------------------
(* Routes *)

LEMMA RouteTable ==
  /\ DOMAIN Routes = 1..8
  /\ Routes[1] = CertificateRoute
  /\ Routes[2] = VerificationRoute
  /\ Routes[3] = InstitutionsRoute
  /\ Routes[4] = OpenRoute
  /\ Routes[5] = ResolvedRoute
  /\ Routes[6] = ProposalRoute
  /\ Routes[7] = InstitutionRoute
  /\ Routes[8] = IssuedRoute
BY DEF Routes

LEMMA RouteTexts ==
  /\ Routes[1] = <<"certificates", Param>>
  /\ Routes[2] = <<"certificates", Param, "verification">>
  /\ Routes[3] = <<"institutions">>
  /\ Routes[4] = <<"institutions", "proposals">>
  /\ Routes[5] = <<"institutions", "proposals", "resolved">>
  /\ Routes[6] = <<"institutions", "proposals", Param>>
  /\ Routes[7] = <<"institutions", Param>>
  /\ Routes[8] = <<"institutions", Param, "certificates">>
BY DEF Routes, CertificateRoute, VerificationRoute, InstitutionsRoute, OpenRoute, ResolvedRoute,
      ProposalRoute, InstitutionRoute, IssuedRoute

LEMMA RouteIs ==
  ASSUME NEW path, NEW k \in 1..8, Matches(path, Routes[k]),
         \A j \in 1..8 : j < k => ~Matches(path, Routes[j])
  PROVE  RouteOf(path) = Routes[k]
<1> DEFINE First(i) == Matches(path, Routes[i]) /\ \A j \in 1..(i - 1) : ~Matches(path, Routes[j])
<1>1. k \in DOMAIN Routes /\ First(k)
  BY RouteTable
<1>2. ASSUME NEW i \in DOMAIN Routes, First(i)
      PROVE  i = k
  BY <1>2, RouteTable
<1>3. (CHOOSE i \in DOMAIN Routes : First(i)) = k
  <2> HIDE DEF First
  <2> QED
    BY <1>1, <1>2
<1> QED
  BY <1>3 DEF RouteOf

LEMMA Literals ==
  /\ "certificates" # Param /\ "institutions" # Param /\ "proposals" # Param
  /\ "resolved" # Param /\ "verification" # Param
BY DEF Param

\* Paths of one, two and three parts.
LEMMA Matching ==
  /\ \A a, b : Matches(<<a>>, <<b>>) <=> b \in {a, Param}
  /\ \A a, b, x, y : Matches(<<a, b>>, <<x, y>>) <=> x \in {a, Param} /\ y \in {b, Param}
  /\ \A a, b, c, x, y, z : Matches(<<a, b, c>>, <<x, y, z>>) <=>
       x \in {a, Param} /\ y \in {b, Param} /\ z \in {c, Param}
  /\ \A a, x, y : ~Matches(<<a>>, <<x, y>>)
  /\ \A a, x, y, z : ~Matches(<<a>>, <<x, y, z>>)
  /\ \A a, b, x : ~Matches(<<a, b>>, <<x>>)
  /\ \A a, b, x, y, z : ~Matches(<<a, b>>, <<x, y, z>>)
  /\ \A a, b, c, x : ~Matches(<<a, b, c>>, <<x>>)
  /\ \A a, b, c, x, y : ~Matches(<<a, b, c>>, <<x, y>>)
<1>1. \A a, b : Matches(<<a>>, <<b>>) <=> b \in {a, Param}
  BY DEF Matches
<1>2. \A a, b, x, y : Matches(<<a, b>>, <<x, y>>) <=> x \in {a, Param} /\ y \in {b, Param}
  BY DEF Matches
<1>3. \A a, b, c, x, y, z : Matches(<<a, b, c>>, <<x, y, z>>) <=>
        x \in {a, Param} /\ y \in {b, Param} /\ z \in {c, Param}
  BY DEF Matches
<1> QED
  BY <1>1, <1>2, <1>3 DEF Matches

\* The paths of the pages reach the handlers they are meant for.
LEMMA RoutesOfPages ==
  /\ RouteOf(OpenPath) = OpenRoute
  /\ RouteOf(ResolvedPath) = ResolvedRoute
  /\ RouteOf(<<"institutions">>) = InstitutionsRoute
  /\ \A x : RouteOf(<<"certificates", x>>) = CertificateRoute
  /\ \A x : RouteOf(<<"certificates", x, "verification">>) = VerificationRoute
  /\ \A p : RouteOf(<<"institutions", "proposals", p>>) \in {ResolvedRoute, ProposalRoute}
  /\ \A i : i # "proposals" =>
       /\ RouteOf(<<"institutions", i>>) = InstitutionRoute
       /\ RouteOf(<<"institutions", i, "certificates">>) = IssuedRoute
<1>1. RouteOf(OpenPath) = OpenRoute
  <2>1. Matches(OpenPath, Routes[4])
    BY RouteTexts, Matching DEF OpenPath
  <2>2. \A j \in {1, 2, 3} : ~Matches(OpenPath, Routes[j])
    BY RouteTexts, Matching, Literals DEF OpenPath
  <2> QED
    BY <2>1, <2>2, RouteIs, RouteTable
<1>2. RouteOf(ResolvedPath) = ResolvedRoute
  <2>1. Matches(ResolvedPath, Routes[5])
    BY RouteTexts, Matching DEF ResolvedPath
  <2>2. \A j \in {1, 2, 3, 4} : ~Matches(ResolvedPath, Routes[j])
    BY RouteTexts, Matching, Literals DEF ResolvedPath
  <2> QED
    BY <2>1, <2>2, RouteIs, RouteTable
<1>3. RouteOf(<<"institutions">>) = InstitutionsRoute
  <2>1. Matches(<<"institutions">>, Routes[3])
    BY RouteTexts, Matching
  <2>2. \A j \in {1, 2} : ~Matches(<<"institutions">>, Routes[j])
    BY RouteTexts, Matching
  <2> QED
    BY <2>1, <2>2, RouteIs, RouteTable
<1>4. ASSUME NEW x
      PROVE  RouteOf(<<"certificates", x>>) = CertificateRoute
  <2>1. Matches(<<"certificates", x>>, Routes[1])
    BY RouteTexts, Matching
  <2> QED
    BY <2>1, RouteIs, RouteTable
<1>5. ASSUME NEW x
      PROVE  RouteOf(<<"certificates", x, "verification">>) = VerificationRoute
  <2>1. Matches(<<"certificates", x, "verification">>, Routes[2])
    BY RouteTexts, Matching
  <2>2. ~Matches(<<"certificates", x, "verification">>, Routes[1])
    BY RouteTexts, Matching
  <2> QED
    BY <2>1, <2>2, RouteIs, RouteTable
<1>6. ASSUME NEW p
      PROVE  RouteOf(<<"institutions", "proposals", p>>) \in {ResolvedRoute, ProposalRoute}
  <2> DEFINE path == <<"institutions", "proposals", p>>
  <2>1. Matches(path, Routes[6])
    BY RouteTexts, Matching
  <2>2. \A j \in {1, 2, 3, 4} : ~Matches(path, Routes[j])
    BY RouteTexts, Matching, Literals
  <2> QED
    BY <2>1, <2>2, RouteIs, RouteTable
<1>7. ASSUME NEW i, i # "proposals"
      PROVE  RouteOf(<<"institutions", i>>) = InstitutionRoute
  <2> DEFINE path == <<"institutions", i>>
  <2>1. Matches(path, Routes[7])
    BY RouteTexts, Matching
  <2>2. \A j \in {1, 2, 3, 4, 5, 6} : ~Matches(path, Routes[j])
    BY <1>7, RouteTexts, Matching, Literals
  <2> QED
    BY <2>1, <2>2, RouteIs, RouteTable
<1>8. ASSUME NEW i, i # "proposals"
      PROVE  RouteOf(<<"institutions", i, "certificates">>) = IssuedRoute
  <2> DEFINE path == <<"institutions", i, "certificates">>
  <2>1. Matches(path, Routes[8])
    BY RouteTexts, Matching
  <2>2. \A j \in {1, 2, 3, 4, 5, 6, 7} : ~Matches(path, Routes[j])
    BY <1>8, RouteTexts, Matching, Literals
  <2> QED
    BY <2>1, <2>2, RouteIs, RouteTable
<1> QED
  BY <1>1, <1>2, <1>3, <1>4, <1>5, <1>6, <1>7, <1>8

LEMMA RoutesDiffer ==
  /\ \A route \in {CertificateRoute, OpenRoute, InstitutionRoute} :
       route \notin {VerificationRoute, InstitutionsRoute, ResolvedRoute, ProposalRoute, IssuedRoute}
  /\ \A route \in {VerificationRoute, ResolvedRoute, ProposalRoute, IssuedRoute} :
       route # InstitutionsRoute
  /\ CertificateRoute \notin {OpenRoute, InstitutionRoute} /\ OpenRoute # InstitutionRoute
  /\ VerificationRoute \notin {ResolvedRoute, ProposalRoute, IssuedRoute}
  /\ ResolvedRoute \notin {ProposalRoute, IssuedRoute} /\ ProposalRoute # IssuedRoute
<1> USE DEF CertificateRoute, VerificationRoute, InstitutionsRoute, OpenRoute, ResolvedRoute,
            ProposalRoute, InstitutionRoute, IssuedRoute
<1>1. \A route \in {CertificateRoute, OpenRoute, InstitutionRoute} :
       route \notin {VerificationRoute, InstitutionsRoute, ResolvedRoute, ProposalRoute, IssuedRoute}
  OBVIOUS
<1>2. \A route \in {VerificationRoute, ResolvedRoute, ProposalRoute, IssuedRoute} :
       route # InstitutionsRoute
  OBVIOUS
<1>3. CertificateRoute \notin {OpenRoute, InstitutionRoute} /\ OpenRoute # InstitutionRoute
  BY Literals
<1>4. /\ VerificationRoute \notin {ResolvedRoute, ProposalRoute, IssuedRoute}
      /\ ResolvedRoute \notin {ProposalRoute, IssuedRoute} /\ ProposalRoute # IssuedRoute
  BY Literals
<1> QED
  BY <1>1, <1>2, <1>3, <1>4

\* A look-up that fails says what the absence of the item is called.
LEMMA LookUps ==
  /\ \A items : Found(items).says = ""
  /\ \A x, table, item :
       /\ GetOne(x, table, item, "certificate does not exist").says
            \in {"", "We couldn't find a certificate with that ID."}
       /\ GetOne(x, table, item, "proposal does not exist").says
            \in {"", "We couldn't find a proposal with that ID."}
       /\ GetOne(x, table, item, "institution does not exist").says
            \in {"", "We couldn't find that institution."}
<1>1. \A items : Found(items).says = ""
  BY DEF Found
<1>2. ASSUME NEW x, NEW table, NEW item, NEW missing
      PROVE  \/ GetOne(x, table, item, missing).says = ""
             \/ GetOne(x, table, item, missing).says = HumanizeBackendError(missing)
  BY <1>1 DEF GetOne, Failed, Catch, Refused
<1> QED
  BY <1>1, <1>2, Sentences

LEMMA CertificateLookUps ==
  ASSUME NEW x, NEW msp, Get(<<"certificates", x>>, msp).items # {}
  PROVE  certificates[x] # None
<1>1. RouteOf(<<"certificates", x>>) = CertificateRoute
  BY RoutesOfPages
<1>2. Get(<<"certificates", x>>, msp) =
        GetOne(x, certificates, certificates[x], "certificate does not exist")
  BY <1>1, RoutesDiffer DEF Get
<1>3. \A error : Failed(error).items = {}
  BY DEF Failed
<1>4. x \in Items(certificates)
  BY <1>2, <1>3 DEF GetOne
<1> QED
  BY <1>4 DEF Items

\* What the handlers say, and the two lists of the governance page.
LEMMA Handlers ==
  ASSUME NEW path, NEW msp
  PROVE  /\ RouteOf(path) \in {CertificateRoute, VerificationRoute} =>
              Get(path, msp).says \in {"", "We couldn't find a certificate with that ID."}
         /\ RouteOf(path) \in {InstitutionsRoute, OpenRoute, ResolvedRoute, IssuedRoute} =>
              Get(path, msp).says = ""
         /\ RouteOf(path) = OpenRoute => Get(path, msp) = GetOpenProposals(msp)
         /\ RouteOf(path) = ResolvedRoute => Get(path, msp) = GetResolvedProposals(msp)
         /\ RouteOf(path) = ProposalRoute =>
              Get(path, msp).says \in {"", "We couldn't find a proposal with that ID."}
         /\ RouteOf(path) = InstitutionRoute =>
              Get(path, msp).says \in {"", "We couldn't find that institution."}
<1> DEFINE x == path[Len(path)]
<1>1. RouteOf(path) = CertificateRoute =>
        Get(path, msp) = GetOne(x, certificates, certificates[x], "certificate does not exist")
  BY RoutesDiffer DEF Get
<1>2. RouteOf(path) = VerificationRoute =>
        Get(path, msp) = GetOne(path[2], certificates, path[2], "certificate does not exist")
  BY RoutesDiffer DEF Get
<1>3. RouteOf(path) = InstitutionsRoute => Get(path, msp) = Found(Items(institutions))
  BY RoutesDiffer DEF Get
<1>4. RouteOf(path) = OpenRoute => Get(path, msp) = GetOpenProposals(msp)
  BY RoutesDiffer DEF Get
<1>5. RouteOf(path) = ResolvedRoute => Get(path, msp) = GetResolvedProposals(msp)
  BY RoutesDiffer DEF Get
<1>6. RouteOf(path) = ProposalRoute =>
        Get(path, msp) = GetOne(x, proposals, x, "proposal does not exist")
  BY RoutesDiffer DEF Get
<1>7. RouteOf(path) = InstitutionRoute =>
        Get(path, msp) = GetOne(x, institutions, x, "institution does not exist")
  BY RoutesDiffer DEF Get
<1>8. RouteOf(path) = IssuedRoute => Get(path, msp) = GetCertificatesByInstitution(path[2])
  BY RoutesDiffer DEF Get
<1>9. RouteOf(path) \in {InstitutionsRoute, OpenRoute, ResolvedRoute, IssuedRoute} =>
        Get(path, msp).says = ""
  BY <1>3, <1>4, <1>5, <1>8, LookUps
    DEF GetOpenProposals, GetResolvedProposals, ProposalsWith, GetCertificatesByInstitution
<1>10. RouteOf(path) \in {CertificateRoute, VerificationRoute} =>
        Get(path, msp).says \in {"", "We couldn't find a certificate with that ID."}
  <2>1. RouteOf(path) = CertificateRoute =>
          Get(path, msp).says \in {"", "We couldn't find a certificate with that ID."}
    BY <1>1, LookUps
  <2>2. RouteOf(path) = VerificationRoute =>
          Get(path, msp).says \in {"", "We couldn't find a certificate with that ID."}
    BY <1>2, LookUps
  <2> QED
    BY <2>1, <2>2
<1>11. RouteOf(path) = ProposalRoute =>
        Get(path, msp).says \in {"", "We couldn't find a proposal with that ID."}
  BY <1>6, LookUps
<1>12. RouteOf(path) = InstitutionRoute =>
        Get(path, msp).says \in {"", "We couldn't find that institution."}
  BY <1>7, LookUps
<1> QED
  BY <1>4, <1>5, <1>9, <1>10, <1>11, <1>12

-----------------------------------------------------------------------------
(* Tabs *)

AnyPage == Page \cup {ErrorPage}

IsView(v) ==
  /\ v = [page |-> v.page, account |-> v.account, got |-> v.got, before |-> v.before,
          pending |-> v.pending, notice |-> v.notice]
  /\ v.page \in AnyPage /\ v.account \in Account
  /\ v.notice = [request |-> v.notice.request, says |-> v.notice.says]

\* The request a tab waits for has not been answered.
Waits(v) ==
  v.pending # 0 => v.pending \in DOMAIN request /\ request[v.pending].told = "nothing"

\* What a tab says holds of its request; that of a vote is shown to who made it.
SpeaksTrue(v) ==
  v.notice.request # 0 =>
    /\ v.notice.request \in DOMAIN request
    /\ \A r \in {request[v.notice.request]} :
         /\ Holds(r, v.notice.says)
         /\ v.notice.says = Done => r.at = "valid"
         /\ r.does = "vote" => v.account = r.by

\* The proposals there were are there, and stay resolved.
Remembers(v) ==
  \A p \in DOMAIN v.before :
    /\ p \in ProposalId /\ proposals[p] # None
    /\ v.before[p] # "open" => proposals[p].status # "open"

\* What a page may say of something that is not found.
NotFoundOn(page) ==
  CASE page.name \in {"certificate", "verify"} -> {"We couldn't find a certificate with that ID."}
    [] page.name = "proposal" -> {"We couldn't find a proposal with that ID."}
    [] page.name = "institution" -> {"We couldn't find that institution."}
    [] OTHER -> {}

\* Of a vote that is told of in one of these words the caller has nothing left to do.
Settling ==
  {Done, "You've already voted on this proposal.",
   "This proposal is no longer open for voting.",
   "You can't vote on your own membership proposal."}

Reflected(v, rows) ==
  v.notice.request # 0 /\ v.notice.says \in Settling =>
    \A r \in {request[v.notice.request]} : r.does = "vote" =>
      \A row \in rows : row.proposal = r.id => row.vote # "none" \/ row.applicant = v.account

\* The open list and the resolved one, of the proposals there were.
OpenListed(v, listed) ==
  \A p \in DOMAIN v.before :
    /\ v.before[p] # "open" => p \notin listed
    /\ proposals[p].status = "open" => p \in listed

ResolvedListed(v, listed) ==
  \A p \in DOMAIN v.before :
    /\ v.before[p] # "open" => p \in listed
    /\ proposals[p].status = "open" => p \notin listed

\* What a list of proposals or a look-up of a certificate shows is on the ledger.
OnLedger(path, items) ==
  /\ path = OpenPath =>
       \A p \in ProposalId : (\E row \in items : row.proposal = p) => proposals[p] # None
  /\ \A x \in CertificateId :
       path = <<"certificates", x>> /\ items # {} => certificates[x] # None

\* An answer that a tab may have to a path.
Fair(v, path, answer) ==
  LET listed == {row.proposal : row \in answer.items} IN
  /\ answer.says \in {"", Generic} \cup NotFoundOn(v.page)
  /\ OnLedger(path, answer.items)
  /\ path = OpenPath =>
       Reflected(v, answer.items) /\ (answer.ok => OpenListed(v, listed))
  /\ path = ResolvedPath /\ answer.ok => ResolvedListed(v, listed)

Faithful(v) ==
  /\ IsView(v) /\ Waits(v) /\ SpeaksTrue(v) /\ Remembers(v)
  /\ \A path \in DOMAIN v.got : Fair(v, path, v.got[path])

TabsOK ==
  /\ session \in Account
  /\ view = [t \in Tab |-> view[t]]
  /\ \A t \in Tab : \A v \in {view[t]} : Faithful(v)
  /\ \A s, t \in Tab : s # t /\ view[s].pending = view[t].pending => view[s].pending = 0

\* The inductive invariant.
PortalInv == LedgerOK /\ RequestsOK /\ TabsOK

-----------------------------------------------------------------------------
(* Steps of tabs *)

\* What the requests leave of what is said of them.
LEMMA KeepsSpeaking ==
  ASSUME LedgerOK, Grows, RequestsOK, RequestsKept, NEW v, SpeaksTrue(v)
  PROVE  SpeaksTrue(v)'
<1> SUFFICES ASSUME v.notice.request # 0
             PROVE  SpeaksTrue(v)'
  BY DEF SpeaksTrue
<1>1. PICK n \in DOMAIN request : n = v.notice.request
  BY DEF SpeaksTrue
<1>2. PICK r \in Request : r = request[n]
  BY RequestAt, Zenon
<1>3. PICK q : q = request'[n]
  OBVIOUS
<1>4. /\ Holds(r, v.notice.says) /\ (v.notice.says = Done => r.at = "valid")
      /\ r.does = "vote" => v.account = r.by
  BY <1>1, <1>2 DEF SpeaksTrue
<1>5. n \in DOMAIN request' /\ Same(r, q)
  BY <1>2, <1>3 DEF RequestsKept
<1>6. Fits(r)
  BY <1>2 DEF RequestsOK, Sound
<1>7. Holds(r, v.notice.says)'
  BY <1>4, <1>6, KeepsHolding
<1>8. Holds(q, v.notice.says)'
  BY <1>4, <1>5, <1>7 DEF Holds, Sayable, Fulfilled, Same, Finishing, Caller
<1>9. v.notice.says = Done => q.at = "valid"
  BY <1>4, <1>5 DEF Same, Finishing
<1>10. q.does = "vote" => v.account = q.by
  BY <1>4, <1>5 DEF Same
<1> QED
  BY <1>1, <1>3, <1>5, <1>8, <1>9, <1>10 DEF SpeaksTrue

LEMMA KeepsFair ==
  ASSUME LedgerOK, Grows, RequestsOK, RequestsKept, NEW v, SpeaksTrue(v),
         Remembers(v), NEW path, NEW answer, Fair(v, path, answer)
  PROVE  Fair(v, path, answer)'
<1>1. Reflected(v, answer.items) => Reflected(v, answer.items)'
  BY DEF Reflected, SpeaksTrue, RequestsKept, Same
<1>2. \A p \in DOMAIN v.before : proposals'[p].status = "open" => proposals[p].status = "open"
  BY DEF Remembers, Grows
<1>3. \A listed : /\ OpenListed(v, listed) => OpenListed(v, listed)'
                  /\ ResolvedListed(v, listed) => ResolvedListed(v, listed)'
  BY <1>2 DEF OpenListed, ResolvedListed
<1>4. OnLedger(path, answer.items) => OnLedger(path, answer.items)'
  BY DEF OnLedger, Grows
<1> QED
  BY <1>1, <1>3, <1>4 DEF Fair

LEMMA KeepsFaithful ==
  ASSUME LedgerOK, Grows, RequestsOK, RequestsKept, NEW v, Faithful(v),
         v.pending # 0 => request'[v.pending].told = "nothing"
  PROVE  Faithful(v)'
<1>1. IsView(v)' /\ Waits(v)'
  BY DEF Faithful, IsView, Waits, RequestsKept
<1>2. SpeaksTrue(v)'
  BY KeepsSpeaking DEF Faithful
<1>3. Remembers(v)'
  BY DEF Faithful, Remembers, Grows
<1>4. \A path \in DOMAIN v.got : Fair(v, path, v.got[path])'
  BY KeepsFair DEF Faithful
<1> QED
  BY <1>1, <1>2, <1>3, <1>4 DEF Faithful

\* A step of the ledger and the requests only.
LEMMA KeepsTabs ==
  ASSUME LedgerOK, RequestsOK, TabsOK, Step, UNCHANGED view, session' \in Account
  PROVE  TabsOK'
<1>1. ASSUME NEW t \in Tab, NEW v \in {view[t]}
      PROVE  Faithful(v)'
  <2>1. Faithful(v)
    BY DEF TabsOK
  <2>2. v.pending # 0 => request'[v.pending].told = "nothing"
    BY <2>1 DEF Faithful, Waits, Step, ToldKept
  <2> QED
    BY <2>1, <2>2, KeepsFaithful DEF Step
<1> QED
  BY <1>1 DEF TabsOK

\* A step of one tab.
LEMMA TabChanges ==
  ASSUME LedgerOK, RequestsOK, TabsOK, Grows, RequestsKept, NEW t \in Tab, NEW w,
         view' = [view EXCEPT ![t] = w], Faithful(w)', UNCHANGED session,
         \A s \in Tab \ {t} :
           /\ view[s].pending # 0 => request'[view[s].pending].told = "nothing"
           /\ view[s].pending = w.pending => w.pending = 0
  PROVE  TabsOK'
<1>1. /\ view' = [s \in Tab |-> view'[s]] /\ view'[t] = w
      /\ \A s \in Tab \ {t} : view'[s] = view[s]
  BY DEF TabsOK
<1>2. ASSUME NEW s \in Tab, NEW v \in {view'[s]}
      PROVE  Faithful(v)'
  <2>1. CASE s = t
    BY <1>1, <1>2, <2>1
  <2>2. CASE s # t
    <3>1. v = view[s] /\ Faithful(v)
      BY <1>1, <1>2, <2>2 DEF TabsOK
    <3>2. v.pending # 0 => request'[v.pending].told = "nothing"
      BY <2>2, <3>1
    <3> QED
      BY <3>1, <3>2, KeepsFaithful
  <2> QED
    BY <2>1, <2>2
<1>3. \A s, u \in Tab : s # u /\ view'[s].pending = view'[u].pending => view'[s].pending = 0
  BY <1>1 DEF TabsOK
<1> QED
  BY <1>1, <1>2, <1>3 DEF TabsOK

LEMMA Pages ==
  ASSUME NEW page \in AnyPage
  PROVE  \/ page = GovernancePage /\ page.name = "governance"
         \/ page.name = "dashboard" \/ page.name = "institutions"
         \/ page.name \in {"issue", "propose", "error"}
         \/ page.name = "certificate" \/ page.name = "verify"
         \/ page.name = "proposal"
         \/ page.name = "institution" /\ page.id \in Institution
BY DEF AnyPage, Page, GovernancePage, DashboardPage, InstitutionsPage, IssuePage, ProposePage,
   ErrorPage

\* No page says that something else is not found.
LEMMA FetchedSays ==
  ASSUME NEW page \in AnyPage, NEW account \in Account, NEW got,
         NEW path \in Fetches(page, account, got), NEW msp
  PROVE  Get(path, msp).says \in {"", Generic} \cup NotFoundOn(page)
<1>1. CASE page = GovernancePage /\ page.name = "governance"
  <2>1. path \in {OpenPath, ResolvedPath}
    BY <1>1 DEF Fetches, GovernanceFetches
  <2>2. Get(path, msp).says = ""
    BY <2>1, RoutesOfPages, Handlers
  <2> QED
    BY <2>2
<1>2. CASE page.name = "dashboard"
  <2>1. path = <<"institutions", account, "certificates">>
    BY <1>2 DEF Fetches, DashboardFetches
  <2>2. account # "proposals"
    BY PortalConstants
  <2>3. RouteOf(path) = IssuedRoute
    BY <2>1, <2>2, RoutesOfPages
  <2>4. Get(path, msp).says = ""
    BY <2>3, Handlers
  <2> QED
    BY <2>4
<1>3. CASE page.name = "institutions"
  <2>1. path = <<"institutions">>
    BY <1>3 DEF Fetches, InstitutionsFetches
  <2>2. Get(path, msp).says = ""
    BY <2>1, RoutesOfPages, Handlers
  <2> QED
    BY <2>2
<1>4. CASE page.name \in {"issue", "propose", "error"}
  BY <1>4 DEF Fetches
<1>5. CASE page.name = "certificate"
  <2>1. path = <<"certificates", page.id>>
    BY <1>5 DEF Fetches, CertificateFetches
  <2>2. Get(path, msp).says \in {"", "We couldn't find a certificate with that ID."}
    BY <2>1, RoutesOfPages, Handlers
  <2> QED
    BY <1>5, <2>2 DEF NotFoundOn
<1>6. CASE page.name = "verify"
  <2>1. path = <<"certificates", page.id, "verification">>
    BY <1>6 DEF Fetches, VerifyFetches
  <2>2. Get(path, msp).says \in {"", "We couldn't find a certificate with that ID."}
    BY <2>1, RoutesOfPages, Handlers
  <2> QED
    BY <1>6, <2>2 DEF NotFoundOn
<1>7. CASE page.name = "proposal"
  <2>1. path = <<"institutions", "proposals", page.id>>
    BY <1>7 DEF Fetches, ProposalFetches
  <2>2. Get(path, msp).says \in {"", "We couldn't find a proposal with that ID."}
    BY <2>1, RoutesOfPages, Handlers
  <2> QED
    BY <1>7, <2>2 DEF NotFoundOn
<1>8. CASE page.name = "institution" /\ page.id \in Institution
  <2>1. path \in {<<"institutions", page.id>>, <<"institutions", page.id, "certificates">>}
    BY <1>8 DEF Fetches, InstitutionFetches
  <2>2. page.id # "proposals"
    BY <1>8, PortalConstants
  <2>3. RouteOf(path) \in {InstitutionRoute, IssuedRoute}
    <3>1. /\ RouteOf(<<"institutions", page.id>>) = InstitutionRoute
          /\ RouteOf(<<"institutions", page.id, "certificates">>) = IssuedRoute
      BY <2>2, RoutesOfPages
    <3> QED
      BY <2>1, <3>1
  <2>4. Get(path, msp).says \in {"", "We couldn't find that institution."}
    BY <2>3, Handlers
  <2> QED
    BY <1>8, <2>4 DEF NotFoundOn
<1> QED
  BY <1>1, <1>2, <1>3, <1>4, <1>5, <1>6, <1>7, <1>8, Pages

\* The rows of a list.
LEMMA Rows ==
  ASSUME NEW status, NEW msp
  PROVE  LET answer == ProposalsWith(status, msp)
             listed == {row.proposal : row \in answer.items} IN
         /\ \A row \in answer.items :
              /\ row.proposal \in Items(proposals) /\ proposals[row.proposal].status \in status
              /\ row.vote = votes[row.proposal][msp]
              /\ row.applicant = proposals[row.proposal].applicant
         /\ \A p : p \in listed <=> p \in Items(proposals) /\ proposals[p].status \in status
<1>1. ProposalsWith(status, msp).items =
        {WithCallerVoteStatus(p, msp) : p \in {q \in Items(proposals) : proposals[q].status \in status}}
  BY DEF ProposalsWith, Found
<1>2. \A p : /\ WithCallerVoteStatus(p, msp).proposal = p
             /\ WithCallerVoteStatus(p, msp).vote = votes[p][msp]
             /\ WithCallerVoteStatus(p, msp).applicant = proposals[p].applicant
  BY DEF WithCallerVoteStatus
<1> HIDE DEF Items
<1> QED
  BY <1>1, <1>2

LEMMA OpenAnswers ==
  ASSUME LedgerOK, RequestsOK, NEW v, IsView(v), SpeaksTrue(v), Remembers(v),
         NEW answer, answer = Get(OpenPath, MspOf[v.account])
  PROVE  /\ Reflected(v, answer.items)
         /\ OpenListed(v, {row.proposal : row \in answer.items})
         /\ \A row \in answer.items : proposals[row.proposal] # None
<1> DEFINE msp == MspOf[v.account]
           listed == {row.proposal : row \in answer.items}
<1>1. answer = ProposalsWith({"open"}, msp)
  BY RoutesOfPages, Handlers DEF GetOpenProposals
<1>2. \A row \in answer.items :
        /\ proposals[row.proposal].status = "open"
        /\ row.vote = votes[row.proposal][msp]
        /\ row.applicant = proposals[row.proposal].applicant
  BY <1>1, Rows
<1>3. \A p : p \in listed <=> p \in Items(proposals) /\ proposals[p].status = "open"
  BY <1>1, Rows
<1>4. Reflected(v, answer.items)
  <2> SUFFICES ASSUME v.notice.request # 0, v.notice.says \in Settling,
                      NEW r \in {request[v.notice.request]}, r.does = "vote",
                      NEW row \in answer.items, row.proposal = r.id
               PROVE  row.vote # "none" \/ row.applicant = v.account
    BY DEF Reflected
  <2>1. r \in Request /\ Fits(r) /\ Holds(r, v.notice.says) /\ v.account = r.by
    BY RequestAt DEF SpeaksTrue, RequestsOK, Sound
  <2>2. Caller(r) = msp /\ (r.by \notin Guest => msp = v.account)
    BY <2>1, PortalConstants DEF Caller, IsView
  <2>3. CASE v.notice.says = Done
    <3>1. row.vote = r.decision /\ r.decision \in CC!Decision
      BY <1>2, <2>1, <2>2, <2>3 DEF Holds, Fulfilled, Fits
    <3> QED
      BY <3>1 DEF CC!Decision
  <2>4. CASE v.notice.says = "You've already voted on this proposal."
    BY <1>2, <2>1, <2>2, <2>4 DEF Holds
  <2>5. CASE v.notice.says = "This proposal is no longer open for voting."
    BY <1>2, <2>1, <2>5 DEF Holds
  <2>6. CASE v.notice.says = "You can't vote on your own membership proposal."
    BY <1>2, <2>1, <2>2, <2>6 DEF Holds
  <2> QED
    BY <2>3, <2>4, <2>5, <2>6 DEF Settling
<1>5. OpenListed(v, listed)
  BY <1>3 DEF OpenListed, Remembers, Items, LedgerOK, CC!TypeOK
<1>6. \A row \in answer.items : proposals[row.proposal] # None
  BY <1>1, Rows DEF Items
<1> QED
  BY <1>4, <1>5, <1>6

LEMMA ResolvedAnswers ==
  ASSUME LedgerOK, NEW v, Remembers(v), NEW msp, NEW answer, answer = Get(ResolvedPath, msp)
  PROVE  ResolvedListed(v, {row.proposal : row \in answer.items})
<1> DEFINE listed == {row.proposal : row \in answer.items}
<1>1. answer = ProposalsWith({"approved", "rejected"}, msp)
  BY RoutesOfPages, Handlers DEF GetResolvedProposals
<1>2. \A p : p \in listed <=>
        p \in Items(proposals) /\ proposals[p].status \in {"approved", "rejected"}
  BY <1>1, Rows
<1>3. \A p \in DOMAIN v.before :
        /\ p \in Items(proposals) /\ proposals[p].status \in {"open", "approved", "rejected"}
        /\ v.before[p] # "open" => proposals[p].status # "open"
  BY DEF Remembers, Items, LedgerOK, CC!TypeOK, CC!ProposalRecord
<1> HIDE DEF listed
<1> QED
  BY <1>2, <1>3 DEF ResolvedListed, listed

LEMMA FailedAnswers ==
  ASSUME NEW v, NEW path, NEW answer, answer = Failed(UnreachableError)
  PROVE  Fair(v, path, answer) /\ ~answer.ok
<1>1. answer.says = Generic /\ answer.items = {} /\ answer.ok = FALSE
  BY NoSentence DEF Failed, UnreachableError
<1> QED
  BY <1>1 DEF Fair, Reflected, OnLedger

LEMMA PathsDiffer == OpenPath # ResolvedPath
BY DEF OpenPath, ResolvedPath

LEMMA FetchSteps ==
  ASSUME LedgerOK, RequestsOK, TabsOK, NEW t \in Tab, NEW path, Fetch(t, path)
  PROVE  TabsOK'
<1>1. PICK v : v = view[t]
  OBVIOUS
<1>2. PICK answer \in {Get(path, MspOf[v.account]), Failed(UnreachableError)} :
        view' = [view EXCEPT ![t].got = With(v, path, answer)]
  BY <1>1 DEF Fetch
<1>3. PICK w : w = [v EXCEPT !.got = With(v, path, answer)]
  OBVIOUS
<1>4. Faithful(v) /\ path \in Fetches(v.page, v.account, v.got)
  BY <1>1 DEF TabsOK, Fetch, Missing
<1>5. IsView(v) /\ v.page \in AnyPage /\ v.account \in Account
  BY <1>4 DEF Faithful, IsView
<1>6. /\ w.page = v.page /\ w.account = v.account /\ w.before = v.before
      /\ w.pending = v.pending /\ w.notice = v.notice /\ w.got = With(v, path, answer)
      /\ IsView(w)
  BY <1>3, <1>5 DEF IsView
<1>7. Fair(v, path, answer)
  <2>1. CASE answer = Failed(UnreachableError)
    BY <2>1, FailedAnswers
  <2>2. CASE answer = Get(path, MspOf[v.account])
    <3>1. answer.says \in {"", Generic} \cup NotFoundOn(v.page)
      BY <1>4, <1>5, <2>2, FetchedSays
    <3>2. path = OpenPath =>
            /\ Reflected(v, answer.items)
            /\ OpenListed(v, {row.proposal : row \in answer.items})
            /\ \A row \in answer.items : proposals[row.proposal] # None
      BY <1>4, <2>2, OpenAnswers DEF Faithful
    <3>3. path = ResolvedPath => ResolvedListed(v, {row.proposal : row \in answer.items})
      BY <1>4, <2>2, ResolvedAnswers DEF Faithful
    <3>4. OnLedger(path, answer.items)
      BY <2>2, <3>2, CertificateLookUps DEF OnLedger
    <3> QED
      BY <3>1, <3>2, <3>3, <3>4 DEF Fair
  <2> QED
    BY <1>2, <2>1, <2>2
<1>8. \A p, a : Fair(v, p, a) => Fair(w, p, a)
  <2>1. \A rows : Reflected(v, rows) => Reflected(w, rows)
    BY <1>6 DEF Reflected
  <2>2. \A listed : /\ OpenListed(v, listed) => OpenListed(w, listed)
                    /\ ResolvedListed(v, listed) => ResolvedListed(w, listed)
    BY <1>6 DEF OpenListed, ResolvedListed
  <2> QED
    BY <1>6, <2>1, <2>2 DEF Fair
<1>9. \A p \in DOMAIN w.got : Fair(v, p, w.got[p])
  <2>1. CASE v.page = GovernancePage /\ ~answer.ok
    <3>1. w.got = [q \in {OpenPath, ResolvedPath} |-> answer]
      BY <1>6, <2>1 DEF With
    <3>2. answer = Failed(UnreachableError)
      <4>1. path \in {OpenPath, ResolvedPath}
        BY <1>4, <2>1 DEF Fetches, GovernanceFetches, GovernancePage
      <4>2. \/ Get(path, MspOf[v.account]) = GetOpenProposals(MspOf[v.account])
            \/ Get(path, MspOf[v.account]) = GetResolvedProposals(MspOf[v.account])
        BY <4>1, RoutesOfPages, Handlers
      <4>3. \A status, msp : ProposalsWith(status, msp).ok = TRUE
        BY DEF ProposalsWith, Found
      <4>4. Get(path, MspOf[v.account]).ok = TRUE
        BY <4>2, <4>3 DEF GetOpenProposals, GetResolvedProposals
      <4> QED
        BY <1>2, <2>1, <4>4
    <3> QED
      BY <3>1, <3>2, FailedAnswers
  <2>2. CASE ~(v.page = GovernancePage /\ ~answer.ok)
    <3>1. w.got = [q \in DOMAIN v.got \cup {path} |-> IF q = path THEN answer ELSE v.got[q]]
      BY <1>6, <2>2 DEF With
    <3> QED
      BY <1>4, <1>7, <3>1 DEF Faithful
  <2> QED
    BY <2>1, <2>2
<1>10. Faithful(w)
  BY <1>4, <1>6, <1>8, <1>9 DEF Faithful, Waits, SpeaksTrue, Remembers
<1>11. Step /\ UNCHANGED <<session, request>>
  <2>1. LedgerOK' /\ Grows
    BY UnchangedGrows DEF Fetch
  <2> QED
    BY <2>1, NoRequest DEF Fetch
<1>12. Faithful(w)'
  <2>1. w.pending # 0 => request'[w.pending].told = "nothing"
    BY <1>10, <1>11 DEF Faithful, Waits
  <2> QED
    BY <1>10, <1>11, <2>1, KeepsFaithful DEF Step
<1>13. view' = [view EXCEPT ![t] = w]
  BY <1>1, <1>2, <1>3
<1>14. \A s \in Tab \ {t} :
         /\ view[s].pending # 0 => request'[view[s].pending].told = "nothing"
         /\ view[s].pending = w.pending => w.pending = 0
  BY <1>1, <1>6, <1>11 DEF TabsOK, Faithful, Waits
<1> QED
  BY <1>11, <1>12, <1>13, <1>14, TabChanges DEF Step

\* A tab that begins to show a page.
LEMMA Rendered ==
  ASSUME LedgerOK, NEW page \in AnyPage, NEW account \in Account, NEW notice,
         notice = [request |-> notice.request, says |-> notice.says],
         NEW w, w = Rendering(page, account, notice), SpeaksTrue(w)
  PROVE  Faithful(w) /\ w.pending = 0
<1>1. /\ w.page = page /\ w.account = account /\ w.got = <<>> /\ w.pending = 0
      /\ w.notice = notice /\ w.before = Before(page)
      /\ w = [page |-> w.page, account |-> w.account, got |-> w.got, before |-> w.before,
              pending |-> w.pending, notice |-> w.notice]
  BY DEF Rendering
<1>2. IsView(w) /\ Waits(w)
  BY <1>1 DEF IsView, Waits
<1>3. Remembers(w)
  BY <1>1 DEF Remembers, Before, Items, LedgerOK, CC!TypeOK
<1>4. DOMAIN w.got = {}
  BY <1>1
<1> QED
  BY <1>1, <1>2, <1>3, <1>4 DEF Faithful

\* A step of one tab that leaves the ledger and the requests alone.
LEMMA OneTab ==
  ASSUME PortalInv, UNCHANGED <<ledger, session, request>>, NEW t \in Tab, NEW w,
         view' = [view EXCEPT ![t] = w], Faithful(w), w.pending = 0
  PROVE  PortalInv'
<1>1. Step
  BY UnchangedGrows, NoRequest DEF PortalInv
<1>2. Faithful(w)'
  BY <1>1, KeepsFaithful DEF Step, PortalInv
<1>3. \A s \in Tab \ {t} :
         /\ view[s].pending # 0 => request'[view[s].pending].told = "nothing"
         /\ view[s].pending = w.pending => w.pending = 0
  BY DEF PortalInv, TabsOK, Faithful, Waits
<1> QED
  BY <1>1, <1>2, <1>3, TabChanges DEF Step, PortalInv

LEMMA VisitSteps ==
  ASSUME PortalInv, NEW t \in Tab, NEW page \in Page, Visit(t, page)
  PROVE  PortalInv'
<1>1. PICK w : w = Rendering(page, session, NoNotice)
  OBVIOUS
<1>2. /\ w.notice = NoNotice /\ NoNotice.request = 0
      /\ NoNotice = [request |-> NoNotice.request, says |-> NoNotice.says]
  BY <1>1 DEF Rendering, NoNotice
<1>3. SpeaksTrue(w)
  BY <1>2 DEF SpeaksTrue
<1>4. Faithful(w) /\ w.pending = 0
  BY <1>1, <1>2, <1>3, Rendered DEF PortalInv, TabsOK, AnyPage
<1> QED
  BY <1>1, <1>4, OneTab DEF Visit

\* A tab whose notice is another one, which is about no vote.
LEMMA Renoticed ==
  ASSUME NEW v, Faithful(v), NEW notice,
         notice = [request |-> notice.request, says |-> notice.says],
         NEW pending, NEW w, w = [v EXCEPT !.pending = pending, !.notice = notice],
         SpeaksTrue(w), Waits(w), notice.request # 0 => request[notice.request].does # "vote"
  PROVE  Faithful(w)
<1>1. /\ w.page = v.page /\ w.account = v.account /\ w.before = v.before
      /\ w.pending = pending /\ w.notice = notice /\ w.got = v.got
      /\ IsView(w)
  BY DEF Faithful, IsView
<1>2. Remembers(w)
  BY <1>1 DEF Faithful, Remembers
<1>3. ASSUME NEW path \in DOMAIN w.got
      PROVE  Fair(w, path, w.got[path])
  <2>1. Fair(v, path, w.got[path])
    BY <1>1 DEF Faithful
  <2>2. \A rows : Reflected(w, rows)
    BY <1>1 DEF Reflected
  <2>3. \A listed : /\ OpenListed(v, listed) => OpenListed(w, listed)
                    /\ ResolvedListed(v, listed) => ResolvedListed(w, listed)
    BY <1>1 DEF OpenListed, ResolvedListed
  <2> QED
    BY <1>1, <2>1, <2>2, <2>3 DEF Fair
<1> QED
  BY <1>1, <1>2, <1>3 DEF Faithful

LEMMA SubmitBlankSteps ==
  ASSUME PortalInv, NEW t \in Tab, SubmitBlank(t)
  PROVE  PortalInv'
<1>1. PICK v : v = view[t]
  OBVIOUS
<1>2. Faithful(v) /\ IsView(v) /\ v.pending = 0
  BY <1>1 DEF PortalInv, TabsOK, SubmitBlank, Shown, Faithful
<1>3. PICK notice : notice = [request |-> 0, says |-> "Both are required."]
  OBVIOUS
<1>4. PICK w : w = [v EXCEPT !.pending = 0, !.notice = notice]
  OBVIOUS
<1>5. /\ w.pending = 0 /\ w.notice = notice
      /\ notice.request = 0 /\ notice = [request |-> notice.request, says |-> notice.says]
  BY <1>2, <1>3, <1>4 DEF IsView
<1>6. Faithful(w)
  BY <1>2, <1>4, <1>5, Renoticed DEF SpeaksTrue, Waits
<1>7. w = [v EXCEPT !.notice = notice]
  BY <1>2, <1>4 DEF IsView
<1>8. view' = [view EXCEPT ![t] = w]
  BY <1>1, <1>3, <1>7 DEF SubmitBlank
<1> QED
  BY <1>5, <1>6, <1>8, OneTab DEF SubmitBlank

LEMMA SubmitSteps ==
  ASSUME PortalInv, NEW t \in Tab, NEW does \in Does,
         NEW id \in ProposalId \cup Institution \cup CertificateId \cup {None},
         NEW decision \in CC!Decision \cup {None},
         does = "vote" => id \in ProposalId /\ decision \in CC!Decision,
         does = "propose" => id \in Institution,
         does = "revoke" => id \in CertificateId,
         does = "vote" => proposals[id] # None, does = "revoke" => certificates[id] # None,
         Submit(t, does, id, decision)
  PROVE  PortalInv'
<1>1. PICK q : q = [by |-> session, does |-> does, id |-> id, decision |-> decision,
                    at |-> "sent", reads |-> None, writes |-> None, new |-> None,
                    error |-> None, told |-> "nothing"]
  OBVIOUS
<1>2. q \in Request
  <2>1. None \in Read /\ None \in Written /\ session \in Account
    BY DEF Read, Written, PortalInv, TabsOK
  <2> QED
    BY <1>1, <2>1 DEF Request
<1>3. Fits(q) /\ About(q) /\ q.at = "sent" /\ q.error = None /\ q.told = "nothing"
  BY <1>1 DEF Fits, About
<1>4. request' = Append(request, q) /\ UNCHANGED ledger /\ UNCHANGED session
  BY <1>1 DEF Submit
<1>5. Step /\ Len(request') = Len(request) + 1 /\ request'[Len(request')] = q
  BY <1>2, <1>3, <1>4, Submits DEF PortalInv
<1>6. PICK v : v = view[t]
  OBVIOUS
<1>7. Faithful(v) /\ IsView(v)
  BY <1>6 DEF PortalInv, TabsOK, Faithful
<1>8. PICK n : n = Len(request')
  OBVIOUS
<1>9. /\ n \in Nat \ {0} /\ n = Len(request) + 1 /\ n \in DOMAIN request'
      /\ n \notin DOMAIN request /\ request'[n].told = "nothing"
  BY <1>3, <1>5, <1>8, LenProperties DEF PortalInv, RequestsOK, Step
<1>10. PICK w : w = [v EXCEPT !.pending = n, !.notice = NoNotice]
  OBVIOUS
<1>11. PICK u : u = [v EXCEPT !.pending = 0, !.notice = NoNotice]
  OBVIOUS
<1>12. /\ NoNotice.request = 0
       /\ NoNotice = [request |-> NoNotice.request, says |-> NoNotice.says]
  BY DEF NoNotice
<1>13. /\ u.pending = 0 /\ u.notice = NoNotice /\ u.page = v.page /\ u.account = v.account
       /\ u.before = v.before /\ u.got = v.got
       /\ w.pending = n /\ w.notice = NoNotice /\ w.page = v.page /\ w.account = v.account
       /\ w.before = v.before /\ w.got = v.got /\ IsView(w)
  <2>1. /\ u.pending = 0 /\ u.notice = NoNotice /\ u.page = v.page /\ u.account = v.account
        /\ u.before = v.before /\ u.got = v.got
    BY <1>7, <1>11 DEF IsView
  <2>2. /\ w.pending = n /\ w.notice = NoNotice /\ w.page = v.page /\ w.account = v.account
        /\ w.before = v.before /\ w.got = v.got /\ IsView(w)
    BY <1>7, <1>10, <1>12 DEF IsView
  <2> QED
    BY <2>1, <2>2
<1>14. Faithful(u)
  BY <1>7, <1>11, <1>12, <1>13, Renoticed DEF SpeaksTrue, Waits
<1>15. Faithful(u)'
  BY <1>5, <1>13, <1>14, KeepsFaithful DEF Step, PortalInv
<1>16. Faithful(w)'
  <2>1. SpeaksTrue(w)' /\ Remembers(w)' /\ IsView(w)'
    BY <1>12, <1>13, <1>15 DEF SpeaksTrue, Remembers, IsView, Faithful
  <2>2. Waits(w)'
    BY <1>9, <1>13 DEF Waits
  <2>3. ASSUME NEW path \in DOMAIN w.got
        PROVE  Fair(w, path, w.got[path])'
    <3>1. Fair(u, path, w.got[path])'
      BY <1>13, <1>15 DEF Faithful
    <3>2. \A rows : Reflected(w, rows)'
      BY <1>12, <1>13 DEF Reflected
    <3>3. \A listed : /\ OpenListed(u, listed)' => OpenListed(w, listed)'
                      /\ ResolvedListed(u, listed)' => ResolvedListed(w, listed)'
      BY <1>13 DEF OpenListed, ResolvedListed
    <3> QED
      BY <1>13, <3>1, <3>2, <3>3 DEF Fair
  <2> QED
    BY <2>1, <2>2, <2>3 DEF Faithful
<1>17. view' = [view EXCEPT ![t] = w]
  BY <1>5, <1>6, <1>8, <1>9, <1>10 DEF Submit
<1>18. \A s \in Tab \ {t} :
         /\ view[s].pending # 0 => request'[view[s].pending].told = "nothing"
         /\ view[s].pending = w.pending => w.pending = 0
  <2> SUFFICES ASSUME NEW s \in Tab \ {t}
               PROVE  /\ view[s].pending # 0 => request'[view[s].pending].told = "nothing"
                      /\ view[s].pending = w.pending => w.pending = 0
    OBVIOUS
  <2>1. view[s].pending # 0 =>
          view[s].pending \in DOMAIN request /\ request[view[s].pending].told = "nothing"
    BY DEF PortalInv, TabsOK, Faithful, Waits
  <2> QED
    BY <1>5, <1>9, <1>13, <2>1 DEF Step, ToldKept
<1> QED
  BY <1>4, <1>5, <1>16, <1>17, <1>18, TabChanges DEF Step, PortalInv

\* What has a button is on the ledger.
LEMMA OfferedExist ==
  ASSUME PortalInv, NEW t \in Tab, Shown(t), NEW p \in ProposalId, p \in Offered(t)
  PROVE  proposals[p] # None
<1>1. PICK v : v = view[t]
  OBVIOUS
<1>2. v.page = GovernancePage /\ \E row \in v.got[OpenPath].items : row.proposal = p
  BY <1>1 DEF Offered
<1>3. OpenPath \in DOMAIN v.got
  BY <1>1, <1>2 DEF Shown, Missing, Fetches, GovernanceFetches, GovernancePage
<1>4. OnLedger(OpenPath, v.got[OpenPath].items)
  BY <1>1, <1>3 DEF PortalInv, TabsOK, Faithful, Fair
<1> QED
  BY <1>2, <1>4 DEF OnLedger

LEMMA RevocableExist ==
  ASSUME PortalInv, NEW t \in Tab, NEW x \in CertificateId, Revoke(t, x)
  PROVE  certificates[x] # None
<1>1. PICK v : v = view[t]
  OBVIOUS
<1>2. v.page = CertificatePage(x) /\ v.got[<<"certificates", x>>].items # {}
  BY <1>1 DEF Revoke
<1>3. <<"certificates", x>> \in DOMAIN v.got
  BY <1>1, <1>2 DEF Revoke, Shown, Missing, Fetches, CertificateFetches, CertificatePage
<1>4. OnLedger(<<"certificates", x>>, v.got[<<"certificates", x>>].items)
  BY <1>1, <1>3 DEF PortalInv, TabsOK, Faithful, Fair
<1> QED
  BY <1>2, <1>4 DEF OnLedger

LEMMA ClickSteps ==
  ASSUME PortalInv, NEW t \in Tab, Click(t)
  PROVE  PortalInv'
<1>1. ASSUME NEW p \in ProposalId, NEW d \in CC!Decision, Vote(t, p, d)
      PROVE  PortalInv'
  <2>1. proposals[p] # None
    BY <1>1, OfferedExist DEF Vote
  <2> QED
    BY <1>1, <2>1, SubmitSteps DEF Vote, Does
<1>2. ASSUME NEW a \in Institution, Propose(t, a)
      PROVE  PortalInv'
  BY <1>2, SubmitSteps DEF Propose, Does
<1>3. CASE Issue(t)
  BY <1>3, SubmitSteps DEF Issue, Does
<1>4. ASSUME NEW x \in CertificateId, Revoke(t, x)
      PROVE  PortalInv'
  <2>1. certificates[x] # None
    BY <1>4, RevocableExist
  <2> QED
    BY <1>4, <2>1, SubmitSteps DEF Revoke, Does
<1>5. CASE SubmitBlank(t)
  BY <1>5, SubmitBlankSteps
<1> QED
  BY <1>1, <1>2, <1>3, <1>4, <1>5 DEF Click

LEMMA OutcomeWords == \A status : Outcome(status) \in {"done", "not done", "unknown"}
BY DEF Outcome

\* The tab that waited for request n goes on with w.
LEMMA Told ==
  ASSUME PortalInv, NEW t \in Tab, Pending(t), NEW n, n = view[t].pending,
         NEW o \in {"done", "not done", "unknown"},
         o = "not done" => request[n].at \in {"refused", "invalid"},
         request' = [request EXCEPT ![n].told = o, ![n].error = None],
         NEW w, view' = [view EXCEPT ![t] = w], Faithful(w), w.pending = 0,
         UNCHANGED <<ledger, session>>
  PROVE  PortalInv'
<1>1. LedgerOK /\ RequestsOK /\ n \in DOMAIN request
  BY DEF PortalInv, TabsOK, Faithful, Waits, Pending
<1>2. /\ LedgerOK' /\ Grows /\ RequestsOK' /\ RequestsKept
      /\ \A m \in DOMAIN request \ {n} : request'[m].told = request[m].told
  BY <1>1, Tells
<1>3. Faithful(w)'
  BY <1>2, KeepsFaithful DEF PortalInv
<1>4. \A s \in Tab \ {t} :
        /\ view[s].pending # 0 => request'[view[s].pending].told = "nothing"
        /\ view[s].pending = w.pending => w.pending = 0
  <2> SUFFICES ASSUME NEW s \in Tab \ {t}, view[s].pending # 0
               PROVE  request'[view[s].pending].told = "nothing"
    OBVIOUS
  <2>1. view[s].pending \in DOMAIN request /\ request[view[s].pending].told = "nothing"
    BY DEF PortalInv, TabsOK, Faithful, Waits
  <2>2. view[s].pending # n
    BY DEF PortalInv, TabsOK
  <2> QED
    BY <1>2, <2>1, <2>2
<1> QED
  BY <1>2, <1>3, <1>4, TabChanges DEF PortalInv

LEMMA TellSteps ==
  ASSUME PortalInv, NEW t \in Tab, Pending(t), NEW status, NEW says,
         Tell(t, status, says),
         NEW n, n = view[t].pending, NEW r, r = request[n],
         Holds(r, says), says = Done => r.at = "valid",
         Outcome(status) = "not done" => r.at \in {"refused", "invalid"}
  PROVE  PortalInv'
<1>1. PICK v : v = view[t]
  OBVIOUS
<1>2. /\ Faithful(v) /\ IsView(v) /\ v.page \in AnyPage /\ v.pending = n
      /\ n # 0 /\ n \in DOMAIN request
  BY <1>1 DEF PortalInv, TabsOK, Faithful, Waits, IsView, Pending
<1>3. r \in Request /\ Fits(r) /\ r.by \in Account
  <2>1. r \in Request
    BY <1>2, RequestAt DEF PortalInv
  <2> QED
    BY <1>2, <2>1 DEF Request, PortalInv, RequestsOK, Sound
<1>4. PICK notice : notice = [request |-> n, says |-> says]
  OBVIOUS
<1>5. /\ notice.request = n /\ notice.says = says
      /\ notice = [request |-> notice.request, says |-> notice.says]
  BY <1>4
<1>6. PICK page : page = IF says = Done THEN NextPage(r, v.page) ELSE v.page
  OBVIOUS
<1>7. page \in AnyPage
  <2>1. CASE says = Done /\ r.does = "issue"
    <3>1. r.new \in CertificateId
      BY <2>1 DEF Holds, Fulfilled
    <3> QED
      BY <1>6, <2>1, <3>1 DEF NextPage, CertificatePage, Page, AnyPage
  <2>2. CASE says = Done /\ r.does = "propose"
    BY <1>6, <2>2 DEF NextPage, Page, AnyPage
  <2>3. CASE says = Done /\ r.does \notin {"issue", "propose"}
    BY <1>2, <1>6, <2>3 DEF NextPage
  <2>4. CASE says # Done
    BY <1>2, <1>6, <2>4
  <2> QED
    BY <2>1, <2>2, <2>3, <2>4
<1>8. PICK w : w = IF Rerender(r, says = Done) THEN Rendering(page, r.by, notice)
                   ELSE [v EXCEPT !.pending = 0, !.notice = notice]
  OBVIOUS
<1>9. Faithful(w) /\ w.pending = 0
  <2>1. CASE Rerender(r, says = Done)
    <3>1. w = Rendering(page, r.by, notice)
      BY <1>8, <2>1
    <3>2. w.notice = notice /\ w.account = r.by
      BY <3>1 DEF Rendering
    <3>3. SpeaksTrue(w)
      BY <1>2, <1>5, <3>2 DEF SpeaksTrue
    <3> QED
      BY <1>3, <1>5, <1>7, <3>1, <3>3, Rendered DEF PortalInv
  <2>2. CASE ~Rerender(r, says = Done)
    <3>1. w = [v EXCEPT !.pending = 0, !.notice = notice] /\ r.does # "vote"
      BY <1>8, <2>2 DEF Rerender
    <3>2. w.notice = notice /\ w.pending = 0
      BY <1>2, <3>1 DEF IsView
    <3>3. SpeaksTrue(w) /\ Waits(w)
      BY <1>2, <1>5, <3>1, <3>2 DEF SpeaksTrue, Waits
    <3> QED
      BY <1>2, <1>5, <3>1, <3>2, <3>3, Renoticed
  <2> QED
    BY <2>1, <2>2
<1>10. view' = [view EXCEPT ![t] = w] /\ UNCHANGED <<ledger, session>>
  <2>1. /\ view' = [view EXCEPT ![t] =
             IF Rerender(r, says = Done)
             THEN Rendering(IF says = Done THEN NextPage(r, view[t].page) ELSE view[t].page,
                            r.by, notice)
             ELSE [view[t] EXCEPT !.pending = 0, !.notice = notice]]
        /\ UNCHANGED <<ledger, session>>
    BY <1>4 DEF Tell
  <2> QED
    BY <1>1, <1>6, <1>8, <2>1
<1>11. PICK o \in {"done", "not done", "unknown"} : o = Outcome(status)
  BY OutcomeWords
<1>12. request' = [request EXCEPT ![n].told = o, ![n].error = None]
  BY <1>11 DEF Tell
<1>13. o = "not done" => request[n].at \in {"refused", "invalid"}
  BY <1>11
<1> QED
  BY <1>9, <1>10, <1>12, <1>13, Told

LEMMA AnswerSteps ==
  ASSUME PortalInv, NEW t \in Tab, Answer(t)
  PROVE  PortalInv'
<1>1. PICK n : n = view[t].pending
  OBVIOUS
<1>2. PICK r : r = request[n]
  OBVIOUS
<1>3. /\ Pending(t) /\ r.at \in Finishing /\ n \in DOMAIN request /\ r.told = "nothing"
  BY <1>1, <1>2
    DEF Answer, Finished, Finishing, PortalInv, TabsOK, Faithful, Waits, Pending
<1>4. Sound(r)
  BY <1>2, <1>3 DEF PortalInv, RequestsOK
<1>5. CASE r.error = None
  <2>1. PICK status \in {200, 201} : Tell(t, status, Done)
    BY <1>1, <1>2, <1>5 DEF Answer
  <2>2. Outcome(status) = "done"
    BY <2>1, Outcomes
  <2>3. r.at = "valid" /\ Holds(r, Done)
    BY <1>3, <1>4, <1>5 DEF Sound
  <2> QED
    BY <1>1, <1>2, <1>3, <2>1, <2>2, <2>3, TellSteps
<1>6. CASE r.error # None
  <2>1. PICK says : says = HumanizeBackendError(r.error.message)
    OBVIOUS
  <2>2. Tell(t, r.error.status, says)
    BY <1>1, <1>2, <1>6, <2>1 DEF Answer
  <2>3. says # Done /\ Holds(r, says) /\ r.at \in {"refused", "invalid"}
    BY <1>4, <1>6, <2>1, NeverDone DEF Sound
  <2> QED
    BY <1>1, <1>2, <1>3, <2>2, <2>3, TellSteps
<1> QED
  BY <1>5, <1>6

LEMMA GenericHolds == Generic # Done /\ \A r : Holds(r, Generic)
BY DEF Holds, Sayable, Generic, Done

LEMMA LoseTrackSteps ==
  ASSUME PortalInv, NEW t \in Tab, LoseTrack(t)
  PROVE  PortalInv'
<1>1. PICK error \in TransportErrors : Tell(t, error.status, Generic)
  BY Errors DEF LoseTrack
<1>2. Outcome(error.status) = "unknown" /\ Pending(t)
  BY <1>1, Errors DEF LoseTrack
<1>3. PICK n : n = view[t].pending
  OBVIOUS
<1>4. PICK r : r = request[n]
  OBVIOUS
<1> QED
  BY <1>1, <1>2, <1>3, <1>4, GenericHolds, TellSteps

LEMMA BreakOffSteps ==
  ASSUME PortalInv, NEW t \in Tab, BreakOff(t)
  PROVE  PortalInv'
<1>1. PICK n : n = view[t].pending
  OBVIOUS
<1>2. Pending(t) /\ n \in DOMAIN request /\ request \in Seq(Request)
  BY <1>1 DEF BreakOff, PortalInv, TabsOK, Faithful, Waits, Pending, RequestsOK
<1>3. PICK r \in Request : r = request[n]
  BY <1>2, ElementOfSeq
<1>4. Sound(r)
  BY <1>2, <1>3 DEF PortalInv, RequestsOK
<1>5. CASE r.error # None
  <2>1. Tell(t, r.error.status, Generic)
    BY <1>1, <1>3, <1>5 DEF BreakOff
  <2>2. r.at \in {"refused", "invalid"}
    BY <1>4, <1>5 DEF Sound
  <2> QED
    BY <1>1, <1>2, <1>3, <2>1, <2>2, GenericHolds, TellSteps
<1>6. CASE r.error = None
  <2>1. Throw(t)
    BY <1>1, <1>3, <1>6 DEF BreakOff
  <2>2. PICK w : w = Rendering(ErrorPage, r.by, NoNotice)
    OBVIOUS
  <2>3. /\ w.notice = NoNotice /\ NoNotice.request = 0
        /\ NoNotice = [request |-> NoNotice.request, says |-> NoNotice.says]
    BY <2>2 DEF Rendering, NoNotice
  <2>4. SpeaksTrue(w)
    BY <2>3 DEF SpeaksTrue
  <2>5. r.by \in Account /\ ErrorPage \in AnyPage
    BY DEF Request, AnyPage
  <2>6. Faithful(w) /\ w.pending = 0
    BY <2>2, <2>3, <2>4, <2>5, Rendered DEF PortalInv
  <2>7. [r EXCEPT !.told = "unknown"] = [r EXCEPT !.told = "unknown", !.error = None]
    BY <1>6 DEF Request
  <2>8. request' = [request EXCEPT ![n].told = "unknown", ![n].error = None]
    BY <1>1, <1>2, <1>3, <2>1, <2>7 DEF Throw
  <2>9. view' = [view EXCEPT ![t] = w] /\ UNCHANGED <<ledger, session>>
    BY <1>1, <1>3, <2>1, <2>2 DEF Throw
  <2> QED
    BY <1>1, <1>2, <2>6, <2>8, <2>9, Told
<1> QED
  BY <1>5, <1>6

-----------------------------------------------------------------------------
(* The theorems *)

LEMMA InitInv ==
  ASSUME Init
  PROVE  PortalInv
<1>1. LedgerOK
  <2>1. PICK open \in SUBSET ProposalId, c \in Founders,
             a \in [ProposalId -> Institution \ Founders] :
          proposals = [p \in ProposalId |-> IF p \in open THEN CC!NewProposal(c, a[p]) ELSE None]
    BY DEF Init
  <2>2. ASSUME NEW p \in ProposalId
        PROVE  CC!NewProposal(c, a[p]) \in CC!ProposalRecord
    BY NewProposals, PortalConstants
  <2>3. proposals \in [ProposalId -> CC!ProposalRecord \cup {None}]
    BY <2>1, <2>2
  <2>4. institutions \in [Institution -> CC!InstitutionRecord \cup {None}]
    BY PortalConstants DEF Init, CC!FoundingRecord, CC!InstitutionRecord
  <2>5. votes \in [ProposalId -> [Institution -> CC!Decision \cup {"none"}]]
    BY DEF Init
  <2>6. certificates \in [CertificateId -> CertificateRecord \cup {None}]
    BY DEF Init
  <2>7. \A i \in Founders : institutions[i] # None
    BY PortalConstants DEF Init, CC!FoundingRecord, CC!InstitutionRecord
  <2> QED
    BY <2>3, <2>4, <2>5, <2>6, <2>7, PortalConstants DEF LedgerOK, CC!TypeOK, Init
<1>2. RequestsOK
  BY EmptySeq DEF Init, RequestsOK, RetriesCountOnce
<1>3. PICK first \in [Tab -> Page] : view = [t \in Tab |-> Rendering(first[t], session, NoNotice)]
  BY DEF Init
<1>4. ASSUME NEW t \in Tab, NEW v \in {view[t]}
      PROVE  Faithful(v) /\ v.pending = 0
  <2>1. v = Rendering(first[t], session, NoNotice) /\ first[t] \in Page /\ session \in Account
    BY <1>3 DEF Init
  <2>2. /\ v.notice = NoNotice /\ NoNotice.request = 0
        /\ NoNotice = [request |-> NoNotice.request, says |-> NoNotice.says]
    BY <2>1 DEF Rendering, NoNotice
  <2>3. SpeaksTrue(v)
    BY <2>2 DEF SpeaksTrue
  <2> QED
    BY <1>1, <2>1, <2>2, <2>3, Rendered DEF AnyPage
<1>5. TabsOK
  BY <1>3, <1>4 DEF TabsOK, Init
<1> QED
  BY <1>1, <1>2, <1>5 DEF PortalInv

LEMMA NextInv ==
  ASSUME PortalInv, [Next]_vars
  PROVE  PortalInv'
<1>1. ASSUME Step, UNCHANGED view, session' \in Account
      PROVE  PortalInv'
  BY <1>1, KeepsTabs DEF PortalInv, Step
<1>2. ASSUME NEW t \in Tab, NEW page \in Page, Visit(t, page)
      PROVE  PortalInv'
  BY <1>2, VisitSteps
<1>3. ASSUME NEW t \in Tab, Click(t)
      PROVE  PortalInv'
  BY <1>3, ClickSteps
<1>4. ASSUME NEW t \in Tab, Continue(t)
      PROVE  PortalInv'
  BY <1>4, AnswerSteps, LoseTrackSteps, BreakOffSteps DEF Continue
<1>5. ASSUME NEW t \in Tab, NEW path, Fetch(t, path)
      PROVE  PortalInv'
  <2>1. LedgerOK' /\ Grows
    BY <1>5, UnchangedGrows DEF Fetch, PortalInv
  <2>2. Step
    BY <1>5, <2>1, NoRequest DEF Fetch, PortalInv
  <2> QED
    BY <1>5, <2>2, FetchSteps DEF PortalInv, Step
<1>6. ASSUME NEW a \in Account, SignInAs(a)
      PROVE  PortalInv'
  <2>1. LedgerOK' /\ Grows
    BY <1>6, UnchangedGrows DEF SignInAs, PortalInv
  <2>2. Step
    BY <1>6, <2>1, NoRequest DEF SignInAs, PortalInv
  <2> QED
    BY <1>1, <1>6, <2>2 DEF SignInAs
<1>7. ASSUME NEW n \in DOMAIN request, Endorse(n) \/ Commit(n)
      PROVE  PortalInv'
  <2>1. Step
    BY <1>7, Endorses, Commits DEF PortalInv
  <2>2. UNCHANGED <<session, view>>
    BY <1>7 DEF Endorse, Commit
  <2> QED
    BY <1>1, <2>1, <2>2 DEF PortalInv, TabsOK
<1>8. CASE Elsewhere
  <2>1. Step
    BY <1>8, ElsewhereGrows, NoRequest DEF PortalInv, Elsewhere
  <2>2. UNCHANGED <<session, view>>
    BY <1>8 DEF Elsewhere
  <2> QED
    BY <1>1, <2>1, <2>2 DEF PortalInv, TabsOK
<1>9. CASE UNCHANGED vars
  <2>1. LedgerOK' /\ Grows
    BY <1>9, UnchangedGrows DEF vars, PortalInv
  <2>2. Step
    BY <1>9, <2>1, NoRequest DEF vars, PortalInv
  <2> QED
    BY <1>1, <1>9, <2>2 DEF vars, PortalInv, TabsOK
<1> QED
  BY <1>2, <1>3, <1>4, <1>5, <1>6, <1>7, <1>8, <1>9 DEF Next

\* PortalInv is an invariant: every request is sound, and every tab faithful to it
\* and to the ledger.
THEOREM PortalInvariant == Spec => []PortalInv
<1>1. Init => PortalInv
  BY InitInv
<1>2. PortalInv /\ [Next]_vars => PortalInv'
  BY NextInv
<1> QED
  BY <1>1, <1>2, PTL DEF Spec

\* The toasts and sentences of a tab are true of the ledger, then and ever after, as far
\* as IsTrue says what each of them keeps of its truth, and none is a "couldn't find"
\* (error-messages.ts:10-61, vote-buttons.tsx:19-27).
THEOREM TrueNotices == Spec => []NoticesAreTrue
<1>1. PortalInv => NoticesAreTrue
  <2> SUFFICES ASSUME PortalInv, NEW t \in Tab, NEW n, n = view[t].notice.request, n # 0,
                      NEW r, r = request[n], NEW says, says = view[t].notice.says
               PROVE  IsTrue(r, says)
    BY DEF NoticesAreTrue
  <2>1. Holds(r, says)
    BY DEF PortalInv, TabsOK, Faithful, SpeaksTrue
  <2>2. r \in Request /\ Fits(r)
    <3>1. n \in DOMAIN request
      BY DEF PortalInv, TabsOK, Faithful, SpeaksTrue
    <3> QED
      BY <3>1, RequestAt DEF PortalInv, RequestsOK, Sound
  <2>3. /\ DOMAIN proposals = ProposalId /\ DOMAIN certificates = CertificateId
    BY DEF PortalInv, LedgerOK, CC!TypeOK
  <2>4. CASE says = Done
    <3>1. Fulfilled(r)
      BY <2>1, <2>4 DEF Holds
    <3>2. CASE r.does = "vote"
      BY <2>4, <3>1, <3>2 DEF IsTrue, Done, Fulfilled
    <3>3. CASE r.does = "propose"
      BY <2>3, <2>4, <3>1, <3>3 DEF IsTrue, Done, Fulfilled, Items
    <3>4. CASE r.does = "issue"
      BY <2>3, <2>4, <3>1, <3>4 DEF IsTrue, Done, Fulfilled, Issued, Items
    <3>5. CASE r.does = "revoke"
      BY <2>4, <3>1, <3>5 DEF IsTrue, Done, Fulfilled
    <3> QED
      BY <2>2, <3>2, <3>3, <3>4, <3>5 DEF Request, Does
  <2>5. CASE says # Done
    BY <2>1, <2>3, <2>5 DEF IsTrue, Holds, Sayable, Items, Generic
  <2> QED
    BY <2>4, <2>5
<1> QED
  BY <1>1, PortalInvariant, PTL

\* A client error is final (fabric-exception.filter.ts:53-99).
THEOREM FinalClientErrors == Spec => []ClientErrorsAreFinal
<1>1. PortalInv => ClientErrorsAreFinal
  BY DEF PortalInv, RequestsOK, Sound, ClientErrorsAreFinal
<1> QED
  BY <1>1, PortalInvariant, PTL

\* A vote or a revocation is written once, however often and wherever it is tried.
THEOREM RetriesOnce == Spec => []RetriesCountOnce
<1>1. PortalInv => RetriesCountOnce
  BY DEF PortalInv, RequestsOK
<1> QED
  BY <1>1, PortalInvariant, PTL

\* The buttons of a proposal are gone after the answer to a vote (institutions.ts:69-75).
THEOREM ReflectedVotes == Spec => []VoteIsReflected
<1>1. PortalInv => VoteIsReflected
  <2> SUFFICES ASSUME PortalInv, NEW t \in Tab, NEW v, v = view[t], v.notice.request # 0, Shown(t),
                      NEW r, r = request[v.notice.request], r.does = "vote",
                      v.notice.says \in Settling, r.id \in Offered(t)
               PROVE  FALSE
    BY DEF VoteIsReflected, Settling
  <2>1. v.page = GovernancePage /\ \A path \in DOMAIN v.got : v.got[path].ok
    BY DEF Offered
  <2>2. PICK row \in v.got[OpenPath].items :
          row.proposal = r.id /\ row.vote = "none" /\ row.applicant # v.account
    BY <2>1 DEF Offered
  <2>3. Faithful(v)
    BY DEF PortalInv, TabsOK
  <2>4. OpenPath \in DOMAIN v.got
    BY <2>1 DEF Shown, Missing, Fetches, GovernanceFetches, GovernancePage
  <2>5. Reflected(v, v.got[OpenPath].items)
    BY <2>3, <2>4 DEF Faithful, Fair
  <2> QED
    BY <2>2, <2>5 DEF Reflected
<1> QED
  BY <1>1, PortalInvariant, PTL

\* Two queries neither lose nor repeat a proposal (governance/page.tsx:23-26).
THEOREM ProposalsListedOnce == Spec => []ListedOnce
<1>1. PortalInv => ListedOnce
  <2> SUFFICES ASSUME PortalInv, NEW t \in Tab, NEW v, v = view[t],
                      v.page = GovernancePage, Missing(t) = {},
                      \A path \in {OpenPath, ResolvedPath} : v.got[path].ok,
                      NEW p \in DOMAIN v.before
               PROVE  \/ p \in Listed(t, OpenPath) <=> p \notin Listed(t, ResolvedPath)
                      \/ v.before[p] = "open" /\ proposals[p].status # "open"
    BY DEF ListedOnce
  <2>1. OpenPath \in DOMAIN v.got /\ ResolvedPath \in DOMAIN v.got
    BY DEF Missing, Fetches, GovernanceFetches, GovernancePage
  <2>2. Faithful(v)
    BY DEF PortalInv, TabsOK
  <2>3. Fair(v, OpenPath, v.got[OpenPath]) /\ Fair(v, ResolvedPath, v.got[ResolvedPath])
    BY <2>1, <2>2 DEF Faithful
  <2>4. OpenListed(v, Listed(t, OpenPath)) /\ ResolvedListed(v, Listed(t, ResolvedPath))
    BY <2>3 DEF Fair, Listed
  <2> QED
    BY <2>4 DEF OpenListed, ResolvedListed
<1> QED
  BY <1>1, PortalInvariant, PTL

\* No route is taken for another (institutions.controller.ts:26-32).
THEOREM FittingNotFound == Spec => []NotFoundFits
<1>1. PortalInv => NotFoundFits
  <2> SUFFICES ASSUME PortalInv, NEW t \in Tab, NEW v, v = view[t], NEW path \in DOMAIN v.got
               PROVE  v.got[path].says \in {"", Generic} \cup NotFoundOn(v.page)
    BY DEF NotFoundFits, NotFoundOn
  <2>1. Faithful(v)
    BY DEF PortalInv, TabsOK
  <2> QED
    BY <2>1 DEF Faithful, Fair
<1> QED
  BY <1>1, PortalInvariant, PTL

-----------------------------------------------------------------------------
(* The ledger the portal writes *)

\* A new proposal whose electorate was counted at most as large as it would be now, and
\* which may have missed a live proposal: both are rich queries, outside the read set.
OpenProposal(p) ==
  LET t == proposals'[p] IN
  /\ proposals[p] = None /\ t # None
  /\ institutions[t.applicant] = None
  /\ t.status = "open" /\ t.votesFor = 0 /\ t.votesAgainst = 0
  /\ t.totalEligibleVoters \in 1..Cardinality(CC!ActiveInstitutions)
  /\ proposals' = [proposals EXCEPT ![p] = t]
  /\ UNCHANGED <<founding, institutions, votes>>

IssueCertificate(i, x) ==
  /\ institutions[i] # None /\ certificates[x] = None
  /\ certificates' = [certificates EXCEPT ![x] = [issuer |-> i, status |-> "active"]]

RevokeCertificate(i, x) ==
  /\ certificates[x] # None /\ certificates[x] = [issuer |-> i, status |-> "active"]
  /\ certificates' = [certificates EXCEPT ![x] = [issuer |-> i, status |-> "revoked"]]

Governs ==
  \/ \E p \in ProposalId : OpenProposal(p)
  \/ \E c \in Institution, p \in ProposalId, d \in CC!Decision : CC!CastVote(c, p, d)

Certifies ==
  \E i \in Institution, x \in CertificateId : IssueCertificate(i, x) \/ RevokeCertificate(i, x)

\* A chaincode function that runs alone on the present ledger.
SerialStep ==
  \/ Governs /\ UNCHANGED certificates
  \/ Certifies /\ UNCHANGED <<founding, institutions, proposals, votes>>

\* What an endorsed transaction would compute now, unless what it read has changed.
Latest(r) ==
  /\ institutions[Caller(r)] # None \/ r.does = "revoke"
  /\ r.does = "vote" =>
       /\ r.reads.applicant # Caller(r)
       /\ proposals[r.id] = r.reads =>
            r.writes.member = CC!Admission(Caller(r), r.id, r.decision)
  /\ r.does = "propose" =>
       /\ r.reads = None
       /\ r.writes.status = "open" /\ r.writes.votesFor = 0 /\ r.writes.votesAgainst = 0
       /\ r.writes.totalEligibleVoters \in 1..Cardinality(CC!ActiveInstitutions)
  /\ r.does = "issue" => r.writes.status = "active"
  /\ r.does = "revoke" => r.reads.issuer = Caller(r)

Current == \A n \in DOMAIN request : request[n].at = "endorsed" => Latest(request[n])

LEMMA ActivesGrow ==
  ASSUME LedgerOK, LedgerOK', Grows
  PROVE  /\ Cardinality(CC!ActiveInstitutions) \in Nat
         /\ Cardinality(CC!ActiveInstitutions)' \in Nat
         /\ Cardinality(CC!ActiveInstitutions) <= Cardinality(CC!ActiveInstitutions)'
<1>1. CC!ActiveInstitutions \subseteq CC!ActiveInstitutions'
  BY DEF CC!ActiveInstitutions, CC!IsActive, Grows, LedgerOK, CC!TypeOK, CC!InstitutionRecord
<1>2. CC!ActiveInstitutions' \subseteq Institution
  BY DEF CC!ActiveInstitutions
<1>3. IsFiniteSet(CC!ActiveInstitutions')
  BY <1>2, PortalConstants, FS_Subset
<1> QED
  BY <1>1, <1>3, FS_Subset, FS_CardinalityType

LEMMA KeepsLatest ==
  ASSUME LedgerOK, LedgerOK', Grows, NEW r \in Request, Fits(r), Prepared(r), Latest(r)
  PROVE  Latest(r)'
<1>1. Caller(r) \in Institution /\ Caller(r)' = Caller(r)
  BY Callers DEF Caller
<1>2. institutions[Caller(r)] # None => institutions'[Caller(r)] # None
  BY <1>1 DEF Grows
<1>3. ASSUME r.does = "vote", proposals'[r.id] = r.reads
      PROVE  r.writes.member = CC!Admission(Caller(r), r.id, r.decision)'
  <2>1. proposals'[r.id] = proposals[r.id] /\ votes'[r.id] = votes[r.id]
    BY <1>3, StillThere
  <2>2. CC!Admission(Caller(r), r.id, r.decision)' = CC!Admission(Caller(r), r.id, r.decision)
    BY <1>1, <2>1 DEF CC!Admission, CC!Approvers, CC!Voters, CC!VotedProposal, CC!Counted,
      CC!StatusAfter, CC!IsApprovedBy, CC!IsBeyondApproval, CC!RequiredVotesToApprove
  <2> QED
    BY <1>3, <2>1, <2>2 DEF Latest
<1>4. r.does = "propose" =>
        r.writes.totalEligibleVoters \in 1..Cardinality(CC!ActiveInstitutions)'
  <2>1. \A n \in 1..Cardinality(CC!ActiveInstitutions) :
          n \in 1..Cardinality(CC!ActiveInstitutions)'
    BY ActivesGrow
  <2> QED
    BY <2>1 DEF Latest
<1> QED
  BY <1>1, <1>2, <1>3, <1>4 DEF Latest

\* What passes the checks is computed on the present ledger.
LEMMA EndorsedLatest ==
  ASSUME LedgerOK, NEW r \in Request, Fits(r), Refusal(r) = None,
         NEW q, q = [r EXCEPT !.at = "endorsed", !.reads = Reads(r), !.writes = Writes(r)]
  PROVE  Latest(q)
<1>0. None \notin Message
  BY PortalConstants
<1>1. Caller(r) \in Institution
  BY Callers
<1>2. /\ q.by = r.by /\ q.does = r.does /\ q.id = r.id /\ q.decision = r.decision
      /\ q.reads = Reads(r) /\ q.writes = Writes(r) /\ Caller(q) = Caller(r)
  BY DEF Request, Caller
<1>3. CASE r.does = "vote"
  <2>1. CC!IsActive(Caller(r)) /\ Caller(r) # proposals[r.id].applicant
    BY <1>0, <1>3, Messages DEF Refusal
  <2> QED
    BY <1>1, <1>2, <1>3, <2>1, Actives DEF Latest, Reads, Writes
<1>4. CASE r.does = "propose"
  <2>1. CC!IsActive(Caller(r)) /\ Reads(r) = None
    BY <1>0, <1>4, Messages DEF Refusal, Reads
  <2>2. IsFiniteSet(CC!ActiveInstitutions) /\ Caller(r) \in CC!ActiveInstitutions
    BY <1>1, <2>1, PortalConstants, FS_Subset DEF CC!ActiveInstitutions
  <2>3. /\ Cardinality(CC!ActiveInstitutions) \in Nat
        /\ Cardinality(CC!ActiveInstitutions) # 0
    BY <2>2, FS_CardinalityType, FS_EmptySet
  <2>4. Cardinality(CC!ActiveInstitutions) \in 1..Cardinality(CC!ActiveInstitutions)
    BY <2>3
  <2>5. Writes(r) = CC!NewProposal(Caller(r), r.id)
    BY <1>4 DEF Writes
  <2> QED
    BY <1>1, <1>2, <1>4, <2>1, <2>4, <2>5, Actives, SameCardinality DEF Latest, CC!NewProposal
<1>5. CASE r.does = "issue"
  <2>1. institutions[Caller(r)] # None /\ Writes(r).status = "active"
    BY <1>0, <1>5, Messages DEF Refusal, Writes
  <2> QED
    BY <1>2, <1>5, <2>1 DEF Latest
<1>6. CASE r.does = "revoke"
  BY <1>0, <1>2, <1>6, Messages DEF Refusal, Latest, Reads
<1> QED
  BY <1>3, <1>4, <1>5, <1>6 DEF Request, Does

\* A transaction stays what it is until it is committed.
LEMMA StaysEndorsed ==
  ASSUME PortalInv, [Next]_vars, NEW n \in DOMAIN request', request'[n].at = "endorsed"
  PROVE  /\ n \in DOMAIN request
         /\ \/ Endorse(n)
            \/ /\ request[n].at = "endorsed"
               /\ request'[n].by = request[n].by /\ request'[n].does = request[n].does
               /\ request'[n].id = request[n].id /\ request'[n].decision = request[n].decision
               /\ request'[n].reads = request[n].reads /\ request'[n].writes = request[n].writes
<1>0. /\ request \in Seq(Request)
      /\ \A m \in DOMAIN request : request[m] \in Request
  BY RequestAt DEF PortalInv, RequestsOK
<1>1. CASE UNCHANGED request
  BY <1>1
<1>2. ASSUME NEW t \in Tab, NEW does, NEW id, NEW decision, Submit(t, does, id, decision)
      PROVE  n \in DOMAIN request /\ request'[n] = request[n]
  <2>1. PICK q : /\ q.at = "sent" /\ request' = Append(request, q)
    BY <1>2 DEF Submit
  <2>2. /\ Len(request) \in Nat /\ DOMAIN request = 1..Len(request)
        /\ DOMAIN request' = 1..(Len(request) + 1)
        /\ request'[Len(request) + 1] = q
        /\ \A m \in 1..Len(request) : request'[m] = request[m]
    BY <1>0, <2>1
  <2> QED
    BY <2>1, <2>2
<1>3. ASSUME NEW m \in DOMAIN request, NEW q, request' = [request EXCEPT ![m] = q],
             q.at # "endorsed"
      PROVE  n \in DOMAIN request /\ request'[n] = request[n]
  BY <1>0, <1>3
<1>4. ASSUME NEW t \in Tab, Click(t)
      PROVE  n \in DOMAIN request /\ request'[n] = request[n]
  BY <1>1, <1>2, <1>4 DEF Click, Vote, Propose, Issue, Revoke, SubmitBlank
<1>5. ASSUME NEW t \in Tab, Continue(t)
      PROVE  /\ n \in DOMAIN request /\ request[n].at = "endorsed"
             /\ request'[n].by = request[n].by /\ request'[n].does = request[n].does
             /\ request'[n].id = request[n].id /\ request'[n].decision = request[n].decision
             /\ request'[n].reads = request[n].reads /\ request'[n].writes = request[n].writes
  <2>1. CASE \E status, says : Tell(t, status, says)
    <3>1. PICK o : request' = [request EXCEPT ![view[t].pending].told = o,
                                              ![view[t].pending].error = None]
      BY <2>1 DEF Tell
    <3> QED
      BY <1>0, <3>1 DEF Request
  <2>2. CASE Throw(t)
    <3>1. request' = [request EXCEPT ![view[t].pending].told = "unknown"]
      BY <2>2 DEF Throw
    <3> QED
      BY <1>0, <3>1 DEF Request
  <2> QED
    BY <1>5, <2>1, <2>2 DEF Continue, Answer, LoseTrack, BreakOff
<1>6. ASSUME NEW m \in DOMAIN request, Endorse(m), m # n
      PROVE  n \in DOMAIN request /\ request'[n] = request[n]
  BY <1>0, <1>6 DEF Endorse, Refuse, Settle
<1>7. ASSUME NEW m \in DOMAIN request, Commit(m)
      PROVE  n \in DOMAIN request /\ request'[n] = request[n]
  <2>1. PICK at, new, error : at \in {"valid", "invalid"} /\ Settle(m, at, new, error)
    BY <1>7 DEF Commit
  <2> QED
    BY <1>0, <2>1 DEF Settle, Request
<1> QED
  BY <1>1, <1>4, <1>5, <1>6, <1>7 DEF Next, vars, Visit, Fetch, SignInAs, Elsewhere

\* Every step leaves of the ledger what Grows says.
LEMMA AlwaysGrows ==
  ASSUME PortalInv, [Next]_vars
  PROVE  Grows
<1>1. CASE UNCHANGED ledger
  BY <1>1, UnchangedGrows DEF PortalInv
<1>2. ASSUME NEW n \in DOMAIN request, Commit(n)
      PROVE  Grows
  BY <1>2, Commits DEF PortalInv, Step
<1>3. CASE Elsewhere
  BY <1>3, ElsewhereGrows DEF PortalInv
<1> QED
  BY <1>1, <1>2, <1>3 DEF Next, vars, Visit, Fetch, SignInAs, Click, Vote, Propose, Issue, Revoke,
    SubmitBlank, Submit, Continue, Answer, LoseTrack, BreakOff, Throw, Tell, Endorse

LEMMA StepCurrent ==
  ASSUME PortalInv, Current, [Next]_vars
  PROVE  Current'
<1>1. PortalInv' /\ Grows
  BY NextInv, AlwaysGrows
<1>2. ASSUME NEW n \in DOMAIN request', request'[n].at = "endorsed"
      PROVE  Latest(request[n])'
  <2>1. n \in DOMAIN request /\ request[n] \in Request /\ request'[n] \in Request
    BY <1>1, <1>2, StaysEndorsed, ElementOfSeq DEF PortalInv, RequestsOK
  <2>2. PICK r \in Request : r = request[n]
    BY <2>1
  <2>3. PICK q \in Request : q = request'[n]
    BY <2>1
  <2>4. Sound(r) /\ Fits(r)
    BY <2>1, <2>2 DEF PortalInv, RequestsOK, Sound
  <2>5. CASE Endorse(n)
    <3>1. request \in Seq(Request)
      BY DEF PortalInv, RequestsOK
    <3>2. ASSUME NEW error, Refuse(n, error)
          PROVE  FALSE
      <4>1. request'[n].at = "refused"
        BY <2>1, <3>1, <3>2 DEF Refuse, Settle, Request
      <4> QED
        BY <1>2, <4>1
    <3>3. /\ r.by \notin Guest /\ Refusal(r) = None
          /\ request' = [request EXCEPT ![n].at = "endorsed", ![n].reads = Reads(r),
                           ![n].writes = Writes(r)]
      BY <2>2, <2>5, <3>2 DEF Endorse
    <3>4. /\ r.by \notin Guest /\ Refusal(r) = None
          /\ q = [r EXCEPT !.at = "endorsed", !.reads = Reads(r), !.writes = Writes(r)]
      BY <2>1, <2>2, <2>3, <3>1, <3>3
    <3>5. Latest(q) /\ Fits(q) /\ Prepared(q)
      BY <2>4, <3>4, EndorsedLatest, Preparations DEF PortalInv
    <3>6. Latest(q)'
      BY <1>1, <3>5, KeepsLatest DEF PortalInv
    <3> QED
      BY <2>3, <3>6 DEF Latest, Caller
  <2>6. CASE /\ r.at = "endorsed" /\ q.by = r.by /\ q.does = r.does /\ q.id = r.id
             /\ q.decision = r.decision /\ q.reads = r.reads /\ q.writes = r.writes
    <3>1. Latest(r) /\ Prepared(r)
      BY <2>1, <2>2, <2>4, <2>6 DEF Current, Sound
    <3>2. Latest(r)'
      BY <1>1, <2>4, <3>1, KeepsLatest DEF PortalInv
    <3>3. Caller(q) = Caller(r)
      BY <2>6 DEF Caller
    <3>4. Latest(q)'
      BY <2>6, <3>2, <3>3 DEF Latest, Caller
    <3> QED
      BY <2>3, <3>4 DEF Latest, Caller
  <2> QED
    BY <1>2, <2>2, <2>3, <2>5, <2>6, StaysEndorsed
<1> QED
  BY <1>2 DEF Current

LEMMA CommitIsSerial ==
  ASSUME PortalInv, Current, NEW n \in DOMAIN request, Commit(n)
  PROVE  SerialStep \/ UNCHANGED ledger
<1>1. PICK r \in Request : r = request[n]
  BY RequestAt DEF PortalInv
<1>2. Fits(r) /\ r.at = "endorsed" /\ Prepared(r) /\ Latest(r) /\ LedgerOK
  BY <1>1 DEF PortalInv, RequestsOK, Sound, Commit, Current
<1>3. Caller(r) \in Institution
  BY Callers
<1>4. CASE ~Unchanged(r)
  BY <1>1, <1>4 DEF Commit
<1>5. CASE Unchanged(r) /\ r.does = "vote"
  <2>1. Write(r)
    BY <1>1, <1>5 DEF Commit
  <2>2. /\ r.id \in ProposalId /\ r.decision \in CC!Decision
        /\ proposals[r.id] # None /\ proposals[r.id].status = "open"
        /\ votes[r.id][Caller(r)] = "none" /\ proposals[r.id].applicant # Caller(r)
        /\ r.writes.proposal = CC!VotedProposal(r.id, r.decision)
        /\ r.writes.member = CC!Admission(Caller(r), r.id, r.decision)
    BY <1>2, <1>5 DEF Fits, Prepared, Latest, Unchanged, Reads
  <2>3. CC!CanVote(Caller(r), r.id)
    BY <1>2, <1>3, <1>5, <2>2, Actives DEF CC!CanVote, CC!Exists, Latest
  <2>4. CC!CastVote(Caller(r), r.id, r.decision) /\ UNCHANGED certificates
    BY <1>5, <2>1, <2>2, <2>3 DEF CC!CastVote, Write
  <2> QED
    BY <1>3, <2>2, <2>4 DEF SerialStep, Governs
<1>6. CASE Unchanged(r) /\ r.does = "revoke"
  <2>1. Write(r)
    BY <1>1, <1>6 DEF Commit
  <2>2. /\ r.id \in CertificateId /\ certificates[r.id] # None
        /\ certificates[r.id] \in CertificateRecord /\ certificates[r.id].status = "active"
        /\ certificates[r.id].issuer = Caller(r)
        /\ r.writes = [certificates[r.id] EXCEPT !.status = "revoked"]
    BY <1>2, <1>6 DEF Fits, Prepared, Latest, Unchanged, Reads
  <2>3. /\ certificates[r.id] = [issuer |-> Caller(r), status |-> "active"]
        /\ r.writes = [issuer |-> Caller(r), status |-> "revoked"]
    BY <2>2 DEF CertificateRecord
  <2>4. RevokeCertificate(Caller(r), r.id)
    BY <1>6, <2>1, <2>2, <2>3 DEF Write, RevokeCertificate
  <2> QED
    BY <1>3, <1>6, <2>1, <2>2, <2>4 DEF SerialStep, Certifies, Write
<1>7. CASE Unchanged(r) /\ r.does = "propose"
  <2>1. PICK new \in ProposalId \cup CertificateId : WriteNew(r, new)
    BY <1>1, <1>7 DEF Commit
  <2>2. /\ new \in ProposalId /\ proposals[new] = None
        /\ proposals' = [proposals EXCEPT ![new] = r.writes]
        /\ UNCHANGED <<founding, institutions, votes, certificates>>
    BY <1>2, <1>7, <2>1 DEF WriteNew, Items, LedgerOK, CC!TypeOK
  <2>3. r.writes \in CC!ProposalRecord /\ r.writes.applicant = r.id
    BY <1>2, <1>7 DEF Prepared
  <2>4. proposals'[new] = r.writes /\ r.writes # None
    BY <1>2, <2>2, <2>3, ProposeGrows
  <2>5. institutions[r.id] = None
    BY <1>2, <1>7 DEF Unchanged, Reads, Latest
  <2>6. OpenProposal(new)
    BY <1>2, <1>7, <2>2, <2>3, <2>4, <2>5 DEF OpenProposal, Latest
  <2> QED
    BY <2>2, <2>6 DEF SerialStep, Governs
<1>8. CASE Unchanged(r) /\ r.does = "issue"
  <2>1. PICK new \in ProposalId \cup CertificateId : WriteNew(r, new)
    BY <1>1, <1>8 DEF Commit
  <2>2. /\ new \in CertificateId /\ certificates[new] = None
        /\ certificates' = [certificates EXCEPT ![new] = r.writes]
        /\ UNCHANGED <<founding, institutions, proposals, votes>>
    BY <1>2, <1>8, <2>1 DEF WriteNew, Issued, Items, LedgerOK
  <2>3. r.writes = [issuer |-> Caller(r), status |-> "active"] /\ institutions[Caller(r)] # None
    BY <1>2, <1>8 DEF Prepared, Latest, CertificateRecord
  <2>4. IssueCertificate(Caller(r), new)
    BY <2>2, <2>3 DEF IssueCertificate
  <2> QED
    BY <1>3, <2>2, <2>4 DEF SerialStep, Certifies
<1> QED
  BY <1>4, <1>5, <1>6, <1>7, <1>8 DEF Request, Does

LEMMA ElsewhereIsSerial ==
  ASSUME LedgerOK, Elsewhere
  PROVE  SerialStep \/ UNCHANGED ledger
<1>1. ASSUME NEW c \in Institution, NEW a \in Institution, NEW p \in ProposalId,
             CC!ProposeNewMember(c, a, p), UNCHANGED certificates
      PROVE  SerialStep
  <2>1. /\ proposals[p] = None /\ CC!IsActive(c) /\ institutions[a] = None
        /\ proposals' = [proposals EXCEPT ![p] = CC!NewProposal(c, a)]
        /\ UNCHANGED <<founding, institutions, votes, certificates>>
    BY <1>1 DEF CC!ProposeNewMember, CC!CanPropose, CC!Exists
  <2>2. /\ proposals'[p] = CC!NewProposal(c, a) /\ CC!NewProposal(c, a) # None
    BY <2>1, NewProposals, ProposeGrows
  <2>3. IsFiniteSet(CC!ActiveInstitutions) /\ c \in CC!ActiveInstitutions
    BY <2>1, PortalConstants, FS_Subset DEF CC!ActiveInstitutions
  <2>4. /\ Cardinality(CC!ActiveInstitutions) \in Nat
        /\ Cardinality(CC!ActiveInstitutions) # 0
    BY <2>3, FS_CardinalityType, FS_EmptySet
  <2>5. Cardinality(CC!ActiveInstitutions) \in 1..Cardinality(CC!ActiveInstitutions)
    BY <2>4
  <2>6. /\ proposals'[p].applicant = a
        /\ proposals'[p].status = "open"
        /\ proposals'[p].votesFor = 0 /\ proposals'[p].votesAgainst = 0
        /\ proposals'[p].totalEligibleVoters = Cardinality(CC!ActiveInstitutions)
    BY <2>2, SameCardinality DEF CC!NewProposal
  <2>7. OpenProposal(p)
    BY <2>1, <2>2, <2>5, <2>6 DEF OpenProposal
  <2> QED
    BY <2>1, <2>7 DEF SerialStep, Governs
<1>2. ASSUME NEW c \in Institution, NEW p \in ProposalId, NEW d \in CC!Decision,
             CC!CastVote(c, p, d), UNCHANGED certificates
      PROVE  SerialStep
  BY <1>2 DEF SerialStep, Governs
<1>3. ASSUME NEW x \in CertificateId, NEW c \in Institution, x \notin Issued, CC!IsActive(c),
             certificates' = [certificates EXCEPT ![x] = [issuer |-> c, status |-> "active"]],
             UNCHANGED <<founding, institutions, proposals, votes>>
      PROVE  SerialStep
  <2>1. certificates[x] = None
    BY <1>3 DEF Issued, Items, LedgerOK
  <2>2. IssueCertificate(c, x)
    BY <1>3, <2>1, Actives DEF IssueCertificate
  <2> QED
    BY <1>3, <2>2 DEF SerialStep, Certifies
<1>4. ASSUME NEW x \in CertificateId, x \in Issued,
             certificates' = [certificates EXCEPT ![x].status = "revoked"],
             UNCHANGED <<founding, institutions, proposals, votes>>
      PROVE  SerialStep \/ UNCHANGED ledger
  <2>1. /\ certificates \in [CertificateId -> CertificateRecord \cup {None}]
        /\ certificates[x] \in CertificateRecord
    BY <1>4 DEF Issued, Items, LedgerOK
  <2>2. PICK i \in Institution : i = certificates[x].issuer
    BY <2>1 DEF CertificateRecord
  <2>3. /\ certificates[x].status \in {"active", "revoked"}
        /\ certificates[x] = [issuer |-> i, status |-> certificates[x].status]
    BY <2>1, <2>2 DEF CertificateRecord
  <2>4. [certificates[x] EXCEPT !.status = "revoked"] = [issuer |-> i, status |-> "revoked"]
    BY <2>3
  <2>5. /\ certificates[x].status \in {"active", "revoked"}
        /\ certificates[x] = [issuer |-> i, status |-> certificates[x].status]
        /\ certificates' = [certificates EXCEPT ![x] = [issuer |-> i, status |-> "revoked"]]
    BY <1>4, <2>3, <2>4
  <2>6. CASE certificates[x].status = "revoked"
    <3>1. certificates' = certificates
      BY <2>1, <2>5, <2>6
    <3> QED
      BY <1>4, <3>1 DEF ledger
  <2>7. CASE certificates[x].status = "active"
    <3>1. RevokeCertificate(i, x)
      BY <2>1, <2>5, <2>7, PortalConstants DEF RevokeCertificate
    <3> QED
      BY <1>4, <2>2, <3>1 DEF SerialStep, Certifies
  <2> QED
    BY <2>5, <2>6, <2>7
<1> QED
  BY <1>1, <1>2, <1>3, <1>4 DEF Elsewhere

\* However requests of several tabs are retried, abandoned and overtaken by those of
\* others, the ledger changes as if chaincode functions ran one at a time, although a
\* request only remembers the record it is about (governance.go:193-492,
\* revokecertificate.go, issuecertificate.go).
THEOREM SerialLedger == Spec => [][SerialStep]_ledger
<1>1. Init => Current
  BY DEF Init, Current
<1>2. PortalInv /\ Current /\ [Next]_vars => Current'
  BY StepCurrent
<1>3. PortalInv /\ Current /\ [Next]_vars => [SerialStep]_ledger
  <2>1. ASSUME PortalInv, Current, NEW n \in DOMAIN request, Commit(n)
        PROVE  [SerialStep]_ledger
    BY <2>1, CommitIsSerial
  <2>2. ASSUME PortalInv, Elsewhere
        PROVE  [SerialStep]_ledger
    BY <2>2, ElsewhereIsSerial DEF PortalInv
  <2> QED
    BY <2>1, <2>2 DEF Next, vars, Visit, Fetch, SignInAs, Click, Vote, Propose, Issue, Revoke,
      SubmitBlank, Submit, Continue, Answer, LoseTrack, BreakOff, Throw, Tell, Endorse
<1> QED
  BY <1>1, <1>2, <1>3, PortalInvariant, PTL DEF Spec
=============================================================================
