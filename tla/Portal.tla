------------------------------- MODULE Portal -------------------------------
(***************************************************************************)
(* The dashboard of one browser, the server actions behind its buttons,    *)
(* the REST backends they call, and the transactions the backends submit.  *)
(*                                                                         *)
(* A page is rendered by fetching its paths from the backend of the account*)
(* that is signed in, one evaluation of a chaincode query each; the ledger *)
(* may change between two of them.  A button starts a request: the server  *)
(* action with the account signed in at that moment, its POST, and the     *)
(* backend's transaction, which is simulated, ordered and validated.  Its  *)
(* request[n].at is                                                        *)
(*   "sent"      before the guard and the simulation,                      *)
(*   "endorsed"  simulated, with what it read and would write,             *)
(*   "valid"     committed, and "invalid" if what it read had changed,     *)
(*   "refused"   by the guard or the chaincode.                            *)
(* The answer may be lost or come too late at any of these; the            *)
(* transaction goes on regardless.  PortalSession.tla has signing in and   *)
(* out in detail; here another account is simply signed in.                *)
(***************************************************************************)
EXTENDS PortalErrors, FiniteSets, Sequences

CONSTANTS
  Institution, ProposalId, None, \* as in InstitutionCC
  CertificateId,
  Founders,     \* the founding institutions
  Account,      \* institutionIds of the portal; an Institution's is its MSP ID
  Guest,        \* those with a READ_ONLY_API_KEY
  MspOf,        \* the MSP_ID of the backend at an account's baseUrl
  Tab,
  MaxRequests,  \* requests (bounds the model)
  MaxElsewhere  \* transactions of other clients (bounds the model)

VARIABLES
  founding, institutions, proposals, votes, \* as in InstitutionCC
  certificates, \* the issuer and status of each certificate, or None
  session,      \* the account signed in
  view,         \* what each tab shows or waits for
  request,      \* the requests in the order they were made
  elsewhere     \* how many transactions other clients made

CC == INSTANCE InstitutionCC

ledger == <<founding, institutions, proposals, votes, certificates>>
vars == <<ledger, session, view, request, elsewhere>>

CertificateRecord == [issuer : Institution, status : {"active", "revoked"}]

\* Institutions are finitely many, an account with a read-only key is no institution, the
\* others sign for themselves, the absent value is no record and no error, and no
\* institution has the name of a route.
ASSUME PortalConstants ==
  /\ Founders \subseteq Institution /\ Founders # {} /\ IsFiniteSet(Institution)
  /\ Guest \subseteq Account /\ MspOf \in [Account -> Institution]
  /\ \A a \in Account \ Guest : MspOf[a] = a
  /\ Guest \cap Institution = {}
  /\ None \notin Institution \cup ProposalId \cup CertificateId
  /\ None \notin CC!InstitutionRecord \cup CC!ProposalRecord \cup CertificateRecord
  /\ None \notin Message \cup [status : Nat, message : Message]
  /\ "proposals" \notin Institution \cup Account
  /\ MaxRequests \in Nat /\ MaxElsewhere \in Nat

Items(table) == {x \in DOMAIN table : table[x] # None}

Issued == Items(certificates)

-----------------------------------------------------------------------------
(* The routes of the backend *)

Param == "any value"

CertificateRoute == <<"certificates", Param>>
VerificationRoute == <<"certificates", Param, "verification">>
InstitutionsRoute == <<"institutions">>
OpenRoute == <<"institutions", "proposals">>
ResolvedRoute == <<"institutions", "proposals", "resolved">>
ProposalRoute == <<"institutions", "proposals", Param>>
InstitutionRoute == <<"institutions", Param>>
IssuedRoute == <<"institutions", Param, "certificates">>

\* Mutant: the wildcard route is declared before the literal ones.
Routes_WildcardFirst ==
  <<CertificateRoute, VerificationRoute, InstitutionsRoute, InstitutionRoute, OpenRoute,
    ResolvedRoute, ProposalRoute, IssuedRoute>>

\* The GET routes in the order the two controllers declare them.
Routes ==
  <<CertificateRoute, VerificationRoute, InstitutionsRoute, OpenRoute, ResolvedRoute,
    ProposalRoute, InstitutionRoute, IssuedRoute>>

Matches(path, route) ==
  /\ Len(path) = Len(route)
  /\ \A i \in DOMAIN path : route[i] \in {path[i], Param}

\* The first route that matches.
RouteOf(path) ==
  Routes[CHOOSE i \in DOMAIN Routes :
           /\ Matches(path, Routes[i])
           /\ \A j \in 1..(i - 1) : ~Matches(path, Routes[j])]

Found(items) == [ok |-> TRUE, items |-> items, says |-> ""]

Failed(error) == [ok |-> FALSE, items |-> {}, says |-> HumanizeBackendError(error.message)]

\* A look-up of x, of which item is shown.
GetOne(x, table, item, missing) ==
  IF x \in Items(table) THEN Found({item}) ELSE Failed(Catch(Refused(missing)))

WithCallerVoteStatus(p, msp) ==
  [proposal |-> p, applicant |-> proposals[p].applicant, status |-> proposals[p].status,
   vote |-> votes[p][msp]]

ProposalsWith(status, msp) ==
  Found({WithCallerVoteStatus(p, msp) : p \in {q \in Items(proposals) : proposals[q].status \in status}})

\* Mutant: the resolved proposals are the approved ones.
GetResolvedProposals_Approved(msp) == ProposalsWith({"approved"}, msp)

GetResolvedProposals(msp) == ProposalsWith({"approved", "rejected"}, msp)

GetOpenProposals(msp) == ProposalsWith({"open"}, msp)

GetCertificatesByInstitution(i) == Found({x \in Issued : certificates[x].issuer = i})

\* What the backend of msp answers to a GET, for which the read-only key will do.
Get(path, msp) ==
  LET route == RouteOf(path)
      x == path[Len(path)] IN
  CASE route = CertificateRoute ->
         GetOne(x, certificates, certificates[x], "certificate does not exist")
    [] route = VerificationRoute ->
         GetOne(path[2], certificates, path[2], "certificate does not exist")
    [] route = InstitutionsRoute -> Found(Items(institutions))
    [] route = OpenRoute -> GetOpenProposals(msp)
    [] route = ResolvedRoute -> GetResolvedProposals(msp)
    [] route = ProposalRoute -> GetOne(x, proposals, x, "proposal does not exist")
    [] route = InstitutionRoute -> GetOne(x, institutions, x, "institution does not exist")
    [] route = IssuedRoute -> GetCertificatesByInstitution(path[2])

-----------------------------------------------------------------------------
(* Pages *)

OpenPath == <<"institutions", "proposals">>
ResolvedPath == <<"institutions", "proposals", "resolved">>

GovernancePage == [name |-> "governance", id |-> None]
DashboardPage == [name |-> "dashboard", id |-> None]
InstitutionsPage == [name |-> "institutions", id |-> None]
IssuePage == [name |-> "issue", id |-> None]
ProposePage == [name |-> "propose", id |-> None]
CertificatePage(x) == [name |-> "certificate", id |-> x]

\* What Next.js shows when a server action throws; it has no address.
ErrorPage == [name |-> "error", id |-> None]

Page ==
  {GovernancePage, DashboardPage, InstitutionsPage, IssuePage, ProposePage}
    \cup [name: {"certificate", "verify"}, id: CertificateId]
    \cup [name: {"proposal"}, id: ProposalId]
    \cup [name: {"institution"}, id: Institution]

\* What each page fetches; the page of an institution fetches its certificates only
\* once it knows that there is such an institution.
GovernanceFetches == {OpenPath, ResolvedPath}
DashboardFetches(account) == {<<"institutions", account, "certificates">>}
InstitutionsFetches == {<<"institutions">>}
CertificateFetches(x) == {<<"certificates", x>>}
VerifyFetches(x) == {<<"certificates", x, "verification">>}
ProposalFetches(p) == {<<"institutions", "proposals", p>>}
InstitutionFetches(i, got) ==
  LET path == <<"institutions", i>> IN
  {path} \cup (IF path \in DOMAIN got /\ got[path].ok
               THEN {<<"institutions", i, "certificates">>} ELSE {})

\* The paths a page fetches next, given the answers it has.
Fetches(page, account, got) ==
  (CASE page.name = "governance" -> GovernanceFetches
     [] page.name = "dashboard" -> DashboardFetches(account)
     [] page.name = "institutions" -> InstitutionsFetches
     [] page.name = "certificate" -> CertificateFetches(page.id)
     [] page.name = "verify" -> VerifyFetches(page.id)
     [] page.name = "proposal" -> ProposalFetches(page.id)
     [] page.name = "institution" -> InstitutionFetches(page.id, got)
     [] OTHER -> {}) \ DOMAIN got

\* The proposals there are before the governance page is rendered (history).
Before(page) ==
  [p \in IF page = GovernancePage THEN Items(proposals) ELSE {} |-> proposals[p].status]

\* A tab that begins to show a page, with a notice of the request it had made.
Rendering(page, account, notice) ==
  [page |-> page, account |-> account, got |-> <<>>, before |-> Before(page),
   pending |-> 0, notice |-> notice]

NoNotice == [request |-> 0, says |-> ""]

Missing(t) == Fetches(view[t].page, view[t].account, view[t].got)

Shown(t) == Missing(t) = {} /\ view[t].pending = 0

\* The governance page only waits for both lists while neither fails.
With(v, path, answer) ==
  IF v.page = GovernancePage /\ ~answer.ok
  THEN [q \in {OpenPath, ResolvedPath} |-> answer]
  ELSE [q \in DOMAIN v.got \cup {path} |-> IF q = path THEN answer ELSE v.got[q]]

Fetch(t, path) ==
  /\ path \in Missing(t)
  /\ \E answer \in {Get(path, MspOf[view[t].account]), Failed(UnreachableError)} :
       view' = [view EXCEPT ![t].got = With(view[t], path, answer)]
  /\ UNCHANGED <<ledger, session, request, elsewhere>>

\* A link, a reload or an address; an answer still awaited is no longer.
Visit(t, page) ==
  /\ view' = [view EXCEPT ![t] = Rendering(page, session, NoNotice)]
  /\ UNCHANGED <<ledger, session, request, elsewhere>>

SignInAs(a) ==
  /\ session' = a
  /\ UNCHANGED <<ledger, view, request, elsewhere>>

-----------------------------------------------------------------------------
(* Buttons and forms *)

\* The server action up to its POST, on behalf of whoever is signed in by now.
Submit(t, does, id, decision) ==
  /\ Shown(t)
  /\ Len(request) < MaxRequests
  /\ request' = Append(request,
       [by |-> session, does |-> does, id |-> id, decision |-> decision,
        at |-> "sent", reads |-> None, writes |-> None, new |-> None,
        error |-> None, told |-> "nothing"])
  /\ view' = [view EXCEPT ![t].pending = Len(request) + 1, ![t].notice = NoNotice]
  /\ UNCHANGED <<ledger, session, elsewhere>>

\* The proposals with vote buttons.
Offered(t) ==
  IF view[t].page # GovernancePage \/ \E path \in DOMAIN view[t].got : ~view[t].got[path].ok
  THEN {}
  ELSE {row.proposal : row \in
          {r \in view[t].got[OpenPath].items : r.vote = "none" /\ r.applicant # view[t].account}}

Vote(t, p, d) == Shown(t) /\ p \in Offered(t) /\ Submit(t, "vote", p, d)

Propose(t, a) == view[t].page = ProposePage /\ Submit(t, "propose", a, None)

Issue(t) == view[t].page = IssuePage /\ Submit(t, "issue", None, None)

\* The button is there for the issuer of an active certificate.
Revoke(t, x) ==
  /\ Shown(t) /\ view[t].page = CertificatePage(x)
  /\ [issuer |-> view[t].account, status |-> "active"]
       \in view[t].got[<<"certificates", x>>].items
  /\ Submit(t, "revoke", x, None)

\* The action turns a blank field down without a request.
SubmitBlank(t) ==
  /\ Shown(t) /\ view[t].page \in {IssuePage, ProposePage}
  /\ view' = [view EXCEPT ![t].notice = [request |-> 0, says |-> "Both are required."]]
  /\ UNCHANGED <<ledger, session, request, elsewhere>>

-----------------------------------------------------------------------------
(* The backend and the ledger *)

Caller(r) == MspOf[r.by]

\* What the chaincode function says against r, in the order of its checks, or None.
Refusal(r) ==
  LET c == Caller(r) IN
  CASE r.does = "vote" ->
         IF ~CC!IsActive(c) THEN "is not an active institution"
         ELSE IF ~CC!Exists(r.id) THEN "proposal does not exist"
         ELSE IF proposals[r.id].status # "open" THEN "proposal is not open"
         ELSE IF c = proposals[r.id].applicant
              THEN "is the applicant and cannot vote on its own proposal"
         ELSE IF votes[r.id][c] # "none" THEN "has already voted on proposal" ELSE None
    [] r.does = "propose" ->
         IF ~CC!IsActive(c) THEN "is not an active institution"
         ELSE IF institutions[r.id] # None THEN "is already a member institution"
         ELSE IF CC!HasLiveProposal(r.id)
              THEN "open or already-approved membership proposal exists" ELSE None
    [] r.does = "issue" ->
         IF institutions[c] = None THEN "is not a registered institution" ELSE None
    [] r.does = "revoke" ->
         IF r.id \notin Issued THEN "certificate does not exist"
         ELSE IF certificates[r.id].issuer # c THEN "is not the issuer of certificate"
         ELSE IF certificates[r.id].status = "revoked" THEN "certificate is already revoked"
         ELSE None

\* The part of the read set that others write to.
Reads(r) ==
  CASE r.does = "vote" -> proposals[r.id]
    [] r.does = "propose" -> institutions[r.id]
    [] r.does = "issue" -> Issued
    [] r.does = "revoke" -> certificates[r.id]

\* The records it writes.
Writes(r) ==
  CASE r.does = "vote" -> [proposal |-> CC!VotedProposal(r.id, r.decision),
                           member |-> CC!Admission(Caller(r), r.id, r.decision)]
    [] r.does = "propose" -> CC!NewProposal(Caller(r), r.id)
    [] r.does = "issue" -> [issuer |-> Caller(r), status |-> "active"]
    [] r.does = "revoke" -> [certificates[r.id] EXCEPT !.status = "revoked"]

\* The backend has the outcome, and an error if it is one, for whoever still waits.
Settle(n, at, new, error) ==
  request' = [request EXCEPT ![n].at = at, ![n].new = new, ![n].reads = None, ![n].writes = None,
                ![n].error = IF request[n].told = "nothing" THEN error ELSE None]

Refuse(n, error) == Settle(n, "refused", None, error)

\* ApiKeyGuard, then submitTransaction up to the endorsement.
Endorse(n) ==
  LET r == request[n] IN
  /\ r.at = "sent"
  /\ IF r.by \in Guest THEN Refuse(n, ReadOnlyError)
     ELSE IF Refusal(r) # None THEN Refuse(n, Catch(Refused(Refusal(r))))
     ELSE request' = [request EXCEPT ![n].at = "endorsed", ![n].reads = Reads(r),
                        ![n].writes = Writes(r)]
  /\ UNCHANGED <<ledger, session, view, elsewhere>>

\* Mutant: a transaction is valid whatever happened since its simulation.
Unchanged_Always(r) == TRUE

Unchanged(r) == Reads(r) = r.reads

Write(r) ==
  CASE r.does = "vote" ->
         /\ votes' = [votes EXCEPT ![r.id][Caller(r)] = r.decision]
         /\ proposals' = [proposals EXCEPT ![r.id] = r.writes.proposal]
         /\ institutions' = IF r.writes.member = None THEN institutions
              ELSE [institutions EXCEPT ![proposals[r.id].applicant] = r.writes.member]
         /\ UNCHANGED <<founding, certificates>>
    [] r.does = "revoke" ->
         /\ certificates' = [certificates EXCEPT ![r.id] = r.writes]
         /\ UNCHANGED <<founding, institutions, proposals, votes>>

\* The new record is stored under an ID of its own.
WriteNew(r, new) ==
  CASE r.does = "propose" ->
         /\ new \in ProposalId \ Items(proposals)
         /\ proposals' = [proposals EXCEPT ![new] = r.writes]
         /\ UNCHANGED <<founding, institutions, votes, certificates>>
    [] r.does = "issue" ->
         /\ new \in CertificateId \ Issued
         /\ certificates' = [certificates EXCEPT ![new] = r.writes]
         /\ UNCHANGED <<founding, institutions, proposals, votes>>

\* The transaction comes in a block; it need never.
Commit(n) ==
  LET r == request[n] IN
  /\ r.at = "endorsed"
  /\ IF ~Unchanged(r)
     THEN Settle(n, "invalid", None, Catch(NotValid)) /\ UNCHANGED ledger
     ELSE \/ r.does \in {"vote", "revoke"} /\ Write(r) /\ Settle(n, "valid", None, None)
          \/ /\ r.does \in {"propose", "issue"}
             /\ \E new \in ProposalId \cup CertificateId :
                  WriteNew(r, new) /\ Settle(n, "valid", new, None)
  /\ UNCHANGED <<session, view, elsewhere>>

-----------------------------------------------------------------------------
(* The answer *)

\* Mutant: the list is only fetched again after a success.
Rerender_Success(r, ok) == ok

\* A vote's answer comes with a new governance list also when it is an error, the others'
\* only when they succeeded.
Rerender(r, ok) == ok \/ r.does = "vote"

\* The page the answer leads to.
NextPage(r, page) ==
  CASE r.does = "issue" -> CertificatePage(r.new)
    [] r.does = "propose" -> GovernancePage
    [] OTHER -> page

Done == "Done."

\* What a status says of the request.
Outcome(status) ==
  CASE status \in {200, 201} -> "done" [] status \in {400, 403, 404, 409} -> "not done" [] OTHER -> "unknown"

\* The portal is told status: the tab shows the notice, on the next page or where it is.
Tell(t, status, says) ==
  LET n == view[t].pending
      r == request[n]
      notice == [request |-> n, says |-> says] IN
  /\ request' = [request EXCEPT ![n].told = Outcome(status), ![n].error = None]
  /\ view' = [view EXCEPT ![t] =
       IF Rerender(r, says = Done)
       THEN Rendering(IF says = Done THEN NextPage(r, @.page) ELSE @.page, r.by, notice)
       ELSE [@ EXCEPT !.pending = 0, !.notice = notice]]
  /\ UNCHANGED <<ledger, session, elsewhere>>

Pending(t) == view[t].pending # 0

\* Mutant: the backend answers when the transaction is endorsed and sent.
Finished_Endorsed(r) == r.at \in {"endorsed", "valid", "invalid", "refused"}

Finished(r) == r.at \in {"valid", "invalid", "refused"}

Answer(t) ==
  LET r == request[view[t].pending] IN
  /\ Pending(t) /\ Finished(r)
  /\ IF r.error = None THEN Tell(t, IF r.does = "revoke" THEN 200 ELSE 201, Done)
     ELSE Tell(t, r.error.status, HumanizeBackendError(r.error.message))

\* The peers, the orderer or the backend cannot be reached, or time is up.
TransportErrors ==
  {Catch(Transport(code)) : code \in {"UNAVAILABLE", "DEADLINE_EXCEEDED", "UNKNOWN"}}
    \cup {UnreachableError}

\* Mutant: only connecting to the backend is given up.
LoseTrack_Connecting(t) ==
  /\ Pending(t) /\ request[view[t].pending].at = "sent"
  /\ Tell(t, 503, Generic)

\* The portal is told something else than the outcome, which there may not be yet.
LoseTrack(t) ==
  /\ Pending(t)
  /\ \E error \in TransportErrors : Tell(t, error.status, HumanizeBackendError(error.message))

\* The action's "throw error".
Throw(t) ==
  /\ request' = [request EXCEPT ![view[t].pending].told = "unknown"]
  /\ view' = [view EXCEPT ![t] = Rendering(ErrorPage, request[view[t].pending].by, NoNotice)]
  /\ UNCHANGED <<ledger, session, elsewhere>>

\* The answer ends behind its status: what cannot be parsed is no BackendError after a
\* success, and leaves an error without its message.
BreakOff(t) ==
  LET r == request[view[t].pending] IN
  /\ Pending(t) /\ Finished(r)
  /\ IF r.error = None THEN Throw(t) ELSE Tell(t, r.error.status, Generic)

-----------------------------------------------------------------------------

\* Transactions of other clients, one at a time.
Elsewhere ==
  /\ elsewhere < MaxElsewhere /\ elsewhere' = elsewhere + 1
  /\ \/ /\ \E c \in Institution, p \in ProposalId :
             \/ \E a \in Institution : CC!ProposeNewMember(c, a, p)
             \/ \E d \in CC!Decision : CC!CastVote(c, p, d)
        /\ UNCHANGED certificates
     \/ /\ \E x \in CertificateId :
             \/ /\ x \notin Issued
                /\ \E c \in Institution : CC!IsActive(c)
                     /\ certificates' = [certificates EXCEPT ![x] = [issuer |-> c, status |-> "active"]]
             \/ /\ x \in Issued
                /\ certificates' = [certificates EXCEPT ![x].status = "revoked"]
        /\ UNCHANGED <<founding, institutions, proposals, votes>>
  /\ UNCHANGED <<session, view, request>>

\* A consortium of its founders, maybe with proposals none voted on yet.
Init ==
  /\ founding = Founders
  /\ institutions = [i \in Institution |-> IF i \in Founders THEN CC!FoundingRecord ELSE None]
  /\ \E open \in SUBSET ProposalId, c \in Founders, a \in [ProposalId -> Institution \ Founders] :
       /\ \A p, q \in open : a[p] = a[q] => p = q
       /\ proposals = [p \in ProposalId |-> IF p \in open THEN CC!NewProposal(c, a[p]) ELSE None]
  /\ votes = [p \in ProposalId |-> [i \in Institution |-> "none"]]
  /\ certificates = [x \in CertificateId |-> None]
  /\ session \in Account
  /\ \E first \in [Tab -> Page] : view = [t \in Tab |-> Rendering(first[t], session, NoNotice)]
  /\ request = <<>>
  /\ elsewhere = 0

Click(t) ==
  \/ \E p \in ProposalId, d \in CC!Decision : Vote(t, p, d)
  \/ \E a \in Institution : Propose(t, a)
  \/ Issue(t)
  \/ \E x \in CertificateId : Revoke(t, x)
  \/ SubmitBlank(t)

Continue(t) == Answer(t) \/ LoseTrack(t) \/ BreakOff(t)

Next ==
  \/ \E t \in Tab, page \in Page : Visit(t, page)
  \/ \E t \in Tab : Click(t) \/ Continue(t) \/ \E path \in Missing(t) : Fetch(t, path)
  \/ \E a \in Account : SignInAs(a)
  \/ \E n \in DOMAIN request : Endorse(n) \/ Commit(n)
  \/ Elsewhere

\* fetch has its answer or gives up; nobody has to click and no transaction to be ordered.
Fairness ==
  \A t \in Tab : WF_vars(Continue(t)) /\ WF_vars(\E path \in Missing(t) : Fetch(t, path))

Spec == Init /\ [][Next]_vars /\ Fairness

-----------------------------------------------------------------------------

\* What a notice says of the ledger, as far as it does not change.
IsTrue(r, says) ==
  CASE says = Done ->
         (CASE r.does = "vote" -> votes[r.id][Caller(r)] = r.decision
            [] r.does = "propose" -> r.new \in Items(proposals) /\ proposals[r.new].applicant = r.id
            [] r.does = "issue" -> r.new \in Issued /\ certificates[r.new].issuer = Caller(r)
            [] r.does = "revoke" -> certificates[r.id].status = "revoked")
    [] says = "You've already voted on this proposal." ->
         r.does = "vote" /\ votes[r.id][Caller(r)] # "none"
    [] says = "This proposal is no longer open for voting." -> proposals[r.id].status # "open"
    [] says = "You can't vote on your own membership proposal." ->
         proposals[r.id].applicant = Caller(r)
    [] says = "That institution is already a member." -> institutions[r.id] # None
    [] says = "There's already an open or approved proposal for that institution." ->
         \E p \in Items(proposals) : proposals[p].applicant = r.id
    [] says = "This certificate wasn't issued by your institution." ->
         certificates[r.id].issuer # Caller(r)
    [] says = "This certificate has already been revoked." ->
         certificates[r.id].status = "revoked"
    [] says = "That institution isn't an active member of the consortium." ->
         r.does # "revoke" /\ Caller(r) \notin Founders
    [] says = "This is a read-only account." -> r.by \in Guest
    [] OTHER -> says = Generic

\* What a tab says of its request, the toast of a success or the sentence made of an
\* error, is true of the ledger then and ever after, whatever other tabs, members and
\* late transactions do, and a button never leads to a "couldn't find".  Two sentences may
\* be overtaken: of "isn't an active member" it stays true that the caller is no founder,
\* of "open or approved proposal" that there is a proposal, which may be rejected by now
\* (error-messages.ts:10-61, vote-buttons.tsx:19-27).
NoticesAreTrue ==
  \A t \in Tab : view[t].notice.request # 0 =>
    IsTrue(request[view[t].notice.request], view[t].notice.says)

\* A request that was answered with 400, 403, 404 or 409 has written nothing and never
\* will, so it may safely be made again; 503 and 504 do not say (fabric-exception.filter.ts:53-99).
ClientErrorsAreFinal ==
  \A n \in DOMAIN request :
    request[n].told = "not done" => request[n].at \in {"refused", "invalid"}

\* However often a vote or a revocation is tried again, in another tab or after an
\* answer that was lost, it is written once: the transactions that were under way
\* together are settled by validation, the later ones by the chaincode.
RetriesCountOnce ==
  \A m, n \in DOMAIN request :
    /\ m # n /\ request[m].at = "valid" /\ request[n].at = "valid"
    /\ request[m].does = request[n].does /\ request[m].does \in {"vote", "revoke"}
    /\ Caller(request[m]) = Caller(request[n])
    => request[m].id # request[n].id

\* After the answer to a vote the list shows how the caller stands to that proposal:
\* the buttons are gone, also when the answer was an error of the chaincode, for
\* instance because of a vote in another tab (institutions.ts:69-75).
VoteIsReflected ==
  \A t \in Tab : view[t].notice.request # 0 /\ Shown(t) =>
    LET r == request[view[t].notice.request] IN
    /\ r.does = "vote"
    /\ view[t].notice.says \in
         {Done, "You've already voted on this proposal.",
          "This proposal is no longer open for voting.",
          "You can't vote on your own membership proposal."}
    => r.id \notin Offered(t)

Listed(t, path) == {row.proposal : row \in view[t].got[path].items}

\* A proposal that was there when the governance page was requested is on exactly one of
\* its two lists, although these are two queries: only one that was resolved in the
\* meantime may be on both or neither ("A resolved proposal remains discoverable",
\* institution-governance-ui/spec.md; governance/page.tsx:23-26).
ListedOnce ==
  \A t \in Tab :
    /\ view[t].page = GovernancePage /\ Missing(t) = {}
    /\ \A path \in {OpenPath, ResolvedPath} : view[t].got[path].ok
    => \A p \in DOMAIN view[t].before :
         \/ p \in Listed(t, OpenPath) <=> p \notin Listed(t, ResolvedPath)
         \/ view[t].before[p] = "open" /\ proposals[p].status # "open"

\* A page only says "not found" of the thing its address names, never because a path
\* was taken for another: GET /institutions/proposals once "returned 'institution
\* proposals does not exist'" (institutions.controller.ts:26-32).
NotFoundFits ==
  \A t \in Tab : \A path \in DOMAIN view[t].got :
    view[t].got[path].says \in
      {"", Generic} \cup
      (CASE view[t].page.name \in {"certificate", "verify"} ->
              {"We couldn't find a certificate with that ID."}
         [] view[t].page.name = "proposal" -> {"We couldn't find a proposal with that ID."}
         [] view[t].page.name = "institution" -> {"We couldn't find that institution."}
         [] OTHER -> {})

\* The buttons of a tab are not disabled for ever: every request has an answer,
\* also when its transaction is never ordered (backend.ts:30-43).
RequestsEnd == \A t \in Tab : Pending(t) ~> ~Pending(t)

=============================================================================
