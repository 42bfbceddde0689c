--------------------------- MODULE PortalSession ---------------------------
(***************************************************************************)
(* Who is signed in to the portal: the session cookie of one browser, the  *)
(* proxy every request passes, requireSession in front of every page, and  *)
(* the login and logout actions.                                           *)
(*                                                                         *)
(* The tabs of the browser share its cookie.  A request carries the cookie *)
(* of the moment it is sent, and its answer changes the cookie when it     *)
(* arrives, so those of several tabs interleave.  The proxy redirects with *)
(* 307: the browser repeats its request at the other path, a form with what*)
(* was filled in, so a login or logout may come to a page that has no such *)
(* form.  tab[t].at is                                                     *)
(*   "proxy"   the request is on its way to proxy.ts,                      *)
(*   "server"  it was let through to the page or the action,               *)
(*   "answer"  its answer, a page or a redirect, is on its way back,       *)
(*   "page"    the tab shows a page.                                       *)
(***************************************************************************)
EXTENDS Integers, FiniteSets, Sequences

CONSTANTS
  InstitutionId, \* those there ever were in INSTITUTIONS
  PrivatePath,   \* the protected paths
  BrowserTab,
  MaxSessions,   \* sign-ins (bounds the model)
  MaxRemovals,   \* accounts a redeployment takes out of INSTITUTIONS (bounds the model)
  Null           \* no cookie, no account, nothing to do

ASSUME SessionConstants ==
  /\ "/" \in PrivatePath /\ "/login" \notin PrivatePath
  /\ Null \notin InstitutionId \cup Nat /\ "logout" \notin InstitutionId
  /\ MaxSessions \in Nat /\ MaxRemovals \in Nat

VARIABLES
  INSTITUTIONS, \* the configured accounts
  issued,       \* the account of each token signed so far
  expired,      \* the tokens whose time is up
  cookie,       \* the browser's token, 0 if it is not one of ours, or Null
  tab

server == <<INSTITUTIONS, issued, expired>>
sessionVars == <<server, cookie, tab>>

PUBLIC_PATHS == {"/login"}

At(t, place) == tab[t].at = place

\* t's request has its answer, and the cookie it sets, if any: a "page", a "redirect" to
\* another page, or one to "repeat" the request there.
Respond(t, kind, path, account, sets) ==
  tab' = [tab EXCEPT ![t] =
    [at |-> "answer", kind |-> kind, path |-> path, account |-> account, sets |-> sets,
     token |-> tab[t].token, does |-> tab[t].does]]

\* A request: besides asking for a page it may sign in to an account or log out.
Request(path, token, does) == [at |-> "proxy", path |-> path, token |-> token, does |-> does]

-----------------------------------------------------------------------------
(* The server *)

\* Mutant: the claim is read without verifying the token.
JwtVerify_Decode(token) == token # Null

\* The signature is ours and the time is not up.
JwtVerify(token) == token \in DOMAIN issued /\ token \notin expired

\* Mutant: the proxy only looks for a cookie, as it did before 2026-07-28.
HasValidSession_Presence(token) == token # Null

HasValidSession(token) == JwtVerify(token)

\* The institutionId in a token.
Claim(token) == IF token \in DOMAIN issued THEN issued[token] ELSE CHOOSE a \in InstitutionId : TRUE

\* The account of a session, or Null.
GetSession(token) ==
  IF JwtVerify(token) /\ Claim(token) \in INSTITUTIONS THEN Claim(token) ELSE Null

\* Mutant: the answer for a public path deletes the cookie, whoever asks.
ProxySets_Public(valid, public) == IF public \/ ~valid THEN {Null} ELSE {}

\* Deleting a cookie is setting it to Null.
ProxySets(valid, public) == IF valid THEN {} ELSE {Null}

Proxy(t) ==
  LET valid == HasValidSession(tab[t].token)
      public == tab[t].path \in PUBLIC_PATHS
      sets == ProxySets(valid, public) IN
  /\ At(t, "proxy")
  /\ \/ ~valid /\ ~public /\ Respond(t, "repeat", "/login", Null, sets)
     \/ valid /\ public /\ Respond(t, "repeat", "/", Null, sets)
     \/ ~valid /\ public /\ tab[t].does = Null /\ Respond(t, "page", "/login", Null, sets)
     \/ /\ valid # public
        /\ public => tab[t].does # Null
        /\ tab' = [tab EXCEPT ![t].at = "server"]
  /\ UNCHANGED <<server, cookie>>

\* The layout and the pages all start with it.
RequireSession(t) ==
  LET session == GetSession(tab[t].token) IN
  /\ At(t, "server") /\ tab[t].does = Null
  /\ IF session = Null
     THEN Respond(t, "redirect", "/login", Null, {})
     ELSE Respond(t, "page", tab[t].path, session, {})
  /\ UNCHANGED <<server, cookie>>

FindByCredentials(a) == {a} \cap INSTITUTIONS

\* What the proxy put on the answer to a request it let through to an action: with a
\* session at a protected path, without one at a public path.
LetThrough(t) == LET public == tab[t].path \in PUBLIC_PATHS IN ProxySets(~public, public)

\* The form of an action is on the login page, or in the navigation bar of the others.
HasForm(path, does) == (path \in PUBLIC_PATHS) = (does # "logout")

\* A page without the form need not have its action: the request comes to nothing.
ActionNotFound(t) ==
  /\ At(t, "server") /\ tab[t].does # Null
  /\ ~HasForm(tab[t].path, tab[t].does)
  /\ Respond(t, "page", tab[t].path, Null, LetThrough(t))
  /\ UNCHANGED <<server, cookie>>

\* The cookie set here prevails over the deletion the proxy put on the same answer.
SetSession(t, a) ==
  /\ issued' = Append(issued, a)
  /\ Respond(t, "redirect", "/", Null, {Len(issued) + 1})

LoginAction(t) ==
  /\ At(t, "server") /\ tab[t].does \in InstitutionId
  /\ \/ \E a \in FindByCredentials(tab[t].does) : SetSession(t, a)
     \/ /\ FindByCredentials(tab[t].does) = {}
        /\ Respond(t, "page", "/login", Null, LetThrough(t))
        /\ UNCHANGED issued
  /\ UNCHANGED <<INSTITUTIONS, expired, cookie>>

LogoutAction(t) ==
  /\ At(t, "server") /\ tab[t].does = "logout"
  /\ Respond(t, "redirect", "/login", Null, {Null})
  /\ UNCHANGED <<server, cookie>>

Expire(token) ==
  /\ expired' = expired \cup {token}
  /\ UNCHANGED <<INSTITUTIONS, issued, cookie, tab>>

\* The portal is deployed again without an account it had.
RemoveAccount(a) ==
  /\ Cardinality(InstitutionId \ INSTITUTIONS) < MaxRemovals
  /\ INSTITUTIONS' = INSTITUTIONS \ {a}
  /\ UNCHANGED <<issued, expired, cookie, tab>>

-----------------------------------------------------------------------------
(* The browser *)

Receive(t) ==
  /\ At(t, "answer")
  /\ cookie' = IF tab[t].sets = {} THEN cookie ELSE CHOOSE c \in tab[t].sets : TRUE
  /\ tab' = [tab EXCEPT ![t] =
       IF @.kind = "page"
       THEN [at |-> "page", path |-> @.path, account |-> @.account]
       ELSE Request(@.path, cookie', IF @.kind = "repeat" THEN @.does ELSE Null)]
  /\ UNCHANGED server

Send(t, path, does) ==
  /\ At(t, "page")
  /\ tab' = [tab EXCEPT ![t] = Request(path, cookie, does)]
  /\ UNCHANGED <<server, cookie>>

\* The navigation bar is only on the pages of an account.
NavBar(t) == At(t, "page") /\ tab[t].account # Null

\* A link, a reload or an address typed in.
Navigate(t, path) == Send(t, path, Null)

SubmitLogout(t) == NavBar(t) /\ Send(t, tab[t].path, "logout")

\* The tabs whose request is, or will be repeated as, one to sign in.
SigningIn ==
  {t \in BrowserTab :
     /\ ~At(t, "page") /\ tab[t].does \in InstitutionId
     /\ At(t, "answer") => tab[t].kind = "repeat"}

SubmitLogin(t, a) ==
  /\ At(t, "page") /\ tab[t].path = "/login"
  /\ Len(issued) + Cardinality(SigningIn) < MaxSessions
  /\ Send(t, "/login", a)

-----------------------------------------------------------------------------

SessionInit ==
  /\ INSTITUTIONS = InstitutionId
  /\ issued = <<>> /\ expired = {}
  /\ cookie \in {Null, 0}
  /\ tab = [t \in BrowserTab |-> Request("/", cookie, Null)]

Serve(t) ==
  \/ Proxy(t) \/ RequireSession(t)
  \/ LoginAction(t) \/ LogoutAction(t) \/ ActionNotFound(t)
  \/ Receive(t)

SessionNext ==
  \/ \E t \in BrowserTab : Serve(t) \/ SubmitLogout(t)
  \/ \E t \in BrowserTab, path \in PrivatePath \cup PUBLIC_PATHS : Navigate(t, path)
  \/ \E t \in BrowserTab, a \in InstitutionId : SubmitLogin(t, a)
  \/ \E token \in DOMAIN issued \ expired : Expire(token)
  \/ \E a \in INSTITUTIONS : RemoveAccount(a)

\* The portal answers and the browser follows redirects; nobody has to click.
SessionFairness == \A t \in BrowserTab : WF_sessionVars(Serve(t))

SessionSpec == SessionInit /\ [][SessionNext]_sessionVars /\ SessionFairness

-----------------------------------------------------------------------------

\* A page of an account, in a tab or on its way there.
Shows(t, a) == tab[t].at \in {"page", "answer"} /\ tab[t].account = a /\ a # Null

\* A page of an account is only ever shown in a browser that signed in to it, whatever
\* cookies it starts with and however its tabs interleave (session.ts:48-76).
PagesNeedSignIn ==
  \A t \in BrowserTab, a \in InstitutionId :
    Shows(t, a) => \E token \in DOMAIN issued : issued[token] = a

\* A live session is only taken from the browser by logging out, by the answer to a
\* request sent before the sign-in, or for a session of the account that was filled in on
\* a login page still open in some tab, whose form the proxy has repeated at "/".
\* Refreshing pages, also public ones, never ends it, nor do wrong credentials
\* (proxy.ts:32-54).
SessionsEndForAReason ==
  [][JwtVerify(cookie) /\ cookie' # cookie =>
       \E t \in BrowserTab :
         /\ At(t, "answer") /\ cookie' \in tab[t].sets
         /\ \/ tab[t].token # cookie
            \/ tab[t].does = "logout"
            \/ cookie' \in DOMAIN issued /\ issued[cookie'] = tab[t].does]_sessionVars

\* The browser holds a live token of an account that is no longer configured.
Orphaned == JwtVerify(cookie) /\ Claim(cookie) \notin INSTITUTIONS

\* A request ends at a page whatever the cookie: forged, expired or deleted meanwhile
\* (proxy.ts:23-31).  The one exception is a live token of a removed account.
OnlyOrphansLoop == \A t \in BrowserTab : At(t, "proxy") ~> At(t, "page") \/ Orphaned

\* "a present-but-invalid cookie [...] must be treated as "no session" here too", else
\* "an infinite redirect loop" (proxy.ts:23-31).
RedirectsEnd == \A t \in BrowserTab : At(t, "proxy") ~> At(t, "page")

=============================================================================
