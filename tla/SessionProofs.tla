--------------------------- MODULE SessionProofs ---------------------------
(***************************************************************************)
(* Theorems about signing in to the portal, for any accounts, pages and    *)
(* tabs, and any number of sign-ins, expiries and removed accounts.        *)
(***************************************************************************)
EXTENDS PortalSession, TLAPS

Path == PrivatePath \cup PUBLIC_PATHS

Token == Nat \cup {Null}

Deed == InstitutionId \cup {Null, "logout"}

Asking == [at: {"proxy", "server"}, path: Path, token: Token, does: Deed]

Answered ==
  [at: {"answer"}, kind: {"page", "redirect", "repeat"}, path: Path, account: InstitutionId \cup {Null},
   sets: SUBSET Token, token: Token, does: Deed]

Shown == [at: {"page"}, path: Path, account: InstitutionId \cup {Null}]

TypeOK ==
  /\ INSTITUTIONS \subseteq InstitutionId
  /\ issued \in Seq(InstitutionId) /\ expired \subseteq DOMAIN issued
  /\ cookie \in Token
  /\ tab \in [BrowserTab -> Asking \cup Answered \cup Shown]

-----------------------------------------------------------------------------
(* Types *)

\* What the three kinds of tabs have, in the form the steps need it.
LEMMA Tabs ==
  ASSUME NEW r \in Asking \cup Answered \cup Shown
  PROVE  /\ r.at \in {"proxy", "server", "answer", "page"} /\ r.path \in Path
         /\ r.at \in {"proxy", "server"} => r \in Asking /\ r.token \in Token /\ r.does \in Deed
         /\ r.at = "answer" =>
              /\ r \in Answered
              /\ r.account \in InstitutionId \cup {Null}
              /\ r.sets \in SUBSET Token /\ r.token \in Token /\ r.does \in Deed
         /\ r.at = "page" => r \in Shown /\ r.account \in InstitutionId \cup {Null}
<1>1. CASE r \in Asking
  BY <1>1 DEF Asking
<1>2. CASE r \in Answered
  BY <1>2 DEF Answered
<1>3. CASE r \in Shown
  BY <1>3 DEF Shown
<1> QED
  BY <1>1, <1>2, <1>3

LEMMA OneTab ==
  ASSUME tab \in [BrowserTab -> Asking \cup Answered \cup Shown], NEW t \in BrowserTab, NEW r,
         tab' = [tab EXCEPT ![t] = r]
  PROVE  /\ tab'[t] = r /\ \A u \in BrowserTab \ {t} : tab'[u] = tab[u]
         /\ r \in Asking \cup Answered \cup Shown =>
              tab' \in [BrowserTab -> Asking \cup Answered \cup Shown]
OBVIOUS

LEMMA Answers ==
  ASSUME TypeOK, NEW t \in BrowserTab, At(t, "proxy") \/ At(t, "server"),
         NEW kind \in {"page", "redirect", "repeat"}, NEW path \in Path,
         NEW account \in InstitutionId \cup {Null},
         NEW sets \in SUBSET Token, Respond(t, kind, path, account, sets)
  PROVE  /\ tab' \in [BrowserTab -> Asking \cup Answered \cup Shown]
         /\ \A u \in BrowserTab \ {t} : tab'[u] = tab[u]
         /\ tab'[t].at = "answer" /\ tab'[t].account = account /\ tab'[t].sets = sets
         /\ tab'[t].token = tab[t].token /\ tab'[t].does = tab[t].does
<1>1. PICK r : r = [at |-> "answer", kind |-> kind, path |-> path, account |-> account, sets |-> sets,
                    token |-> tab[t].token, does |-> tab[t].does]
  OBVIOUS
<1>2. tab' = [tab EXCEPT ![t] = r]
  BY <1>1 DEF Respond
<1>3. tab[t].token \in Token /\ tab[t].does \in Deed
  BY Tabs DEF TypeOK, At
<1>4. r \in Answered
  BY <1>1, <1>3 DEF Answered
<1> QED
  BY <1>1, <1>2, <1>4, OneTab DEF TypeOK

LEMMA Asks ==
  ASSUME TypeOK, NEW t \in BrowserTab, NEW path \in Path, NEW token \in Token, NEW does \in Deed,
         tab' = [tab EXCEPT ![t] = Request(path, token, does)]
  PROVE  /\ tab' \in [BrowserTab -> Asking \cup Answered \cup Shown]
         /\ \A u \in BrowserTab \ {t} : tab'[u] = tab[u]
         /\ tab'[t].at = "proxy" /\ tab'[t].path = path
         /\ tab'[t].token = token /\ tab'[t].does = does
<1>1. Request(path, token, does) \in Asking
  BY DEF Request, Asking
<1>2. tab'[t] = [at |-> "proxy", path |-> path, token |-> token, does |-> does]
  BY OneTab DEF TypeOK, Request
<1> QED
  BY <1>1, <1>2, OneTab DEF TypeOK

\* The proxy lets a request through as it is.
LEMMA LetsThrough ==
  ASSUME TypeOK, NEW t \in BrowserTab, At(t, "proxy"), tab' = [tab EXCEPT ![t].at = "server"]
  PROVE  /\ tab' \in [BrowserTab -> Asking \cup Answered \cup Shown]
         /\ \A u \in BrowserTab \ {t} : tab'[u] = tab[u]
         /\ tab'[t].at = "server" /\ tab'[t].path = tab[t].path
         /\ tab'[t].token = tab[t].token /\ tab'[t].does = tab[t].does
<1>1. tab[t] \in Asking
  BY Tabs DEF TypeOK, At
<1>2. PICK r : r = [tab[t] EXCEPT !.at = "server"]
  OBVIOUS
<1>3. /\ r \in Asking /\ r.at = "server" /\ r.path = tab[t].path
      /\ r.token = tab[t].token /\ r.does = tab[t].does
  BY <1>1, <1>2 DEF Asking
<1>4. tab' = [tab EXCEPT ![t] = r]
  BY <1>2 DEF TypeOK
<1> QED
  BY <1>3, <1>4, OneTab DEF TypeOK

LEMMA Receives ==
  ASSUME TypeOK, NEW t \in BrowserTab, Receive(t)
  PROVE  /\ tab' \in [BrowserTab -> Asking \cup Answered \cup Shown]
         /\ \A u \in BrowserTab \ {t} : tab'[u] = tab[u]
         /\ cookie' \in Token
         /\ cookie' = cookie \/ cookie' \in tab[t].sets
         /\ tab[t].sets = {} => cookie' = cookie
         /\ \/ tab'[t].at = "page" /\ tab'[t].account = tab[t].account
            \/ tab'[t].at = "proxy" /\ tab'[t].token = cookie'
<1>1. /\ tab[t] \in Answered /\ tab[t].path \in Path /\ tab[t].account \in InstitutionId \cup {Null}
      /\ tab[t].sets \in SUBSET Token /\ tab[t].does \in Deed
  BY Tabs DEF TypeOK, Receive, At
<1>2. cookie' = cookie \/ cookie' \in tab[t].sets
  BY DEF Receive
<1>3. cookie' \in Token
  BY <1>1, <1>2 DEF TypeOK
<1>4. tab[t].sets = {} => cookie' = cookie
  BY DEF Receive
<1>5. CASE tab[t].kind = "page"
  <2>1. PICK r : r = [at |-> "page", path |-> tab[t].path, account |-> tab[t].account]
    OBVIOUS
  <2>2. r \in Shown /\ r.at = "page" /\ r.account = tab[t].account
    BY <1>1, <2>1 DEF Shown
  <2>3. tab' = [tab EXCEPT ![t] = r]
    BY <1>5, <2>1 DEF Receive, TypeOK
  <2> QED
    BY <1>2, <1>3, <1>4, <2>2, <2>3, OneTab DEF TypeOK
<1>6. CASE tab[t].kind # "page"
  <2>1. PICK does \in Deed : does = IF tab[t].kind = "repeat" THEN tab[t].does ELSE Null
    BY <1>1 DEF Deed
  <2>2. tab' = [tab EXCEPT ![t] = Request(tab[t].path, cookie', does)]
    BY <1>6, <2>1 DEF Receive, TypeOK
  <2> QED
    BY <1>1, <1>2, <1>3, <1>4, <2>2, Asks
<1> QED
  BY <1>5, <1>6

LEMMA Paths == "/" \in Path /\ "/login" \in Path
BY SessionConstants DEF Path, PUBLIC_PATHS

LEMMA Verified ==
  ASSUME TypeOK, NEW token, JwtVerify(token)
  PROVE  token \in DOMAIN issued /\ Claim(token) = issued[token] /\ Claim(token) \in InstitutionId
BY DEF TypeOK, JwtVerify, Claim

\* The cookie on an answer: deleted for want of a session or on a logout, or the token
\* just signed for the account that was filled in.
SetsCookie(t) ==
  \/ tab'[t].sets = {}
  \/ /\ tab'[t].sets = {Null}
     /\ \/ ~JwtVerify(tab[t].token) \/ tab[t].does = "logout"
        \/ At(t, "server") /\ tab[t].path \in PUBLIC_PATHS
  \/ /\ tab'[t].sets = {Len(issued')}
     /\ Len(issued') \in DOMAIN issued' /\ issued'[Len(issued')] = tab[t].does

\* What a step does to the tabs and the cookie: the two invariants below need no more.
\* Answers and pages of an account come from requireSession or from an answer; the proxy
\* lets a request through to a public path only without a session.
TabEffect(t) ==
  \/ tab'[t] = tab[t]
  \/ /\ At(t, "proxy") /\ tab'[t].at = "server"
     /\ tab'[t].path = tab[t].path /\ tab'[t].token = tab[t].token /\ tab'[t].does = tab[t].does
     /\ tab[t].path \in PUBLIC_PATHS => ~JwtVerify(tab[t].token)
  \/ /\ At(t, "proxy") \/ At(t, "server")
     /\ tab'[t].at = "answer" /\ tab'[t].token = tab[t].token /\ tab'[t].does = tab[t].does
     /\ \/ tab'[t].account = Null
        \/ JwtVerify(tab[t].token) /\ tab'[t].account = Claim(tab[t].token)
     /\ SetsCookie(t)
  \/ At(t, "answer") /\ tab'[t].at = "page" /\ tab'[t].account = tab[t].account
  \/ tab'[t].at = "proxy" /\ tab'[t].token = cookie'

Growing ==
  /\ \/ issued' = issued
     \/ \E a \in InstitutionId : issued' = Append(issued, a)
  /\ expired \subseteq expired' /\ expired' \subseteq DOMAIN issued'
  /\ INSTITUTIONS' \subseteq INSTITUTIONS
  /\ cookie' \in Token
  /\ \/ cookie' = cookie
     \/ \E t \in BrowserTab : At(t, "answer") /\ cookie' \in tab[t].sets

LEMMA Effects ==
  ASSUME TypeOK, [SessionNext]_sessionVars
  PROVE  /\ TypeOK'
         /\ Growing /\ \A t \in BrowserTab : TabEffect(t)
<1> DEFINE Typed == tab' \in [BrowserTab -> Asking \cup Answered \cup Shown]
<1>1. "/" \in Path /\ "/login" \in Path
  BY Paths
<1>2. ASSUME UNCHANGED server, cookie' = cookie
      PROVE  Growing /\ (Typed => TypeOK')
  BY <1>2 DEF Growing, TypeOK, server
<1>3. ASSUME NEW t \in BrowserTab, Proxy(t)
      PROVE  Typed /\ Growing /\ \A u \in BrowserTab : TabEffect(u)
  <2>1. Growing
    BY <1>2, <1>3 DEF Proxy
  <2>2. At(t, "proxy") /\ tab[t].path \in Path
    BY <1>3, Tabs DEF Proxy, TypeOK, At
  <2> DEFINE valid == HasValidSession(tab[t].token)
             public == tab[t].path \in PUBLIC_PATHS
  <2>3. ProxySets(valid, public) \in SUBSET Token
    BY DEF ProxySets, Token
  <2>4. /\ JwtVerify(tab[t].token) => ProxySets(valid, public) = {}
        /\ ~JwtVerify(tab[t].token) => ProxySets(valid, public) = {Null}
    BY DEF ProxySets, HasValidSession
  <2>5. ASSUME NEW kind \in {"page", "repeat"}, NEW path \in {"/", "/login"},
               Respond(t, kind, path, Null, ProxySets(valid, public))
        PROVE  Typed /\ \A u \in BrowserTab : TabEffect(u)
    <3>1. /\ Typed /\ \A u \in BrowserTab \ {t} : tab'[u] = tab[u]
          /\ tab'[t].at = "answer" /\ tab'[t].account = Null
          /\ tab'[t].sets = ProxySets(valid, public)
          /\ tab'[t].token = tab[t].token /\ tab'[t].does = tab[t].does
      BY <1>1, <2>2, <2>3, <2>5, Answers
    <3> QED
      BY <2>2, <2>4, <3>1 DEF TabEffect, SetsCookie
  <2>6. ASSUME tab' = [tab EXCEPT ![t].at = "server"], valid # public
        PROVE  Typed /\ \A u \in BrowserTab : TabEffect(u)
    <3>1. /\ Typed /\ \A u \in BrowserTab \ {t} : tab'[u] = tab[u]
          /\ tab'[t].at = "server" /\ tab'[t].path = tab[t].path
          /\ tab'[t].token = tab[t].token /\ tab'[t].does = tab[t].does
      BY <2>2, <2>6, LetsThrough
    <3>2. public => ~JwtVerify(tab[t].token)
      <4>2. JwtVerify(tab[t].token) => valid
        BY DEF HasValidSession
      <4>3. valid \in BOOLEAN /\ public \in BOOLEAN
        BY DEF HasValidSession, JwtVerify
      <4> HIDE DEF valid, public
      <4> QED
        BY <2>6, <4>2, <4>3
    <3> QED
      BY <2>2, <3>1, <3>2 DEF TabEffect
  <2>7. \/ \E kind \in {"page", "repeat"}, path \in {"/", "/login"} :
             Respond(t, kind, path, Null, ProxySets(valid, public))
        \/ tab' = [tab EXCEPT ![t].at = "server"] /\ valid # public
    BY <1>3 DEF Proxy
  <2> QED
    BY <2>1, <2>5, <2>6, <2>7
<1>4. ASSUME NEW t \in BrowserTab, RequireSession(t)
      PROVE  Typed /\ Growing /\ \A u \in BrowserTab : TabEffect(u)
  <2>1. Growing
    BY <1>2, <1>4 DEF RequireSession
  <2>2. At(t, "server") /\ tab[t].path \in Path /\ tab[t].does \in Deed
    BY <1>4, Tabs DEF RequireSession, TypeOK, At
  <2>3. PICK session : session = GetSession(tab[t].token)
    OBVIOUS
  <2>4. session = Null \/ (JwtVerify(tab[t].token) /\ session = Claim(tab[t].token))
    BY <2>3 DEF GetSession
  <2>5. session \in InstitutionId \cup {Null}
    BY <2>4, Verified
  <2>6. PICK kind \in {"page", "redirect"}, path \in Path :
          Respond(t, kind, path, session, {})
    BY <1>1, <1>4, <2>2, <2>3 DEF RequireSession
  <2>7. {} \in SUBSET Token
    OBVIOUS
  <2>8. /\ Typed /\ \A u \in BrowserTab \ {t} : tab'[u] = tab[u]
        /\ tab'[t].at = "answer" /\ tab'[t].account = session /\ tab'[t].sets = {}
        /\ tab'[t].token = tab[t].token /\ tab'[t].does = tab[t].does
    BY <2>2, <2>5, <2>6, <2>7, Answers
  <2> QED
    BY <2>1, <2>2, <2>4, <2>8 DEF TabEffect, SetsCookie
<1>4a. ASSUME NEW t \in BrowserTab, At(t, "server"), NEW path \in Path,
              Respond(t, "page", path, Null, LetThrough(t))
       PROVE  Typed /\ \A u \in BrowserTab : TabEffect(u)
  <2>1. LetThrough(t) \in SUBSET Token
    BY DEF LetThrough, ProxySets, Token
  <2>2. LetThrough(t) = {} \/ (LetThrough(t) = {Null} /\ tab[t].path \in PUBLIC_PATHS)
    BY DEF LetThrough, ProxySets
  <2>3. /\ Typed /\ \A u \in BrowserTab \ {t} : tab'[u] = tab[u]
        /\ tab'[t].at = "answer" /\ tab'[t].account = Null /\ tab'[t].sets = LetThrough(t)
        /\ tab'[t].token = tab[t].token /\ tab'[t].does = tab[t].does
    BY <1>4a, <2>1, Answers
  <2> QED
    BY <1>4a, <2>2, <2>3 DEF TabEffect, SetsCookie
<1>5. ASSUME NEW t \in BrowserTab, LoginAction(t)
      PROVE  Typed /\ Growing /\ \A u \in BrowserTab : TabEffect(u)
  <2>1. /\ At(t, "server") /\ tab[t].does \in InstitutionId
        /\ UNCHANGED <<INSTITUTIONS, expired, cookie>>
    BY <1>5 DEF LoginAction
  <2>2. ASSUME NEW a \in FindByCredentials(tab[t].does), SetSession(t, a)
        PROVE  Typed /\ Growing /\ \A u \in BrowserTab : TabEffect(u)
    <3>1. a \in InstitutionId /\ a = tab[t].does
      BY <2>2 DEF FindByCredentials, TypeOK
    <3>2. issued' = Append(issued, a) /\ Len(issued') = Len(issued) + 1 /\ Len(issued) \in Nat
      BY <2>2, <3>1 DEF SetSession, TypeOK
    <3>3. Len(issued') \in DOMAIN issued' /\ issued'[Len(issued')] = tab[t].does
      BY <3>1, <3>2 DEF TypeOK
    <3>4. expired' \subseteq DOMAIN issued'
      BY <2>1, <3>1, <3>2 DEF TypeOK
    <3>5. Growing
      BY <2>1, <3>1, <3>2, <3>4 DEF Growing, TypeOK
    <3>6. PICK n : n = Len(issued) + 1
      OBVIOUS
    <3>7. {n} \in SUBSET Token /\ n = Len(issued')
      BY <3>2, <3>6 DEF Token
    <3>8. Respond(t, "redirect", "/", Null, {n})
      BY <2>2, <3>6 DEF SetSession
    <3>9. /\ Typed /\ \A u \in BrowserTab \ {t} : tab'[u] = tab[u]
          /\ tab'[t].at = "answer" /\ tab'[t].account = Null /\ tab'[t].sets = {n}
          /\ tab'[t].token = tab[t].token /\ tab'[t].does = tab[t].does
      BY <1>1, <2>1, <3>7, <3>8, Answers
    <3> QED
      BY <2>1, <3>3, <3>5, <3>7, <3>9 DEF TabEffect, SetsCookie
  <2>3. ASSUME Respond(t, "page", "/login", Null, LetThrough(t)), UNCHANGED issued
        PROVE  Typed /\ Growing /\ \A u \in BrowserTab : TabEffect(u)
    BY <1>1, <1>2, <1>4a, <2>1, <2>3 DEF server
  <2> QED
    BY <1>5, <2>2, <2>3 DEF LoginAction
<1>5a. ASSUME NEW t \in BrowserTab, ActionNotFound(t)
       PROVE  Typed /\ Growing /\ \A u \in BrowserTab : TabEffect(u)
  <2>1. tab[t].path \in Path
    BY Tabs DEF TypeOK
  <2> QED
    BY <1>2, <1>4a, <1>5a, <2>1 DEF ActionNotFound
<1>6. ASSUME NEW t \in BrowserTab, LogoutAction(t)
      PROVE  Typed /\ Growing /\ \A u \in BrowserTab : TabEffect(u)
  <2>1. Growing
    BY <1>2, <1>6 DEF LogoutAction
  <2>2. At(t, "server") /\ tab[t].does = "logout" /\ Respond(t, "redirect", "/login", Null, {Null})
    BY <1>6 DEF LogoutAction
  <2>3. {Null} \in SUBSET Token
    BY DEF Token
  <2>4. /\ Typed /\ \A u \in BrowserTab \ {t} : tab'[u] = tab[u]
        /\ tab'[t].at = "answer" /\ tab'[t].account = Null /\ tab'[t].sets = {Null}
        /\ tab'[t].token = tab[t].token /\ tab'[t].does = tab[t].does
    BY <1>1, <2>2, <2>3, Answers
  <2> QED
    BY <2>1, <2>2, <2>4 DEF TabEffect, SetsCookie
<1>7. ASSUME NEW t \in BrowserTab, Receive(t)
      PROVE  Typed /\ Growing /\ \A u \in BrowserTab : TabEffect(u)
  <2>1. At(t, "answer") /\ UNCHANGED server
    BY <1>7 DEF Receive
  <2>3. Typed /\ \A u \in BrowserTab \ {t} : tab'[u] = tab[u]
    BY <1>7, Receives
  <2>4. cookie' \in Token /\ (cookie' = cookie \/ cookie' \in tab[t].sets)
    BY <1>7, Receives
  <2>5. TabEffect(t)
    BY <1>7, <2>1, Receives DEF TabEffect
  <2>6. Growing
    BY <2>1, <2>4 DEF Growing, server, TypeOK
  <2> QED
    BY <2>3, <2>5, <2>6 DEF TabEffect
<1>8. ASSUME NEW t \in BrowserTab, NEW path \in Path, NEW does \in Deed, Send(t, path, does)
      PROVE  Typed /\ Growing /\ \A u \in BrowserTab : TabEffect(u)
  <2>1. Growing /\ cookie' = cookie /\ cookie \in Token
    BY <1>2, <1>8 DEF Send, TypeOK
  <2>2. /\ Typed /\ \A u \in BrowserTab \ {t} : tab'[u] = tab[u]
        /\ tab'[t].at = "proxy" /\ tab'[t].path = path
        /\ tab'[t].token = cookie /\ tab'[t].does = does
    BY <1>8, <2>1, Asks DEF Send
  <2> QED
    BY <1>8, <2>1, <2>2 DEF TabEffect
<1>9. ASSUME NEW t \in BrowserTab, SubmitLogout(t)
      PROVE  Typed /\ Growing /\ \A u \in BrowserTab : TabEffect(u)
  <2>1. tab[t].path \in Path
    BY Tabs DEF TypeOK
  <2> QED
    BY <1>8, <1>9, <2>1, SessionConstants DEF SubmitLogout, Deed
<1>10. ASSUME NEW t \in BrowserTab, NEW path \in Path, Navigate(t, path)
       PROVE  Typed /\ Growing /\ \A u \in BrowserTab : TabEffect(u)
  BY <1>8, <1>10, SessionConstants DEF Navigate, Deed
<1>11. ASSUME NEW t \in BrowserTab, NEW a \in InstitutionId, SubmitLogin(t, a)
       PROVE  Typed /\ Growing /\ \A u \in BrowserTab : TabEffect(u)
  BY <1>1, <1>8, <1>11 DEF SubmitLogin, Deed
<1>12. ASSUME NEW token \in DOMAIN issued \ expired, Expire(token)
       PROVE  Typed /\ Growing /\ \A u \in BrowserTab : TabEffect(u)
  BY <1>12 DEF Expire, Growing, TypeOK, TabEffect
<1>13. ASSUME NEW a \in INSTITUTIONS, RemoveAccount(a)
       PROVE  Typed /\ Growing /\ \A u \in BrowserTab : TabEffect(u)
  BY <1>13 DEF RemoveAccount, Growing, TypeOK, TabEffect
<1>14. ASSUME UNCHANGED sessionVars
       PROVE  Typed /\ Growing /\ \A u \in BrowserTab : TabEffect(u)
  BY <1>14 DEF sessionVars, server, Growing, TypeOK, TabEffect
<1>15. Typed /\ Growing /\ \A u \in BrowserTab : TabEffect(u)
  BY <1>3, <1>4, <1>5, <1>6, <1>7, <1>9, <1>10, <1>11, <1>12, <1>13, <1>14, <1>5a
  DEF SessionNext, Serve, Path
<1>16. issued' \in Seq(InstitutionId)
  BY <1>15 DEF Growing, TypeOK
<1> QED
  BY <1>15, <1>16 DEF TypeOK, Growing

\* Tabs, tokens and answers keep their types, whatever the requests of the tabs.
THEOREM TypeCorrect == SessionSpec => []TypeOK
<1>1. SessionInit => TypeOK
  <2> SUFFICES ASSUME SessionInit PROVE TypeOK
    OBVIOUS
  <2>1. cookie \in Token
    BY DEF SessionInit, Token
  <2>2. Request("/", cookie, Null) \in Asking
    BY <2>1, Paths DEF Request, Asking, Deed
  <2> QED
    BY <2>1, <2>2 DEF SessionInit, TypeOK
<1>2. TypeOK /\ [SessionNext]_sessionVars => TypeOK'
  BY Effects
<1> QED
  BY <1>1, <1>2, PTL DEF SessionSpec

-----------------------------------------------------------------------------
(* Pages need a sign-in *)

LEMMA IssuedStays ==
  ASSUME TypeOK, Growing
  PROVE  /\ Len(issued) \in Nat /\ DOMAIN issued = 1..Len(issued)
         /\ DOMAIN issued \subseteq DOMAIN issued'
         /\ \A token \in DOMAIN issued : issued'[token] = issued[token]
         /\ Len(issued') \in Nat /\ Len(issued) <= Len(issued')
         /\ DOMAIN issued' \subseteq DOMAIN issued \cup {Len(issued) + 1}
BY DEF TypeOK, Growing

\* A page of an account is only ever shown in a browser that signed in to it
\* (PagesNeedSignIn): the proxy and requireSession agree on which tokens are ours.
THEOREM PagesSignedIn == SessionSpec => []PagesNeedSignIn
<1>1. SessionInit => PagesNeedSignIn
  BY DEF SessionInit, PagesNeedSignIn, Shows, Request
<1>2. ASSUME TypeOK, PagesNeedSignIn, [SessionNext]_sessionVars
      PROVE  PagesNeedSignIn'
  <2> SUFFICES ASSUME NEW t \in BrowserTab, NEW a \in InstitutionId, Shows(t, a)'
               PROVE  \E token \in DOMAIN issued' : issued'[token] = a
    BY DEF PagesNeedSignIn
  <2>1. Growing /\ TabEffect(t)
    BY <1>2, Effects
  <2>2. tab'[t].at \in {"page", "answer"} /\ tab'[t].account = a /\ a # Null
    BY DEF Shows
  <2>3. CASE Shows(t, a)
    BY <1>2, <2>1, <2>3, IssuedStays DEF PagesNeedSignIn
  <2>4. CASE JwtVerify(tab[t].token) /\ a = Claim(tab[t].token)
    BY <1>2, <2>1, <2>4, Verified, IssuedStays
  <2>5. Shows(t, a) \/ (JwtVerify(tab[t].token) /\ a = Claim(tab[t].token))
    BY <2>1, <2>2 DEF TabEffect, Shows, At
  <2> QED
    BY <2>3, <2>4, <2>5
<1> QED
  BY <1>1, <1>2, TypeCorrect, PTL DEF SessionSpec

-----------------------------------------------------------------------------
(* Sessions end for a reason *)

\* A token some sign-in so far may have issued, or none of ours.
Known(token) == token = Null \/ token \in 0..Len(issued)

\* Requests and answers hold tokens of the past; what was let through to a public path
\* came without a session, and an answer to a request with a session touches the cookie
\* only to log out or to set a token for the account that was filled in.
TabHonest(t) ==
  /\ tab[t].at \in {"proxy", "server", "answer"} => Known(tab[t].token)
  /\ tab[t].at = "server" /\ tab[t].path \in PUBLIC_PATHS => ~JwtVerify(tab[t].token)
  /\ tab[t].at = "answer" => \A token \in tab[t].sets : Known(token)
  /\ tab[t].at = "answer" /\ tab[t].sets # {} /\ tab[t].does # "logout" =>
       \/ ~JwtVerify(tab[t].token)
       \/ \A token \in tab[t].sets : token \in DOMAIN issued /\ issued[token] = tab[t].does

Honest == Known(cookie) /\ \A t \in BrowserTab : TabHonest(t)

\* A token of the past without a session never gets one.
LEMMA StaysInvalid ==
  ASSUME TypeOK, Growing, NEW token, Known(token)
  PROVE  /\ token = Null \/ token \in 0..Len(issued')
         /\ ~JwtVerify(token) => token \notin DOMAIN issued' \ expired'
<1>1. Len(issued) + 1 # token
  BY IssuedStays, SessionConstants DEF Known
<1>2. token \in DOMAIN issued' => token \in DOMAIN issued
  BY <1>1, IssuedStays
<1>3. expired \subseteq expired'
  BY DEF Growing
<1>4. token = Null \/ token \in 0..Len(issued')
  BY IssuedStays DEF Known
<1> QED
  BY <1>2, <1>3, <1>4 DEF JwtVerify

LEMMA StepIsHonest ==
  ASSUME TypeOK, Honest, [SessionNext]_sessionVars
  PROVE  Honest'
<1>1. Growing /\ \A t \in BrowserTab : TabEffect(t)
  BY Effects
<1>2. Known(cookie)'
  <2>1. Known(cookie')
    BY <1>1 DEF Growing, Honest, TabHonest, At
  <2> QED
    BY <1>1, <2>1, StaysInvalid DEF Known
<1>3. ASSUME NEW t \in BrowserTab
      PROVE  TabHonest(t)'
  <2>1. TabHonest(t) /\ TabEffect(t)
    BY <1>1, <1>3 DEF Honest
  <2>2. tab[t].at \in {"proxy", "server", "answer"} =>
          /\ tab[t].token = Null \/ tab[t].token \in 0..Len(issued')
          /\ ~JwtVerify(tab[t].token) => tab[t].token \notin DOMAIN issued' \ expired'
    BY <1>1, <2>1, StaysInvalid DEF TabHonest
  <2>3. CASE tab'[t] = tab[t]
    <3>1. tab[t].at = "answer" =>
            \A token \in tab[t].sets : token = Null \/ token \in 0..Len(issued')
      BY <1>1, <2>1, StaysInvalid DEF TabHonest
    <3>2. \A token \in DOMAIN issued : token \in DOMAIN issued' /\ issued'[token] = issued[token]
      BY <1>1, IssuedStays
    <3>3. tab'[t].at = "answer" /\ tab'[t].sets # {} /\ tab'[t].does # "logout" =>
            \/ tab'[t].token \notin DOMAIN issued' \ expired'
            \/ \A token \in tab'[t].sets :
                 token \in DOMAIN issued' /\ issued'[token] = tab'[t].does
      BY <2>1, <2>2, <2>3, <3>2 DEF TabHonest
    <3> QED
      BY <2>1, <2>2, <2>3, <3>1, <3>3 DEF TabHonest, Known, JwtVerify
  <2>4. CASE /\ At(t, "proxy") /\ tab'[t].at = "server"
             /\ tab'[t].path = tab[t].path /\ tab'[t].token = tab[t].token
             /\ tab'[t].does = tab[t].does
             /\ tab[t].path \in PUBLIC_PATHS => ~JwtVerify(tab[t].token)
    BY <2>1, <2>2, <2>4 DEF TabHonest, Known, JwtVerify, At
  <2>5. CASE /\ At(t, "proxy") \/ At(t, "server")
             /\ tab'[t].at = "answer" /\ tab'[t].token = tab[t].token
             /\ tab'[t].does = tab[t].does
             /\ SetsCookie(t)
    <3>1. tab'[t].sets \subseteq {Null, Len(issued')} /\ Len(issued') \in Nat
      BY <1>1, <2>5, IssuedStays DEF SetsCookie
    <3>2. \/ tab'[t].sets = {} \/ tab[t].does = "logout" \/ ~JwtVerify(tab[t].token)
          \/ \A token \in tab'[t].sets :
               token \in DOMAIN issued' /\ issued'[token] = tab'[t].does
      BY <2>1, <2>5 DEF TabHonest, SetsCookie, At
    <3> QED
      BY <2>2, <2>5, <3>1, <3>2 DEF TabHonest, Known, JwtVerify, At
  <2>6. CASE tab'[t].at = "page"
    BY <2>6 DEF TabHonest
  <2>7. CASE tab'[t].at = "proxy" /\ tab'[t].token = cookie'
    BY <1>2, <2>7 DEF TabHonest, Known
  <2> QED
    BY <2>1, <2>3, <2>4, <2>5, <2>6, <2>7 DEF TabEffect
<1> QED
  BY <1>2, <1>3 DEF Honest

LEMMA AlwaysHonest == SessionSpec => []Honest
<1>1. SessionInit => Honest
  <2> SUFFICES ASSUME SessionInit PROVE Honest
    OBVIOUS
  <2>1. Known(cookie)
    BY DEF SessionInit, Known
  <2>2. \A t \in BrowserTab :
          tab[t] = [at |-> "proxy", path |-> "/", token |-> cookie, does |-> Null]
    BY DEF SessionInit, Request
  <2> QED
    BY <2>1, <2>2 DEF Honest, TabHonest
<1> QED
  BY <1>1, StepIsHonest, TypeCorrect, PTL DEF SessionSpec

\* A live session is only taken from the browser by logging out, by the answer to a
\* request sent before the sign-in, or for a session of the account filled in on a login
\* form the proxy has repeated (SessionsEndForAReason), for any number of tabs.
THEOREM ReasonsToEnd == SessionSpec => SessionsEndForAReason
<1> DEFINE Reason(t) ==
      /\ At(t, "answer") /\ cookie' \in tab[t].sets
      /\ \/ tab[t].token # cookie
         \/ tab[t].does = "logout"
         \/ cookie' \in DOMAIN issued /\ issued[cookie'] = tab[t].does
<1>1. ASSUME TypeOK, Honest, [SessionNext]_sessionVars, JwtVerify(cookie), cookie' # cookie
      PROVE  \E t \in BrowserTab : Reason(t)
  <2>1. PICK t \in BrowserTab : At(t, "answer") /\ cookie' \in tab[t].sets
    BY <1>1, Effects DEF Growing
  <2>2. \/ tab[t].does = "logout" \/ ~JwtVerify(tab[t].token)
        \/ cookie' \in DOMAIN issued /\ issued[cookie'] = tab[t].does
    BY <1>1, <2>1 DEF Honest, TabHonest, At
  <2> QED
    BY <1>1, <2>1, <2>2
<1>2. TypeOK /\ Honest /\ [SessionNext]_sessionVars =>
        [JwtVerify(cookie) /\ cookie' # cookie => \E t \in BrowserTab : Reason(t)]_sessionVars
  BY <1>1
<1> QED
  BY <1>2, TypeCorrect, AlwaysHonest, PTL DEF SessionSpec, SessionsEndForAReason

=============================================================================
