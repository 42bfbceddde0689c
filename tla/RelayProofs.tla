---------------------------- MODULE RelayProofs ----------------------------
(***************************************************************************)
(* Theorems about slack-relay, for any replies, threads, issues and texts, *)
(* any number of handlers at once and any number of redeliveries and       *)
(* faults.                                                                 *)
(***************************************************************************)
EXTENDS SlackRelay, FiniteSetTheorems, TLAPS

Run == [reply: Reply, at: Await]

-----------------------------------------------------------------------------
(* Types *)

LEMMA Runs ==
  ASSUME handler \in [Handler -> Run \cup {None}], NEW h \in Handler, handler[h] # None
  PROVE  /\ handler[h] \in Run /\ ReplyAt(h) \in Reply /\ handler[h].at \in Await
         /\ ThreadAt(h) \in Thread
<1>1. handler[h] \in Run
  OBVIOUS
<1> QED
  BY <1>1, RelayConstants DEF Run, ReplyAt, ThreadAt

\* Going on to another await, and returning.
LEMMA Moves ==
  ASSUME handler \in [Handler -> Run \cup {None}], NEW h \in Handler
  PROVE  /\ \A await \in Await : handler[h] # None /\ Goto(h, await) =>
              /\ handler' \in [Handler -> Run \cup {None}]
              /\ handler'[h] = [reply |-> ReplyAt(h), at |-> await] /\ handler'[h] # None
              /\ \A g \in Handler \ {h} : handler'[g] = handler[g]
         /\ Return(h) =>
              /\ handler' \in [Handler -> Run \cup {None}] /\ handler'[h] = None
              /\ \A g \in Handler \ {h} : handler'[g] = handler[g]
<1>1. ASSUME NEW await \in Await, handler[h] # None, Goto(h, await)
      PROVE  /\ handler' \in [Handler -> Run \cup {None}]
             /\ handler'[h] = [reply |-> ReplyAt(h), at |-> await] /\ handler'[h] # None
             /\ \A g \in Handler \ {h} : handler'[g] = handler[g]
  <2>1. handler[h] = [reply |-> ReplyAt(h), at |-> handler[h].at] /\ ReplyAt(h) \in Reply
    BY <1>1, Runs DEF Run, ReplyAt
  <2>2. PICK r : r = [reply |-> ReplyAt(h), at |-> await]
    OBVIOUS
  <2>3. r \in Run /\ r # None
    BY <2>1, <2>2, RelayConstants DEF Run
  <2>4. [handler[h] EXCEPT !.at = await] = r
    BY <2>1, <2>2
  <2>5. handler' = [handler EXCEPT ![h] = r]
    BY <1>1, <2>4 DEF Goto
  <2> QED
    BY <2>2, <2>3, <2>5
<1>2. ASSUME Return(h)
      PROVE  /\ handler' \in [Handler -> Run \cup {None}] /\ handler'[h] = None
             /\ \A g \in Handler \ {h} : handler'[g] = handler[g]
  BY <1>2 DEF Return
<1> QED
  BY <1>1, <1>2

\* The issue of a reply that is about exactly one.
LEMMA Issues ==
  ASSUME NEW r \in Reply
  PROVE  /\ Resolution(r) \subseteq Candidates(Nudge[ThreadOf[r]])
         /\ Candidates(Nudge[ThreadOf[r]]) \subseteq Issue
         /\ Cardinality(Resolution(r)) \in Nat
         /\ Cardinality(Resolution(r)) = 1 =>
              IssueOf(r) \in Issue /\ Resolution(r) = {IssueOf(r)}
<1>1. Candidates(Nudge[ThreadOf[r]]) \subseteq Issue
  BY RelayConstants
<1>2. WordMatches(Nudge[ThreadOf[r]], Text[r]) \subseteq Candidates(Nudge[ThreadOf[r]])
  BY DEF WordMatches
<1>3. Resolution(r) \subseteq Candidates(Nudge[ThreadOf[r]])
  BY <1>2 DEF Resolution, ResolveIssueNumber
<1>4. IsFiniteSet(Resolution(r)) /\ Cardinality(Resolution(r)) \in Nat
  BY <1>1, <1>3, RelayConstants, FS_Subset, FS_CardinalityType
<1>5. ASSUME Cardinality(Resolution(r)) = 1
      PROVE  IssueOf(r) \in Issue /\ Resolution(r) = {IssueOf(r)}
  <2>1. PICK issue : Resolution(r) = {issue}
    BY <1>4, <1>5, FS_Singleton
  <2>2. issue \in Issue
    BY <1>1, <1>3, <2>1
  <2> QED
    BY <2>1, <2>2 DEF IssueOf
<1> QED
  BY <1>1, <1>3, <1>4, <1>5

\* A comment more on one issue.
LEMMA Commented ==
  ASSUME comments \in [Reply \X Issue -> Nat], NEW r \in Reply, NEW issue \in Issue,
         comments' = Comment(r, issue, comments)
  PROVE  /\ comments' \in [Reply \X Issue -> Nat]
         /\ comments'[<<r, issue>>] > 0
         /\ \A q \in Reply, i \in Issue : comments'[<<q, i>>] >= comments[<<q, i>>]
         /\ \A q \in Reply, i \in Issue :
              comments'[<<q, i>>] > 0 => comments[<<q, i>>] > 0 \/ (q = r /\ i = issue)
<1>1. <<r, issue>> \in Reply \X Issue
  OBVIOUS
<1>2. comments' = [comments EXCEPT ![<<r, issue>>] = @ + 1]
  BY DEF Comment
<1>3. comments'[<<r, issue>>] = comments[<<r, issue>>] + 1 /\ comments[<<r, issue>>] \in Nat
  BY <1>1, <1>2
<1>4. \A x \in Reply \X Issue : x # <<r, issue>> => comments'[x] = comments[x]
  BY <1>2
<1>5. comments' \in [Reply \X Issue -> Nat]
  BY <1>1, <1>2
<1> QED
  BY <1>3, <1>4, <1>5

\* Comments of requests that were under way at a restart.
LEMMA CommentedLate ==
  ASSUME comments \in [Reply \X Issue -> Nat], NEW created \in SUBSET Handler,
         comments' = [x \in Reply \X Issue |-> comments[x] +
           Cardinality({h \in created : x = <<ReplyAt(h), IssueOf(ReplyAt(h))>>})]
  PROVE  /\ comments' \in [Reply \X Issue -> Nat]
         /\ \A q \in Reply, i \in Issue : comments'[<<q, i>>] >= comments[<<q, i>>]
         /\ \A q \in Reply, i \in Issue :
              comments'[<<q, i>>] > 0 =>
                \/ comments[<<q, i>>] > 0
                \/ \E h \in created : q = ReplyAt(h) /\ i = IssueOf(ReplyAt(h))
<1> DEFINE Late(x) == {h \in created : x = <<ReplyAt(h), IssueOf(ReplyAt(h))>>}
<1>1. \A x : IsFiniteSet(Late(x)) /\ Cardinality(Late(x)) \in Nat
  BY RelayConstants, FS_Subset, FS_CardinalityType
<1>2. \A x : Late(x) = {} => Cardinality(Late(x)) = 0
  BY FS_EmptySet
<1>3. comments' = [x \in Reply \X Issue |-> comments[x] + Cardinality(Late(x))]
  OBVIOUS
<1> HIDE DEF Late
<1>4. comments' \in [Reply \X Issue -> Nat]
  BY <1>1, <1>3
<1>5. \A x \in Reply \X Issue : comments'[x] >= comments[x] /\ (comments'[x] > 0 => comments[x] > 0 \/ Late(x) # {})
  BY <1>1, <1>2, <1>3
<1> QED
  BY <1>4, <1>5 DEF Late
\* What a step does, told by what happens to the handler it runs.
Frame(h) ==
  /\ handler' \in [Handler -> Run \cup {None}]
  /\ \A g \in Handler \ {h} : handler'[g] = handler[g]

Notices == Reply \X Notice

TypedOK ==
  /\ acked \subseteq Reply
  /\ handler \in [Handler -> Run \cup {None}]
  /\ seenEventIds \subseteq Reply /\ claimedThreads \subseteq Thread
  /\ relayedThreads \in [Thread -> Issue \cup {None}]
  /\ stored \in [Thread -> Issue \cup {None}]
  /\ comments \in [Reply \X Issue -> Nat]
  /\ notices \subseteq Notices /\ marked \subseteq Reply
  /\ faults \in 0..MaxFaults
  /\ deliveries \in [Reply -> 0..MaxDeliveries]

LEMMA TypesNamed == (TypeOK <=> TypedOK) /\ (TypeOK' <=> TypedOK')
BY DEF TypeOK, TypedOK, Run, Notices

LEMMA Awaits == Notice \subseteq Await /\ {"ack", "fetch", "comment", "react"} \subseteq Await
BY DEF Await

\* What a handler knows of the reply it works on.
Knows(h) ==
  /\ At(h, "fetch") => ReplyAt(h) \in Relayable
  /\ At(h, "comment") \/ At(h, "react") =>
       /\ ReplyAt(h) \in Relayable /\ ThreadAt(h) \in BotThread
       /\ Cardinality(Resolution(ReplyAt(h))) = 1

Informed == \A h \in Handler : Knows(h)

\* A handler that goes on knows what it knew, and the others too.
LEMMA Learns ==
  ASSUME TypedOK, Informed, NEW h \in Handler, handler[h] # None, NEW await \in Await,
         Goto(h, await),
         await = "fetch" => ReplyAt(h) \in Relayable,
         await \in {"comment", "react"} =>
           /\ ReplyAt(h) \in Relayable /\ ThreadAt(h) \in BotThread
           /\ Cardinality(Resolution(ReplyAt(h))) = 1
  PROVE  handler' \in [Handler -> Run \cup {None}] /\ Informed'
<1>1. /\ handler' \in [Handler -> Run \cup {None}]
      /\ handler'[h] = [reply |-> ReplyAt(h), at |-> await] /\ handler'[h] # None
      /\ \A g \in Handler \ {h} : handler'[g] = handler[g]
  BY Moves DEF TypedOK
<1>2. ASSUME NEW g \in Handler \ {h}
      PROVE  Knows(g)'
  BY <1>1, <1>2 DEF Informed, Knows, At, ReplyAt, ThreadAt
<1>3. Knows(h)'
  <2>1. ReplyAt(h)' = ReplyAt(h) /\ ThreadAt(h)' = ThreadAt(h) /\ handler'[h].at = await
    BY <1>1 DEF ReplyAt, ThreadAt
  <2>2. Resolution(ReplyAt(h))' = Resolution(ReplyAt(h))
    BY <2>1 DEF Resolution
  <2> QED
    BY <1>1, <2>1, <2>2 DEF Knows, At
<1> QED
  BY <1>1, <1>2, <1>3 DEF Informed

LEMMA Forgets ==
  ASSUME TypedOK, Informed, NEW h \in Handler, Return(h)
  PROVE  handler' \in [Handler -> Run \cup {None}] /\ Informed'
<1>1. /\ handler' \in [Handler -> Run \cup {None}] /\ handler'[h] = None
      /\ \A g \in Handler \ {h} : handler'[g] = handler[g]
  BY Moves DEF TypedOK
<1> QED
  BY <1>1 DEF Informed, Knows, At, ReplyAt, ThreadAt

LEMMA StepIsTyped ==
  ASSUME TypedOK, Informed, [Next]_vars
  PROVE  TypedOK' /\ Informed'
<1> USE DEF TypedOK
<1>1. ASSUME NEW h \in Handler, NEW r \in Reply, Deliver(h, r)
      PROVE  TypedOK' /\ Informed'
  <2>1. PICK x : x = [reply |-> r, at |-> "ack"]
    OBVIOUS
  <2>2. x \in Run /\ x.at = "ack"
    BY <2>1, Awaits DEF Run
  <2>3. handler' = [handler EXCEPT ![h] = x]
    BY <1>1, <2>1 DEF Deliver
  <2>4. handler' \in [Handler -> Run \cup {None}] /\ Informed'
    BY <2>2, <2>3 DEF Informed, Knows, At, ReplyAt, ThreadAt
  <2>5. deliveries' \in [Reply -> 0..MaxDeliveries]
    BY <1>1, RelayConstants DEF Deliver
  <2> QED
    BY <1>1, <2>4, <2>5 DEF Deliver, memory, world
<1>2. ASSUME NEW h \in Handler, NEW heard \in BOOLEAN, Acknowledged(h, heard)
      PROVE  TypedOK' /\ Informed'
  <2>1. /\ handler[h] # None /\ ReplyAt(h) \in Reply /\ ThreadAt(h) \in Thread
        /\ UNCHANGED <<deliveries, stored, comments, notices, marked, faults>>
        /\ acked' \subseteq Reply
    BY <1>2, Runs DEF Acknowledged, At, world
  <2>2. ASSUME DismissDuplicate(h) \/ IgnoreEvent(h)
        PROVE  /\ handler' \in [Handler -> Run \cup {None}] /\ Informed'
               /\ seenEventIds' \subseteq Reply /\ UNCHANGED <<claimedThreads, relayedThreads>>
    BY <2>1, <2>2, Forgets DEF DismissDuplicate, IgnoreEvent, memory
  <2>3. ASSUME RefuseReply(h)
        PROVE  /\ handler' \in [Handler -> Run \cup {None}] /\ Informed'
               /\ seenEventIds' \subseteq Reply /\ UNCHANGED <<claimedThreads, relayedThreads>>
    <3>1. PICK await \in {"already_relayed", "concurrent_reply_in_progress"} : Goto(h, await)
      BY <2>3 DEF RefuseReply
    <3>2. await \in Await /\ await \notin {"fetch", "comment", "react"}
      BY Awaits DEF Notice
    <3> QED
      BY <2>1, <2>3, <3>1, <3>2, Learns DEF RefuseReply
  <2>4. ASSUME TakeReply(h)
        PROVE  /\ handler' \in [Handler -> Run \cup {None}] /\ Informed'
               /\ seenEventIds' \subseteq Reply /\ claimedThreads' \subseteq Thread
               /\ UNCHANGED relayedThreads
    <3>1. Goto(h, "fetch") /\ ReplyAt(h) \in Relayable /\ "fetch" \in Await
      BY <2>4, Awaits DEF TakeReply
    <3> QED
      BY <2>1, <2>4, <3>1, Learns DEF TakeReply
  <2> QED
    BY <1>2, <2>1, <2>2, <2>3, <2>4 DEF Acknowledged
<1>3. ASSUME NEW h \in Handler, NEW notice \in Notice, handler[h] # None, GiveUp(h, notice)
      PROVE  /\ handler' \in [Handler -> Run \cup {None}] /\ Informed'
             /\ claimedThreads' \subseteq Thread
             /\ UNCHANGED <<deliveries, acked, seenEventIds, relayedThreads, stored>>
  <2>1. notice \in Await /\ notice \notin {"fetch", "comment", "react"}
    BY Awaits DEF Notice
  <2> QED
    BY <1>3, <2>1, Learns DEF GiveUp, ReleaseClaim
<1>4. {"thread_lookup_failed", "no_issue_link_found", "ambiguous", "relay_failed"} \subseteq Notice
  BY DEF Notice
<1>5. ASSUME NEW h \in Handler, FetchFails(h)
      PROVE  TypedOK' /\ Informed'
  BY <1>3, <1>4, <1>5 DEF FetchFails, At, world
<1>6. ASSUME NEW h \in Handler, StepAside(h)
      PROVE  TypedOK' /\ Informed'
  BY <1>6, Forgets DEF StepAside, ReleaseClaim, world
<1>7. ASSUME NEW h \in Handler, FetchAnswers(h)
      PROVE  TypedOK' /\ Informed'
  <2>1. handler[h] # None /\ At(h, "fetch") /\ ThreadAt(h) \in BotThread
        /\ UNCHANGED <<comments, notices, marked, faults>>
    BY <1>7 DEF FetchAnswers, At, world
  <2>2. CASE \E notice \in Notice : GiveUp(h, notice)
    BY <1>3, <2>1, <2>2
  <2>3. CASE /\ Cardinality(Resolution(ReplyAt(h))) = 1 /\ Goto(h, "comment")
             /\ UNCHANGED <<deliveries, acked, memory, stored>>
    <3>1. ReplyAt(h) \in Relayable /\ "comment" \in Await
      BY <2>1, Awaits DEF Informed, Knows
    <3> QED
      BY <2>1, <2>3, <3>1, Learns DEF memory
  <2> QED
    BY <1>4, <1>7, <2>2, <2>3 DEF FetchAnswers
<1>8. ASSUME NEW h \in Handler, At(h, "comment")
      PROVE  /\ handler[h] # None /\ ReplyAt(h) \in Reply /\ ThreadAt(h) \in Thread
             /\ IssueOf(ReplyAt(h)) \in Issue
             /\ ReplyAt(h) \in Relayable /\ ThreadAt(h) \in BotThread
             /\ Cardinality(Resolution(ReplyAt(h))) = 1
  BY <1>8, Runs, Issues DEF Informed, Knows, At
<1>9. Fault => faults' \in 0..MaxFaults
  BY RelayConstants DEF Fault
<1>10. ASSUME NEW h \in Handler, NEW persisted \in BOOLEAN, CommentPosted(h, persisted)
       PROVE  TypedOK' /\ Informed'
  <2>1. At(h, "comment") /\ Goto(h, "react") /\ "react" \in Await
    BY <1>10, Awaits DEF CommentPosted
  <2>2. comments' \in [Reply \X Issue -> Nat]
    BY <1>8, <1>10, <2>1, Commented DEF CommentPosted
  <2>3. relayedThreads' \in [Thread -> Issue \cup {None}]
    BY <1>8, <1>10, <2>1 DEF CommentPosted, Recorded
  <2>4. handler' \in [Handler -> Run \cup {None}] /\ Informed'
    BY <1>8, <2>1, Learns
  <2>5. stored' \in [Thread -> Issue \cup {None}] /\ faults' \in 0..MaxFaults
    BY <1>9, <1>10, <2>3 DEF CommentPosted
  <2> QED
    BY <1>10, <2>2, <2>3, <2>4, <2>5 DEF CommentPosted
<1>11. ASSUME NEW h \in Handler, NEW created \in BOOLEAN, CommentFails(h, created)
       PROVE  TypedOK' /\ Informed'
  <2>1. At(h, "comment") /\ GiveUp(h, "relay_failed") /\ UNCHANGED <<notices, marked>>
    BY <1>11 DEF CommentFails
  <2>2. comments' \in [Reply \X Issue -> Nat] /\ faults' \in 0..MaxFaults
    BY <1>8, <1>9, <1>11, <2>1, Commented DEF CommentFails
  <2> QED
    BY <1>3, <1>4, <1>8, <2>1, <2>2
<1>12. ASSUME NEW h \in Handler, NEW posted \in BOOLEAN, Finish(h, posted)
       PROVE  TypedOK' /\ Informed'
  <2>1. handler[h] # None /\ ReplyAt(h) \in Reply
    BY <1>12, Runs DEF Finish
  <2>2. marked' \subseteq Reply /\ notices' \subseteq Notices
    BY <1>12, <2>1 DEF Finish, Notices
  <2> QED
    BY <1>12, <2>2, Forgets DEF Finish, memory
<1>13. ASSUME NEW created \in SUBSET Handler, Restart(created)
       PROVE  TypedOK' /\ Informed'
  <2>1. comments' \in [Reply \X Issue -> Nat]
    BY <1>13, CommentedLate DEF Restart
  <2>2. faults' \in 0..MaxFaults
    BY <1>9, <1>13 DEF Restart
  <2> QED
    BY <1>13, <2>1, <2>2 DEF Restart, Informed, Knows, At
<1>14. CASE UNCHANGED vars
  BY <1>14 DEF vars, memory, world, Informed, Knows, At, ReplyAt, ThreadAt
<1> QED
  BY <1>1, <1>2, <1>5, <1>6, <1>7, <1>10, <1>11, <1>12, <1>13, <1>14 DEF Next, Continue

LEMMA Typed == Spec => [](TypedOK /\ Informed)
<1>1. Init => TypedOK /\ Informed
  BY RelayConstants DEF Init, TypedOK, Informed, Knows, At
<1> QED
  BY <1>1, StepIsTyped, PTL DEF Spec

\* Handlers, the store, comments and notices keep their types; for this, a handler
\* that is commenting has found exactly one issue.
THEOREM TypeCorrect == Spec => []TypeOK
<1>1. TypedOK => TypeOK
  BY TypesNamed
<1> QED
  BY <1>1, Typed, PTL

-----------------------------------------------------------------------------
(* The shapes of a step *)

\* The handler is relaying the reply of its thread.
Busy(h) == At(h, "fetch") \/ At(h, "comment")

Others(h) == \A g \in Handler \ {h} : handler'[g] = handler[g]

Stays(h) == ReplyAt(h)' = ReplyAt(h) /\ ThreadAt(h)' = ThreadAt(h)

Told == <<marked, notices>>

\* A handler comes, goes or answers without having relayed anything; a reaction or a
\* notice is posted.
Quiet(h) ==
  /\ Others(h) /\ ~Busy(h) /\ ~Busy(h)' /\ ~At(h, "react")'
  /\ UNCHANGED <<claimedThreads, relayedThreads, stored, comments>>
  /\ At(h, "already_relayed")' => ThreadAt(h)' \in Thread /\ relayedThreads[ThreadAt(h)'] # None
  /\ \A r \in marked' : r \in marked \/ (At(h, "react") /\ r = ReplyAt(h))
  /\ \A r : <<r, "already_relayed">> \in notices' =>
       <<r, "already_relayed">> \in notices \/ (At(h, "already_relayed") /\ r = ReplyAt(h))

\* A handler claims its thread.
Takes(h) ==
  /\ Others(h) /\ Stays(h) /\ At(h, "ack") /\ At(h, "fetch")' /\ ~At(h, "comment")'
  /\ ~At(h, "react")' /\ ~At(h, "already_relayed")'
  /\ relayedThreads[ThreadAt(h)] = None /\ ThreadAt(h) \notin claimedThreads
  /\ claimedThreads' = claimedThreads \cup {ThreadAt(h)}
  /\ UNCHANGED <<relayedThreads, stored, comments, Told>>

\* It finds the issue.
Finds(h) ==
  /\ Others(h) /\ Stays(h) /\ At(h, "fetch") /\ At(h, "comment")' /\ ~At(h, "fetch")'
  /\ ~At(h, "react")' /\ ~At(h, "already_relayed")'
  /\ UNCHANGED <<claimedThreads, relayedThreads, stored, comments, Told>>

\* It gives the claim back, maybe after a comment it knows nothing of.
Releases(h) ==
  /\ Others(h) /\ Busy(h) /\ ~Busy(h)' /\ ~At(h, "react")' /\ ~At(h, "already_relayed")'
  /\ claimedThreads' = claimedThreads \ {ThreadAt(h)}
  /\ UNCHANGED <<relayedThreads, stored, Told>>
  /\ \/ comments' = comments
     \/ At(h, "comment") /\ comments' = Comment(ReplyAt(h), IssueOf(ReplyAt(h)), comments)

\* It records the thread as relayed.
Posts(h) ==
  /\ Others(h) /\ Stays(h) /\ At(h, "comment") /\ At(h, "react")'
  /\ ~Busy(h)' /\ ~At(h, "already_relayed")'
  /\ comments' = Comment(ReplyAt(h), IssueOf(ReplyAt(h)), comments)
  /\ relayedThreads' = [relayedThreads EXCEPT ![ThreadAt(h)] = IssueOf(ReplyAt(h))]
  /\ stored' \in {stored, relayedThreads'}
  /\ UNCHANGED <<claimedThreads, Told>>

Dies ==
  /\ \A h \in Handler : handler'[h] = None
  /\ claimedThreads' = {} /\ relayedThreads' = stored /\ UNCHANGED <<stored, Told>>
  /\ \E created \in SUBSET Handler :
       /\ \A h \in created : At(h, "comment")
       /\ comments' = [x \in Reply \X Issue |-> comments[x] +
            Cardinality({h \in created : x = <<ReplyAt(h), IssueOf(ReplyAt(h))>>})]

Nothing == UNCHANGED <<handler, claimedThreads, relayedThreads, stored, comments, Told>>

\* Where a handler is once it goes on or returns.
LEMMA Places ==
  ASSUME TypedOK, NEW h \in Handler, handler[h] # None
  PROVE  /\ \A await \in Await : Goto(h, await) =>
              /\ Others(h) /\ Stays(h)
              /\ \A place : At(h, place)' <=> place = await
         /\ Return(h) => Others(h) /\ \A place : ~At(h, place)'
<1>1. ASSUME NEW await \in Await, Goto(h, await)
      PROVE  /\ Others(h) /\ Stays(h)
             /\ \A place : At(h, place)' <=> place = await
  <2>1. /\ handler'[h] = [reply |-> ReplyAt(h), at |-> await] /\ handler'[h] # None
        /\ \A g \in Handler \ {h} : handler'[g] = handler[g]
    BY <1>1, Moves DEF TypedOK
  <2> QED
    BY <2>1 DEF Others, Stays, At, ReplyAt, ThreadAt
<1>2. ASSUME Return(h)
      PROVE  Others(h) /\ \A place : ~At(h, place)'
  <2>1. handler'[h] = None /\ \A g \in Handler \ {h} : handler'[g] = handler[g]
    BY <1>2, Moves DEF TypedOK
  <2> QED
    BY <2>1 DEF Others, At
<1> QED
  BY <1>1, <1>2

LEMMA OnePlace ==
  ASSUME NEW h, NEW place, NEW other, At(h, place), place # other
  PROVE  ~At(h, other)
BY DEF At

LEMMA Shapes ==
  ASSUME TypedOK, Informed, [Next]_vars
  PROVE  \/ \E h \in Handler : Quiet(h) \/ Takes(h) \/ Finds(h) \/ Releases(h) \/ Posts(h)
         \/ Dies \/ Nothing
<1>1. ASSUME NEW h \in Handler, NEW r \in Reply, Deliver(h, r)
      PROVE  Quiet(h)
  <2>1. PICK x : x = [reply |-> r, at |-> "ack"]
    OBVIOUS
  <2>2. handler' = [handler EXCEPT ![h] = x] /\ x.at = "ack" /\ handler[h] = None
    BY <1>1, <2>1 DEF Deliver
  <2>3. Others(h) /\ handler'[h].at = "ack"
    BY <2>2 DEF Others, TypedOK
  <2> QED
    BY <1>1, <2>2, <2>3 DEF Deliver, Quiet, Busy, At, memory, world
<1>2. ASSUME NEW h \in Handler, NEW heard \in BOOLEAN, Acknowledged(h, heard)
      PROVE  Quiet(h) \/ Takes(h)
  <2>1. /\ At(h, "ack") /\ handler[h] # None /\ ~Busy(h) /\ ThreadAt(h) \in Thread
        /\ UNCHANGED <<stored, comments, Told>>
    BY <1>2, Runs DEF Acknowledged, At, Busy, world, Told, TypedOK
  <2>2. CASE DismissDuplicate(h) \/ IgnoreEvent(h)
    <3>1. Others(h) /\ \A place : ~At(h, place)'
      BY <2>1, <2>2, Places DEF DismissDuplicate, IgnoreEvent
    <3> QED
      BY <2>1, <2>2, <3>1 DEF DismissDuplicate, IgnoreEvent, memory, Quiet, Busy, Told
  <2>3. CASE RefuseReply(h)
    <3>1. PICK await \in {"already_relayed", "concurrent_reply_in_progress"} :
            Goto(h, await) /\ (await = "already_relayed" => relayedThreads[ThreadAt(h)] # None)
      BY <2>3 DEF RefuseReply
    <3>2. await \in Await
      BY Awaits DEF Notice
    <3>3. Others(h) /\ Stays(h) /\ \A place : At(h, place)' <=> place = await
      BY <2>1, <3>1, <3>2, Places
    <3> QED
      BY <2>1, <2>3, <3>1, <3>3 DEF RefuseReply, Quiet, Busy, Stays, Told
  <2>4. CASE TakeReply(h)
    <3>1. Others(h) /\ Stays(h) /\ \A place : At(h, place)' <=> place = "fetch"
      BY <2>1, <2>4, Places, Awaits DEF TakeReply
    <3> QED
      BY <2>1, <2>4, <3>1 DEF TakeReply, Takes, IsClaimed
  <2> QED
    BY <1>2, <2>2, <2>3, <2>4 DEF Acknowledged
<1>3. ASSUME NEW h \in Handler, Busy(h), NEW notice \in Notice \ {"already_relayed"}, GiveUp(h, notice),
             UNCHANGED Told,
             \/ comments' = comments
             \/ At(h, "comment") /\ comments' = Comment(ReplyAt(h), IssueOf(ReplyAt(h)), comments)
      PROVE  Releases(h)
  <2>1. handler[h] # None /\ notice \in Await /\ notice \notin {"fetch", "comment", "react"}
    BY <1>3, Awaits DEF Busy, At, Notice
  <2>2. Others(h) /\ \A place : At(h, place)' <=> place = notice
    BY <1>3, <2>1, Places DEF GiveUp
  <2> QED
    BY <1>3, <2>1, <2>2 DEF GiveUp, ReleaseClaim, Releases, Busy
<1>4. {"thread_lookup_failed", "no_issue_link_found", "ambiguous", "relay_failed"}
        \subseteq Notice \ {"already_relayed"}
  BY DEF Notice
<1>5. ASSUME NEW h \in Handler, FetchFails(h)
      PROVE  Releases(h)
  BY <1>3, <1>4, <1>5 DEF FetchFails, Busy, world, Told
<1>6. ASSUME NEW h \in Handler, StepAside(h)
      PROVE  Releases(h)
  <2>1. At(h, "fetch") /\ handler[h] # None /\ Return(h)
    BY <1>6 DEF StepAside, At
  <2>2. Others(h) /\ \A place : ~At(h, place)'
    BY <2>1, Places
  <2> QED
    BY <1>6, <2>1, <2>2 DEF StepAside, ReleaseClaim, Releases, Busy, world, Told
<1>7. ASSUME NEW h \in Handler, FetchAnswers(h)
      PROVE  Releases(h) \/ Finds(h)
  <2>1. At(h, "fetch") /\ handler[h] # None /\ UNCHANGED <<comments, Told>>
    BY <1>7 DEF FetchAnswers, At, world, Told
  <2>2. CASE \E notice \in Notice \ {"already_relayed"} : GiveUp(h, notice)
    BY <1>3, <2>1, <2>2 DEF Busy
  <2>3. CASE Goto(h, "comment") /\ UNCHANGED <<memory, stored>>
    <3>1. Others(h) /\ Stays(h) /\ \A place : At(h, place)' <=> place = "comment"
      BY <2>1, <2>3, Places, Awaits
    <3> QED
      BY <2>1, <2>3, <3>1 DEF Finds, memory
  <2> QED
    BY <1>4, <1>7, <2>2, <2>3 DEF FetchAnswers
<1>8. ASSUME NEW h \in Handler, NEW persisted \in BOOLEAN, CommentPosted(h, persisted)
      PROVE  Posts(h)
  <2>1. At(h, "comment") /\ handler[h] # None /\ Goto(h, "react")
    BY <1>8 DEF CommentPosted, At
  <2>2. Others(h) /\ Stays(h) /\ \A place : At(h, place)' <=> place = "react"
    BY <2>1, Places, Awaits
  <2> QED
    BY <1>8, <2>1, <2>2 DEF CommentPosted, Recorded, Posts, Busy, Told
<1>9. ASSUME NEW h \in Handler, NEW created \in BOOLEAN, CommentFails(h, created)
      PROVE  Releases(h)
  <2>1. \/ comments' = comments
        \/ At(h, "comment") /\ comments' = Comment(ReplyAt(h), IssueOf(ReplyAt(h)), comments)
    BY <1>9 DEF CommentFails
  <2> QED
    BY <1>3, <1>4, <1>9, <2>1 DEF CommentFails, Busy, Told
<1>10. ASSUME NEW h \in Handler, NEW posted \in BOOLEAN, Finish(h, posted)
       PROVE  Quiet(h)
  <2>1. /\ handler[h] # None /\ handler[h].at \in Notice \cup {"react"} /\ Return(h)
        /\ UNCHANGED <<memory, stored, comments>>
    BY <1>10 DEF Finish
  <2>2. Others(h) /\ \A place : ~At(h, place)'
    BY <2>1, Places
  <2>3. ~Busy(h)
    BY <2>1 DEF Busy, At, Notice
  <2>4. \A r \in marked' : r \in marked \/ (At(h, "react") /\ r = ReplyAt(h))
    BY <1>10 DEF Finish, At
  <2>5. \A r : <<r, "already_relayed">> \in notices' =>
          <<r, "already_relayed">> \in notices \/ (At(h, "already_relayed") /\ r = ReplyAt(h))
    <3>1. notices' \subseteq notices \cup {<<ReplyAt(h), handler[h].at>>}
      BY <1>10 DEF Finish
    <3> QED
      BY <2>1, <3>1 DEF At
  <2> QED
    BY <2>1, <2>2, <2>3, <2>4, <2>5 DEF Quiet, Busy, memory
<1>11. ASSUME NEW created \in SUBSET Handler, Restart(created)
       PROVE  Dies
  <2>1. \A h \in Handler : handler'[h] = None
    BY <1>11 DEF Restart
  <2> QED
    BY <1>11, <2>1 DEF Restart, Dies, Told
<1>12. CASE UNCHANGED vars
  BY <1>12 DEF vars, memory, world, Nothing, Told
<1> QED
  BY <1>1, <1>2, <1>5, <1>6, <1>7, <1>8, <1>9, <1>10, <1>11, <1>12 DEF Next, Continue

-----------------------------------------------------------------------------
(* Claims *)

\* ClaimsAreHeld, handler by handler.
Exclusive ==
  /\ \A h \in Handler : Busy(h) =>
       ThreadAt(h) \in claimedThreads /\ relayedThreads[ThreadAt(h)] = None
  /\ \A g, h \in Handler : Busy(g) /\ Busy(h) /\ ThreadAt(g) = ThreadAt(h) => g = h
  /\ \A t \in Thread : t \in claimedThreads =>
       relayedThreads[t] # None \/ \E h \in Handler : Busy(h) /\ ThreadAt(h) = t

LEMMA OthersStay ==
  ASSUME NEW h, Others(h), NEW g \in Handler \ {h}
  PROVE  /\ \A place : At(g, place)' <=> At(g, place)
         /\ Busy(g)' <=> Busy(g)
         /\ ReplyAt(g)' = ReplyAt(g) /\ ThreadAt(g)' = ThreadAt(g)
BY DEF Others, At, Busy, ReplyAt, ThreadAt

LEMMA StepIsExclusive ==
  ASSUME TypedOK, Informed, Exclusive, [Next]_vars
  PROVE  Exclusive'
<1>1. ASSUME NEW h \in Handler, Quiet(h)
      PROVE  Exclusive'
  <2>1. \A g \in Handler : Busy(g)' <=> Busy(g)
    BY <1>1, OthersStay DEF Quiet
  <2>2. \A g \in Handler : Busy(g) => ThreadAt(g)' = ThreadAt(g)
    BY <1>1, OthersStay DEF Quiet
  <2> QED
    BY <1>1, <2>1, <2>2 DEF Quiet, Exclusive
<1>2. ASSUME NEW h \in Handler, Takes(h)
      PROVE  Exclusive'
  <2>1. \A g \in Handler : Busy(g)' <=> Busy(g) \/ g = h
    BY <1>2, OthersStay DEF Takes, Busy
  <2>2. \A g \in Handler : ThreadAt(g)' = ThreadAt(g)
    BY <1>2, OthersStay DEF Takes, Stays
  <2>3. /\ relayedThreads[ThreadAt(h)] = None /\ ThreadAt(h) \notin claimedThreads
        /\ claimedThreads' = claimedThreads \cup {ThreadAt(h)} /\ relayedThreads' = relayedThreads
    BY <1>2 DEF Takes
  <2> QED
    BY <2>1, <2>2, <2>3 DEF Exclusive
<1>3. ASSUME NEW h \in Handler, Finds(h)
      PROVE  Exclusive'
  <2>1. \A g \in Handler : Busy(g)' <=> Busy(g)
    BY <1>3, OthersStay DEF Finds, Busy
  <2>2. \A g \in Handler : ThreadAt(g)' = ThreadAt(g)
    BY <1>3, OthersStay DEF Finds, Stays
  <2> QED
    BY <1>3, <2>1, <2>2 DEF Finds, Exclusive
<1>4. ASSUME NEW h \in Handler, Releases(h)
      PROVE  Exclusive'
  <2>1. \A g \in Handler : Busy(g)' <=> Busy(g) /\ g # h
    BY <1>4, OthersStay DEF Releases
  <2>2. \A g \in Handler : Busy(g)' => ThreadAt(g)' = ThreadAt(g)
    BY <1>4, <2>1, OthersStay DEF Releases
  <2>3. /\ Busy(h) /\ claimedThreads' = claimedThreads \ {ThreadAt(h)}
        /\ relayedThreads' = relayedThreads
    BY <1>4 DEF Releases
  <2>4. \A t \in Thread : t \in claimedThreads' =>
          relayedThreads[t] # None \/ \E g \in Handler \ {h} : Busy(g) /\ ThreadAt(g) = t
    BY <2>3 DEF Exclusive
  <2> QED
    BY <2>1, <2>2, <2>3, <2>4 DEF Exclusive
<1>5. ASSUME NEW h \in Handler, Posts(h)
      PROVE  Exclusive'
  <2>1. \A g \in Handler : Busy(g)' <=> Busy(g) /\ g # h
    BY <1>5, OthersStay DEF Posts, Busy
  <2>2. \A g \in Handler : ThreadAt(g)' = ThreadAt(g)
    BY <1>5, OthersStay DEF Posts, Stays
  <2>3. Busy(h) /\ ThreadAt(h) \in Thread /\ IssueOf(ReplyAt(h)) \in Issue
    BY <1>5, Runs, Issues DEF Posts, Busy, Informed, Knows, At, TypedOK
  <2>4. /\ relayedThreads'[ThreadAt(h)] # None
        /\ \A t \in Thread \ {ThreadAt(h)} : relayedThreads'[t] = relayedThreads[t]
        /\ claimedThreads' = claimedThreads
    BY <1>5, <2>3, RelayConstants DEF Posts, TypedOK
  <2>5. \A g \in Handler \ {h} : Busy(g) => ThreadAt(g) # ThreadAt(h) /\ ThreadAt(g) \in Thread
    BY <2>3, Runs DEF Exclusive, Busy, At, TypedOK
  <2> QED
    BY <2>1, <2>2, <2>3, <2>4, <2>5 DEF Exclusive
<1>6. CASE Dies
  BY <1>6 DEF Dies, Exclusive, Busy, At
<1>7. CASE Nothing
  BY <1>7 DEF Nothing, Exclusive, Busy, At, ReplyAt, ThreadAt
<1> QED
  BY <1>1, <1>2, <1>3, <1>4, <1>5, <1>6, <1>7, Shapes

LEMMA AlwaysExclusive == Spec => []Exclusive
<1>1. Init => Exclusive
  BY DEF Init, Exclusive, Busy, At
<1> QED
  BY <1>1, StepIsExclusive, Typed, PTL DEF Spec

\* A claim excludes the other replies of its thread as long as one is being relayed,
\* and no claim outlives its handler (ClaimsAreHeld), for any number of handlers.
THEOREM HeldClaims == Spec => []ClaimsAreHeld
<1>1. ASSUME TypedOK, Exclusive
      PROVE  ClaimsAreHeld
  <2> SUFFICES ASSUME NEW t \in Thread
               PROVE  /\ Relaying(t) # {} => t \in claimedThreads /\ relayedThreads[t] = None
                      /\ Cardinality(Relaying(t)) <= 1
                      /\ t \in claimedThreads => Relaying(t) # {} \/ relayedThreads[t] # None
    BY DEF ClaimsAreHeld
  <2>1. Relaying(t) = {h \in Handler : Busy(h) /\ ThreadAt(h) = t}
    BY DEF Relaying, Busy
  <2>2. Relaying(t) # {} => t \in claimedThreads /\ relayedThreads[t] = None
    BY <1>1, <2>1 DEF Exclusive
  <2>3. t \in claimedThreads => Relaying(t) # {} \/ relayedThreads[t] # None
    BY <1>1, <2>1 DEF Exclusive
  <2>4. \A g, h \in Relaying(t) : g = h
    BY <1>1, <2>1 DEF Exclusive
  <2>5. CASE Relaying(t) = {}
    BY <2>2, <2>3, <2>5, FS_EmptySet
  <2>6. CASE Relaying(t) # {}
    <3>1. PICK h : Relaying(t) = {h}
      BY <2>4, <2>6
    <3>2. Cardinality(Relaying(t)) = 1
      BY <3>1, FS_Singleton
    <3> QED
      BY <2>2, <2>3, <3>2
  <2> QED
    BY <2>5, <2>6
<1> QED
  BY <1>1, AlwaysExclusive, Typed, PTL

-----------------------------------------------------------------------------
(* What the relay says is true *)

\* The thread has a comment.
Answered(t) == \E q \in RepliesIn(t), issue \in Issue : comments[<<q, issue>>] > 0

\* A handler about to say that it relayed its reply, or that another did, is right.
Sincere(h) ==
  /\ At(h, "react") => comments[<<ReplyAt(h), IssueOf(ReplyAt(h))>>] > 0
  /\ At(h, "already_relayed") => Answered(ThreadAt(h))

Recorder ==
  \A t \in Thread :
    /\ relayedThreads[t] # None => \E q \in RepliesIn(t) : comments[<<q, relayedThreads[t]>>] > 0
    /\ stored[t] # None => relayedThreads[t] = stored[t]

Honest ==
  /\ \A r \in marked : IssueOf(r) \in Issue /\ comments[<<r, IssueOf(r)>>] > 0
  /\ \A r \in Reply : <<r, "already_relayed">> \in notices => Answered(ThreadOf[r])
  /\ Recorder
  /\ \A h \in Handler : Sincere(h)

\* Comments are never taken back.
Growing ==
  \A q \in Reply, issue \in Issue : comments[<<q, issue>>] > 0 => comments'[<<q, issue>>] > 0

LEMMA Grows ==
  ASSUME TypedOK, Informed, [Next]_vars
  PROVE  Growing
<1>1. ASSUME UNCHANGED comments PROVE Growing
  BY <1>1 DEF Growing
<1>2. ASSUME NEW h \in Handler, At(h, "comment"),
             comments' = Comment(ReplyAt(h), IssueOf(ReplyAt(h)), comments)
      PROVE  Growing
  <2>1. ReplyAt(h) \in Reply /\ IssueOf(ReplyAt(h)) \in Issue
    BY <1>2, Runs, Issues DEF Informed, Knows, At, TypedOK
  <2>2. \A q \in Reply, i \in Issue : comments'[<<q, i>>] >= comments[<<q, i>>]
    BY <1>2, <2>1, Commented DEF TypedOK
  <2>3. \A q \in Reply, i \in Issue : comments'[<<q, i>>] \in Nat /\ comments[<<q, i>>] \in Nat
    BY StepIsTyped DEF TypedOK
  <2> QED
    BY <2>2, <2>3 DEF Growing
<1>3. ASSUME Dies PROVE Growing
  <2>1. \A q \in Reply, i \in Issue : comments'[<<q, i>>] >= comments[<<q, i>>]
    BY <1>3, CommentedLate DEF Dies, TypedOK
  <2>2. \A q \in Reply, i \in Issue : comments'[<<q, i>>] \in Nat /\ comments[<<q, i>>] \in Nat
    BY StepIsTyped DEF TypedOK
  <2> QED
    BY <2>1, <2>2 DEF Growing
<1> QED
  BY <1>1, <1>2, <1>3, Shapes DEF Quiet, Takes, Finds, Releases, Posts, Nothing

LEMMA StepIsHonest ==
  ASSUME TypedOK, Informed, Exclusive, Honest, [Next]_vars
  PROVE  Honest'
<1>1. Growing /\ TypedOK' /\ Informed'
  BY Grows, StepIsTyped
<1>2. \A t : Answered(t) => Answered(t)'
  BY <1>1 DEF Growing, Answered, RepliesIn
<1>3. ASSUME NEW h \in Handler, At(h, "comment") \/ At(h, "react")
      PROVE  ReplyAt(h) \in Reply /\ IssueOf(ReplyAt(h)) \in Issue /\ ThreadAt(h) \in Thread
             /\ ReplyAt(h) \in RepliesIn(ThreadAt(h))
  BY <1>3, Runs, Issues DEF Informed, Knows, At, TypedOK, RepliesIn, ThreadAt
<1>4. ASSUME NEW g \in Handler, \A place : At(g, place)' <=> At(g, place), ReplyAt(g)' = ReplyAt(g)
      PROVE  Sincere(g)'
  <2>1. ThreadAt(g)' = ThreadAt(g)
    BY <1>4 DEF ThreadAt
  <2>2. ASSUME At(g, "react")'
        PROVE  comments'[<<ReplyAt(g)', IssueOf(ReplyAt(g))'>>] > 0
    <3>1. At(g, "react") /\ comments[<<ReplyAt(g), IssueOf(ReplyAt(g))>>] > 0
      BY <1>4, <2>2 DEF Honest, Sincere
    <3>2. IssueOf(ReplyAt(g))' = IssueOf(ReplyAt(g))
      BY <1>4 DEF IssueOf, Resolution
    <3> QED
      BY <1>1, <1>3, <1>4, <3>1, <3>2 DEF Growing
  <2>3. At(g, "already_relayed")' => Answered(ThreadAt(g))'
    <3>1. PICK t : t = ThreadAt(g)
      OBVIOUS
    <3>2. Answered(t)' <=> Answered(ThreadAt(g))'
      BY <2>1, <3>1 DEF Answered
    <3> QED
      BY <1>2, <1>4, <3>1, <3>2 DEF Honest, Sincere
  <2> QED
    BY <2>1, <2>2, <2>3 DEF Sincere
<1>5. ASSUME UNCHANGED <<relayedThreads, stored>>
      PROVE  Recorder'
  <2> SUFFICES ASSUME NEW t \in Thread, relayedThreads[t] # None
               PROVE  \E q \in RepliesIn(t) : comments'[<<q, relayedThreads[t]>>] > 0
    BY <1>5 DEF Honest, Recorder, RepliesIn
  <2>1. relayedThreads[t] \in Issue
    BY DEF TypedOK
  <2>2. PICK q \in RepliesIn(t) : comments[<<q, relayedThreads[t]>>] > 0
    BY DEF Honest, Recorder
  <2> QED
    BY <1>1, <2>1, <2>2 DEF Growing, RepliesIn
<1>6. ASSUME UNCHANGED Told
      PROVE  /\ \A r \in marked' : IssueOf(r) \in Issue /\ comments'[<<r, IssueOf(r)>>] > 0
             /\ \A r \in Reply : <<r, "already_relayed">> \in notices' => Answered(ThreadOf[r])'
  <2>1. marked \subseteq Reply
    BY DEF TypedOK
  <2> QED
    BY <1>1, <1>2, <1>6, <2>1 DEF Honest, Growing, Told
<1>7. ASSUME NEW h \in Handler, Others(h), Sincere(h)'
      PROVE  \A g \in Handler : Sincere(g)'
  BY <1>4, <1>7, OthersStay
<1>8. ASSUME NEW h \in Handler, Quiet(h)
      PROVE  Honest'
  <2>1. Sincere(h)'
    <3>1. ASSUME At(h, "already_relayed")'
          PROVE  Answered(ThreadAt(h)')
      <4>1. ThreadAt(h)' \in Thread /\ relayedThreads[ThreadAt(h)'] # None
        BY <1>8, <3>1 DEF Quiet
      <4>2. relayedThreads[ThreadAt(h)'] \in Issue
        BY <4>1 DEF TypedOK
      <4> QED
        BY <4>1, <4>2 DEF Honest, Recorder, Answered
    <3> QED
      BY <1>2, <1>8, <3>1 DEF Quiet, Sincere
  <2>2. \A r \in marked' : IssueOf(r) \in Issue /\ comments'[<<r, IssueOf(r)>>] > 0
    <3> SUFFICES ASSUME NEW r \in marked'
                 PROVE  IssueOf(r) \in Issue /\ comments'[<<r, IssueOf(r)>>] > 0
      OBVIOUS
    <3>1. r \in Reply
      BY <1>1 DEF TypedOK
    <3>2. IssueOf(r) \in Issue /\ comments[<<r, IssueOf(r)>>] > 0
      <4>1. CASE r \in marked
        BY <4>1 DEF Honest
      <4>2. CASE At(h, "react") /\ r = ReplyAt(h)
        BY <1>3, <4>2 DEF Honest, Sincere
      <4> QED
        BY <1>8, <4>1, <4>2 DEF Quiet
    <3> QED
      BY <1>1, <3>1, <3>2 DEF Growing
  <2>3. \A r \in Reply : <<r, "already_relayed">> \in notices' => Answered(ThreadOf[r])'
    <3> SUFFICES ASSUME NEW r \in Reply, <<r, "already_relayed">> \in notices'
                 PROVE  Answered(ThreadOf[r])
      BY <1>2
    <3>1. CASE <<r, "already_relayed">> \in notices
      BY <3>1 DEF Honest
    <3>2. CASE At(h, "already_relayed") /\ r = ReplyAt(h)
      BY <3>2 DEF Honest, Sincere, ThreadAt
    <3> QED
      BY <1>8, <3>1, <3>2 DEF Quiet
  <2>4. Recorder'
    BY <1>5, <1>8 DEF Quiet
  <2> QED
    BY <1>7, <1>8, <2>1, <2>2, <2>3, <2>4 DEF Quiet, Honest
<1>9. ASSUME NEW h \in Handler, Takes(h) \/ Finds(h) \/ Releases(h)
      PROVE  Honest'
  <2>1. Others(h) /\ Sincere(h)' /\ UNCHANGED <<relayedThreads, stored, Told>>
    BY <1>9 DEF Takes, Finds, Releases, Sincere
  <2> QED
    BY <1>5, <1>6, <1>7, <2>1 DEF Honest
<1>10. ASSUME NEW h \in Handler, Posts(h)
       PROVE  Honest'
  <2>1. /\ At(h, "comment") /\ Busy(h) /\ ThreadAt(h) \in Thread /\ ReplyAt(h) \in Reply
        /\ IssueOf(ReplyAt(h)) \in Issue /\ ReplyAt(h) \in RepliesIn(ThreadAt(h))
    BY <1>3, <1>10 DEF Posts, Busy
  <2>2. comments'[<<ReplyAt(h), IssueOf(ReplyAt(h))>>] > 0
    BY <1>10, <2>1, Commented DEF Posts, TypedOK
  <2>3. Sincere(h)'
    <3>1. ReplyAt(h)' = ReplyAt(h) /\ ~At(h, "already_relayed")'
      BY <1>10 DEF Posts, Stays
    <3>2. IssueOf(ReplyAt(h))' = IssueOf(ReplyAt(h))
      BY <3>1 DEF IssueOf, Resolution
    <3> QED
      BY <2>2, <3>1, <3>2 DEF Sincere
  <2>4. Recorder'
    <3>1. /\ relayedThreads'[ThreadAt(h)] = IssueOf(ReplyAt(h))
          /\ \A t \in Thread \ {ThreadAt(h)} : relayedThreads'[t] = relayedThreads[t]
      BY <1>10, <2>1 DEF Posts, TypedOK
    <3>2. stored[ThreadAt(h)] = None
      BY <2>1 DEF Honest, Recorder, Exclusive
    <3>3. ASSUME NEW t \in Thread
          PROVE  stored'[t] # None => relayedThreads'[t] = stored'[t]
      BY <1>10, <3>1, <3>2 DEF Posts, Honest, Recorder
    <3>4. ASSUME NEW t \in Thread, relayedThreads'[t] # None
          PROVE  \E q \in RepliesIn(t) : comments'[<<q, relayedThreads'[t]>>] > 0
      <4>1. CASE t = ThreadAt(h)
        BY <2>1, <2>2, <3>1, <4>1
      <4>2. CASE t # ThreadAt(h)
        <5>1. relayedThreads'[t] = relayedThreads[t] /\ relayedThreads[t] \in Issue
          BY <3>1, <3>4, <4>2 DEF TypedOK
        <5>2. PICK q \in RepliesIn(t) : comments[<<q, relayedThreads[t]>>] > 0
          BY <3>4, <5>1 DEF Honest, Recorder
        <5> QED
          BY <1>1, <5>1, <5>2 DEF Growing, RepliesIn
      <4> QED
        BY <4>1, <4>2
    <3> QED
      BY <3>3, <3>4 DEF Recorder, RepliesIn
  <2> QED
    BY <1>6, <1>7, <1>10, <2>3, <2>4 DEF Posts, Honest
<1>11. CASE Dies
  <2>1. \A h \in Handler : Sincere(h)'
    BY <1>11 DEF Dies, Sincere, At
  <2>2. relayedThreads' = stored /\ stored' = stored /\ UNCHANGED Told
    BY <1>11 DEF Dies
  <2>3. ASSUME NEW t \in Thread, stored[t] # None
        PROVE  \E q \in RepliesIn(t) : comments'[<<q, stored[t]>>] > 0
    <3>1. relayedThreads[t] = stored[t] /\ stored[t] \in Issue
      BY <2>3 DEF Honest, Recorder, TypedOK
    <3>2. PICK q \in RepliesIn(t) : comments[<<q, stored[t]>>] > 0
      BY <2>3, <3>1 DEF Honest, Recorder
    <3> QED
      BY <1>1, <3>1, <3>2 DEF Growing, RepliesIn
  <2>4. Recorder'
    BY <2>2, <2>3 DEF Recorder, RepliesIn
  <2> QED
    BY <1>6, <2>1, <2>2, <2>4 DEF Honest
<1>12. CASE Nothing
  <2>1. ASSUME NEW g \in Handler
        PROVE  (\A place : At(g, place)' <=> At(g, place)) /\ ReplyAt(g)' = ReplyAt(g)
    BY <1>12 DEF Nothing, At, ReplyAt
  <2>2. \A g \in Handler : Sincere(g)'
    BY <1>4, <2>1
  <2> QED
    BY <1>5, <1>6, <1>12, <2>2 DEF Nothing, Honest
<1> QED
  BY <1>8, <1>9, <1>10, <1>11, <1>12, Shapes

LEMMA AlwaysHonest == Spec => []Honest
<1>1. Init => Honest
  BY DEF Init, Honest, Recorder, Sincere, At
<1> QED
  BY <1>1, StepIsHonest, Typed, AlwaysExclusive, PTL DEF Spec

\* The relay only says that a reply was relayed, in a reaction, in a notice or in its
\* file, when its comment is on the issue (SuccessIsReal), through crashes and
\* failed writes.
THEOREM RealSuccess == Spec => []SuccessIsReal
<1>1. Honest => SuccessIsReal
  BY DEF Honest, Recorder, SuccessIsReal, Answered
<1> QED
  BY <1>1, AlwaysHonest, PTL

-----------------------------------------------------------------------------
(* Comments are on topic *)

\* Every comment is where its own reply, alone with the first message of its thread,
\* resolves to.
OnTopic ==
  \A r \in Reply, issue \in Issue : comments[<<r, issue>>] > 0 =>
    r \in Relayable /\ ThreadOf[r] \in BotThread /\ Resolution(r) = {issue}

LEMMA StepIsOnTopic ==
  ASSUME TypedOK, Informed, OnTopic, [Next]_vars
  PROVE  OnTopic'
<1>1. ASSUME NEW h \in Handler, At(h, "comment")
      PROVE  /\ ReplyAt(h) \in Reply /\ IssueOf(ReplyAt(h)) \in Issue
             /\ ReplyAt(h) \in Relayable /\ ThreadOf[ReplyAt(h)] \in BotThread
             /\ Resolution(ReplyAt(h)) = {IssueOf(ReplyAt(h))}
  BY <1>1, Runs, Issues DEF Informed, Knows, At, TypedOK, ThreadAt
<1>2. ASSUME UNCHANGED comments PROVE OnTopic'
  BY <1>2 DEF OnTopic, Resolution
<1>3. ASSUME \A q \in Reply, i \in Issue : comments'[<<q, i>>] > 0 =>
               \/ comments[<<q, i>>] > 0
               \/ \E h \in Handler : At(h, "comment") /\ q = ReplyAt(h) /\ i = IssueOf(ReplyAt(h))
      PROVE  OnTopic'
  <2>1. \A q \in Reply, i \in Issue : comments'[<<q, i>>] > 0 =>
          q \in Relayable /\ ThreadOf[q] \in BotThread /\ Resolution(q) = {i}
    BY <1>1, <1>3 DEF OnTopic
  <2> QED
    BY <2>1 DEF OnTopic, Resolution
<1>4. ASSUME NEW h \in Handler, At(h, "comment"),
             comments' = Comment(ReplyAt(h), IssueOf(ReplyAt(h)), comments)
      PROVE  OnTopic'
  BY <1>1, <1>3, <1>4, Commented DEF TypedOK
<1>5. ASSUME Dies PROVE OnTopic'
  <2>1. PICK created \in SUBSET Handler :
          /\ \A h \in created : At(h, "comment")
          /\ comments' = [x \in Reply \X Issue |-> comments[x] +
               Cardinality({h \in created : x = <<ReplyAt(h), IssueOf(ReplyAt(h))>>})]
    BY <1>5 DEF Dies
  <2>2. \A q \in Reply, i \in Issue : comments'[<<q, i>>] > 0 =>
          \/ comments[<<q, i>>] > 0
          \/ \E h \in created : q = ReplyAt(h) /\ i = IssueOf(ReplyAt(h))
    BY <2>1, CommentedLate DEF TypedOK
  <2>3. created \subseteq Handler
    BY <2>1
  <2>4. \A q \in Reply, i \in Issue : comments'[<<q, i>>] > 0 =>
          \/ comments[<<q, i>>] > 0
          \/ \E h \in Handler : At(h, "comment") /\ q = ReplyAt(h) /\ i = IssueOf(ReplyAt(h))
    BY <2>1, <2>2, <2>3
  <2> QED
    BY <1>3, <2>4
<1> QED
  BY <1>2, <1>4, <1>5, Shapes DEF Quiet, Takes, Finds, Releases, Posts, Nothing

LEMMA AlwaysOnTopic == Spec => []OnTopic
<1>1. Init => OnTopic
  BY DEF Init, OnTopic
<1> QED
  BY <1>1, StepIsOnTopic, Typed, PTL DEF Spec

\* A comment only goes to an issue its thread links, for a reply the filter lets
\* through, and to the one the reply names if it names any (CommentsAreOnTopic), for
\* any messages.
THEOREM TopicalComments == Spec => []CommentsAreOnTopic
<1>1. ASSUME OnTopic
      PROVE  CommentsAreOnTopic
  <2> SUFFICES ASSUME NEW r \in Reply, NEW issue \in Issue, comments[<<r, issue>>] > 0
               PROVE  /\ r \in Relayable /\ ThreadOf[r] \in BotThread
                      /\ issue \in Candidates(Nudge[ThreadOf[r]])
                      /\ Text[r].mentions \cap Candidates(Nudge[ThreadOf[r]]) # {}
                         /\ Cardinality(Candidates(Nudge[ThreadOf[r]])) > 1 =>
                           Text[r].mentions \cap Candidates(Nudge[ThreadOf[r]]) = {issue}
    BY DEF CommentsAreOnTopic
  <2>1. r \in Relayable /\ ThreadOf[r] \in BotThread /\ Resolution(r) = {issue}
    BY <1>1 DEF OnTopic
  <2>2. issue \in Candidates(Nudge[ThreadOf[r]])
    BY <2>1, Issues
  <2>3. Cardinality(Candidates(Nudge[ThreadOf[r]])) \in Nat
    BY Issues, RelayConstants, FS_Subset, FS_CardinalityType
  <2>4. Text[r].mentions \cap Candidates(Nudge[ThreadOf[r]]) # {}
        /\ Cardinality(Candidates(Nudge[ThreadOf[r]])) > 1 =>
          Resolution(r) = Text[r].mentions \cap Candidates(Nudge[ThreadOf[r]])
    BY <2>3 DEF Resolution, ResolveIssueNumber
  <2> QED
    BY <2>1, <2>2, <2>4
<1> QED
  BY <1>1, AlwaysOnTopic, PTL

-----------------------------------------------------------------------------
(* Duplicates *)

Answering(t) == RepliesIn(t) \X Issue

\* A record in the file pays for one comment, and a fault for one more.
Paid(t) == IF stored[t] = None THEN faults ELSE faults + 1

Bounded ==
  \A t \in Thread : IsFiniteSet(Posted(t)) /\ Cardinality(Posted(t)) <= Paid(t)

\* At most one comment more is at most one element more of Posted.
LEMMA OneMore ==
  ASSUME comments \in [Reply \X Issue -> Nat], comments' \in [Reply \X Issue -> Nat],
         NEW t, IsFiniteSet(Posted(t)), NEW x \in Answering(t),
         comments'[x] \in {comments[x], comments[x] + 1},
         \A y \in Answering(t) \ {x} : comments'[y] = comments[y]
  PROVE  IsFiniteSet(Posted(t)') /\ Cardinality(Posted(t)') <= Cardinality(Posted(t)) + 1
<1>1. \A y \in Answering(t) : comments[y] \in Nat
  BY DEF Answering, RepliesIn
<1>2. PICK n \in Nat : n = comments[x] + 1
  BY <1>1
<1>3. ASSUME NEW p \in Posted(t)', p # <<x, n>>
      PROVE  p \in Posted(t)
  <2>1. PICK y \in Answering(t) : p \in {y} \X (1..comments'[y])
    BY <1>3 DEF Posted, Answering, RepliesIn
  <2>2. PICK k \in 1..comments'[y] : p = <<y, k>>
    BY <2>1
  <2>3. k \in 1..comments[y]
    BY <1>1, <1>2, <1>3, <2>2
  <2> QED
    BY <2>2, <2>3 DEF Posted, Answering
<1>4. PICK S : S = Posted(t) \cup {<<x, n>>}
  OBVIOUS
<1>5. /\ IsFiniteSet(S) /\ Cardinality(S) \in Nat /\ Cardinality(Posted(t)) \in Nat
      /\ Cardinality(S) <= Cardinality(Posted(t)) + 1
  <2>1. /\ IsFiniteSet(S)
        /\ Cardinality(S) \in {Cardinality(Posted(t)), Cardinality(Posted(t)) + 1}
    BY <1>4, FS_AddElement
  <2>2. Cardinality(Posted(t)) \in Nat
    BY FS_CardinalityType
  <2> QED
    BY <2>1, <2>2
<1>6. Posted(t)' \in SUBSET S
  BY <1>3, <1>4
<1>7. /\ IsFiniteSet(Posted(t)') /\ Cardinality(Posted(t)') <= Cardinality(S)
      /\ Cardinality(Posted(t)') \in Nat
  BY <1>5, <1>6, FS_Subset, FS_CardinalityType
<1> QED
  BY <1>5, <1>7

LEMMA NoMore ==
  ASSUME NEW t, \A y \in Answering(t) : comments'[y] = comments[y]
  PROVE  Posted(t)' = Posted(t)
BY DEF Posted, Answering, RepliesIn

\* What a step costs.
Writes(h) ==
  /\ At(h, "comment")
  /\ comments' = Comment(ReplyAt(h), IssueOf(ReplyAt(h)), comments)
  /\ \/ /\ stored' = [relayedThreads EXCEPT ![ThreadAt(h)] = IssueOf(ReplyAt(h))]
        /\ faults' = faults
     \/ stored' = stored /\ faults' = faults + 1

Free == UNCHANGED <<comments, stored, faults>>

LEMMA Costs ==
  ASSUME [Next]_vars
  PROVE  \/ Free
         \/ \E h \in Handler : Writes(h)
         \/ Dies /\ faults' = faults + 1
<1>1. ASSUME NEW h \in Handler, Continue(h)
      PROVE  Free \/ Writes(h)
  <2>1. ASSUME NEW heard \in BOOLEAN, Acknowledged(h, heard)
        PROVE  Free
    BY <2>1 DEF Acknowledged, world, Free
  <2>2. FetchFails(h) \/ StepAside(h) \/ FetchAnswers(h) => Free
    BY DEF FetchFails, StepAside, FetchAnswers, GiveUp, world, Free
  <2>3. ASSUME NEW persisted \in BOOLEAN, CommentPosted(h, persisted)
        PROVE  Writes(h)
    BY <2>3 DEF CommentPosted, Recorded, Fault, Writes
  <2>4. ASSUME NEW created \in BOOLEAN, CommentFails(h, created)
        PROVE  Free \/ Writes(h)
    BY <2>4 DEF CommentFails, GiveUp, Fault, Free, Writes
  <2>5. ASSUME NEW posted \in BOOLEAN, Finish(h, posted)
        PROVE  Free
    BY <2>5 DEF Finish, Free
  <2> QED
    BY <1>1, <2>1, <2>2, <2>3, <2>4, <2>5 DEF Continue
<1>2. ASSUME NEW h \in Handler, NEW r \in Reply, Deliver(h, r)
      PROVE  Free
  BY <1>2 DEF Deliver, world, Free
<1>3. ASSUME NEW created \in SUBSET Handler, Restart(created)
      PROVE  Dies /\ faults' = faults + 1
  <2>1. \A h \in Handler : handler'[h] = None
    BY <1>3 DEF Restart
  <2> QED
    BY <1>3, <2>1 DEF Restart, Fault, Dies, Told
<1>4. UNCHANGED vars => Free
  BY DEF vars, world, Free
<1> QED
  BY <1>1, <1>2, <1>3, <1>4 DEF Next

LEMMA StepIsBounded ==
  ASSUME TypedOK, Informed, Exclusive, Honest, Bounded, [Next]_vars
  PROVE  Bounded'
<1>1. TypedOK' /\ faults \in Nat /\ faults' \in Nat
  BY StepIsTyped, RelayConstants DEF TypedOK
<1>2. \A t \in Thread : Cardinality(Posted(t)) \in Nat
  BY FS_CardinalityType DEF Bounded
<1>3. CASE Free
  BY <1>3 DEF Free, Bounded, Paid, Posted, RepliesIn
<1>4. ASSUME NEW h \in Handler, Writes(h)
      PROVE  Bounded'
  <2> SUFFICES ASSUME NEW t \in Thread
               PROVE  IsFiniteSet(Posted(t)') /\ Cardinality(Posted(t)') <= Paid(t)'
    BY DEF Bounded
  <2>1. PICK r \in Reply, issue \in Issue, s \in Thread :
          /\ r = ReplyAt(h) /\ issue = IssueOf(r) /\ s = ThreadAt(h) /\ ThreadOf[r] = s
    BY <1>4, Runs, Issues DEF Writes, Informed, Knows, At, ThreadAt, TypedOK
  <2>2. comments' = [comments EXCEPT ![<<r, issue>>] = @ + 1]
    BY <1>4, <2>1 DEF Writes, Comment
  <2>3. <<r, issue>> \in Reply \X Issue /\ \A x \in Reply \X Issue : comments[x] \in Nat
    BY DEF TypedOK
  <2>4. relayedThreads[s] = None /\ stored[s] = None
    BY <1>4, <2>1 DEF Writes, Exclusive, Busy, Honest, Recorder
  <2>5. CASE t = s
    <3>1. <<r, issue>> \in Answering(t)
      BY <2>1, <2>5 DEF Answering, RepliesIn
    <3>2. /\ comments'[<<r, issue>>] \in {comments[<<r, issue>>], comments[<<r, issue>>] + 1}
          /\ \A y \in Answering(t) \ {<<r, issue>>} : comments'[y] = comments[y]
      BY <2>2, <2>3 DEF Answering, RepliesIn, TypedOK
    <3>3. IsFiniteSet(Posted(t)') /\ Cardinality(Posted(t)') <= Cardinality(Posted(t)) + 1
      BY <1>1, <3>1, <3>2, OneMore DEF TypedOK, Bounded
    <3>4. Cardinality(Posted(t)) + 1 <= Paid(t)'
      <4>1. Cardinality(Posted(t)) <= faults
        BY <1>1, <1>2, <2>4, <2>5 DEF Bounded, Paid
      <4>2. CASE stored'[s] = issue /\ faults' = faults
        BY <1>1, <1>2, <2>5, <4>1, <4>2, RelayConstants DEF Paid
      <4>3. CASE faults' = faults + 1
        BY <1>1, <1>2, <4>1, <4>3 DEF Paid
      <4> QED
        BY <1>4, <2>1, <4>2, <4>3 DEF Writes, TypedOK
    <3>5. Cardinality(Posted(t)') \in Nat
      BY <3>3, FS_CardinalityType
    <3>6. Paid(t)' \in Nat
      <4>1. PICK f \in Nat : f = faults'
        BY <1>1
      <4>2. Paid(t)' \in {f, f + 1}
        BY <4>1, Zenon DEF Paid
      <4> QED
        BY <4>1, <4>2
    <3> QED
      BY <1>2, <3>3, <3>4, <3>5, <3>6
  <2>6. CASE t # s
    <3>1. \A y \in Answering(t) : comments'[y] = comments[y]
      BY <2>1, <2>2, <2>6 DEF Answering, RepliesIn, TypedOK
    <3>2. Posted(t)' = Posted(t)
      BY <3>1, NoMore
    <3>3. Paid(t) <= Paid(t)'
      <4>1. stored[t] # None => stored'[t] # None
        BY <1>4, <2>1, <2>6 DEF Writes, Honest, Recorder, TypedOK
      <4>2. faults' \in {faults, faults + 1}
        BY <1>4 DEF Writes
      <4>3. CASE stored'[t] = None
        BY <1>1, <4>1, <4>2, <4>3 DEF Paid
      <4>4. CASE stored'[t] # None
        BY <1>1, <4>2, <4>4 DEF Paid
      <4> QED
        BY <4>3, <4>4
    <3>4. Paid(t) \in Nat /\ Paid(t)' \in Nat
      BY <1>1 DEF Paid
    <3> QED
      BY <1>2, <3>2, <3>3, <3>4 DEF Bounded
  <2> QED
    BY <2>5, <2>6
<1>5. ASSUME Dies, faults' = faults + 1
      PROVE  Bounded'
  <2> SUFFICES ASSUME NEW t \in Thread
               PROVE  IsFiniteSet(Posted(t)') /\ Cardinality(Posted(t)') <= Paid(t)'
    BY DEF Bounded
  <2>1. PICK created \in SUBSET Handler :
          /\ \A h \in created : At(h, "comment")
          /\ comments' = [x \in Reply \X Issue |-> comments[x] +
               Cardinality({h \in created : x = <<ReplyAt(h), IssueOf(ReplyAt(h))>>})]
    BY <1>5 DEF Dies
  <2>2. Paid(t)' = Paid(t) + 1 /\ Paid(t) \in Nat
    BY <1>1, <1>5 DEF Dies, Paid
  <2> DEFINE Late(x) == {h \in created : x = <<ReplyAt(h), IssueOf(ReplyAt(h))>>}
  <2>3. \A x \in Answering(t) : comments[x] \in Nat /\ comments'[x] = comments[x] + Cardinality(Late(x))
    BY <2>1 DEF Answering, RepliesIn, TypedOK
  <2>4. \A x \in Answering(t) : \A h \in Late(x) : Busy(h) /\ ThreadAt(h) = t /\ h \in Handler
    BY <2>1 DEF Answering, RepliesIn, Busy, ThreadAt
  <2>5. CASE \A x \in Answering(t) : Late(x) = {}
    <3>1. \A x \in Answering(t) : comments'[x] = comments[x]
      BY <2>3, <2>5, FS_EmptySet
    <3> QED
      BY <1>2, <2>2, <3>1, NoMore DEF Bounded
  <2>6. ASSUME NEW x \in Answering(t), Late(x) # {}
        PROVE  IsFiniteSet(Posted(t)') /\ Cardinality(Posted(t)') <= Paid(t)'
    <3>1. PICK h \in Handler : h \in Late(x)
      BY <2>4, <2>6
    <3>2. Late(x) = {h}
      BY <2>4, <3>1 DEF Exclusive
    <3>3. \A y \in Answering(t) \ {x} : Late(y) = {}
      BY <2>4, <3>1 DEF Exclusive
    <3>4. comments'[x] = comments[x] + 1
      BY <2>3, <3>2, FS_Singleton
    <3>5. \A y \in Answering(t) \ {x} : comments'[y] = comments[y]
      BY <2>3, <3>3, FS_EmptySet
    <3>6. IsFiniteSet(Posted(t)') /\ Cardinality(Posted(t)') <= Cardinality(Posted(t)) + 1
      BY <1>1, <3>4, <3>5, OneMore DEF TypedOK, Bounded
    <3>7. Cardinality(Posted(t)') \in Nat
      BY <3>6, FS_CardinalityType
    <3> QED
      BY <1>2, <2>2, <3>6, <3>7 DEF Bounded
  <2> QED
    BY <2>5, <2>6
<1> QED
  BY <1>3, <1>4, <1>5, Costs

LEMMA AlwaysBounded == Spec => []Bounded
<1>1. Init => Bounded
  <2> SUFFICES ASSUME Init, NEW t \in Thread
               PROVE  IsFiniteSet(Posted(t)) /\ Cardinality(Posted(t)) <= Paid(t)
    BY DEF Bounded
  <2>1. \A x \in Answering(t) : comments[x] = 0
    BY DEF Init, Answering, RepliesIn
  <2>2. Posted(t) = {}
    BY <2>1 DEF Posted, Answering
  <2> QED
    BY <2>2, FS_EmptySet DEF Init, Paid
<1> QED
  BY <1>1, StepIsBounded, Typed, AlwaysExclusive, AlwaysHonest, PTL DEF Spec

\* However often replies are delivered and however many handlers run at once, a thread
\* gets at most one comment more than there were crashes, lost answers and failed
\* writes (DuplicatesNeedFaults).
THEOREM FewDuplicates == Spec => []DuplicatesNeedFaults
<1>1. ASSUME TypedOK, Bounded
      PROVE  DuplicatesNeedFaults
  <2> SUFFICES ASSUME NEW t \in Thread
               PROVE  CommentsFrom(t) <= 1 + faults
    BY DEF DuplicatesNeedFaults
  <2>1. faults \in Nat /\ Cardinality(Posted(t)) \in Nat
    BY <1>1, RelayConstants, FS_CardinalityType DEF TypedOK, Bounded
  <2> QED
    BY <1>1, <2>1 DEF Bounded, Paid, CommentsFrom
<1> QED
  BY <1>1, AlwaysBounded, Typed, PTL

=============================================================================
