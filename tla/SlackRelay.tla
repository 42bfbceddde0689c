----------------------------- MODULE SlackRelay -----------------------------
(***************************************************************************)
(* slack-relay: replies of the product manager in a Slack thread started   *)
(* by a bot become one comment on the GitHub issue the thread links.       *)
(*                                                                         *)
(* A handler is one run of handleSocketMessage.  JavaScript runs it        *)
(* without interruption from one await to the next, so an action is the    *)
(* code between two awaits, and handler[h].at names the await it is at:    *)
(* "ack", "fetch" (fetchThreadParent), "comment" (postIssueComment),       *)
(* "react" (addReaction) or the notice it is posting in the thread.        *)
(*                                                                         *)
(* Slack and GitHub are external.  Slack delivers a reply again while it   *)
(* has not heard its acknowledgement.  A comment may have been created     *)
(* although its request failed, or although the process died waiting for   *)
(* the answer.  The process may die at any time (an ack() that rejects is  *)
(* caught nowhere, for one) and starts again from the file DedupeStore     *)
(* renames into place.                                                     *)
(***************************************************************************)
EXTENDS LinkResolver

CONSTANTS
  Reply,         \* the replies, by event_id
  Thread,        \* their threads, by thread_ts
  Issue,         \* the issues of the configured repository
  ThreadOf,      \* the thread each reply is in
  Text,          \* what resolveIssueNumber sees of each reply
  Relayable,     \* the replies filterEvent lets through
  BotThread,     \* the threads a bot started
  Nudge,         \* the message that started each thread, as lines
  Handler,       \* handlers that can run at once (bounds the model)
  MaxDeliveries, \* deliveries of one reply (bounds the model)
  MaxFaults,     \* crashes, lost answers and failed writes (bounds the model)
  None           \* no handler, no issue

Notice ==
  {"already_relayed", "concurrent_reply_in_progress", "thread_lookup_failed",
   "no_issue_link_found", "ambiguous", "relay_failed"}

Await == {"ack", "fetch", "comment", "react"} \cup Notice

ASSUME RelayConstants ==
  /\ ThreadOf \in [Reply -> Thread]
  /\ \A r \in Reply : Text[r].mentions \subseteq Issue
  /\ Relayable \subseteq Reply /\ BotThread \subseteq Thread
  /\ \A t \in Thread : Candidates(Nudge[t]) \subseteq Issue
  /\ None \notin Issue \cup [reply: Reply, at: Await]
  /\ IsFiniteSet(Issue) /\ IsFiniteSet(Handler)
  /\ MaxDeliveries \in Nat /\ MaxFaults \in Nat

VARIABLES
  deliveries,  \* how often Slack delivered each reply
  acked,       \* the replies whose acknowledgement Slack heard
  handler,     \* the handlers at an await, or None
  seenEventIds, claimedThreads, \* DedupeStore, in memory
  relayedThreads, \* DedupeStore, in memory: the issue of each thread, or None
  stored,      \* the same in the file at storePath
  comments,    \* how often each reply was posted on each issue
  notices,     \* the notices posted in the threads, by the reply they answer
  marked,      \* the replies that carry the confirmation reaction
  faults       \* the number of faults so far

memory == <<seenEventIds, claimedThreads, relayedThreads>>
world == <<comments, notices, marked>>
vars == <<deliveries, acked, handler, memory, stored, world, faults>>

-----------------------------------------------------------------------------

At(h, await) == handler[h] # None /\ handler[h].at = await

ReplyAt(h) == handler[h].reply

ThreadAt(h) == ThreadOf[ReplyAt(h)]

Goto(h, await) == handler' = [handler EXCEPT ![h].at = await]

Return(h) == handler' = [handler EXCEPT ![h] = None]

\* Mutant: replies in one thread do not exclude each other.
IsClaimed_Never(t) == t \notin Thread

IsClaimed(t) == t \in claimedThreads

\* Mutant: the claim is kept.
ReleaseClaim_Kept(t) == UNCHANGED claimedThreads

ReleaseClaim(t) == claimedThreads' = claimedThreads \ {t}

\* Mutant: response.ok is not tested, nothing was posted.
Comment_Unchecked(r, issue, before) == before

\* The reply is on the issue once more.
Comment(r, issue, before) == [before EXCEPT ![<<r, issue>>] = @ + 1]

Fault == faults < MaxFaults /\ faults' = faults + 1

-----------------------------------------------------------------------------
(* From one await to the next *)

Deliver(h, r) ==
  /\ handler[h] = None
  /\ r \notin acked
  /\ deliveries[r] < MaxDeliveries
  /\ deliveries' = [deliveries EXCEPT ![r] = @ + 1]
  /\ handler' = [handler EXCEPT ![h] = [reply |-> r, at |-> "ack"]]
  /\ UNCHANGED <<acked, memory, stored, world, faults>>

\* isDuplicateEvent found the event.
DismissDuplicate(h) ==
  /\ ReplyAt(h) \in seenEventIds
  /\ Return(h)
  /\ UNCHANGED memory

IgnoreEvent(h) ==
  /\ ReplyAt(h) \notin seenEventIds \cup Relayable
  /\ seenEventIds' = seenEventIds \cup {ReplyAt(h)}
  /\ Return(h)
  /\ UNCHANGED <<claimedThreads, relayedThreads>>

RefuseReply(h) ==
  LET t == ThreadAt(h) IN
  /\ ReplyAt(h) \in Relayable \ seenEventIds
  /\ seenEventIds' = seenEventIds \cup {ReplyAt(h)}
  /\ \/ relayedThreads[t] # None /\ Goto(h, "already_relayed")
     \/ relayedThreads[t] = None /\ IsClaimed(t) /\ Goto(h, "concurrent_reply_in_progress")
  /\ UNCHANGED <<claimedThreads, relayedThreads>>

TakeReply(h) ==
  LET t == ThreadAt(h) IN
  /\ ReplyAt(h) \in Relayable \ seenEventIds
  /\ seenEventIds' = seenEventIds \cup {ReplyAt(h)}
  /\ relayedThreads[t] = None
  /\ ~IsClaimed(t)
  /\ claimedThreads' = claimedThreads \cup {t}
  /\ Goto(h, "fetch")
  /\ UNCHANGED relayedThreads

\* ack() resolved, whether or not Slack hears it; the rest runs up to an await.
Acknowledged(h, heard) ==
  /\ At(h, "ack")
  /\ acked' = IF heard THEN acked \cup {ReplyAt(h)} ELSE acked
  /\ DismissDuplicate(h) \/ IgnoreEvent(h) \/ RefuseReply(h) \/ TakeReply(h)
  /\ UNCHANGED <<deliveries, stored, world, faults>>

GiveUp(h, notice) ==
  /\ ReleaseClaim(ThreadAt(h))
  /\ Goto(h, notice)
  /\ UNCHANGED <<deliveries, acked, seenEventIds, relayedThreads, stored>>

FetchFails(h) ==
  /\ At(h, "fetch")
  /\ GiveUp(h, "thread_lookup_failed")
  /\ UNCHANGED <<world, faults>>

\* A thread no bot started is left alone without a notice.
StepAside(h) ==
  /\ At(h, "fetch")
  /\ ThreadAt(h) \notin BotThread
  /\ ReleaseClaim(ThreadAt(h))
  /\ Return(h)
  /\ UNCHANGED <<deliveries, acked, seenEventIds, relayedThreads, stored, world, faults>>

Resolution(r) == ResolveIssueNumber(Nudge[ThreadOf[r]], Text[r])

FetchAnswers(h) ==
  LET n == Cardinality(Resolution(ReplyAt(h))) IN
  /\ At(h, "fetch")
  /\ ThreadAt(h) \in BotThread
  /\ \/ n = 0 /\ GiveUp(h, "no_issue_link_found")
     \/ n > 1 /\ GiveUp(h, "ambiguous")
     \/ /\ n = 1
        /\ Goto(h, "comment")
        /\ UNCHANGED <<deliveries, acked, memory, stored>>
  /\ UNCHANGED <<world, faults>>

IssueOf(r) == CHOOSE issue \in Issue : Resolution(r) = {issue}

\* Mutant: only the file is updated.
Recorded_OnDiskOnly(t, issue) == relayedThreads

Recorded(t, issue) == [relayedThreads EXCEPT ![t] = issue]

\* recordRelayed sets the record in memory before it writes the file.
CommentPosted(h, persisted) ==
  LET t == ThreadAt(h)
      r == ReplyAt(h) IN
  /\ At(h, "comment")
  /\ comments' = Comment(r, IssueOf(r), comments)
  /\ relayedThreads' = Recorded(t, IssueOf(r))
  /\ IF persisted THEN stored' = relayedThreads' /\ UNCHANGED faults
                  ELSE UNCHANGED stored /\ Fault
  /\ Goto(h, "react")
  /\ UNCHANGED <<deliveries, acked, seenEventIds, claimedThreads, notices, marked>>

CommentFails(h, created) ==
  LET r == ReplyAt(h) IN
  /\ At(h, "comment")
  /\ GiveUp(h, "relay_failed")
  /\ IF created THEN comments' = Comment(r, IssueOf(r), comments) /\ Fault
                ELSE UNCHANGED <<comments, faults>>
  /\ UNCHANGED <<notices, marked>>

\* The reaction and the notices are best-effort: the handler ends either way.
Finish(h, posted) ==
  LET r == ReplyAt(h)
      await == handler[h].at IN
  /\ handler[h] # None
  /\ await \in Notice \cup {"react"}
  /\ marked' = IF posted /\ await = "react" THEN marked \cup {r} ELSE marked
  /\ notices' = IF posted /\ await \in Notice THEN notices \cup {<<r, await>>} ELSE notices
  /\ Return(h)
  /\ UNCHANGED <<deliveries, acked, memory, stored, comments, faults>>

\* The process dies and starts again; GitHub may still create the comments in
\* created, whose requests were under way.
Restart(created) ==
  /\ Fault
  /\ \A h \in created : At(h, "comment")
  /\ comments' = [x \in Reply \X Issue |-> comments[x] +
       Cardinality({h \in created : x = <<ReplyAt(h), IssueOf(ReplyAt(h))>>})]
  /\ handler' = [h \in Handler |-> None]
  /\ seenEventIds' = {}
  /\ claimedThreads' = {}
  /\ relayedThreads' = stored
  /\ UNCHANGED <<deliveries, acked, stored, notices, marked>>

-----------------------------------------------------------------------------

Init ==
  /\ deliveries = [r \in Reply |-> 0]
  /\ acked = {}
  /\ handler = [h \in Handler |-> None]
  /\ seenEventIds = {} /\ claimedThreads = {}
  /\ relayedThreads = [t \in Thread |-> None]
  /\ stored = relayedThreads
  /\ comments = [x \in Reply \X Issue |-> 0]
  /\ notices = {} /\ marked = {}
  /\ faults = 0

Continue(h) ==
  \/ \E heard \in BOOLEAN : Acknowledged(h, heard)
  \/ FetchFails(h)
  \/ StepAside(h)
  \/ FetchAnswers(h)
  \/ \E persisted \in BOOLEAN : CommentPosted(h, persisted)
  \/ \E created \in BOOLEAN : CommentFails(h, created)
  \/ \E posted \in BOOLEAN : Finish(h, posted)

Next ==
  \/ \E h \in Handler, r \in Reply : Deliver(h, r)
  \/ \E h \in Handler : Continue(h)
  \/ \E created \in SUBSET Handler : Restart(created)

\* Every request is answered or fails (fetch gives up by itself) and the event
\* loop runs every continuation.  Nothing makes Slack deliver or the process die.
Fairness == \A h \in Handler : WF_vars(Continue(h))

Spec == Init /\ [][Next]_vars /\ Fairness

-----------------------------------------------------------------------------

TypeOK ==
  /\ deliveries \in [Reply -> 0..MaxDeliveries]
  /\ acked \subseteq Reply
  /\ handler \in [Handler -> [reply: Reply, at: Await] \cup {None}]
  /\ seenEventIds \subseteq Reply /\ claimedThreads \subseteq Thread
  /\ relayedThreads \in [Thread -> Issue \cup {None}]
  /\ stored \in [Thread -> Issue \cup {None}]
  /\ comments \in [Reply \X Issue -> Nat]
  /\ notices \subseteq Reply \X Notice /\ marked \subseteq Reply
  /\ faults \in 0..MaxFaults

\* The handlers that are relaying a reply of thread t.
Relaying(t) ==
  {h \in Handler : (At(h, "fetch") \/ At(h, "comment")) /\ ThreadAt(h) = t}

RepliesIn(t) == {r \in Reply : ThreadOf[r] = t}

\* The comments of a thread, the second of one reply on one issue told from the first.
Posted(t) == UNION {{x} \X (1..comments[x]) : x \in RepliesIn(t) \X Issue}

CommentsFrom(t) == Cardinality(Posted(t))

\* A claim excludes the other replies of its thread from the moment it is taken
\* until the thread is relayed or the claim is released on whatever path, and no
\* claim outlives its handler: else the thread could never be answered again
\* (relayHandler.ts:72-90, dedupeStore.ts:20-35).
ClaimsAreHeld ==
  \A t \in Thread :
    /\ Relaying(t) # {} => t \in claimedThreads /\ relayedThreads[t] = None
    /\ Cardinality(Relaying(t)) <= 1
    /\ t \in claimedThreads => Relaying(t) # {} \/ relayedThreads[t] # None

\* A thread gets at most one comment, plus at most one for each crash, lost
\* answer or failed write: redelivered and simultaneous replies, failures of
\* Slack and clean failures of GitHub never duplicate a comment.
DuplicatesNeedFaults == \A t \in Thread : CommentsFrom(t) <= 1 + faults

\* What the relay says is true: a reply carries the reaction, and a thread is
\* recorded in memory or on disk as relayed, only if the comment was posted on
\* that issue (relayHandler.ts:150-205).
SuccessIsReal ==
  /\ \A r \in marked : comments[<<r, IssueOf(r)>>] > 0
  /\ \A t \in Thread : relayedThreads[t] # None =>
       \E r \in RepliesIn(t) : comments[<<r, relayedThreads[t]>>] > 0
  /\ \A t \in Thread : stored[t] # None => relayedThreads[t] = stored[t]
  /\ \A r \in Reply : <<r, "already_relayed">> \in notices =>
       \E q \in RepliesIn(ThreadOf[r]), issue \in Issue : comments[<<q, issue>>] > 0

\* A comment only goes to an issue the thread's first message links, only for a
\* reply the filter lets through in a thread of the bot; a reply that names issues
\* of the thread is posted on one only if it names no other (linkResolver.ts:78-121).
CommentsAreOnTopic ==
  \A r \in Reply, issue \in Issue : comments[<<r, issue>>] > 0 =>
    LET linked == Candidates(Nudge[ThreadOf[r]])
        named == Text[r].mentions \cap linked IN
    /\ r \in Relayable /\ ThreadOf[r] \in BotThread
    /\ issue \in linked
    /\ named # {} /\ Cardinality(linked) > 1 => named = {issue}

\* A claim that did not lead to a comment is given back: another reply of the
\* thread always gets its chance (relayHandler.ts:100-110).
ClaimsEnd ==
  \A t \in Thread :
    t \in claimedThreads /\ relayedThreads[t] = None ~>
      t \notin claimedThreads \/ relayedThreads[t] # None

=============================================================================
