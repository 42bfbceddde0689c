---------------------------- MODULE MCSlackRelay ----------------------------
(* Two instances of SlackRelay in one run; the first state chooses one.       *)
EXTENDS SlackRelay, TLC

CONSTANTS FirstReply, SecondReply

VARIABLE instance

Line(links, words) == [links |-> links, words |-> words]
Says(mentions, words) == [mentions |-> mentions, words |-> words]

\* "thread": the PM answers twice in one thread, every delivery may be repeated, and
\* processes and requests fail.
\* "replies": threads and replies of every sort, handled one by one: a reply that names
\* an issue, one that names two, one in a thread without a link, one in a thread of a
\* human, and an edited message.
Answers == {FirstReply, SecondReply}

MCThreadOf ==
  [r \in Answers |-> "nudge"] @@
  [names |-> "batch", namesTwo |-> "batch",
   lost |-> "plain", chat |-> "human", edit |-> "batch"]
MCText ==
  [r \in Answers |-> Says({}, {})] @@
  [names |-> Says({"#7", "#9"}, {"threshold"}), namesTwo |-> Says({"#5", "#7"}, {}),
   lost |-> Says({"#5"}, {}), chat |-> Says({}, {}), edit |-> Says({"#5"}, {})]
MCNudge ==
  [nudge |-> <<Line({"#5"}, {"threshold"})>>,
   batch |-> <<Line({"#5"}, {"threshold"}), Line({"#5", "#7"}, {"wallet"})>>,
   plain |-> <<Line({}, {"hello"})>>, human |-> <<Line({"#5"}, {})>>]

FirstHandler == CHOOSE h \in Handler : TRUE

InInstance ==
  CASE instance = "thread" -> \A r \in Reply \ Answers : deliveries[r] = 0
    [] instance = "replies" ->
         /\ faults = 0
         /\ \A r \in Reply : deliveries[r] <= IF r \in Answers THEN 0 ELSE 1
         /\ \A h \in Handler : handler[h] # None => h = FirstHandler

MCInit == Init /\ instance \in {"thread", "replies"}

MCNext == Next /\ UNCHANGED instance /\ InInstance'

MCSpec == MCInit /\ [][MCNext]_<<vars, instance>> /\ Fairness
=============================================================================
