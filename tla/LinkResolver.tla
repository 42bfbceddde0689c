---------------------------- MODULE LinkResolver ----------------------------
(***************************************************************************)
(* slack-relay/src/linkResolver.ts: which GitHub issue a Slack reply       *)
(* answers, given the nudge that started its thread.                       *)
(*                                                                         *)
(* A nudge is a sequence of lines; of a line only the issues of the        *)
(* configured repository it links and its distinctive words matter, and of *)
(* a reply the issues it mentions as #n and its distinctive words.  The    *)
(* answer is the set of issues the reply may be about: none is status      *)
(* "none", one is "resolved", several are "ambiguous".                     *)
(***************************************************************************)
EXTENDS Integers, FiniteSets, Sequences

Candidates(nudge) == UNION {nudge[n].links : n \in DOMAIN nudge}

\* The line an issue is judged by: the first one that links it.
ContextLine(nudge, issue) ==
  CHOOSE n \in DOMAIN nudge :
    /\ issue \in nudge[n].links
    /\ \A m \in 1..(n - 1) : issue \notin nudge[m].links

WordMatches(nudge, reply) ==
  {issue \in Candidates(nudge) :
     nudge[ContextLine(nudge, issue)].words \cap reply.words # {}}

\* Mutant: shared words count as much as an explicit mention.
ResolveIssueNumber_Loose(nudge, reply) ==
  IF Cardinality(WordMatches(nudge, reply)) = 1 THEN WordMatches(nudge, reply)
  ELSE Candidates(nudge)

ResolveIssueNumber(nudge, reply) ==
  LET all == Candidates(nudge)
      mentioned == reply.mentions \cap all
      matching == WordMatches(nudge, reply) IN
  IF Cardinality(all) <= 1 THEN all
  ELSE IF mentioned # {} THEN mentioned
  ELSE IF Cardinality(matching) = 1 THEN matching
  ELSE all
=============================================================================
