---------------------------- MODULE Compaction ----------------------------
(***************************************************************************)
(* Which messages of an agent's context af-agents/src/compaction.rs gives  *)
(* up when the context grows too large, and which rows of the thread it    *)
(* marks as compacted.  A context is a sequence of messages whose first    *)
(* one is the system prompt; the history is the sequence of rows it was    *)
(* last read from.                                                         *)
(***************************************************************************)
EXTENDS Integers, Sequences, FiniteSets

(* ChatRole::User is the role of the user's own messages and of memory,      *)
(* summaries and nudges.                                                     *)
UserRoles == {"user", "nudge", "memory", "summary"}

Least(S)    == CHOOSE i \in S : \A j \in S : i <= j
Greatest(S) == CHOOSE i \in S : \A j \in S : j <= i

(* The numbers of S from the least to the greatest. *)
InOrder(S) ==
  [i \in 1..Cardinality(S) |-> CHOOSE k \in S : Cardinality({j \in S : j <= k}) = i]

-----------------------------------------------------------------------------
(* Compaction by summary and reset. *)

(* A mutant of KeptWithNext: the assistant of the group is not kept.         *)
ResultsKept(context, i) ==
  \/ context[i].role = "tool"
  \/ context[i].role \in UserRoles /\ i > 2 /\ context[i - 1].role = "tool"

(* The boundary walks back over a tool-call group that it meets, and over a  *)
(* nudge behind a tool result.                                               *)
KeptWithNext(context, i) ==
  \/ context[i].role = "tool"
  \/ context[i].role = "assistant" /\ context[i].calls # {}
  \/ context[i].role \in UserRoles /\ i > 2 /\ context[i - 1].role = "tool"

Boundary(context) ==
  LET last == Greatest({i \in DOMAIN context : context[i].role \in UserRoles}) IN
  Least({b \in 2..last : \A i \in b..last - 1 : KeptWithNext(context, i)})

(* select_messages_for_compaction: there must be a user message and          *)
(* something before the boundary.                                            *)
CanCompact(context) ==
  /\ Len(context) >= 4
  /\ \E i \in 2..Len(context) : context[i].role \in UserRoles
  /\ Boundary(context) > 2

-----------------------------------------------------------------------------
(* Sliding window. *)

BodyStart(context) ==
  IF Len(context) > 1 /\ context[2].role = "memory" THEN 3 ELSE 2

(* parse_turns: a turn starts at each message of the user. *)
TurnStarts(context) ==
  {i \in BodyStart(context)..Len(context) :
     i = BodyStart(context) \/ context[i].role = "user"}

(* The tail keeps two turns at least, one of them with a request of the      *)
(* user; how many more depends on their tokens.                              *)
TrimEnds(context) ==
  {t \in TurnStarts(context) \ {BodyStart(context)} :
     /\ Cardinality({u \in TurnStarts(context) : u >= t}) >= 2
     /\ \E i \in t..Len(context) : context[i].role = "user"}

-----------------------------------------------------------------------------
(* map_index_to_seq: the rows marked are those up to the one that the last   *)
(* message given up would be, if every message but the system prompt were a  *)
(* row of the history.                                                       *)
UpTo(end, history) ==
  IF end >= 3 /\ end - 2 <= Len(history) THEN history[end - 2] ELSE history[Len(history)]

(* preflight_check, before each request to a local model: the memory message *)
(* is put back at messages[1], and tool results outside of a group go.       *)
WithMemory(context) ==
  IF BodyStart(context) = 3 THEN context
  ELSE <<context[1], [role |-> "memory", calls |-> {}, row |-> 0]>> \o Tail(context)

InGroup(context, i) ==
  \E a \in BodyStart(context)..i - 1 :
    /\ context[a].role = "assistant" /\ context[a].calls # {}
    /\ \A j \in a + 1..i - 1 :
         context[j].role = "tool" \/ (context[j].role = "assistant" /\ context[j].calls # {})

PreflightCheck(context) ==
  LET repaired == WithMemory(context)
      kept     == InOrder({i \in DOMAIN repaired :
                             repaired[i].role = "tool" => InGroup(repaired, i)})
  IN [n \in DOMAIN kept |-> repaired[kept[n]]]
=============================================================================
