------------------------- MODULE AnthropicRequest -------------------------
(***************************************************************************)
(* How the Anthropic backend (af-llm/src/anthropic.rs) turns the messages  *)
(* of an agent into a request.  Anthropic wants user and assistant turns   *)
(* to alternate, every tool_use answered by a tool_result in the next      *)
(* message, and no other tool_result.  Histories break this: agents that   *)
(* share a thread interleave, failed tool calls leave no row, compaction   *)
(* hides rows; build_messages repairs what it is given.                    *)
(***************************************************************************)
EXTENDS Integers, Sequences, SequencesExt

(* A turn of the request: the ids it uses, the ids it answers, and whether   *)
(* it has any other content.                                                 *)
UserTurn(results, text) == [role |-> "user", uses |-> {}, results |-> results, text |-> text]
AssistantTurn(calls)    == [role |-> "assistant", uses |-> calls, results |-> {}, text |-> TRUE]

(* Each message of the context becomes a turn; the system prompt does not. *)
Turn(m) ==
  CASE m.role = "assistant" -> AssistantTurn(m.calls)
    [] m.role = "tool"      -> UserTurn(m.calls, FALSE)
    [] OTHER                -> UserTurn({}, TRUE)

Joined(t, u) ==
  [t EXCEPT !.uses = @ \cup u.uses, !.results = @ \cup u.results, !.text = @ \/ u.text]

(* The turns are passed over one by one, each added to those done before. *)
Pass(Step(_, _), turns) ==
  LET done[i \in 0..Len(turns)] == IF i = 0 THEN <<>> ELSE Step(done[i - 1], turns[i])
  IN done[Len(turns)]

(* Neighbours of one role are merged, for the roles of the set. *)
Merged(roles, done, t) ==
  IF done # <<>> /\ t.role \in roles /\ Last(done).role = t.role
  THEN Append(Front(done), Joined(Last(done), t))
  ELSE Append(done, t)

Merge(turns, roles) == Pass(LAMBDA done, t : Merged(roles, done, t), turns)

(* Pass 1: a tool_use that the next message does not answer gets a synthetic *)
(* tool_result, in that message if it is a user's, else in one of its own.   *)
Unanswered(done, t) ==
  IF done # <<>> /\ Last(done).role = "assistant" THEN Last(done).uses \ t.results ELSE {}

Answered(done, t) ==
  LET missing == Unanswered(done, t) IN
  IF missing = {} THEN Append(done, t)
  ELSE IF t.role = "user" THEN Append(done, [t EXCEPT !.results = @ \cup missing])
  ELSE Append(Append(done, UserTurn(missing, FALSE)), t)

(* A mutant of Closed: a tool_use at the end stays open. *)
Unclosed(turns) == turns

Closed(turns) ==
  IF turns # <<>> /\ Last(turns).uses # {}
  THEN Append(turns, UserTurn(Last(turns).uses, FALSE)) ELSE turns

(* Pass 2: tool_results that the previous message did not ask for are        *)
(* dropped, and messages that consist of nothing else.                       *)
Asked(done) == IF done = <<>> THEN {} ELSE Last(done).uses

Stripped(done, t) ==
  LET kept == t.results \cap Asked(done) IN
  IF t.results # {} /\ kept = {} /\ ~t.text THEN done
  ELSE Append(done, [t EXCEPT !.results = kept])

FixOrphanedToolUse(turns) ==
  Merge(Pass(Stripped, Closed(Pass(Answered, turns))), {"user", "assistant"})

(* The first message of a context is the system prompt, sent separately. *)
BuildMessages(context) ==
  FixOrphanedToolUse(Merge([i \in 1..Len(context) - 1 |-> Turn(context[i + 1])], {"user"}))

(* What the API accepts. *)
WellFormed(turns) ==
  \A i \in DOMAIN turns :
    /\ i > 1 => turns[i].role # turns[i - 1].role
    /\ turns[i].uses # {} => i < Len(turns) /\ turns[i].uses \subseteq turns[i + 1].results
    /\ turns[i].results # {} => i > 1 /\ turns[i].results \subseteq turns[i - 1].uses
=============================================================================
