----------------------------- MODULE AgentLoop -----------------------------
(***************************************************************************)
(* Agents that share a thread (af-agents/src/runtime.rs, compaction.rs).   *)
(* A run answers a message of the user: it reads the thread's rows into    *)
(* its context, then calls the LLM and the tools the LLM asks for until    *)
(* the LLM answers in text or a limit is reached.  Before each call it     *)
(* polls for messages that the user queued meanwhile.  A context that has  *)
(* grown too large is compacted: rows of the thread are marked, a summary  *)
(* row is inserted, and the context rebuilt, in three steps that other     *)
(* runs interleave with.  A run can be dropped wherever it stands.         *)
(***************************************************************************)
EXTENDS Compaction, AnthropicRequest

CONSTANTS
  Runs,
  Streaming,    \* runs of send_message_streaming, the others are synchronous
  MaxErrors,    \* MAX_CONSECUTIVE_ERRORS
  Scenarios     \* instances to check, each a record of
                \*   mode    what each run is: "cwc" (with a cloud backend) or, if
                \*           AF_USE_CWC=0, "cloud" or "local" by its backend;
                \*           "absent" if it never starts
                \*   budget  tool_call_budget
                \*   retries of an empty response
                \*   batch   bound: tool calls in a response
                \*   queue   bound: messages queued
                \*   faults  bound: failed statements

ASSUME LoopConstants ==
  /\ Streaming \subseteq Runs /\ MaxErrors \in Nat
  /\ Scenarios \subseteq [mode : [Runs -> {"cwc", "cloud", "local", "absent"}],
                          budget : Nat, retries : Nat, batch : Nat, queue : Nat, faults : Nat]

VARIABLES
  rows,         \* the thread's messages; seq is the index
  memory,       \* thread_memory has an entry
  scenario,
  pc,           \* of each run
  ctx,          \* its messages: [role, calls, row], row = 0 if it has none
  hist,         \* the rows it last read, while a compaction may use them
  seen,         \* last_seen_seq
  count,        \* tool_call_count
  todo,         \* calls of the last response still to be made
  errs,         \* consecutive_errors
  empties,      \* empty_retries
  pending,      \* the compaction between its steps: how, and where the tail starts
  queued, faults,
  \* History:
  given,        \* user rows a run has taken into its context
  passed,       \* user rows it skipped when it re-read the thread
  late          \* rows that became visible after a later row had

thread == <<rows, memory>>
loop   == <<count, todo, errs, empties>>
env    == <<queued, faults>>
loopVars   == <<scenario, thread, pc, ctx, hist, seen, loop, pending, env, given, passed, late>>

NoCompaction == [how |-> "none", end |-> 0]

LoopInit ==
  /\ rows = <<>> /\ memory = FALSE
  /\ pc = [r \in Runs |-> "idle"] /\ scenario \in Scenarios
  /\ ctx = [r \in Runs |-> <<>>] /\ hist = [r \in Runs |-> <<>>]
  /\ seen = [r \in Runs |-> 0] /\ pending = [r \in Runs |-> NoCompaction]
  /\ count = [r \in Runs |-> 0] /\ todo = [r \in Runs |-> 0]
  /\ errs = [r \in Runs |-> 0] /\ empties = [r \in Runs |-> 0]
  /\ queued = 0 /\ faults = 0
  /\ given = [r \in Runs |-> {}] /\ passed = [r \in Runs |-> {}] /\ late = {}

-----------------------------------------------------------------------------
(* Rows and messages. *)

mode(r) == scenario.mode[r]

Row(role, calls) == [role |-> role, calls |-> calls, state |-> "visible"]
Note(role)       == [role |-> role, calls |-> {}, row |-> 0]
Message(k)       == [role |-> rows[k].role, calls |-> rows[k].calls, row |-> k]

Messages(S) == LET seqs == InOrder(S) IN [i \in DOMAIN seqs |-> Message(seqs[i])]

Visible   == {k \in DOMAIN rows : rows[k].state = "visible"}
UserRows  == {k \in Visible : rows[k].role = "user"}
Later(n)  == {k \in UserRows : k > n}
AtLeast(n, S) == IF S = {} THEN n ELSE IF n > Greatest(S) THEN n ELSE Greatest(S)

Goto(r, where) == pc' = [pc EXCEPT ![r] = where]

(* The end of a run, of its locals too. *)
EndRun(r) ==
  /\ Goto(r, "done")
  /\ ctx' = [ctx EXCEPT ![r] = <<>>] /\ hist' = [hist EXCEPT ![r] = <<>>]
  /\ seen' = [seen EXCEPT ![r] = 0] /\ pending' = [pending EXCEPT ![r] = NoCompaction]
  /\ count' = [count EXCEPT ![r] = 0] /\ todo' = [todo EXCEPT ![r] = 0]
  /\ errs' = [errs EXCEPT ![r] = 0] /\ empties' = [empties EXCEPT ![r] = 0]
  /\ given' = [given EXCEPT ![r] = {}] /\ passed' = [passed EXCEPT ![r] = {}]

(* A statement may fail; the code warns and goes on without the row. *)
Fault(failed) == faults' = faults + (IF failed THEN 1 ELSE 0) /\ faults' <= scenario.faults
Persist(row)  == rows' = Append(rows, row)

(* A message of the run, with its row if the insert succeeded. *)
Say(r, role, calls, failed) ==
  /\ Fault(failed)
  /\ IF failed THEN UNCHANGED rows ELSE Persist(Row(role, calls))
  /\ ctx' = [ctx EXCEPT ![r] =
       Append(@, [role |-> role, calls |-> calls, row |-> IF failed THEN 0 ELSE Len(rows) + 1])]

-----------------------------------------------------------------------------
(* The start of a run. *)

(* The user's message is inserted by the run, or by whoever starts it. *)
Start(r) ==
  /\ pc[r] = "idle" /\ mode(r) # "absent"
  /\ Persist(Row("user", {}))
  /\ Goto(r, "posted")
  /\ UNCHANGED <<memory, scenario, ctx, hist, seen, loop, pending, env, given, passed, late>>

(* cwc_session is an external crate: it may drop messages from the head of   *)
(* the context and add a nudge.                                              *)
CwcOptimize(context) ==
  {<<context[1]>> \o SubSeq(context, i, Len(context)) \o nudge :
     i \in 2..Len(context), nudge \in {<<>>, <<Note("nudge")>>}}

(* The request is stored in the thread's memory after memory was read, so    *)
(* the memory message appears from the second run on.  Whether the context   *)
(* is too large already depends on tokens only.  When cwc_session fails, the *)
(* context stays, or is compacted as without it.                             *)
Load(r) ==
  LET context == <<Note("system")>> \o (IF memory THEN <<Note("memory")>> ELSE <<>>)
                   \o Messages(Visible) IN
  /\ pc[r] = "posted"
  /\ \/ /\ mode(r) = "cwc" /\ Goto(r, "poll") /\ UNCHANGED hist
        /\ \E c \in CwcOptimize(context) : ctx' = [ctx EXCEPT ![r] = c]
     \/ /\ mode(r) # "cwc" /\ Goto(r, "poll") /\ UNCHANGED hist
        /\ ctx' = [ctx EXCEPT ![r] = context]
     \/ /\ Goto(r, "compact")
        /\ ctx' = [ctx EXCEPT ![r] = context]
        /\ hist' = [hist EXCEPT ![r] = InOrder(Visible)]
  /\ seen' = [seen EXCEPT ![r] = AtLeast(0, Visible)]
  /\ given' = [given EXCEPT ![r] = UserRows]
  /\ memory' = TRUE
  /\ UNCHANGED <<rows, scenario, loop, pending, env, passed, late>>

-----------------------------------------------------------------------------
(* Between the tool calls and the next request. *)

(* Re-reading the thread raises last_seen_seq to its last row. *)
Reread(r) ==
  /\ hist' = [hist EXCEPT ![r] = InOrder(Visible)]
  /\ seen' = [seen EXCEPT ![r] = AtLeast(@, Visible)]
  /\ passed' = [passed EXCEPT ![r] = @ \cup (Later(seen[r]) \ given[r])]

CheckSize(r) ==
  \/ Goto(r, "poll") /\ UNCHANGED <<hist, seen, passed>>
  \/ Goto(r, "compact") /\ Reread(r)

AfterTools(r) ==
  /\ pc[r] = "tools" /\ todo[r] = 0
  /\ \/ /\ mode(r) = "cwc" /\ Goto(r, "poll")
        /\ \E c \in CwcOptimize(ctx[r]) : ctx' = [ctx EXCEPT ![r] = c]
        /\ UNCHANGED <<hist, seen, passed>>
     \/ /\ mode(r) = "cloud" /\ CheckSize(r)
        /\ ctx' = [ctx EXCEPT ![r] = Append(@, Note("nudge"))]
     \/ /\ mode(r) = "local" /\ Goto(r, "window") /\ Reread(r)
        /\ UNCHANGED ctx
  /\ UNCHANGED <<thread, scenario, loop, pending, env, given, late>>

(* After the window of a local model. *)
AfterWindow(r) ==
  /\ pc[r] = "check" /\ CheckSize(r)
  /\ UNCHANGED <<thread, scenario, ctx, loop, pending, env, given, late>>

-----------------------------------------------------------------------------
(* Compaction: rows are marked, a summary row is inserted, the context is    *)
(* rebuilt from the system prompt, summary or memory, and the tail.          *)

How(r) == CASE pc[r] = "window"   -> "window"
            [] pc[r] = "fallback" -> "summary"
            [] OTHER              -> IF mode(r) = "local" THEN "reset" ELSE "summary"

Ends(r) ==
  IF How(r) = "window" THEN TrimEnds(ctx[r])
  ELSE IF CanCompact(ctx[r]) THEN {Boundary(ctx[r])} ELSE {}

Marked(upTo) ==
  [k \in DOMAIN rows |->
     IF k <= upTo /\ k \in Visible /\ rows[k].role # "summary"
     THEN [rows[k] EXCEPT !.state = "compacted"] ELSE rows[k]]

Compacting == {"window", "compact", "fallback"}

Mark(r) ==
  /\ pc[r] \in Compacting /\ hist[r] # <<>>
  /\ \E end \in Ends(r) :
       /\ rows' = Marked(UpTo(end, hist[r]))
       /\ pending' = [pending EXCEPT ![r] = [how |-> How(r), end |-> end]]
  /\ Goto(r, "marked")
  /\ UNCHANGED <<memory, scenario, ctx, hist, seen, loop, env, given, passed, late>>

(* Where a run goes when its compaction has ended or cannot be had: after    *)
(* the window the size is checked, a failed reset falls back to a summary.   *)
Leave(r, how, done) ==
  CASE how = "window"             -> "check"
    [] how = "reset" /\ ~done     -> "fallback"
    [] OTHER                      -> "poll"

(* Nothing to give up, not enough tokens for the window, or the summarizer   *)
(* failed.                                                                   *)
Skip(r) ==
  /\ pc[r] \in Compacting
  /\ How(r) = "reset" => Ends(r) = {} \/ hist[r] = <<>>
  /\ Goto(r, Leave(r, How(r), FALSE))
  /\ hist' = [hist EXCEPT ![r] = IF How(r) = "reset" THEN @ ELSE <<>>]
  /\ UNCHANGED <<thread, scenario, ctx, seen, loop, pending, env, given, passed, late>>

InsertSummary(r) ==
  LET p     == pending[r]
      tail  == SubSeq(ctx[r], p.end, Len(ctx[r]))
      intro == IF p.how = "summary"
               THEN [role |-> "summary", calls |-> {}, row |-> Len(rows) + 1]
               ELSE Note("memory")
  IN
  /\ pc[r] = "marked"
  /\ Persist(Row("summary", {}))
  /\ ctx' = [ctx EXCEPT ![r] = <<ctx[r][1], intro>> \o tail]
  /\ hist' = [hist EXCEPT ![r] = <<>>]
  /\ pending' = [pending EXCEPT ![r] = NoCompaction]
  /\ Goto(r, Leave(r, p.how, TRUE))
  /\ UNCHANGED <<memory, scenario, seen, loop, env, given, passed, late>>

(* One of the two statements fails: the marks stay, the context too. *)
CompactionFails(r) ==
  LET how == IF pc[r] = "marked" THEN pending[r].how ELSE How(r) IN
  /\ \/ pc[r] = "marked"
     \/ pc[r] \in Compacting /\ Ends(r) # {} /\ hist[r] # <<>>
  /\ Fault(TRUE)
  /\ Goto(r, Leave(r, how, FALSE))
  /\ hist' = [hist EXCEPT ![r] = IF how = "reset" THEN @ ELSE <<>>]
  /\ pending' = [pending EXCEPT ![r] = NoCompaction]
  /\ UNCHANGED <<thread, scenario, ctx, seen, loop, queued, given, passed, late>>

-----------------------------------------------------------------------------
(* The loop. *)

OverLimit(r) == count[r] >= scenario.budget \/ errs[r] > MaxErrors

Enter(r, context) ==
  /\ ctx' = [ctx EXCEPT ![r] = IF mode(r) = "local" THEN PreflightCheck(context) ELSE context]
  /\ Goto(r, "call")
  /\ UNCHANGED <<hist, loop, pending, passed>>

(* A mutant of Poll: last_seen_seq is not raised. *)
PollForgets(r) ==
  /\ pc[r] = "poll"
  /\ \/ OverLimit(r) /\ EndRun(r)
     \/ /\ ~OverLimit(r) /\ Enter(r, ctx[r] \o Messages(Later(seen[r])))
        /\ given' = [given EXCEPT ![r] = @ \cup Later(seen[r])]
        /\ UNCHANGED seen
  /\ UNCHANGED <<thread, scenario, env, late>>

Poll(r) ==
  LET new == Later(seen[r]) IN
  /\ pc[r] = "poll"
  /\ \/ OverLimit(r) /\ EndRun(r)
     \/ /\ ~OverLimit(r) /\ Enter(r, ctx[r] \o Messages(new))
        /\ seen' = [seen EXCEPT ![r] = AtLeast(@, new)]
        /\ given' = [given EXCEPT ![r] = @ \cup new]
  /\ UNCHANGED <<thread, scenario, env, late>>

PollFails(r) ==
  /\ pc[r] = "poll" /\ ~OverLimit(r)
  /\ Fault(TRUE) /\ Enter(r, ctx[r])
  /\ UNCHANGED <<thread, scenario, seen, queued, given, late>>

RespondCalls(r) ==
  /\ pc[r] = "call"
  /\ \E n \in 1..scenario.batch, failed \in BOOLEAN :
       /\ Say(r, "assistant", {<<r, count[r] + i>> : i \in 1..n}, failed)
       /\ todo' = [todo EXCEPT ![r] = n]
  /\ Goto(r, "tools")
  /\ UNCHANGED <<memory, scenario, hist, seen, count, errs, empties, pending, queued, given, passed, late>>

Dispatch(r) ==
  /\ pc[r] = "tools" /\ todo[r] > 0
  /\ todo' = [todo EXCEPT ![r] = @ - 1]
  /\ count' = [count EXCEPT ![r] = @ + 1]

(* The tool has run, whether it succeeded or not. *)
ToolReturns(r) ==
  /\ Dispatch(r)
  /\ \E failed \in BOOLEAN : Say(r, "tool", {<<r, count[r] + 1>>}, failed)
  /\ errs' = [errs EXCEPT ![r] = 0]
  /\ UNCHANGED <<memory, scenario, pc, hist, seen, empties, pending, queued, given, passed, late>>

(* Not allowed, not enabled, restricted, over its own budget, or arguments   *)
(* that do not parse: the error is a message of the context and no row.      *)
ToolRefused(r) ==
  /\ Dispatch(r)
  /\ ctx' = [ctx EXCEPT ![r] =
       Append(@, [role |-> "tool", calls |-> {<<r, count[r] + 1>>}, row |-> 0])]
  /\ errs' = [errs EXCEPT ![r] = @ + 1]
  /\ UNCHANGED <<thread, scenario, pc, hist, seen, empties, pending, env, given, passed, late>>

RespondText(r) ==
  /\ pc[r] = "call" /\ EndRun(r)
  /\ Persist(Row("assistant", {}))
  /\ UNCHANGED <<memory, scenario, env, late>>

(* A mutant of RespondEmpty: retries are not counted. *)
RespondEmptyUncounted(r) ==
  /\ pc[r] = "call"
  /\ IF r \in Streaming THEN UNCHANGED rows ELSE Persist(Row("assistant", {}))
  /\ \/ /\ empties[r] < scenario.retries
        /\ Goto(r, "poll")
        /\ UNCHANGED <<ctx, hist, seen, count, todo, errs, empties, pending, given, passed>>
     \/ empties[r] = scenario.retries /\ EndRun(r)
  /\ UNCHANGED <<memory, scenario, env, late>>

(* The synchronous loop stores the empty answer too. *)
RespondEmpty(r) ==
  /\ pc[r] = "call"
  /\ IF r \in Streaming THEN UNCHANGED rows ELSE Persist(Row("assistant", {}))
  /\ \/ /\ empties[r] < scenario.retries /\ empties' = [empties EXCEPT ![r] = @ + 1]
        /\ Goto(r, "poll")
        /\ UNCHANGED <<ctx, hist, seen, count, todo, errs, pending, given, passed>>
     \/ empties[r] = scenario.retries /\ EndRun(r)
  /\ UNCHANGED <<memory, scenario, env, late>>

(* The call fails, the quota is used up, or the answer cannot be stored. *)
CallFails(r) ==
  /\ pc[r] = "call" /\ EndRun(r)
  /\ UNCHANGED <<thread, scenario, env, late>>

(* A timeout or a client that leaves: the future is dropped. *)
Drop(r) ==
  /\ pc[r] \notin {"idle", "done"} /\ EndRun(r)
  /\ UNCHANGED <<thread, scenario, env, late>>

-----------------------------------------------------------------------------
(* queue_message: the row takes its seq when it is inserted and is visible   *)
(* once the transaction has committed.                                       *)
QueueInsert ==
  /\ queued < scenario.queue /\ queued' = queued + 1
  /\ \E r \in Runs : pc[r] \notin {"idle", "done"}
  /\ Persist([Row("user", {}) EXCEPT !.state = "open"])
  /\ UNCHANGED <<memory, scenario, pc, ctx, hist, seen, loop, pending, faults, given, passed, late>>

QueueCommit ==
  /\ \E k \in DOMAIN rows :
       /\ rows[k].state = "open"
       /\ rows' = [rows EXCEPT ![k].state = "visible"]
       /\ late' = IF \E j \in DOMAIN rows : j > k /\ rows[j].state # "open" THEN late \cup {k} ELSE late
  /\ UNCHANGED <<memory, scenario, pc, ctx, hist, seen, loop, pending, env, given, passed>>

-----------------------------------------------------------------------------
RunStep(r) ==
  \/ Load(r) \/ AfterTools(r) \/ AfterWindow(r)
  \/ Mark(r) \/ Skip(r) \/ InsertSummary(r) \/ CompactionFails(r)
  \/ Poll(r) \/ PollFails(r) \/ RespondCalls(r) \/ ToolReturns(r) \/ ToolRefused(r)
  \/ RespondText(r) \/ RespondEmpty(r) \/ CallFails(r)

LoopNext ==
  \/ \E r \in Runs : Start(r) \/ RunStep(r) \/ Drop(r)
  \/ QueueInsert \/ QueueCommit

LoopSpec == LoopInit /\ [][LoopNext]_loopVars

(* Statements, tools and LLM backends answer or fail; nobody has to start a  *)
(* run or queue a message.                                                   *)
FairLoopSpec == LoopSpec /\ \A r \in Runs : WF_loopVars(RunStep(r))

-----------------------------------------------------------------------------
(* Every request that the Anthropic backend builds is one that the API       *)
(* accepts, whatever other runs, failed inserts and compactions have made of *)
(* the thread: roles alternate, and tool uses and results are paired.        *)
RequestRepaired ==
  \A r \in Runs : pc[r] = "call" => WellFormed(BuildMessages(ctx[r]))

(* The calls a run made itself and their results stay together in its        *)
(* requests, complete and in one block, whichever calls were refused, failed *)
(* to be stored or were compacted: the repair makes up nothing for them and  *)
(* strips nothing.  (What cwc_session drops is not known.)                   *)
AnswersAfter(context, i) ==
  UNION {context[j].calls : j \in {j \in i + 1..Len(context) :
           \A h \in i + 1..j : context[h].role = "tool"}}

Complete(context, i) ==
  context[i].role = "assistant" /\ context[i].calls = AnswersAfter(context, i)

OwnCallsAnswered ==
  \A r \in Runs : pc[r] = "call" /\ mode(r) # "cwc" =>
    \A i \in DOMAIN ctx[r] : (\E c \in ctx[r][i].calls : c[1] = r) =>
      \/ Complete(ctx[r], i)
      \/ /\ ctx[r][i].role = "tool"
         /\ \E j \in 1..i - 1 : Complete(ctx[r], j) /\ ctx[r][i].calls \subseteq ctx[r][j].calls

(* A run reads every message of the user once.  One that it will never read  *)
(* was committed after a later row, or was passed over when the thread was   *)
(* re-read; the polling itself loses and repeats nothing.                    *)
QueuedReadOnce ==
  \A r \in Runs : pc[r] \in {"poll", "call", "tools"} =>
    /\ \A k \in UserRows : k <= seen[r] => k \in given[r] \cup passed[r] \cup late
    /\ \A i, j \in DOMAIN ctx[r] : ctx[r][i].row # 0 /\ ctx[r][i].row = ctx[r][j].row => i = j

(* A run ends: budget, error limit and retries bound the loop, and every way *)
(* out of a compaction leads back to it.                                     *)
EveryRunEnds == \A r \in Runs : pc[r] # "idle" ~> pc[r] = "done"

(* "Tail - boundary..end, always preserved (recent context)"                 *)
(* (compaction.rs:186): a compaction marks no row whose message it keeps.    *)
TailKept ==
  [][\A r \in Runs : pc[r] \in Compacting /\ pc'[r] = "marked" =>
       \A i \in pending'[r].end..Len(ctx[r]) :
         LET k == ctx[r][i].row IN k # 0 => rows'[k] = rows[k]]_loopVars
=============================================================================
