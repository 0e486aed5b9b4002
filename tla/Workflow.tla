----------------------------- MODULE Workflow -----------------------------
(***************************************************************************)
(* The workflow orchestrator of af-agents.  A workflow runs the groups of  *)
(* its plan one after the other in one conversation thread.  After each    *)
(* group the signals of its agents change the groups that are left, a      *)
(* replacement artifact puts agents that had their turn back into the      *)
(* plan, and extracted files get child threads, each with the whole plan   *)
(* again, which the parent waits for.  The artifacts of a group are found  *)
(* by project and time: a thread sees those of every other thread, chat or *)
(* workflow of the project, and those of tools that outlive their agent.   *)
(*                                                                         *)
(* The calls an agent makes, prompts and messages are left out, and so is  *)
(* the difference between the clocks of orchestrator and database.         *)
(***************************************************************************)
EXTENDS Integers, FiniteSets, Functions

CONSTANTS
  Threads,      \* threads that may be busy at the same time (a bound)
  Root,         \* the thread the workflow was started in
  None,
  Agents,       \* names of agents
  Known,        \* those with a configuration: only they can be requested
  Stays,        \* agents whose step says can_repivot = false
  LastGroup,    \* the highest group number of the plan
  Plan,         \* how many steps each agent has in each group
  Files,        \* artifacts
  Hashes,       \* their contents
  Sha256,       \* which content each file has
  Sample,       \* the content the workflow was started for
  Extracts,     \* which files come out of which: pairs <<file, source>>
  MaxRepivots,  \* MAX_REPIVOTS (5)
  MaxDepth,     \* MAX_FANOUT_DEPTH (3)
  MaxChildren,  \* MAX_FANOUT_CHILDREN (50)
  MaxSignals,   \* bound: signals that agents ever send
  MaxArtifacts, \* bound: replacements and extracted files ever made
  MaxAborts     \* bound: panics, and the time limit of the root workflow

ASSUME WorkflowConstants ==
  /\ Root \in Threads /\ None \notin Threads /\ IsFiniteSet(Agents)
  /\ Known \subseteq Agents /\ Stays \subseteq Agents
  /\ LastGroup \in Nat \ {0} /\ Plan \in [Agents -> [1..LastGroup -> Nat]]
  /\ \A a \in Stays : \E g \in 1..LastGroup : Plan[a][g] > 0
  /\ Sample \in Hashes /\ Sha256 \in [Files -> Hashes] /\ Extracts \subseteq Files \X Files
  /\ MaxRepivots \in Nat /\ MaxDepth \in Nat /\ MaxChildren \in Nat
  /\ MaxSignals \in Nat /\ MaxArtifacts \in Nat /\ MaxAborts \in Nat

(* Groups are appended one at a time, by a request or a replacement.  A     *)
(* thread never needs more.                                                 *)
Groups == 1..(LastGroup + MaxSignals + MaxRepivots)

VARIABLES
  wf,           \* the state of each thread's execute_workflow
  signals,      \* signals sent so far
  artifacts,    \* artifacts made so far
  aborts

vars == <<wf, signals, artifacts, aborts>>

Phases == {"free", "loop", "running", "repivot", "fanout", "waiting", "done"}

Workflows ==
  [phase : Phases,
   plan : [Agents -> [Groups -> Nat]],  \* groups: the steps that are left
   current : {0} \cup Groups,           \* current_group_num
   running : SUBSET Agents,             \* agents of the group in execution
   completed : SUBSET Agents,           \* completed_agents
   repivots : 0..MaxRepivots,           \* repivot_count
   replaced : BOOLEAN,                  \* a replacement since group_start_time
   children : SUBSET Extracts,          \* files extracted since group_start_time
   found : SUBSET Extracts,             \* by_parent: sources still to be dealt with
   subject : Hashes,                    \* the content the thread is about
   visited : SUBSET Hashes,             \* visited_sha256
   depth : 0..MaxDepth,                 \* fanout_depth
   parent : Threads \cup {None},        \* who waits for this thread
   lineage : SUBSET Hashes,             \* contents of its ancestors below the root (history)
   skipped : SUBSET Agents,             \* skipped, and not called back since (history)
   runs : [Agents -> Nat],              \* steps started (history)
   requested : [Agents -> Nat]]         \* steps added by requests (history)

(* The type invariant of the orchestrator. *)
TypeOK ==
  /\ wf \in [Threads -> Workflows]
  /\ signals \in 0..MaxSignals /\ artifacts \in 0..MaxArtifacts /\ aborts \in 0..MaxAborts

(* execute_workflow begins: the steps are sorted into their groups. *)
Fresh(subject, visited, depth, parent, lineage) ==
  [phase |-> "loop",
   plan |-> [a \in Agents |-> [g \in Groups |-> IF g <= LastGroup THEN Plan[a][g] ELSE 0]],
   current |-> 0, running |-> {}, completed |-> {}, repivots |-> 0,
   replaced |-> FALSE, children |-> {}, found |-> {},
   subject |-> subject, visited |-> visited, depth |-> depth,
   parent |-> parent, lineage |-> lineage, skipped |-> {},
   runs |-> [a \in Agents |-> 0], requested |-> [a \in Agents |-> 0]]

Ended(parent) == [Fresh(Sample, {}, 0, parent, {}) EXCEPT !.phase = "done"]
Free          == [Ended(None) EXCEPT !.phase = "free"]

Init ==
  /\ wf = [t \in Threads |-> IF t = Root THEN Fresh(Sample, {}, 0, None, {}) ELSE Free]
  /\ signals = 0 /\ artifacts = 0 /\ aborts = 0

-----------------------------------------------------------------------------
(* One round of the group loop.                                             *)

Occupied(t) == {g \in Groups : \E a \in Agents : wf[t].plan[a][g] > 0}
IsFirst(g, S) == g \in S /\ \A h \in S : g <= h

Planned(t, a) == \E g \in Groups : wf[t].plan[a][g] > 0

(* A mutant of StartGroup: the groups are counted, not taken in their order. *)
StartNextGroup(t, g) ==
  /\ wf[t].phase = "loop" /\ wf[t].found = {} /\ g \in Occupied(t)
  /\ g = wf[t].current + 1
  /\ wf' = [wf EXCEPT ![t] =
       [wf[t] EXCEPT !.phase = "running", !.current = g,
                 !.running = {a \in Agents : wf[t].plan[a][g] > 0},
                 !.plan = [a \in Agents |-> [wf[t].plan[a] EXCEPT ![g] = 0]],
                 !.runs = [a \in Agents |-> wf[t].runs[a] + wf[t].plan[a][g]],
                 !.replaced = FALSE, !.children = {}]]
  /\ UNCHANGED <<signals, artifacts, aborts>>

(* The first remaining group is taken out, and its time is noted. *)
StartGroup(t, g) ==
  /\ wf[t].phase = "loop" /\ wf[t].found = {} /\ IsFirst(g, Occupied(t))
  /\ wf' = [wf EXCEPT ![t] =
       [wf[t] EXCEPT !.phase = "running", !.current = g,
                 !.running = {a \in Agents : wf[t].plan[a][g] > 0},
                 !.plan = [a \in Agents |-> [wf[t].plan[a] EXCEPT ![g] = 0]],
                 !.runs = [a \in Agents |-> wf[t].runs[a] + wf[t].plan[a][g]],
                 !.replaced = FALSE, !.children = {}]]
  /\ UNCHANGED <<signals, artifacts, aborts>>

(* An artifact made now is found by every thread of the project that has     *)
(* started its group and not yet made its query.                             *)
Sees(t, query) ==
  wf[t].phase = "running" \/ wf[t].phase = "repivot"
  \/ (query = "fanout" /\ wf[t].phase = "fanout")

(* store_with_metadata: repivot_from or fan_out_from. *)
Replace ==
  /\ artifacts < MaxArtifacts /\ artifacts' = artifacts + 1
  /\ wf' = [u \in Threads |-> IF Sees(u, "repivot") THEN [wf[u] EXCEPT !.replaced = TRUE]
                              ELSE wf[u]]
  /\ UNCHANGED <<signals, aborts>>

Extract(f, source) ==
  /\ artifacts < MaxArtifacts /\ artifacts' = artifacts + 1
  /\ wf' = [u \in Threads |->
       IF Sees(u, "fanout")
       THEN [wf[u] EXCEPT !.children = wf[u].children \cup {<<f, source>>}]
       ELSE wf[u]]
  /\ UNCHANGED <<signals, aborts>>

-----------------------------------------------------------------------------
(* Signals (signal_parser.rs, apply_signals).                               *)

(* The group that requests, priorities and replacements go to. *)
NextGroup(t) ==
  IF Occupied(t) = {} THEN wf[t].current + 1
  ELSE CHOOSE g \in Groups : IsFirst(g, Occupied(t))

CanRequest(t, a) == a \in Known /\ ~Planned(t, a)

WithRequest(t, a) == [wf[t].plan[a] EXCEPT ![NextGroup(t)] = @ + 1]

(* All steps of the first later group that has the agent become one. *)
WithPriority(t, a) ==
  IF Planned(t, a) /\ wf[t].plan[a][NextGroup(t)] = 0
  THEN LET from == CHOOSE g \in Groups : IsFirst(g, {h \in Groups : wf[t].plan[a][h] > 0})
       IN [wf[t].plan[a] EXCEPT ![from] = 0, ![NextGroup(t)] = 1]
  ELSE wf[t].plan[a]

WithSkip(t, a) == [g \in Groups |-> 0]

(* resolve_conflicts keeps one signal of each kind per agent, and a request  *)
(* beats a skip.  What is left of the signals for one agent then does not    *)
(* depend on their order, nor on the other agents.                           *)
Applied(t, request, skip, priority) ==
  [a \in Agents |->
     IF a \in request /\ CanRequest(t, a) THEN WithRequest(t, a)
     ELSE IF a \in skip \ request THEN WithSkip(t, a)
     ELSE IF a \in priority THEN WithPriority(t, a)
     ELSE wf[t].plan[a]]

(* All agents of the group have returned, failed or timed out.  Those that   *)
(* had no configuration or timed out do not count as completed.              *)
EndGroup(t, ended, request, skip, priority) ==
  LET sent == Cardinality(request) + Cardinality(skip) + Cardinality(priority) IN
  /\ wf[t].phase = "running"
  /\ ended \subseteq wf[t].running
  /\ sent > 0 => ended # {}
  /\ signals' = signals + sent
  /\ wf' = [wf EXCEPT ![t] =
       [wf[t] EXCEPT !.phase = "repivot", !.running = {},
                 !.completed = wf[t].completed \cup ended,
                 !.plan = Applied(t, request, skip, priority),
                 !.skipped = (wf[t].skipped \ request) \cup (skip \ request),
                 !.requested = [a \in Agents |->
                    IF a \in request /\ CanRequest(t, a)
                    THEN wf[t].requested[a] + 1 ELSE wf[t].requested[a]]]]
  /\ UNCHANGED <<artifacts, aborts>>

-----------------------------------------------------------------------------
(* Replacement artifacts.                                                   *)

(* A mutant of Requeued: whatever its step says. *)
RequeuedAll(t) == {a \in wf[t].completed : ~Planned(t, a)}

(* The completed agents that are not planned anyway.  The flag is that of    *)
(* the agent's first step in the original plan: the one of re-queued steps   *)
(* is written and never read.                                                *)
Requeued(t) == {a \in wf[t].completed : ~Planned(t, a) /\ a \notin Stays}

(* Only the first replacement of a group counts, and MaxRepivots of them. *)
Repivot(t) ==
  /\ wf[t].phase = "repivot"
  /\ wf[t].replaced /\ wf[t].repivots < MaxRepivots
  /\ wf' = [wf EXCEPT ![t] =
       [wf[t] EXCEPT !.phase = "fanout", !.repivots = wf[t].repivots + 1,
                 !.skipped = wf[t].skipped \ Requeued(t),
                 !.plan = [a \in Agents |->
                    IF a \in Requeued(t)
                    THEN [wf[t].plan[a] EXCEPT ![NextGroup(t)] = 1]
                    ELSE wf[t].plan[a]]]]
  /\ UNCHANGED <<signals, artifacts, aborts>>

(* Nothing was replaced, or the query failed. *)
NoRepivot(t) ==
  /\ wf[t].phase = "repivot"
  /\ wf' = [wf EXCEPT ![t].phase = "fanout"]
  /\ UNCHANGED <<signals, artifacts, aborts>>

-----------------------------------------------------------------------------
(* Fan-out.                                                                 *)

(* The query, unless the thread is too deep or the query fails. *)
FindChildren(t, ok) ==
  /\ wf[t].phase = "fanout"
  /\ wf' = [wf EXCEPT ![t] =
       [wf[t] EXCEPT !.phase = "loop",
                 !.found = IF ok /\ wf[t].depth < MaxDepth THEN wf[t].children ELSE {},
                 !.replaced = FALSE, !.children = {}]]
  /\ UNCHANGED <<signals, artifacts, aborts>>

From(t, source) == {f \in Files : <<f, source>> \in wf[t].found}

(* The first MaxChildren in order of creation. *)
Capped(S) == {C \in SUBSET S : \/ C = S /\ Cardinality(S) <= MaxChildren
                               \/ Cardinality(C) = MaxChildren}

(* A mutant of ToAnalyse: no detection of cycles. *)
ToAnalyseAll(t, capped) == capped

(* Cycle detection: by the contents of the thread's ancestors and their      *)
(* siblings, not by those that other branches have analysed, nor by one      *)
(* another.                                                                  *)
ToAnalyse(t, capped) == {f \in capped : Sha256[f] \notin wf[t].visited}

Child(t, f, capped) ==
  Fresh(Sha256[f], wf[t].visited \cup {Sha256[c] : c \in capped}, wf[t].depth + 1, t,
        wf[t].lineage \cup (IF t = Root THEN {} ELSE {wf[t].subject}))

FreeThreads == {u \in Threads : wf[u].phase = "free"}

(* One of the free threads for each file: which one makes no difference. *)
NewThreads(S) == CHOOSE at \in Injection(S, FreeThreads) : TRUE

(* A thread for each of the files, as far as threads can be created. *)
SpawnChildren(t, source, capped, at) ==
  /\ wf[t].phase = "loop" /\ From(t, source) # {}
  /\ capped \in Capped(From(t, source))
  /\ DOMAIN at \subseteq ToAnalyse(t, capped)
  /\ wf' = [u \in Threads |->
       IF u = t
       THEN [wf[t] EXCEPT !.phase = "waiting",
                          !.found = {f \in wf[t].found : f[2] # source}]
       ELSE IF \E f \in DOMAIN at : at[f] = u
       THEN Child(t, CHOOSE f \in DOMAIN at : at[f] = u, capped)
       ELSE wf[u]]
  /\ UNCHANGED <<signals, artifacts, aborts>>

ChildrenOf(t) == {u \in Threads : wf[u].phase # "free" /\ wf[u].parent = t}

(* A mutant of Join: one child is enough. *)
JoinFirst(t) ==
  /\ wf[t].phase = "waiting"
  /\ ChildrenOf(t) # {} => \E u \in ChildrenOf(t) : wf[u].phase = "done"
  /\ wf' = [u \in Threads |->
       IF u = t THEN [wf[t] EXCEPT !.phase = "loop"]
       ELSE IF u \in ChildrenOf(t) /\ wf[u].phase = "done" THEN Free ELSE wf[u]]
  /\ UNCHANGED <<signals, artifacts, aborts>>

(* Every handle has been awaited. *)
Join(t) ==
  /\ wf[t].phase = "waiting"
  /\ \A u \in ChildrenOf(t) : wf[u].phase = "done"
  /\ wf' = [u \in Threads |->
       IF u = t THEN [wf[t] EXCEPT !.phase = "loop"]
       ELSE IF u \in ChildrenOf(t) THEN Free ELSE wf[u]]
  /\ UNCHANGED <<signals, artifacts, aborts>>

-----------------------------------------------------------------------------
(* The end of a workflow.                                                   *)

(* Somebody waits for a child, or the root's result stays. *)
AtEnd(t) == IF t = Root \/ wf[t].parent # None THEN Ended(wf[t].parent) ELSE Free

Finish(t) ==
  /\ wf[t].phase = "loop" /\ wf[t].found = {} /\ Occupied(t) = {}
  /\ wf' = [wf EXCEPT ![t] = AtEnd(t)]
  /\ UNCHANGED <<signals, artifacts, aborts>>

(* A panic, or the time limit of the root's stream: the future is dropped,   *)
(* and with it the handles of the children, which go on by themselves.       *)
Abort(t) ==
  /\ wf[t].phase \notin {"free", "done"}
  /\ aborts < MaxAborts /\ aborts' = aborts + 1
  /\ wf' = [u \in Threads |->
       IF u = t THEN AtEnd(t)
       ELSE IF u \notin ChildrenOf(t) THEN wf[u]
       ELSE IF wf[u].phase = "done" THEN Free
       ELSE [wf[u] EXCEPT !.parent = None]]
  /\ UNCHANGED <<signals, artifacts>>

-----------------------------------------------------------------------------
(* What signals of one kind may be about. *)
Targets(n) == {S \in SUBSET Agents : Cardinality(S) <= MaxSignals - signals - n}

EndsGroup(t) ==
  /\ wf[t].phase = "running"
  /\ \E ended \in SUBSET wf[t].running, request \in Targets(0) :
       \E skip \in Targets(Cardinality(request)) :
         \E priority \in Targets(Cardinality(request) + Cardinality(skip)) :
           EndGroup(t, ended, request, skip, priority)

Spawns(t) ==
  \E source \in {f[2] : f \in wf[t].found} : \E capped \in SUBSET From(t, source) :
    \E S \in SUBSET ToAnalyse(t, capped) :
      /\ Injection(S, FreeThreads) # {}
      /\ SpawnChildren(t, source, capped, NewThreads(S))

ThreadStep(t) ==
  \/ \E g \in Groups : StartGroup(t, g)
  \/ EndsGroup(t) \/ Repivot(t) \/ NoRepivot(t)
  \/ \E ok \in BOOLEAN : FindChildren(t, ok)
  \/ Spawns(t) \/ Join(t) \/ Finish(t)

Next ==
  \/ \E t \in Threads : ThreadStep(t) \/ Abort(t)
  \/ Replace
  \/ \E f \in Extracts : Extract(f[1], f[2])

Spec == Init /\ [][Next]_vars

(* Fairness: agents return, as their calls and their rounds are limited in   *)
(* time and number, and the orchestrator's tasks go on.                      *)
FairSpec == Spec /\ \A t \in Threads : WF_vars(ThreadStep(t))

-----------------------------------------------------------------------------
(* Properties.                                                              *)

Original(a)     == SumFunction(Plan[a])
StepsLeft(t, a) == SumFunction(wf[t].plan[a])

(* No content is analysed again below a thread that analyses it: however the  *)
(* threads of a project find each other's files, what an ancestor of a thread *)
(* was spawned for does not come back, so that files which contain each other *)
(* come to an end (visited_sha256).  The sample itself is not visited.        *)
ChainDistinct ==
  \A t \in Threads : wf[t].phase # "free" => wf[t].subject \notin wf[t].lineage

(* While a child that somebody waits for is at work its parent does nothing:  *)
(* no later group of the parent runs before the results of all children of    *)
(* the last one are there (the joins at the end of a fan-out).                *)
ParentWaits ==
  \A t \in Threads :
    wf[t].phase \notin {"free", "done"} /\ wf[t].parent # None
      => wf[wf[t].parent].phase = "waiting"

(* An agent that was skipped has no step left in any group, unless it was     *)
(* asked for again or a replacement called it back (apply_signals).           *)
SkippedStaysOut ==
  \A t \in Threads : \A a \in wf[t].skipped : ~Planned(t, a)

(* Every step an agent has run, or has ahead of it, is one of the plan, of a  *)
(* request, or of a replacement, and the latter only if its step allows it    *)
(* (can_repivot, MAX_REPIVOTS).  Together they never leave it more steps      *)
(* ahead than the plan gave it, or one (already_planned).                     *)
RunsExplained ==
  \A t \in Threads, a \in Agents :
    /\ StepsLeft(t, a) <= Original(a) \/ StepsLeft(t, a) <= 1
    /\ wf[t].runs[a] + StepsLeft(t, a)
         <= Original(a) + wf[t].requested[a] + (IF a \in Stays THEN 0 ELSE wf[t].repivots)

(* Every workflow and every workflow it spawns ends, once its agents ask for  *)
(* nothing more: replacements are counted, files do not come back, and no     *)
(* thread waits for one that waits for it.                                    *)
EveryWorkflowEnds ==
  <>[](\A t \in Threads : wf[t].phase \in {"free", "done"})
=============================================================================
