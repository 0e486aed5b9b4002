---------------------------- MODULE AgentsProofs ----------------------------
(***************************************************************************)
(* Proofs about the agents: the workflow that runs them in turn, for any   *)
(* number of threads, agents and files; and the loop of one agent, for any *)
(* plan of answers, sizes and capacities.                                  *)
(***************************************************************************)
EXTENDS Workflow, AgentLoop, SumProofs

(***************************************************************************)
(*                                 Workflow                                *)
(***************************************************************************)
(* Only a thread that may spawn children has files to deal with. *)
DepthLeft == \A t \in Threads : wf[t].found # {} => wf[t].depth < MaxDepth

TypeInv == TypeOK /\ DepthLeft

(* A workflow that begins is well typed. *)
LEMMA FreshType ==
  ASSUME NEW subject \in Hashes, NEW visited \in SUBSET Hashes, NEW depth \in 0..MaxDepth,
         NEW parent \in Threads \cup {None}, NEW lineage \in SUBSET Hashes
  PROVE  /\ Fresh(subject, visited, depth, parent, lineage) \in Workflows
         /\ Fresh(subject, visited, depth, parent, lineage).found = {}
<1>1. 1..LastGroup \subseteq Groups
  BY WorkflowConstants DEF Groups
<1>2. [a \in Agents |-> [g \in Groups |-> IF g <= LastGroup THEN Plan[a][g] ELSE 0]]
        \in [Agents -> [Groups -> Nat]]
  BY WorkflowConstants DEF Groups
<1> QED
  BY <1>2, WorkflowConstants DEF Fresh, Workflows, Phases

(* A change of phase keeps the types and the files. *)
LEMMA PhaseType ==
  ASSUME NEW r \in Workflows, NEW p \in Phases
  PROVE  [r EXCEPT !.phase = p] \in Workflows /\ [r EXCEPT !.phase = p].found = r.found
BY DEF Workflows

(* So is one that has ended, and a thread nobody uses. *)
LEMMA EndType ==
  ASSUME TypeOK, NEW t \in Threads
  PROVE  /\ AtEnd(t) \in Workflows /\ AtEnd(t).found = {}
         /\ Free \in Workflows /\ Free.found = {}
<1> DEFINE e(p) == Fresh(Sample, {}, 0, p, {})
<1>1. ASSUME NEW p \in Threads \cup {None}
      PROVE  /\ Ended(p) \in Workflows /\ Ended(p).found = {}
             /\ [Ended(p) EXCEPT !.phase = "free"] \in Workflows
             /\ [Ended(p) EXCEPT !.phase = "free"].found = {}
  <2>0. Sample \in Hashes /\ {} \in SUBSET Hashes /\ 0 \in 0..MaxDepth
    BY WorkflowConstants
  <2>1. e(p) \in Workflows /\ e(p).found = {}
    BY <1>1, <2>0, FreshType
  <2> HIDE DEF e
  <2>2. Ended(p) = [e(p) EXCEPT !.phase = "done"]
    BY DEF Ended, e
  <2>3. "done" \in Phases /\ "free" \in Phases
    BY DEF Phases
  <2> QED
    BY <2>1, <2>2, <2>3, PhaseType
<1>2. wf[t].parent \in Threads \cup {None}
  BY DEF TypeOK, Workflows
<1> QED
  BY <1>1, <1>2 DEF AtEnd, Free

(* The initial state is well typed. *)
LEMMA TypeInit == Init => TypeInv
<1> SUFFICES ASSUME Init PROVE TypeInv
  OBVIOUS
<1>1. Free \in Workflows /\ Free.found = {}
  <2>1. Fresh(Sample, {}, 0, None, {}) \in Workflows /\ Fresh(Sample, {}, 0, None, {}).found = {}
    BY FreshType, WorkflowConstants
  <2>2. "done" \in Phases /\ "free" \in Phases
    BY DEF Phases
  <2>3. Ended(None) \in Workflows /\ Ended(None).found = {}
    BY <2>1, <2>2, PhaseType DEF Ended
  <2> QED
    BY <2>2, <2>3, PhaseType DEF Free
<1>2. Fresh(Sample, {}, 0, None, {}) \in Workflows /\ Fresh(Sample, {}, 0, None, {}).found = {}
  BY FreshType, WorkflowConstants
<1> QED
  BY <1>1, <1>2, WorkflowConstants DEF Init, TypeInv, TypeOK, DepthLeft

(* A step of one thread keeps the types if it keeps those of that thread.    *)
LEMMA OneThread ==
  ASSUME TypeInv, NEW t \in Threads, NEW r \in Workflows, wf' = [wf EXCEPT ![t] = r],
         r.found # {} => r.depth < MaxDepth
  PROVE  wf' \in [Threads -> Workflows] /\ DepthLeft'
BY DEF TypeInv, TypeOK, DepthLeft

(* The steps that are left after any change to one agent's groups.           *)
LEMMA AppliedType ==
  ASSUME TypeOK, NEW t \in Threads, NEW request, NEW skip, NEW priority
  PROVE  Applied(t, request, skip, priority) \in [Agents -> [Groups -> Nat]]
<1>1. wf[t].plan \in [Agents -> [Groups -> Nat]]
  BY DEF TypeOK, Workflows
<1>2. ASSUME NEW a \in Agents
      PROVE  /\ WithRequest(t, a) \in [Groups -> Nat] /\ WithSkip(t, a) \in [Groups -> Nat]
             /\ WithPriority(t, a) \in [Groups -> Nat]
  <2>1. wf[t].plan[a] \in [Groups -> Nat]
    BY <1>1
  <2>2. WithRequest(t, a) \in [Groups -> Nat]
    <3> DEFINE f == wf[t].plan[a]
               n == NextGroup(t)
    <3>1. f \in [Groups -> Nat]
      BY <2>1
    <3>2. WithRequest(t, a) = [f EXCEPT ![n] = f[n] + 1]
      BY DEF WithRequest
    <3> HIDE DEF f, n
    <3>3. n \in Groups => f[n] + 1 \in Nat
      BY <3>1
    <3> QED
      BY <3>1, <3>2, <3>3
  <2>3. WithSkip(t, a) \in [Groups -> Nat]
    BY DEF WithSkip
  <2>4. WithPriority(t, a) \in [Groups -> Nat]
    BY <2>1 DEF WithPriority
  <2> QED
    BY <2>2, <2>3, <2>4
<1> QED
  BY <1>1, <1>2 DEF Applied

(* Signals keep to their bound. *)
LEMMA SignalsType ==
  ASSUME TypeOK, NEW request \in Targets(0), NEW skip \in Targets(Cardinality(request)),
         NEW priority \in Targets(Cardinality(request) + Cardinality(skip)),
         signals' = signals + (Cardinality(request) + Cardinality(skip) + Cardinality(priority))
  PROVE  signals' \in 0..MaxSignals
<1>1. request \subseteq Agents /\ skip \subseteq Agents /\ priority \subseteq Agents
  BY DEF Targets
<1>2. /\ Cardinality(request) \in Nat /\ Cardinality(skip) \in Nat
      /\ Cardinality(priority) \in Nat
  BY <1>1, FS_Subset, FS_CardinalityType, WorkflowConstants
<1>3. Cardinality(priority) <= MaxSignals - signals - (Cardinality(request) + Cardinality(skip))
  BY DEF Targets
<1> QED
  BY <1>2, <1>3, WorkflowConstants DEF TypeOK

(* Every step of a thread keeps the types: what it writes to its own record. *)
LEMMA StartGroupType ==
  ASSUME TypeInv, NEW t \in Threads, NEW g \in Groups, StartGroup(t, g)
  PROVE  TypeInv'
<1> DEFINE r == [wf[t] EXCEPT !.phase = "running", !.current = g,
                 !.running = {a \in Agents : wf[t].plan[a][g] > 0},
                 !.plan = [a \in Agents |-> [wf[t].plan[a] EXCEPT ![g] = 0]],
                 !.runs = [a \in Agents |-> wf[t].runs[a] + wf[t].plan[a][g]],
                 !.replaced = FALSE, !.children = {}]
<1>1. wf[t] \in Workflows
  BY DEF TypeInv, TypeOK
<1>2. [a \in Agents |-> [wf[t].plan[a] EXCEPT ![g] = 0]] \in [Agents -> [Groups -> Nat]]
  BY <1>1 DEF Workflows
<1>3. [a \in Agents |-> wf[t].runs[a] + wf[t].plan[a][g]] \in [Agents -> Nat]
  BY <1>1 DEF Workflows
<1>4. r \in Workflows /\ (r.found # {} => r.depth < MaxDepth)
  BY <1>1, <1>2, <1>3 DEF Workflows, Phases, StartGroup
<1>5. wf' = [wf EXCEPT ![t] = r]
  BY DEF StartGroup
<1> QED
  BY <1>4, <1>5, OneThread DEF TypeInv, TypeOK, StartGroup

(* The end of a group, with its signals. *)
LEMMA EndsGroupType ==
  ASSUME TypeInv, NEW t \in Threads, EndsGroup(t)
  PROVE  TypeInv'
<1>0. PICK ended \in SUBSET wf[t].running, request \in Targets(0) :
        \E skip \in Targets(Cardinality(request)) :
          \E priority \in Targets(Cardinality(request) + Cardinality(skip)) :
            EndGroup(t, ended, request, skip, priority)
  BY DEF EndsGroup
<1>1. PICK skip \in Targets(Cardinality(request)) :
        \E priority \in Targets(Cardinality(request) + Cardinality(skip)) :
          EndGroup(t, ended, request, skip, priority)
  BY <1>0
<1>2. PICK priority \in Targets(Cardinality(request) + Cardinality(skip)) :
        EndGroup(t, ended, request, skip, priority)
  BY <1>1
<1> DEFINE asked == [a \in Agents |->
                       IF a \in request /\ CanRequest(t, a)
                       THEN wf[t].requested[a] + 1 ELSE wf[t].requested[a]]
           r == [wf[t] EXCEPT !.phase = "repivot", !.running = {},
                 !.completed = @ \cup ended,
                 !.plan = Applied(t, request, skip, priority),
                 !.skipped = (@ \ request) \cup (skip \ request),
                 !.requested = asked]
<1>3. wf[t] \in Workflows
  BY DEF TypeInv, TypeOK
<1>4. asked \in [Agents -> Nat]
  BY <1>3 DEF Workflows
<1>5. Applied(t, request, skip, priority) \in [Agents -> [Groups -> Nat]]
  BY AppliedType DEF TypeInv
<1>6. skip \subseteq Agents
  BY DEF Targets
<1>7. wf[t].found # {} => wf[t].depth < MaxDepth
  BY DEF TypeInv, DepthLeft
<1>8. r \in Workflows /\ (r.found # {} => r.depth < MaxDepth)
  BY <1>3, <1>4, <1>5, <1>6, <1>7 DEF Workflows, Phases
<1>9. wf' = [wf EXCEPT ![t] = r]
  BY <1>2 DEF EndGroup
<1>10. signals' \in 0..MaxSignals
  BY <1>2, SignalsType DEF EndGroup, TypeInv
<1> QED
  BY <1>2, <1>8, <1>9, <1>10, OneThread DEF TypeInv, TypeOK, EndGroup

(* A replacement that re-queues agents. *)
LEMMA RepivotType ==
  ASSUME TypeInv, NEW t \in Threads, Repivot(t)
  PROVE  TypeInv'
<1> DEFINE again == [a \in Agents |-> IF a \in Requeued(t)
                       THEN [wf[t].plan[a] EXCEPT ![NextGroup(t)] = 1]
                       ELSE wf[t].plan[a]]
           r == [wf[t] EXCEPT !.phase = "fanout", !.repivots = @ + 1,
                 !.skipped = @ \ Requeued(t), !.plan = again]
<1>1. wf[t] \in Workflows
  BY DEF TypeInv, TypeOK
<1>2. again \in [Agents -> [Groups -> Nat]]
  BY <1>1 DEF Workflows
<1>3. wf[t].repivots + 1 \in 0..MaxRepivots
  BY <1>1, WorkflowConstants DEF Workflows, Repivot
<1>4. wf[t].found # {} => wf[t].depth < MaxDepth
  BY DEF TypeInv, DepthLeft
<1>5. r \in Workflows /\ (r.found # {} => r.depth < MaxDepth)
  BY <1>1, <1>2, <1>3, <1>4 DEF Workflows, Phases
<1>6. wf' = [wf EXCEPT ![t] = r]
  BY DEF Repivot
<1> QED
  BY <1>5, <1>6, OneThread DEF TypeInv, TypeOK, Repivot

(* The queries for replacements and for extracted files. *)
LEMMA QueriesType ==
  ASSUME TypeInv, NEW t \in Threads,
         NoRepivot(t) \/ (\E ok \in BOOLEAN : FindChildren(t, ok))
  PROVE  TypeInv'
<1>1. wf[t] \in Workflows /\ (wf[t].found # {} => wf[t].depth < MaxDepth)
  BY DEF TypeInv, TypeOK, DepthLeft
<1>2. CASE NoRepivot(t)
  <2> DEFINE r == [wf[t] EXCEPT !.phase = "fanout"]
  <2>1. r \in Workflows /\ (r.found # {} => r.depth < MaxDepth)
    BY <1>1 DEF Workflows, Phases
  <2>2. wf' = [wf EXCEPT ![t] = r]
    BY <1>2 DEF NoRepivot
  <2> QED
    BY <1>2, <2>1, <2>2, OneThread DEF TypeInv, TypeOK, NoRepivot
<1>3. ASSUME NEW ok \in BOOLEAN, FindChildren(t, ok) PROVE TypeInv'
  <2> DEFINE r == [wf[t] EXCEPT !.phase = "loop",
                 !.found = IF ok /\ wf[t].depth < MaxDepth THEN wf[t].children ELSE {},
                 !.replaced = FALSE, !.children = {}]
  <2>1. r \in Workflows /\ (r.found # {} => r.depth < MaxDepth)
    BY <1>1 DEF Workflows, Phases
  <2>2. wf' = [wf EXCEPT ![t] = r]
    BY <1>3 DEF FindChildren
  <2> QED
    BY <1>3, <2>1, <2>2, OneThread DEF TypeInv, TypeOK, FindChildren
<1> QED
  BY <1>2, <1>3

(* What the steps of other threads, and the end of a wait, change in a record. *)
LEMMA RecordType ==
  ASSUME NEW r \in Workflows, NEW c \in SUBSET Extracts, NEW f \in SUBSET r.found
  PROVE  /\ [r EXCEPT !.replaced = TRUE] \in Workflows
         /\ [r EXCEPT !.children = c] \in Workflows
         /\ [r EXCEPT !.parent = None] \in Workflows
         /\ [r EXCEPT !.phase = "loop"] \in Workflows
         /\ [r EXCEPT !.phase = "waiting", !.found = f] \in Workflows
         /\ [r EXCEPT !.phase = "waiting", !.found = f].found = f
         /\ [r EXCEPT !.phase = "waiting", !.found = f].depth = r.depth
<1>1. [r EXCEPT !.replaced = TRUE] \in Workflows
  BY DEF Workflows
<1>2. [r EXCEPT !.children = c] \in Workflows
  BY DEF Workflows
<1>3. [r EXCEPT !.parent = None] \in Workflows
  BY DEF Workflows
<1>4. [r EXCEPT !.phase = "loop"] \in Workflows
  BY DEF Workflows, Phases
<1>5. f \subseteq Extracts
  BY DEF Workflows
<1>6. /\ [r EXCEPT !.phase = "waiting", !.found = f] \in Workflows
      /\ [r EXCEPT !.phase = "waiting", !.found = f].found = f
      /\ [r EXCEPT !.phase = "waiting", !.found = f].depth = r.depth
  BY <1>5 DEF Workflows, Phases
<1> QED
  BY <1>1, <1>2, <1>3, <1>4, <1>6

(* Records keep what a change of another field does not touch. *)
LEMMA RecordKeeps ==
  ASSUME NEW r \in Workflows, NEW c
  PROVE  /\ [r EXCEPT !.replaced = TRUE].found = r.found
         /\ [r EXCEPT !.replaced = TRUE].depth = r.depth
         /\ [r EXCEPT !.children = c].found = r.found
         /\ [r EXCEPT !.children = c].depth = r.depth
         /\ [r EXCEPT !.parent = None].found = r.found
         /\ [r EXCEPT !.parent = None].depth = r.depth
         /\ [r EXCEPT !.phase = "loop"].found = r.found
         /\ [r EXCEPT !.phase = "loop"].depth = r.depth
BY DEF Workflows

(* Artifacts noticed by other threads. *)
LEMMA ArtifactsType ==
  ASSUME TypeInv, Replace \/ (\E f \in Extracts : Extract(f[1], f[2]))
  PROVE  TypeInv'
<1>1. \A u \in Threads : wf[u] \in Workflows /\ (wf[u].found # {} => wf[u].depth < MaxDepth)
  BY DEF TypeInv, TypeOK, DepthLeft
<1>2. CASE Replace
  <2>1. \A u \in Threads : /\ [wf[u] EXCEPT !.replaced = TRUE] \in Workflows
                           /\ [wf[u] EXCEPT !.replaced = TRUE].found = wf[u].found
                           /\ [wf[u] EXCEPT !.replaced = TRUE].depth = wf[u].depth
    BY <1>1, RecordType, RecordKeeps
  <2>2. \A u \in Threads : /\ wf'[u] \in Workflows
                           /\ wf'[u].found # {} => wf'[u].depth < MaxDepth
    BY <1>1, <1>2, <2>1 DEF Replace
  <2>3. wf' \in [Threads -> Workflows]
    BY <1>2, <2>2 DEF Replace
  <2> QED
    BY <1>2, <2>2, <2>3, WorkflowConstants DEF TypeInv, TypeOK, DepthLeft, Replace
<1>3. ASSUME NEW f \in Extracts, Extract(f[1], f[2]) PROVE TypeInv'
  <2>0. <<f[1], f[2]>> \in Extracts
    BY WorkflowConstants
  <2> DEFINE c(u) == wf[u].children \cup {<<f[1], f[2]>>}
  <2>1. ASSUME NEW u \in Threads
        PROVE  /\ [wf[u] EXCEPT !.children = c(u)] \in Workflows
               /\ [wf[u] EXCEPT !.children = c(u)].found = wf[u].found
               /\ [wf[u] EXCEPT !.children = c(u)].depth = wf[u].depth
    <3>1. c(u) \in SUBSET Extracts
      BY <1>1, <2>0 DEF Workflows
    <3> HIDE DEF c
    <3> QED
      BY <1>1, <3>1, RecordType, RecordKeeps
  <2>2. \A u \in Threads : /\ wf'[u] \in Workflows
                           /\ wf'[u].found # {} => wf'[u].depth < MaxDepth
    BY <1>1, <1>3, <2>1 DEF Extract
  <2>3. wf' \in [Threads -> Workflows]
    BY <1>3, <2>2 DEF Extract
  <2> QED
    BY <1>3, <2>2, <2>3, WorkflowConstants DEF TypeInv, TypeOK, DepthLeft, Extract
<1> QED
  BY <1>2, <1>3

(* A child thread begins well typed, one level below a thread that may spawn. *)
LEMMA ChildType ==
  ASSUME TypeInv, NEW t \in Threads, NEW source, NEW capped \in SUBSET From(t, source),
         From(t, source) # {}, NEW h \in ToAnalyse(t, capped)
  PROVE  /\ Child(t, h, capped) \in Workflows /\ Child(t, h, capped).found = {}
         /\ h \in Files
<1>1. wf[t] \in Workflows /\ (wf[t].found # {} => wf[t].depth < MaxDepth)
  BY DEF TypeInv, TypeOK, DepthLeft
<1>2. capped \subseteq Files /\ h \in Files /\ wf[t].found # {}
  BY DEF From, ToAnalyse
<1> DEFINE v == wf[t].visited \cup {Sha256[c] : c \in capped}
           d == wf[t].depth + 1
           l == wf[t].lineage \cup (IF t = Root THEN {} ELSE {wf[t].subject})
<1>3. v \in SUBSET Hashes /\ l \in SUBSET Hashes /\ Sha256[h] \in Hashes
  BY <1>1, <1>2, WorkflowConstants DEF Workflows
<1>4. d \in 0..MaxDepth
  BY <1>1, <1>2, WorkflowConstants DEF Workflows
<1>5. Child(t, h, capped) = Fresh(Sha256[h], v, d, t, l)
  BY DEF Child
<1> HIDE DEF v, d, l
<1> QED
  BY <1>2, <1>3, <1>4, <1>5, FreshType

(* Spawning children: the parent's record and those of the children. *)
LEMMA SpawnsType ==
  ASSUME TypeInv, NEW t \in Threads, NEW source, NEW capped \in SUBSET From(t, source),
         NEW at, SpawnChildren(t, source, capped, at)
  PROVE  TypeInv'
<1> DEFINE p == [wf[t] EXCEPT !.phase = "waiting",
                              !.found = {f \in wf[t].found : f[2] # source}]
           k(u) == Child(t, CHOOSE h \in DOMAIN at : at[h] = u, capped)
<1>1. \A u \in Threads : wf[u] \in Workflows /\ (wf[u].found # {} => wf[u].depth < MaxDepth)
  BY DEF TypeInv, TypeOK, DepthLeft
<1>2. p \in Workflows /\ (p.found # {} => p.depth < MaxDepth)
  <2> DEFINE g == {f \in wf[t].found : f[2] # source}
  <2>1. g \in SUBSET wf[t].found
    OBVIOUS
  <2> HIDE DEF g
  <2>2. p.found = g /\ p.depth = wf[t].depth /\ p \in Workflows
    BY <1>1, <2>1, RecordType DEF g
  <2> QED
    BY <1>1, <2>1, <2>2
<1>3. ASSUME NEW u \in Threads, \E h \in DOMAIN at : at[h] = u
      PROVE  k(u) \in Workflows /\ k(u).found = {}
  <2>1. (CHOOSE h \in DOMAIN at : at[h] = u) \in ToAnalyse(t, capped)
    BY <1>3 DEF SpawnChildren
  <2> QED
    BY <2>1, ChildType DEF SpawnChildren
<1>4. wf' = [u \in Threads |-> IF u = t THEN p
                               ELSE IF \E h \in DOMAIN at : at[h] = u THEN k(u) ELSE wf[u]]
  BY DEF SpawnChildren
<1> HIDE DEF p, k
<1>5. \A u \in Threads : /\ wf'[u] \in Workflows
                         /\ wf'[u].found # {} => wf'[u].depth < MaxDepth
  BY <1>1, <1>2, <1>3, <1>4
<1>6. wf' \in [Threads -> Workflows]
  BY <1>4, <1>5
<1> QED
  BY <1>5, <1>6 DEF SpawnChildren, TypeInv, TypeOK, DepthLeft

(* The ends of waits and of workflows. *)
LEMMA EndsType ==
  ASSUME TypeInv, NEW t \in Threads, Join(t) \/ Finish(t) \/ Abort(t)
  PROVE  TypeInv'
<1>1. \A u \in Threads : wf[u] \in Workflows /\ (wf[u].found # {} => wf[u].depth < MaxDepth)
  BY DEF TypeInv, TypeOK, DepthLeft
<1>2. /\ AtEnd(t) \in Workflows /\ AtEnd(t).found = {}
      /\ Free \in Workflows /\ Free.found = {}
  BY EndType DEF TypeInv
<1>3. CASE Join(t)
  <2> DEFINE p == [wf[t] EXCEPT !.phase = "loop"]
  <2>1. p \in Workflows /\ (p.found # {} => p.depth < MaxDepth)
    BY <1>1, RecordType, RecordKeeps
  <2>2. wf' = [u \in Threads |-> IF u = t THEN p
                                 ELSE IF u \in ChildrenOf(t) THEN Free ELSE wf[u]]
    BY <1>3 DEF Join
  <2> HIDE DEF p
  <2>3. \A u \in Threads : /\ wf'[u] \in Workflows
                           /\ wf'[u].found # {} => wf'[u].depth < MaxDepth
    BY <1>1, <1>2, <2>1, <2>2
  <2>4. wf' \in [Threads -> Workflows]
    BY <2>2, <2>3
  <2> QED
    BY <1>3, <2>3, <2>4 DEF Join, TypeInv, TypeOK, DepthLeft
<1>4. CASE Finish(t)
  BY <1>2, <1>4, OneThread DEF Finish, TypeInv, TypeOK
<1>5. CASE Abort(t)
  <2> DEFINE o(u) == [wf[u] EXCEPT !.parent = None]
  <2>1. \A u \in Threads : o(u) \in Workflows /\ (o(u).found # {} => o(u).depth < MaxDepth)
    BY <1>1, RecordType, RecordKeeps
  <2>2. wf' = [u \in Threads |-> IF u = t THEN AtEnd(t)
                                 ELSE IF u \notin ChildrenOf(t) THEN wf[u]
                                 ELSE IF wf[u].phase = "done" THEN Free ELSE o(u)]
    BY <1>5 DEF Abort
  <2> HIDE DEF o
  <2>3. \A u \in Threads : /\ wf'[u] \in Workflows
                           /\ wf'[u].found # {} => wf'[u].depth < MaxDepth
    BY <1>1, <1>2, <2>1, <2>2
  <2>4. wf' \in [Threads -> Workflows]
    BY <2>2, <2>3
  <2>5. aborts' \in 0..MaxAborts
    BY <1>5, WorkflowConstants DEF Abort, TypeInv, TypeOK
  <2> QED
    BY <1>5, <2>3, <2>4, <2>5 DEF Abort, TypeInv, TypeOK, DepthLeft
<1> QED
  BY <1>3, <1>4, <1>5

(* Every step keeps the types. *)
LEMMA TypeStep == TypeInv /\ [Next]_vars => TypeInv'
<1> SUFFICES ASSUME TypeInv, [Next]_vars PROVE TypeInv'
  OBVIOUS
<1>1. ASSUME NEW t \in Threads, ThreadStep(t) PROVE TypeInv'
  <2>1. ASSUME NEW g \in Groups, StartGroup(t, g) PROVE TypeInv'
    BY <2>1, StartGroupType
  <2>2. CASE EndsGroup(t)
    BY <2>2, EndsGroupType
  <2>3. CASE Repivot(t)
    BY <2>3, RepivotType
  <2>4. CASE NoRepivot(t) \/ (\E ok \in BOOLEAN : FindChildren(t, ok))
    BY <2>4, QueriesType
  <2>5. CASE Spawns(t)
    <3>1. PICK source \in {f[2] : f \in wf[t].found} :
            \E capped \in SUBSET From(t, source) : \E S \in SUBSET ToAnalyse(t, capped) :
              SpawnChildren(t, source, capped, NewThreads(S))
      BY <2>5 DEF Spawns
    <3> QED
      BY <3>1, SpawnsType
  <2>6. CASE Join(t) \/ Finish(t)
    BY <2>6, EndsType
  <2> QED
    BY <1>1, <2>1, <2>2, <2>3, <2>4, <2>5, <2>6 DEF ThreadStep
<1>2. ASSUME NEW t \in Threads, Abort(t) PROVE TypeInv'
  BY <1>2, EndsType
<1>3. CASE Replace \/ (\E f \in Extracts : Extract(f[1], f[2]))
  BY <1>3, ArtifactsType
<1>4. CASE UNCHANGED vars
  BY <1>4 DEF vars, TypeInv, TypeOK, DepthLeft
<1> QED
  BY <1>1, <1>2, <1>3, <1>4 DEF Next

(* The state of every thread keeps its types, and only a thread above        *)
(* MAX_FANOUT_DEPTH has files to spawn children for (execute_workflow).      *)
THEOREM TypeCorrect == Spec => []TypeOK
<1>1. TypeInv => TypeOK
  BY DEF TypeInv
<1> QED
  BY TypeInit, TypeStep, <1>1, PTL DEF Spec

-----------------------------------------------------------------------------
(* Files do not come back.                                                  *)

Busy(r) == r.phase \notin {"free", "done"}

(* Two states of one thread in one workflow. *)
SameWorkflow(r, q) ==
  /\ q.subject = r.subject /\ q.visited = r.visited /\ q.lineage = r.lineage
  /\ Busy(q) => Busy(r)
  /\ q.phase # "free" => r.phase # "free"

(* A thread that has nothing to do: it never began, or has ended. *)
AtRest(q) == ~Busy(q) /\ q.lineage = {}

(* A thread that has just been spawned. *)
NewChild(q) ==
  \E t \in Threads : \E source : \E capped \in SUBSET From(t, source) :
    \E h \in ToAnalyse(t, capped) :
      wf[t].phase = "loop" /\ q = Child(t, h, capped)

(* What is left of a workflow that ended is at rest. *)
LEMMA RestShape ==
  ASSUME NEW t \in Threads
  PROVE  AtRest(Free) /\ AtRest(AtEnd(t))
<1>1. ASSUME NEW p PROVE AtRest(Ended(p))
  BY DEF AtRest, Busy, Ended, Fresh
<1>2. AtRest(Free)
  BY DEF AtRest, Busy, Free, Ended, Fresh
<1> QED
  BY <1>1, <1>2 DEF AtEnd

(* What one step makes of the workflow in a thread. *)
LEMMA StepShape ==
  ASSUME TypeInv, Next, NEW u \in Threads
  PROVE  SameWorkflow(wf[u], wf'[u]) \/ AtRest(wf'[u]) \/ NewChild(wf'[u])
<1>1. wf \in [Threads -> Workflows] /\ wf[u] \in Workflows
  BY DEF TypeInv, TypeOK
<1>2. SameWorkflow(wf[u], wf[u])
  BY DEF SameWorkflow
<1>3. ASSUME NEW t \in Threads, ThreadStep(t)
      PROVE  SameWorkflow(wf[u], wf'[u]) \/ AtRest(wf'[u]) \/ NewChild(wf'[u])
  <2>1. ASSUME NEW g \in Groups, StartGroup(t, g) PROVE SameWorkflow(wf[u], wf'[u])
    BY <1>1, <1>2, <2>1 DEF StartGroup, Workflows, SameWorkflow, Busy
  <2>2. ASSUME EndsGroup(t) PROVE SameWorkflow(wf[u], wf'[u])
    BY <1>1, <1>2, <2>2 DEF EndsGroup, EndGroup, Workflows, SameWorkflow, Busy
  <2>3. ASSUME Repivot(t) PROVE SameWorkflow(wf[u], wf'[u])
    BY <1>1, <1>2, <2>3 DEF Repivot, Workflows, SameWorkflow, Busy
  <2>4. ASSUME NoRepivot(t) PROVE SameWorkflow(wf[u], wf'[u])
    BY <1>1, <1>2, <2>4 DEF NoRepivot, Workflows, SameWorkflow, Busy
  <2>5. ASSUME NEW ok \in BOOLEAN, FindChildren(t, ok) PROVE SameWorkflow(wf[u], wf'[u])
    BY <1>1, <1>2, <2>5 DEF FindChildren, Workflows, SameWorkflow, Busy
  <2>6. ASSUME Spawns(t) PROVE SameWorkflow(wf[u], wf'[u]) \/ NewChild(wf'[u])
    <3>1. PICK source \in {f[2] : f \in wf[t].found} :
            \E capped \in SUBSET From(t, source) : \E S \in SUBSET ToAnalyse(t, capped) :
              SpawnChildren(t, source, capped, NewThreads(S))
      BY <2>6 DEF Spawns
    <3>2. PICK capped \in SUBSET From(t, source) : \E S \in SUBSET ToAnalyse(t, capped) :
            SpawnChildren(t, source, capped, NewThreads(S))
      BY <3>1
    <3>3. PICK S \in SUBSET ToAnalyse(t, capped) :
            SpawnChildren(t, source, capped, NewThreads(S))
      BY <3>2
    <3> DEFINE at == NewThreads(S)
               h == CHOOSE x \in DOMAIN at : at[x] = u
    <3>4. CASE u # t /\ \E x \in DOMAIN at : at[x] = u
      <4>1. h \in ToAnalyse(t, capped)
        BY <3>3, <3>4 DEF SpawnChildren
      <4>2. wf'[u] = Child(t, h, capped) /\ wf[t].phase = "loop"
        BY <3>3, <3>4 DEF SpawnChildren
      <4> HIDE DEF h
      <4> QED
        BY <4>1, <4>2 DEF NewChild
    <3>5. CASE u = t
      BY <1>1, <3>3, <3>5 DEF SpawnChildren, Workflows, SameWorkflow, Busy
    <3>6. CASE u # t /\ ~\E x \in DOMAIN at : at[x] = u
      BY <1>2, <3>3, <3>6 DEF SpawnChildren
    <3> QED
      BY <3>4, <3>5, <3>6
  <2>7. ASSUME Join(t) PROVE SameWorkflow(wf[u], wf'[u]) \/ AtRest(wf'[u])
    <3>1. CASE u = t
      BY <1>1, <2>7, <3>1 DEF Join, Workflows, SameWorkflow, Busy
    <3>2. CASE u # t
      BY <1>2, <2>7, <3>2, RestShape DEF Join
    <3> QED
      BY <3>1, <3>2
  <2>8. ASSUME Finish(t) PROVE SameWorkflow(wf[u], wf'[u]) \/ AtRest(wf'[u])
    BY <1>1, <1>2, <2>8, RestShape DEF Finish
  <2> QED
    BY <1>3, <2>1, <2>2, <2>3, <2>4, <2>5, <2>6, <2>7, <2>8 DEF ThreadStep
<1>4. ASSUME NEW t \in Threads, Abort(t)
      PROVE  SameWorkflow(wf[u], wf'[u]) \/ AtRest(wf'[u])
  <2>1. SameWorkflow(wf[u], [wf[u] EXCEPT !.parent = None])
    BY <1>1 DEF Workflows, SameWorkflow, Busy
  <2> QED
    BY <1>2, <1>4, <2>1, RestShape DEF Abort
<1>5. CASE Replace
  BY <1>1, <1>2, <1>5 DEF Replace, Workflows, SameWorkflow, Busy
<1>6. ASSUME NEW f \in Extracts, Extract(f[1], f[2]) PROVE SameWorkflow(wf[u], wf'[u])
  BY <1>1, <1>2, <1>6 DEF Extract, Workflows, SameWorkflow, Busy
<1> QED
  BY <1>3, <1>4, <1>5, <1>6 DEF Next

(* What an ancestor was spawned for is among the visited files of a thread,  *)
(* and so is what the thread itself was spawned for.                         *)
Chained(u) ==
  /\ wf[u].phase # "free" => wf[u].subject \notin wf[u].lineage
  /\ Busy(wf[u]) => /\ wf[u].lineage \subseteq wf[u].visited
                    /\ u # Root => wf[u].subject \in wf[u].visited

ChainInv == TypeInv /\ \A u \in Threads : Chained(u)

(* The root has no ancestors. *)
LEMMA ChainInit == Init => ChainInv
<1> SUFFICES ASSUME Init PROVE ChainInv
  OBVIOUS
<1>1. AtRest(Free)
  BY RestShape, WorkflowConstants
<1>2. ASSUME NEW u \in Threads PROVE Chained(u)
  <2>1. CASE u = Root
    BY <2>1 DEF Init, Chained, Fresh
  <2>2. CASE u # Root
    BY <1>1, <2>2 DEF Init, Chained, AtRest
  <2> QED
    BY <2>1, <2>2
<1> QED
  BY <1>2, TypeInit DEF ChainInv

(* A child is spawned for a file none of its ancestors has visited. *)
LEMMA ChildChained ==
  ASSUME ChainInv, NEW t \in Threads, NEW source, NEW capped \in SUBSET From(t, source),
         NEW h \in ToAnalyse(t, capped), wf[t].phase = "loop", NEW q, q = Child(t, h, capped)
  PROVE  /\ q.subject \notin q.lineage /\ q.lineage \subseteq q.visited
         /\ q.subject \in q.visited
<1>1. /\ q.subject = Sha256[h]
      /\ q.visited = wf[t].visited \cup {Sha256[c] : c \in capped}
      /\ q.lineage = wf[t].lineage \cup (IF t = Root THEN {} ELSE {wf[t].subject})
  BY DEF Child, Fresh
<1>2. h \in capped /\ Sha256[h] \notin wf[t].visited
  BY DEF ToAnalyse
<1>3. /\ wf[t].lineage \subseteq wf[t].visited
      /\ t # Root => wf[t].subject \in wf[t].visited
  BY DEF ChainInv, Chained, Busy
<1> QED
  BY <1>1, <1>2, <1>3

(* Every step keeps the chains: a new child extends its parent's. *)
LEMMA ChainStep == ChainInv /\ [Next]_vars => ChainInv'
<1> SUFFICES ASSUME ChainInv, [Next]_vars PROVE ChainInv'
  OBVIOUS
<1>1. TypeInv'
  BY TypeStep DEF ChainInv
<1>2. ASSUME Next, NEW u \in Threads PROVE Chained(u)'
  <2>1. CASE SameWorkflow(wf[u], wf'[u])
    BY <2>1 DEF ChainInv, Chained, SameWorkflow
  <2>2. CASE AtRest(wf'[u])
    BY <2>2 DEF Chained, AtRest
  <2>3. CASE NewChild(wf'[u])
    <3>0. PICK t \in Threads :
            \E source : \E capped \in SUBSET From(t, source) :
              \E h \in ToAnalyse(t, capped) :
                wf[t].phase = "loop" /\ wf'[u] = Child(t, h, capped)
      BY <2>3 DEF NewChild
    <3>1. PICK source :
            \E capped \in SUBSET From(t, source) : \E h \in ToAnalyse(t, capped) :
              wf[t].phase = "loop" /\ wf'[u] = Child(t, h, capped)
      BY <3>0
    <3>2. /\ wf'[u].subject \notin wf'[u].lineage /\ wf'[u].lineage \subseteq wf'[u].visited
          /\ wf'[u].subject \in wf'[u].visited
      BY <3>1, ChildChained
    <3> QED
      BY <3>2 DEF Chained
  <2> QED
    BY <1>2, <2>1, <2>2, <2>3, StepShape DEF ChainInv
<1>3. CASE UNCHANGED vars
  BY <1>3 DEF vars, ChainInv, Chained, TypeInv, TypeOK, DepthLeft
<1> QED
  BY <1>1, <1>2, <1>3 DEF ChainInv

(* No thread is ever spawned for a file one of its ancestors below the root  *)
(* was spawned for, however many files contain each other and however deep   *)
(* MAX_FANOUT_DEPTH lets the chain grow (visited_sha256).                    *)
THEOREM FilesDoNotComeBack == Spec => []ChainDistinct
<1>1. ChainInv => ChainDistinct
  BY DEF ChainInv, Chained, ChainDistinct
<1> QED
  BY ChainInit, ChainStep, <1>1, PTL DEF Spec

-----------------------------------------------------------------------------
(* Parents wait.                                                            *)

Waits(u) == Busy(wf[u]) /\ wf[u].parent # None => wf[wf[u].parent].phase = "waiting"

WaitInv == TypeInv /\ \A u \in Threads : Waits(u)

(* At first nobody has a parent. *)
LEMMA WaitInit == Init => WaitInv
<1> SUFFICES ASSUME Init PROVE WaitInv
  OBVIOUS
<1>1. Fresh(Sample, {}, 0, None, {}).parent = None
  BY DEF Fresh
<1>2. ~Busy(Free)
  BY RestShape, WorkflowConstants DEF AtRest
<1>3. ASSUME NEW u \in Threads PROVE Waits(u)
  BY <1>1, <1>2 DEF Init, Waits
<1> QED
  BY <1>3, TypeInit DEF WaitInv

(* A step of a thread that neither begins nor ends a wait. *)
LEMMA InnerStep ==
  ASSUME WaitInv, NEW t \in Threads, NEW r, wf' = [wf EXCEPT ![t] = r],
         Busy(wf[t]), wf[t].phase # "waiting",
         Busy(r) => r.parent = wf[t].parent, NEW u \in Threads
  PROVE  Waits(u)'
<1>1. wf \in [Threads -> Workflows] /\ wf[u].parent \in Threads \cup {None}
      /\ wf[t].parent \in Threads \cup {None}
  BY DEF WaitInv, TypeInv, TypeOK, Workflows
<1>2. CASE u = t
  <2>1. Waits(t)
    BY DEF WaitInv
  <2>2. wf[t].parent # t
    BY <2>1, WorkflowConstants DEF Waits
  <2> QED
    BY <1>1, <1>2, <2>1, <2>2 DEF Waits
<1>3. CASE u # t
  <2>1. Waits(u)
    BY DEF WaitInv
  <2>2. Busy(wf[u]) => wf[u].parent # t
    BY <2>1, WorkflowConstants DEF Waits
  <2> QED
    BY <1>1, <1>3, <2>1, <2>2 DEF Waits
<1> QED
  BY <1>2, <1>3

(* The steps of one thread between its waits. *)
LEMMA GroupStepsWait ==
  ASSUME WaitInv, NEW t \in Threads, NEW u \in Threads,
         \/ \E g \in Groups : StartGroup(t, g)
         \/ EndsGroup(t) \/ Repivot(t) \/ NoRepivot(t)
         \/ \E ok \in BOOLEAN : FindChildren(t, ok)
         \/ Finish(t)
  PROVE  Waits(u)'
<1>1. wf \in [Threads -> Workflows] /\ wf[t] \in Workflows
  BY DEF WaitInv, TypeInv, TypeOK
<1>2. ASSUME NEW r, wf' = [wf EXCEPT ![t] = r], r.parent = wf[t].parent,
             wf[t].phase \in {"loop", "running", "repivot", "fanout"}
      PROVE  Waits(u)'
  BY <1>2, InnerStep DEF Busy
<1>3. ASSUME NEW g \in Groups, StartGroup(t, g) PROVE Waits(u)'
  <2>1. wf'[t].parent = wf[t].parent
    BY <1>1, <1>3 DEF StartGroup, Workflows
  <2>2. wf' = [wf EXCEPT ![t] = wf'[t]] /\ wf[t].phase = "loop"
    BY <1>1, <1>3 DEF StartGroup
  <2> QED
    BY <1>2, <2>1, <2>2
<1>4. CASE EndsGroup(t)
  <2>0. PICK ended, request, skip, priority : EndGroup(t, ended, request, skip, priority)
    BY <1>4 DEF EndsGroup
  <2>1. wf'[t].parent = wf[t].parent
    BY <1>1, <2>0 DEF EndGroup, Workflows
  <2>2. wf' = [wf EXCEPT ![t] = wf'[t]] /\ wf[t].phase = "running"
    BY <1>1, <2>0 DEF EndGroup
  <2> QED
    BY <1>2, <2>1, <2>2
<1>5. CASE Repivot(t)
  <2>1. wf'[t].parent = wf[t].parent
    BY <1>1, <1>5 DEF Repivot, Workflows
  <2>2. wf' = [wf EXCEPT ![t] = wf'[t]] /\ wf[t].phase = "repivot"
    BY <1>1, <1>5 DEF Repivot
  <2> QED
    BY <1>2, <2>1, <2>2
<1>6. CASE NoRepivot(t)
  <2>1. wf'[t].parent = wf[t].parent
    BY <1>1, <1>6 DEF NoRepivot, Workflows
  <2>2. wf' = [wf EXCEPT ![t] = wf'[t]] /\ wf[t].phase = "repivot"
    BY <1>1, <1>6 DEF NoRepivot
  <2> QED
    BY <1>2, <2>1, <2>2
<1>7. ASSUME NEW ok \in BOOLEAN, FindChildren(t, ok) PROVE Waits(u)'
  <2>1. wf'[t].parent = wf[t].parent
    BY <1>1, <1>7 DEF FindChildren, Workflows
  <2>2. wf' = [wf EXCEPT ![t] = wf'[t]] /\ wf[t].phase = "fanout"
    BY <1>1, <1>7 DEF FindChildren
  <2> QED
    BY <1>2, <2>1, <2>2
<1>8. CASE Finish(t)
  <2>1. ~Busy(AtEnd(t))
    BY RestShape DEF AtRest
  <2>2. wf' = [wf EXCEPT ![t] = AtEnd(t)] /\ Busy(wf[t]) /\ wf[t].phase # "waiting"
    BY <1>8 DEF Finish, Busy
  <2> QED
    BY <2>1, <2>2, InnerStep
<1> QED
  BY <1>3, <1>4, <1>5, <1>6, <1>7, <1>8

(* A thread that spawns children waits from then on; its own parent goes on  *)
(* waiting, and so does every other.                                         *)
LEMMA SpawnStepWaits ==
  ASSUME WaitInv, NEW t \in Threads, NEW u \in Threads, Spawns(t)
  PROVE  Waits(u)'
<1>1. wf \in [Threads -> Workflows] /\ wf[t] \in Workflows
      /\ wf[u].parent \in Threads \cup {None}
  BY DEF WaitInv, TypeInv, TypeOK, Workflows
<1>2. PICK source \in {f[2] : f \in wf[t].found} :
        \E capped \in SUBSET From(t, source) : \E S \in SUBSET ToAnalyse(t, capped) :
          /\ Injection(S, FreeThreads) # {}
          /\ SpawnChildren(t, source, capped, NewThreads(S))
  BY DEF Spawns
<1>3. PICK capped \in SUBSET From(t, source) : \E S \in SUBSET ToAnalyse(t, capped) :
        /\ Injection(S, FreeThreads) # {}
        /\ SpawnChildren(t, source, capped, NewThreads(S))
  BY <1>2
<1>4. PICK S \in SUBSET ToAnalyse(t, capped) :
        /\ Injection(S, FreeThreads) # {}
        /\ SpawnChildren(t, source, capped, NewThreads(S))
  BY <1>3
<1> DEFINE at == NewThreads(S)
           new(v) == \E x \in DOMAIN at : at[x] = v
<1>5. at \in Injection(S, FreeThreads)
  BY <1>4 DEF NewThreads
<1>6. \A v \in Threads : new(v) => wf[v].phase = "free"
  BY <1>5 DEF Injection, FreeThreads
<1>7. wf[t].phase = "loop" /\ wf'[t].phase = "waiting" /\ wf'[t].parent = wf[t].parent
  BY <1>1, <1>4 DEF SpawnChildren, Workflows
<1>8. \A v \in Threads : v # t /\ ~new(v) => wf'[v] = wf[v]
  BY <1>4 DEF SpawnChildren
<1>9. \A v \in Threads : v # t /\ new(v) => wf'[v].parent = t
  BY <1>4 DEF SpawnChildren, Child, Fresh
<1> HIDE DEF new
<1>10. Waits(u) /\ Waits(t)
  BY DEF WaitInv
<1>11. CASE u # t /\ new(u)
  BY <1>7, <1>9, <1>11 DEF Waits
<1>12. CASE u = t \/ ~new(u)
  <2>1. Busy(wf'[u]) => Busy(wf[u]) /\ wf'[u].parent = wf[u].parent
    BY <1>7, <1>8, <1>12 DEF Busy
  <2>2. Busy(wf[u]) /\ wf[u].parent # None
          => wf[u].parent # t /\ ~new(wf[u].parent) /\ wf[u].parent \in Threads
    BY <1>1, <1>6, <1>7, <1>10 DEF Waits
  <2> QED
    BY <1>8, <1>10, <2>1, <2>2 DEF Waits
<1> QED
  BY <1>11, <1>12

(* A wait ends with every child, or leaves its children to themselves. *)
LEMMA EndStepWaits ==
  ASSUME WaitInv, NEW t \in Threads, NEW u \in Threads, Join(t) \/ Abort(t)
  PROVE  Waits(u)'
<1>1. wf \in [Threads -> Workflows] /\ wf[t] \in Workflows /\ wf[u] \in Workflows
      /\ wf[u].parent \in Threads \cup {None} /\ wf[t].parent \in Threads \cup {None}
  BY DEF WaitInv, TypeInv, TypeOK, Workflows
<1>2. Waits(u) /\ Waits(t)
  BY DEF WaitInv
<1>3. ~Busy(Free) /\ ~Busy(AtEnd(t))
  BY RestShape DEF AtRest
<1>4. CASE Join(t)
  <2>1. Busy(wf[u]) => u \notin ChildrenOf(t)
    BY <1>4 DEF Join, Busy
  <2>2. Busy(wf[u]) => wf[u].parent # t
    BY <2>1 DEF ChildrenOf, Busy
  <2>3. wf'[t].parent = wf[t].parent /\ Busy(wf[t])
    BY <1>1, <1>4 DEF Join, Workflows, Busy
  <2>4. u # t => wf'[u] = Free \/ wf'[u] = wf[u]
    BY <1>4 DEF Join
  <2>5. Busy(wf'[u]) => Busy(wf[u]) /\ wf'[u].parent = wf[u].parent
    BY <1>3, <2>3, <2>4
  <2>6. \A v \in Threads : v # t /\ wf[v].phase = "waiting" => wf'[v] = wf[v]
    BY <1>4 DEF Join
  <2> QED
    BY <1>1, <1>2, <2>2, <2>5, <2>6 DEF Waits
<1>5. CASE Abort(t)
  <2> DEFINE o(v) == [wf[v] EXCEPT !.parent = None]
  <2>1. \A v \in Threads : o(v).parent = None /\ o(v).phase = wf[v].phase
    BY <1>1 DEF Workflows
  <2>2. \A v \in Threads :
          wf'[v] = IF v = t THEN AtEnd(t)
                   ELSE IF v \notin ChildrenOf(t) THEN wf[v]
                   ELSE IF wf[v].phase = "done" THEN Free ELSE o(v)
    BY <1>5 DEF Abort
  <2> HIDE DEF o
  <2>3. u # t /\ u \notin ChildrenOf(t) => ~Busy(wf[u]) \/ wf[u].parent # t
    BY DEF ChildrenOf, Busy
  <2>4. \A v \in Threads : v # t /\ wf[v].phase = "waiting" => wf'[v].phase = "waiting"
    BY <2>1, <2>2
  <2>5. CASE u = t
    BY <1>3, <2>2, <2>5 DEF Waits
  <2>6. CASE u # t /\ u \notin ChildrenOf(t)
    BY <1>1, <1>2, <2>2, <2>3, <2>4, <2>6 DEF Waits
  <2>7. CASE u # t /\ u \in ChildrenOf(t)
    BY <1>3, <2>1, <2>2, <2>7 DEF Waits
  <2> QED
    BY <2>5, <2>6, <2>7
<1> QED
  BY <1>4, <1>5

(* Artifacts change neither parents nor phases. *)
LEMMA ArtifactWaits ==
  ASSUME WaitInv, NEW u \in Threads, Replace \/ (\E f \in Extracts : Extract(f[1], f[2]))
  PROVE  Waits(u)'
<1>1. wf \in [Threads -> Workflows] /\ wf[u].parent \in Threads \cup {None}
  BY DEF WaitInv, TypeInv, TypeOK, Workflows
<1>2. Waits(u)
  BY DEF WaitInv
<1>3. \A v \in Threads : wf'[v].phase = wf[v].phase /\ wf'[v].parent = wf[v].parent
  <2>1. CASE Replace
    BY <1>1, <2>1 DEF Replace, Workflows
  <2>2. ASSUME NEW f \in Extracts, Extract(f[1], f[2])
        PROVE  \A v \in Threads : wf'[v].phase = wf[v].phase /\ wf'[v].parent = wf[v].parent
    BY <1>1, <2>2 DEF Extract, Workflows
  <2> QED
    BY <2>1, <2>2
<1> QED
  BY <1>1, <1>2, <1>3 DEF Waits, Busy

(* Every step keeps the parents at their joins. *)
LEMMA WaitStep == WaitInv /\ [Next]_vars => WaitInv'
<1> SUFFICES ASSUME WaitInv, [Next]_vars PROVE WaitInv'
  OBVIOUS
<1>1. TypeInv'
  BY TypeStep DEF WaitInv
<1>2. ASSUME NEW u \in Threads PROVE Waits(u)'
  <2>1. ASSUME NEW t \in Threads, ThreadStep(t) PROVE Waits(u)'
    BY <2>1, GroupStepsWait, SpawnStepWaits, EndStepWaits DEF ThreadStep
  <2>2. ASSUME NEW t \in Threads, Abort(t) PROVE Waits(u)'
    BY <2>2, EndStepWaits
  <2>3. CASE Replace \/ (\E f \in Extracts : Extract(f[1], f[2]))
    BY <2>3, ArtifactWaits
  <2>4. CASE UNCHANGED vars
    BY <2>4 DEF vars, WaitInv, Waits
  <2> QED
    BY <2>1, <2>2, <2>3, <2>4 DEF Next
<1> QED
  BY <1>1, <1>2 DEF WaitInv

(* No thread is at work for a parent that has gone on: whatever panics and   *)
(* time limits do, a parent whose child runs is at its join (child_handles). *)
THEOREM ParentsWait == Spec => []ParentWaits
<1>1. WaitInv => ParentWaits
  BY DEF WaitInv, Waits, Busy, ParentWaits
<1> QED
  BY WaitInit, WaitStep, <1>1, PTL DEF Spec

-----------------------------------------------------------------------------
(* Skipped agents.                                                          *)

NoStep(steps) == \A g \in Groups : ~(steps[g] > 0)

SkipOut(r) == \A a \in r.skipped : NoStep(r.plan[a])

SkipInv == TypeInv /\ \A u \in Threads : SkipOut(wf[u])

(* A workflow at its beginning, or at its end, has skipped nobody. *)
LEMMA NobodySkipped ==
  /\ \A s, v, d, p, l : Fresh(s, v, d, p, l).skipped = {}
  /\ Free.skipped = {}
  /\ \A t \in Threads : AtEnd(t).skipped = {}
<1>1. \A s, v, d, p, l : Fresh(s, v, d, p, l).skipped = {}
  BY DEF Fresh
<1>2. \A p : Ended(p).skipped = {}
  BY DEF Ended, Fresh
<1>3. Free.skipped = {}
  BY DEF Free, Ended, Fresh
<1> QED
  BY <1>1, <1>2, <1>3 DEF AtEnd

(* At first nobody is skipped. *)
LEMMA SkipInit == Init => SkipInv
<1> SUFFICES ASSUME Init PROVE SkipInv
  OBVIOUS
<1>1. \A u \in Threads : wf[u].skipped = {}
  BY NobodySkipped DEF Init
<1> QED
  BY <1>1, TypeInit DEF SkipInv, SkipOut

(* The first remaining group empties; the signals of a group leave nothing to *)
(* those they skip and give nothing to those skipped before; a replacement    *)
(* calls agents back, who then no longer count as skipped.                    *)
LEMMA GroupSkips ==
  ASSUME SkipInv, NEW t \in Threads,
         \/ \E g \in Groups : StartGroup(t, g)
         \/ EndsGroup(t) \/ Repivot(t)
  PROVE  SkipOut(wf'[t])
<1>1. wf \in [Threads -> Workflows] /\ wf[t] \in Workflows /\ SkipOut(wf[t])
  BY DEF SkipInv, TypeInv, TypeOK
<1>2. wf[t].plan \in [Agents -> [Groups -> Nat]] /\ wf[t].skipped \subseteq Agents
  BY <1>1 DEF Workflows
<1>3. \A a \in Agents : NoStep(wf[t].plan[a]) <=> ~Planned(t, a)
  BY DEF NoStep, Planned
<1>4. ASSUME NEW g \in Groups, StartGroup(t, g) PROVE SkipOut(wf'[t])
  <2>1. /\ wf'[t].skipped = wf[t].skipped
        /\ wf'[t].plan = [a \in Agents |-> [wf[t].plan[a] EXCEPT ![g] = 0]]
    BY <1>1, <1>4 DEF StartGroup, Workflows
  <2> QED
    BY <1>1, <1>2, <2>1 DEF SkipOut, NoStep
<1>5. CASE EndsGroup(t)
  <2>1. PICK ended, request, skip, priority :
          EndGroup(t, ended, request, skip, priority) /\ skip \subseteq Agents
    BY <1>5 DEF EndsGroup, Targets
  <2>2. /\ wf'[t].skipped = (wf[t].skipped \ request) \cup (skip \ request)
        /\ wf'[t].plan = Applied(t, request, skip, priority)
    BY <1>1, <2>1 DEF EndGroup, Workflows
  <2>3. ASSUME NEW a \in wf'[t].skipped PROVE NoStep(wf'[t].plan[a])
    <3>1. a \in Agents /\ a \notin request
      BY <1>2, <2>1, <2>2
    <3>2. CASE a \in skip
      BY <2>2, <3>1, <3>2 DEF Applied, WithSkip, NoStep
    <3>3. CASE a \notin skip
      <4>1. NoStep(wf[t].plan[a]) /\ ~Planned(t, a)
        BY <1>1, <1>3, <2>2, <3>1, <3>3 DEF SkipOut
      <4>2. wf'[t].plan[a] = wf[t].plan[a]
        BY <2>2, <3>1, <3>3, <4>1 DEF Applied, WithPriority
      <4> QED
        BY <4>1, <4>2
    <3> QED
      BY <3>2, <3>3
  <2> QED
    BY <2>3 DEF SkipOut
<1>6. CASE Repivot(t)
  <2>1. /\ wf'[t].skipped = wf[t].skipped \ Requeued(t)
        /\ wf'[t].plan = [a \in Agents |-> IF a \in Requeued(t)
                            THEN [wf[t].plan[a] EXCEPT ![NextGroup(t)] = 1]
                            ELSE wf[t].plan[a]]
    BY <1>1, <1>6 DEF Repivot, Workflows
  <2> QED
    BY <1>1, <1>2, <2>1 DEF SkipOut
<1> QED
  BY <1>4, <1>5, <1>6

(* Every other step leaves an agent's steps as they are, or begins or ends   *)
(* a workflow.                                                               *)
LEMMA OtherSkips ==
  ASSUME SkipInv, NEW t \in Threads, NEW u \in Threads,
         \/ NoRepivot(t) \/ (\E ok \in BOOLEAN : FindChildren(t, ok))
         \/ Spawns(t) \/ Join(t) \/ Finish(t) \/ Abort(t)
         \/ Replace \/ (\E f \in Extracts : Extract(f[1], f[2]))
  PROVE  SkipOut(wf'[u])
<1>1. wf \in [Threads -> Workflows] /\ wf[u] \in Workflows /\ SkipOut(wf[u])
  BY DEF SkipInv, TypeInv, TypeOK
<1>2. ASSUME NEW q, q.skipped = {} PROVE SkipOut(q)
  BY <1>2 DEF SkipOut
<1>3. ASSUME NEW q, q.skipped = wf[u].skipped, q.plan = wf[u].plan PROVE SkipOut(q)
  BY <1>1, <1>3 DEF SkipOut
<1>4. CASE NoRepivot(t)
  BY <1>1, <1>3, <1>4 DEF NoRepivot, Workflows
<1>5. ASSUME NEW ok \in BOOLEAN, FindChildren(t, ok) PROVE SkipOut(wf'[u])
  BY <1>1, <1>3, <1>5 DEF FindChildren, Workflows
<1>6. CASE Spawns(t)
  <2>1. PICK source, capped, at : SpawnChildren(t, source, capped, at)
    BY <1>6 DEF Spawns
  <2>2. CASE u = t
    BY <1>1, <1>3, <2>1, <2>2 DEF SpawnChildren, Workflows
  <2>3. CASE u # t /\ \E h \in DOMAIN at : at[h] = u
    BY <1>2, <2>1, <2>3, NobodySkipped DEF SpawnChildren, Child
  <2>4. CASE u # t /\ ~\E h \in DOMAIN at : at[h] = u
    BY <1>1, <2>1, <2>4 DEF SpawnChildren
  <2> QED
    BY <2>2, <2>3, <2>4
<1>7. CASE Join(t)
  <2>1. CASE u = t
    BY <1>1, <1>3, <1>7, <2>1 DEF Join, Workflows
  <2>2. CASE u # t
    BY <1>1, <1>2, <1>7, <2>2, NobodySkipped DEF Join
  <2> QED
    BY <2>1, <2>2
<1>8. CASE Finish(t)
  BY <1>1, <1>2, <1>8, NobodySkipped DEF Finish
<1>9. CASE Abort(t)
  <2>1. SkipOut([wf[u] EXCEPT !.parent = None])
    BY <1>1, <1>3 DEF Workflows
  <2> QED
    BY <1>1, <1>2, <1>9, <2>1, NobodySkipped DEF Abort
<1>10. CASE Replace
  BY <1>1, <1>3, <1>10 DEF Replace, Workflows
<1>11. ASSUME NEW f \in Extracts, Extract(f[1], f[2]) PROVE SkipOut(wf'[u])
  BY <1>1, <1>3, <1>11 DEF Extract, Workflows
<1> QED
  BY <1>4, <1>5, <1>6, <1>7, <1>8, <1>9, <1>10, <1>11

(* Every step keeps skipped agents without steps. *)
LEMMA SkipStep == SkipInv /\ [Next]_vars => SkipInv'
<1> SUFFICES ASSUME SkipInv, [Next]_vars PROVE SkipInv'
  OBVIOUS
<1>1. TypeInv'
  BY TypeStep DEF SkipInv
<1>2. ASSUME NEW u \in Threads PROVE SkipOut(wf'[u])
  <2>1. ASSUME NEW t \in Threads, ThreadStep(t) PROVE SkipOut(wf'[u])
    <3>1. CASE (\E g \in Groups : StartGroup(t, g)) \/ EndsGroup(t) \/ Repivot(t)
      <4>1. SkipOut(wf'[t])
        BY <3>1, GroupSkips
      <4>2. wf \in [Threads -> Workflows]
        BY DEF SkipInv, TypeInv, TypeOK
      <4>3. u # t => wf'[u] = wf[u]
        BY <3>1, <4>2 DEF StartGroup, EndsGroup, EndGroup, Repivot
      <4> QED
        BY <4>1, <4>3 DEF SkipInv
    <3>2. CASE \/ NoRepivot(t) \/ (\E ok \in BOOLEAN : FindChildren(t, ok))
               \/ Spawns(t) \/ Join(t) \/ Finish(t)
      BY <3>2, OtherSkips
    <3> QED
      BY <2>1, <3>1, <3>2 DEF ThreadStep
  <2>2. ASSUME NEW t \in Threads, Abort(t) PROVE SkipOut(wf'[u])
    BY <2>2, OtherSkips
  <2>3. CASE Replace \/ (\E f \in Extracts : Extract(f[1], f[2]))
    BY <2>3, OtherSkips
  <2>4. CASE UNCHANGED vars
    BY <2>4 DEF vars, SkipInv
  <2> QED
    BY <2>1, <2>2, <2>3, <2>4 DEF Next
<1> QED
  BY <1>1, <1>2 DEF SkipInv

(* A skipped agent runs again only when it is asked for, or when a           *)
(* replacement calls it back: no priority and no other agent's signals put   *)
(* its steps into a group (apply_signals).                                   *)
THEOREM SkippedAgentsStayOut == Spec => []SkippedStaysOut
<1>1. SkipInv => SkippedStaysOut
  BY DEF SkipInv, SkipOut, NoStep, SkippedStaysOut, Planned
<1> QED
  BY SkipInit, SkipStep, <1>1, PTL DEF Spec

-----------------------------------------------------------------------------
(* Agents run for a reason.                                                 *)

Left(r, a) == SumFunction(r.plan[a])
Granted(r, a) == Original(a) + r.requested[a] + (IF a \in Stays THEN 0 ELSE r.repivots)

(* Every step of an agent is accounted for in the record of its thread.      *)
Accounted(r, a) ==
  /\ Left(r, a) <= Original(a) \/ Left(r, a) <= 1
  /\ r.runs[a] + Left(r, a) <= Granted(r, a)

RunsInv == TypeInv /\ \A t \in Threads, a \in Agents : Accounted(wf[t], a)

(* Groups are finitely many, *)
LEMMA GroupsFinite == IsFiniteSet(Groups) /\ IsFiniteSet(1..LastGroup)
  BY FS_Interval, WorkflowConstants DEF Groups

(* so the steps of an agent add up to a number, in a plan and in a thread.   *)
LEMMA StepsType ==
  /\ \A f \in [Groups -> Nat] : SumFunction(f) \in Nat
  /\ \A a \in Agents : Original(a) \in Nat
<1>1. \A f \in [Groups -> Nat] : SumFunction(f) \in Nat
  BY SumType, GroupsFinite
<1>2. ASSUME NEW a \in Agents PROVE Original(a) \in Nat
  <2>1. Plan[a] \in [1..LastGroup -> Nat]
    BY WorkflowConstants
  <2> QED
    BY <2>1, SumType, GroupsFinite DEF Original
<1> QED
  BY <1>1, <1>2

(* Setting the steps of one group changes the sum by the difference.         *)
LEMMA StepsChange ==
  ASSUME NEW f \in [Groups -> Nat], NEW g, NEW n \in Nat
  PROVE  /\ [f EXCEPT ![g] = n] \in [Groups -> Nat]
         /\ g \in Groups => SumFunction([f EXCEPT ![g] = n]) = SumFunction(f) + n - f[g]
         /\ g \notin Groups => SumFunction([f EXCEPT ![g] = n]) = SumFunction(f)
<1> DEFINE h == [f EXCEPT ![g] = n]
<1>1. /\ h \in [Groups -> Nat]
      /\ g \in Groups => h[g] = n /\ \A x \in Groups \ {g} : h[x] = f[x]
      /\ g \notin Groups => h = f
  OBVIOUS
<1> HIDE DEF h
<1>2. g \in Groups => SumFunction(h) = SumFunction(f) + h[g] - f[g]
  BY <1>1, SumChange, GroupsFinite
<1> QED
  BY <1>1, <1>2 DEF h

(* An agent without a step in any group has none left, and one with a step   *)
(* has at least that one.                                                    *)
LEMMA NoStepsLeft ==
  ASSUME NEW f \in [Groups -> Nat]
  PROVE  /\ (\A g \in Groups : ~(f[g] > 0)) => SumFunction(f) = 0
         /\ \A g \in Groups : f[g] <= SumFunction(f)
<1>1. (\A g \in Groups : ~(f[g] > 0)) => \A g \in Groups : f[g] = 0
  OBVIOUS
<1>2. ASSUME NEW g \in Groups PROVE f[g] <= SumFunction(f)
  <2> DEFINE h == [f EXCEPT ![g] = 0]
  <2>1. h \in [Groups -> Nat] /\ SumFunction(h) = SumFunction(f) + 0 - f[g]
    BY StepsChange, ZenonT(30)
  <2>2. SumFunction(h) \in Nat /\ SumFunction(f) \in Nat /\ f[g] \in Nat
    BY <2>1, StepsType
  <2> HIDE DEF h
  <2> QED
    BY <2>1, <2>2
<1> QED
  BY <1>1, <1>2, SumOfZeros, GroupsFinite

(* A workflow begins with the steps of its plan, whatever groups may still   *)
(* be appended.                                                              *)
LEMMA PlanSteps ==
  ASSUME NEW a \in Agents
  PROVE  SumFunction([g \in Groups |-> IF g <= LastGroup THEN Plan[a][g] ELSE 0]) = Original(a)
<1> DEFINE f == [g \in Groups |-> IF g <= LastGroup THEN Plan[a][g] ELSE 0]
<1>1. f \in [Groups -> Nat] /\ Plan[a] \in [1..LastGroup -> Nat]
  BY WorkflowConstants DEF Groups
<1>2. /\ 1..LastGroup \subseteq Groups
      /\ \A g \in 1..LastGroup : f[g] = Plan[a][g]
      /\ \A g \in Groups \ (1..LastGroup) : f[g] = 0
  BY WorkflowConstants DEF Groups
<1> HIDE DEF f
<1>3. /\ \A g \in 1..LastGroup : Layer(f, g) = Layer(Plan[a], g)
      /\ \A g \in Groups \ (1..LastGroup) : Layer(f, g) = {}
  BY <1>2 DEF Layer
<1>4. Units(f, Groups) = Units(Plan[a], 1..LastGroup)
  BY <1>2, <1>3 DEF Units
<1>5. SumFunction(f) = Cardinality(Units(f, Groups))
  BY <1>1, SumType, GroupsFinite
<1>6. SumFunction(Plan[a]) = Cardinality(Units(Plan[a], 1..LastGroup))
  BY <1>1, SumType, GroupsFinite
<1> QED
  BY <1>4, <1>5, <1>6 DEF f, Original

(* Nothing has run when a workflow begins, nor in what is left of one.       *)
LEMMA BeginAccounted ==
  ASSUME NEW a \in Agents
  PROVE  /\ \A s, v, d, p, l : Accounted(Fresh(s, v, d, p, l), a)
         /\ Accounted(Free, a)
         /\ \A t \in Threads : Accounted(AtEnd(t), a)
<1> DEFINE Begun(q) == /\ q.plan[a] = [g \in Groups |-> IF g <= LastGroup THEN Plan[a][g] ELSE 0]
                       /\ q.runs[a] = 0 /\ q.requested[a] = 0 /\ q.repivots = 0
<1>1. ASSUME NEW q, Begun(q) PROVE Accounted(q, a)
  BY <1>1, PlanSteps, StepsType DEF Accounted, Left, Granted
<1>2. \A s, v, d, p, l : Begun(Fresh(s, v, d, p, l))
  BY DEF Fresh
<1>3. \A p : Begun(Ended(p))
  BY DEF Ended, Fresh
<1>4. Begun(Free)
  BY DEF Free, Ended, Fresh
<1>5. \A t \in Threads : Begun(AtEnd(t))
  BY <1>3, <1>4 DEF AtEnd
<1> HIDE DEF Begun
<1> QED
  BY <1>1, <1>2, <1>4, <1>5

(* Steps that concern neither plan nor counts change nothing.                *)
LEMMA SameAccounted ==
  ASSUME NEW r, NEW q, NEW a, Accounted(r, a), q.plan = r.plan, q.runs = r.runs,
         q.requested = r.requested, q.repivots = r.repivots
  PROVE  Accounted(q, a)
BY DEF Accounted, Left, Granted

(* The numbers that the accounts of a thread are about.                      *)
LEMMA AccountTypes ==
  ASSUME TypeInv, NEW t \in Threads, NEW a \in Agents
  PROVE  /\ wf \in [Threads -> Workflows] /\ wf[t] \in Workflows
         /\ wf[t].plan \in [Agents -> [Groups -> Nat]] /\ wf[t].plan[a] \in [Groups -> Nat]
         /\ wf[t].runs \in [Agents -> Nat] /\ wf[t].runs[a] \in Nat
         /\ wf[t].requested \in [Agents -> Nat] /\ wf[t].requested[a] \in Nat
         /\ wf[t].repivots \in Nat
         /\ Left(wf[t], a) \in Nat /\ Original(a) \in Nat
<1>1. wf \in [Threads -> Workflows] /\ wf[t] \in Workflows
  BY DEF TypeInv, TypeOK
<1>2. /\ wf[t].plan \in [Agents -> [Groups -> Nat]] /\ wf[t].runs \in [Agents -> Nat]
      /\ wf[t].requested \in [Agents -> Nat] /\ wf[t].repivots \in Nat
  BY <1>1, WorkflowConstants DEF Workflows
<1> QED
  BY <1>1, <1>2, StepsType DEF Left

(* The steps of the group that starts move from what is left to what has run. *)
LEMMA StartAccounted ==
  ASSUME RunsInv, NEW t \in Threads, NEW g \in Groups, StartGroup(t, g), NEW a \in Agents
  PROVE  Accounted(wf'[t], a)
<1> DEFINE r == wf[t]   f == wf[t].plan[a]
           n == f[g]   s == SumFunction(f)   m == r.runs[a]   k == Granted(r, a)
<1>1. wf \in [Threads -> Workflows] /\ r \in Workflows /\ f \in [Groups -> Nat] /\ s \in Nat /\ m \in Nat
  BY AccountTypes DEF RunsInv, Left
<1>2. /\ wf'[t].plan[a] = [f EXCEPT ![g] = 0]
      /\ wf'[t].runs[a] = m + n
      /\ wf'[t].requested = r.requested /\ wf'[t].repivots = r.repivots
  BY <1>1 DEF StartGroup, Workflows
<1>3. SumFunction([f EXCEPT ![g] = 0]) = s + 0 - n
  BY <1>1, StepsChange
<1>4. n \in Nat
  BY <1>1
<1>5. (s <= Original(a) \/ s <= 1) /\ m + s <= k
  BY DEF RunsInv, Accounted, Left
<1>6. k \in Int /\ Original(a) \in Nat
  BY AccountTypes DEF RunsInv, Granted
<1>7. Granted(wf'[t], a) = k
  BY <1>2 DEF Granted
<1> HIDE DEF r, f, n, s, m, k
<1>8. s + 0 - n <= Original(a) \/ s + 0 - n <= 1
  BY <1>1, <1>4, <1>5, <1>6
<1>9. (m + n) + (s + 0 - n) <= k
  BY <1>1, <1>4, <1>5, <1>6
<1> QED
  BY <1>2, <1>3, <1>7, <1>8, <1>9 DEF Accounted, Left

(* Among groups there is a first one. *)
LEMMA FirstExists ==
  ASSUME NEW S \in SUBSET Groups, S # {}
  PROVE  \E g \in Groups : IsFirst(g, S)
<1>1. S \subseteq Nat
  BY WorkflowConstants DEF Groups
<1>2. PICK n \in S : \A m \in S : <<m, n>> \notin OpToRel(<, Nat)
  BY <1>1, NatLessThanWellFounded, WFMin
<1>3. ASSUME NEW m \in S PROVE ~(m < n)
  <2>1. m \in Nat /\ n \in Nat /\ <<m, n>> \notin OpToRel(<, Nat)
    BY <1>1, <1>2
  <2> QED
    BY <2>1, Zenon DEF OpToRel
<1>4. \A m \in S : n <= m
  BY <1>1, <1>3
<1> QED
  BY <1>1, <1>4 DEF IsFirst

(* A signal gives an agent one step more only if it has none and the request *)
(* is counted; a skip takes all, and a priority makes one of at least one.   *)
LEMMA SignalsAccounted ==
  ASSUME RunsInv, NEW t \in Threads, EndsGroup(t), NEW a \in Agents
  PROVE  Accounted(wf'[t], a)
<1>1. PICK ended, request, skip, priority : EndGroup(t, ended, request, skip, priority)
  BY DEF EndsGroup
<1> DEFINE r == wf[t]   f == wf[t].plan[a]   h == wf'[t].plan[a]
           s == SumFunction(f)   e == SumFunction(h)   m == r.runs[a]   k == Granted(r, a)
           asked == a \in request /\ CanRequest(t, a)
<1>2. /\ wf \in [Threads -> Workflows] /\ r \in Workflows /\ f \in [Groups -> Nat]
      /\ s \in Nat /\ m \in Nat /\ r.requested[a] \in Nat /\ k \in Int /\ Original(a) \in Nat
  BY AccountTypes DEF RunsInv, Left, Granted
<1>3. /\ h = Applied(t, request, skip, priority)[a]
      /\ wf'[t].runs = r.runs /\ wf'[t].repivots = r.repivots
      /\ wf'[t].requested[a] = IF asked THEN r.requested[a] + 1 ELSE r.requested[a]
  BY <1>1, <1>2 DEF EndGroup, Workflows
<1>4. (s <= Original(a) \/ s <= 1) /\ m + s <= k
  BY DEF RunsInv, Accounted, Left
<1>5. Granted(wf'[t], a) = IF asked THEN k + 1 ELSE k
  BY <1>2, <1>3, AccountTypes DEF Granted, RunsInv
<1>6. \/ asked /\ e <= 1 /\ s = 0
      \/ ~asked /\ e <= s
  <2>1. CASE asked
    <3>1. h = [f EXCEPT ![NextGroup(t)] = f[NextGroup(t)] + 1]
      BY <1>3, <2>1 DEF Applied, WithRequest
    <3>2. \A g \in Groups : ~(f[g] > 0)
      BY <2>1 DEF CanRequest, Planned
    <3>3. s = 0
      BY <1>2, <3>2, NoStepsLeft
    <3>4. CASE NextGroup(t) \in Groups
      <4>1. f[NextGroup(t)] = 0
        BY <1>2, <3>2, <3>4
      <4>2. SumFunction([f EXCEPT ![NextGroup(t)] = 1]) = s + 1 - f[NextGroup(t)]
        BY <1>2, <3>4, StepsChange
      <4>3. e = s + 1 - 0
        BY <3>1, <4>1, <4>2
      <4> QED
        BY <2>1, <3>3, <4>3
    <3>5. CASE NextGroup(t) \notin Groups
      <4>1. h = f
        BY <1>2, <3>1, <3>5
      <4> QED
        BY <2>1, <3>3, <4>1
    <3> QED
      BY <3>4, <3>5
  <2>2. CASE ~asked
    <3>1. \/ h = WithSkip(t, a) \/ h = WithPriority(t, a) \/ h = f
      BY <1>3, <2>2 DEF Applied
    <3>2. CASE h = WithSkip(t, a)
      <4>1. h \in [Groups -> Nat] /\ \A g \in Groups : ~(h[g] > 0)
        BY <3>2 DEF WithSkip
      <4>2. e = 0
        BY <4>1, NoStepsLeft
      <4> QED
        BY <1>2, <2>2, <4>2
    <3>3. CASE h = WithPriority(t, a) /\ h # f
      <4> DEFINE next == NextGroup(t)
                 S == {g \in Groups : wf[t].plan[a][g] > 0}
                 from == CHOOSE g \in Groups : IsFirst(g, S)
      <4>1. Planned(t, a) /\ f[next] = 0 /\ h = [f EXCEPT ![from] = 0, ![next] = 1]
        BY <3>3 DEF WithPriority
      <4>2. from \in S
        <5>1. S # {} /\ S \subseteq Groups
          BY <4>1 DEF Planned
        <5>2. PICK g \in Groups : IsFirst(g, S)
          BY <5>1, FirstExists
        <5>3. IsFirst(from, S)
          BY <5>2
        <5> QED
          BY <5>3 DEF IsFirst
      <4> HIDE DEF next, from
      <4>3. from \in Groups /\ f[from] > 0
        BY <4>2
      <4> DEFINE f1 == [f EXCEPT ![from] = 0]
      <4>4. f1 \in [Groups -> Nat] /\ SumFunction(f1) = s + 0 - f[from]
        BY <1>2, <4>3, StepsChange
      <4>5. h = [f1 EXCEPT ![next] = 1]
        BY <4>1
      <4>6. next \in Groups => f1[next] = 0
        BY <1>2, <4>1, <4>3
      <4> HIDE DEF f1
      <4>7. SumFunction(f1) \in Nat /\ f[from] \in Nat
        BY <1>2, <4>3, <4>4, StepsType
      <4>8. ASSUME next \in Groups
            PROVE  SumFunction([f1 EXCEPT ![next] = 1]) = SumFunction(f1) + 1 - f1[next]
        <5>1. ASSUME NEW q \in [Groups -> Nat], NEW g \in Groups
              PROVE  SumFunction([q EXCEPT ![g] = 1]) = SumFunction(q) + 1 - q[g]
          BY StepsChange, ZenonT(30)
        <5>2. f1 \in [Groups -> Nat]
          BY <4>4
        <5> QED
          BY <4>8, <5>1, <5>2
      <4>10. next \notin Groups => h = f1
        BY <4>4, <4>5
      <4>9. e = SumFunction(f1) \/ e = SumFunction(f1) + 1 - 0
        BY <4>5, <4>6, <4>8, <4>10
      <4> QED
        BY <1>2, <2>2, <4>3, <4>4, <4>7, <4>9
    <3> QED
      BY <1>2, <2>2, <3>1, <3>2, <3>3
  <2> QED
    BY <2>1, <2>2
<1>7. e \in Int
  <2>1. h \in [Groups -> Nat]
    BY <1>3, AppliedType DEF RunsInv, TypeInv
  <2> QED
    BY <2>1, StepsType
<1>8. wf'[t].runs[a] = m
  BY <1>3
<1> HIDE DEF r, f, h, s, e, m, k, asked
<1>9. (e <= Original(a) \/ e <= 1) /\ m + e <= IF asked THEN k + 1 ELSE k
  BY <1>2, <1>4, <1>6, <1>7
<1>10. Left(wf'[t], a) = e
  BY DEF Left, e, h
<1> QED
  BY <1>5, <1>8, <1>9, <1>10 DEF Accounted

(* A replacement gives one step to an agent that has none, does not stay     *)
(* out, and has its replacement counted.                                     *)
LEMMA RepivotAccounted ==
  ASSUME RunsInv, NEW t \in Threads, Repivot(t), NEW a \in Agents
  PROVE  Accounted(wf'[t], a)
<1> DEFINE r == wf[t]   f == wf[t].plan[a]   h == wf'[t].plan[a]
           s == SumFunction(f)   e == SumFunction(h)   m == r.runs[a]   k == Granted(r, a)
<1>1. /\ wf \in [Threads -> Workflows] /\ r \in Workflows /\ f \in [Groups -> Nat]
      /\ s \in Nat /\ m \in Nat /\ k \in Int /\ Original(a) \in Nat
      /\ r.requested[a] \in Nat /\ r.repivots \in Nat
  BY AccountTypes DEF RunsInv, Left, Granted
<1>2. /\ h = IF a \in Requeued(t) THEN [f EXCEPT ![NextGroup(t)] = 1] ELSE f
      /\ wf'[t].runs = r.runs /\ wf'[t].requested = r.requested
      /\ wf'[t].repivots = r.repivots + 1
  BY <1>1 DEF Repivot, Workflows
<1>3. (s <= Original(a) \/ s <= 1) /\ m + s <= k
  BY DEF RunsInv, Accounted, Left
<1>4. /\ a \notin Stays => Granted(wf'[t], a) = k + 1
      /\ Granted(wf'[t], a) \in {k, k + 1}
  BY <1>1, <1>2 DEF Granted
<1>5. e = s \/ (a \notin Stays /\ s = 0 /\ e = 1)
  <2>1. CASE a \in Requeued(t)
    <3>1. a \notin Stays /\ \A g \in Groups : ~(f[g] > 0)
      BY <2>1 DEF Requeued, Planned
    <3>2. s = 0
      BY <1>1, <3>1, NoStepsLeft
    <3>3. NextGroup(t) \in Groups => f[NextGroup(t)] = 0
      BY <1>1, <3>1
    <3>4. LET v == SumFunction([f EXCEPT ![NextGroup(t)] = 1])
          IN  /\ NextGroup(t) \in Groups => v = s + 1 - f[NextGroup(t)]
              /\ NextGroup(t) \notin Groups => v = s
      BY <1>1, StepsChange
    <3>5. e = s \/ e = s + 1 - 0
      BY <1>2, <2>1, <3>3, <3>4
    <3> QED
      BY <3>1, <3>2, <3>5
  <2> QED
    BY <1>2, <2>1
<1>6. Left(wf'[t], a) = e /\ wf'[t].runs[a] = m
  BY <1>2 DEF Left
<1> DEFINE n == Granted(wf'[t], a)
<1> HIDE DEF r, f, h, s, e, m, k, n
<1>7. (e <= Original(a) \/ e <= 1) /\ m + e <= n
  <2>1. /\ a \notin Stays => n = k + 1
        /\ n \in {k, k + 1}
    BY <1>4 DEF n
  <2> QED
    BY <1>1, <1>3, <1>5, <2>1
<1> QED
  BY <1>6, <1>7 DEF Accounted, n

(* Every other step leaves plans and counts alone, or begins or ends a       *)
(* workflow.                                                                 *)
LEMMA OthersAccounted ==
  ASSUME RunsInv, NEW t \in Threads, NEW u \in Threads, NEW a \in Agents,
         \/ NoRepivot(t) \/ (\E ok \in BOOLEAN : FindChildren(t, ok))
         \/ Spawns(t) \/ Join(t) \/ Finish(t) \/ Abort(t)
         \/ Replace \/ (\E f \in Extracts : Extract(f[1], f[2]))
  PROVE  Accounted(wf'[u], a)
<1>1. wf \in [Threads -> Workflows] /\ wf[u] \in Workflows /\ Accounted(wf[u], a)
  BY DEF RunsInv, TypeInv, TypeOK
<1>2. ASSUME NEW q, q.plan = wf[u].plan, q.runs = wf[u].runs,
             q.requested = wf[u].requested, q.repivots = wf[u].repivots
      PROVE  Accounted(q, a)
  BY <1>1, <1>2, SameAccounted
<1>3. CASE NoRepivot(t)
  BY <1>1, <1>2, <1>3 DEF NoRepivot, Workflows
<1>4. ASSUME NEW ok \in BOOLEAN, FindChildren(t, ok) PROVE Accounted(wf'[u], a)
  BY <1>1, <1>2, <1>4 DEF FindChildren, Workflows
<1>5. CASE Spawns(t)
  <2>1. PICK source, capped, at : SpawnChildren(t, source, capped, at)
    BY <1>5 DEF Spawns
  <2>2. CASE u = t
    BY <1>1, <1>2, <2>1, <2>2 DEF SpawnChildren, Workflows
  <2>3. CASE u # t /\ \E h \in DOMAIN at : at[h] = u
    BY <2>1, <2>3, BeginAccounted DEF SpawnChildren, Child
  <2>4. CASE u # t /\ ~\E h \in DOMAIN at : at[h] = u
    BY <1>1, <2>1, <2>4 DEF SpawnChildren
  <2> QED
    BY <2>2, <2>3, <2>4
<1>6. CASE Join(t)
  <2>1. CASE u = t
    BY <1>1, <1>2, <1>6, <2>1 DEF Join, Workflows
  <2>2. CASE u # t
    BY <1>1, <1>6, <2>2, BeginAccounted DEF Join
  <2> QED
    BY <2>1, <2>2
<1>7. CASE Finish(t)
  BY <1>1, <1>7, BeginAccounted DEF Finish
<1>8. CASE Abort(t)
  <2>1. Accounted([wf[u] EXCEPT !.parent = None], a)
    BY <1>1, <1>2 DEF Workflows
  <2> QED
    BY <1>1, <1>8, <2>1, BeginAccounted DEF Abort
<1>9. CASE Replace
  BY <1>1, <1>2, <1>9 DEF Replace, Workflows
<1>10. ASSUME NEW f \in Extracts, Extract(f[1], f[2]) PROVE Accounted(wf'[u], a)
  BY <1>1, <1>2, <1>10 DEF Extract, Workflows
<1> QED
  BY <1>3, <1>4, <1>5, <1>6, <1>7, <1>8, <1>9, <1>10

(* Every step keeps the accounts. *)
LEMMA RunsStep == RunsInv /\ [Next]_vars => RunsInv'
<1> SUFFICES ASSUME RunsInv, [Next]_vars PROVE RunsInv'
  OBVIOUS
<1>1. TypeInv'
  BY TypeStep DEF RunsInv
<1>2. ASSUME NEW u \in Threads, NEW a \in Agents PROVE Accounted(wf'[u], a)
  <2>1. ASSUME NEW t \in Threads, ThreadStep(t) PROVE Accounted(wf'[u], a)
    <3>1. CASE (\E g \in Groups : StartGroup(t, g)) \/ EndsGroup(t) \/ Repivot(t)
      <4>1. Accounted(wf'[t], a)
        BY <3>1, StartAccounted, SignalsAccounted, RepivotAccounted
      <4>2. wf \in [Threads -> Workflows]
        BY DEF RunsInv, TypeInv, TypeOK
      <4>3. u # t => wf'[u] = wf[u]
        BY <3>1, <4>2 DEF StartGroup, EndsGroup, EndGroup, Repivot
      <4> QED
        BY <4>1, <4>3 DEF RunsInv
    <3>2. CASE \/ NoRepivot(t) \/ (\E ok \in BOOLEAN : FindChildren(t, ok))
               \/ Spawns(t) \/ Join(t) \/ Finish(t)
      BY <3>2, OthersAccounted
    <3> QED
      BY <2>1, <3>1, <3>2 DEF ThreadStep
  <2>2. ASSUME NEW t \in Threads, Abort(t) PROVE Accounted(wf'[u], a)
    BY <2>2, OthersAccounted
  <2>3. CASE Replace \/ (\E f \in Extracts : Extract(f[1], f[2]))
    BY <2>3, OthersAccounted
  <2>4. CASE UNCHANGED vars
    BY <2>4 DEF vars, RunsInv
  <2> QED
    BY <2>1, <2>2, <2>3, <2>4 DEF Next
<1>3. \A u \in Threads, a \in Agents : Accounted(wf[u], a)'
  BY <1>2 DEF Accounted, Left, Granted, Original
<1> QED
  BY <1>1, <1>3 DEF RunsInv

(* Each step an agent runs or has ahead of it has its reason, and no agent    *)
(* ever has more ahead than its plan gave it, or one, whatever signals and    *)
(* replacements there are (apply_signals, check_repivots).                    *)
THEOREM StepsHaveReasons == Spec => []RunsExplained
<1>1. Init => RunsInv
  BY TypeInit, BeginAccounted DEF Init, RunsInv
<1>2. RunsInv => RunsExplained
  BY DEF RunsInv, Accounted, Left, Granted, StepsLeft, RunsExplained
<1> QED
  BY <1>1, <1>2, RunsStep, PTL DEF Spec

(***************************************************************************)
(*                                AgentLoop                                *)
(***************************************************************************)
(* Induction on numbers, about a set: what holds of 0 and goes from each to  *)
(* the next, holds of all up to n.                                           *)
LEMMA CountUp ==
  ASSUME NEW n \in Nat, NEW S, 0 \in S, \A i \in 0..n - 1 : i \in S => i + 1 \in S
  PROVE  0..n \subseteq S
<1> DEFINE Wrong == {i \in 0..n : i \notin S}
<1>1. ASSUME Wrong # {} PROVE FALSE
  <2>1. Wrong \subseteq Nat
    OBVIOUS
  <2> HIDE DEF Wrong
  <2>2. PICK i \in Wrong : \A j \in Wrong : <<j, i>> \notin OpToRel(<, Nat)
    BY <1>1, <2>1, NatLessThanWellFounded, WFMin
  <2>3. i \in 0..n /\ i \notin S
    BY DEF Wrong
  <2>4. i # 0 /\ i - 1 \in Nat /\ i \in Nat /\ i - 1 < i /\ i - 1 \in 0..n - 1 /\ i - 1 \in 0..n
    BY <2>3
  <2>5. i - 1 \notin Wrong
    <3> DEFINE j == i - 1
    <3>1. j \in Nat /\ i \in Nat /\ j < i
      BY <2>4
    <3> HIDE DEF j
    <3>2. <<j, i>> \in OpToRel(<, Nat)
      BY <3>1, Zenon DEF OpToRel
    <3> QED
      BY <2>2, <3>2 DEF j
  <2>6. i - 1 \in S
    BY <2>4, <2>5 DEF Wrong
  <2> QED
    BY <2>3, <2>4, <2>6
<1> QED
  BY <1>1

(* A pass over turns, one after the other, that a function describes: it can *)
(* be done.                                                                  *)
PassDone(done, V, start, n, turns, step) ==
  /\ done \in [0..n -> V] /\ done[0] = start
  /\ \A i \in 1..n : done[i] = step[<<done[i - 1], turns[i]>>]

(* A pass can be made, one turn after the other.                             *)
LEMMA PassExists ==
  ASSUME NEW V, NEW start \in V, NEW n \in Nat, NEW turns, NEW step,
         \A d \in V, i \in 1..n : step[<<d, turns[i]>>] \in V
  PROVE  \E done : PassDone(done, V, start, n, turns, step)
<1> DEFINE Done(k, done) == PassDone(done, V, start, k, turns, step)
           S == {k \in 0..n : \E done : Done(k, done)}
<1>1. 0 \in S
  <2>1. Done(0, [i \in 0..0 |-> start])
    BY DEF PassDone
  <2>2. 0 \in 0..n
    OBVIOUS
  <2> HIDE DEF Done
  <2> QED
    BY <2>1, <2>2
<1>2. ASSUME NEW k \in 0..n - 1, k \in S PROVE k + 1 \in S
  <2>1. PICK done : Done(k, done)
    BY <1>2
  <2> DEFINE more == [i \in 0..k + 1 |-> IF i = k + 1 THEN step[<<done[k], turns[k + 1]>>] ELSE done[i]]
  <2>2. k + 1 \in 1..n /\ k \in 0..k
    OBVIOUS
  <2>3. step[<<done[k], turns[k + 1]>>] \in V
    BY <2>1, <2>2 DEF PassDone
  <2>4. more \in [0..k + 1 -> V] /\ more[0] = start
    BY <2>1, <2>3 DEF PassDone
  <2>5. ASSUME NEW i \in 1..k + 1 PROVE more[i] = step[<<more[i - 1], turns[i]>>]
    <3>1. CASE i = k + 1
      <4>1. i - 1 = k /\ k # k + 1 /\ k \in 0..k + 1 /\ k + 1 \in 0..k + 1
        BY <3>1
      <4>2. more[k] = done[k] /\ more[k + 1] = step[<<done[k], turns[k + 1]>>]
        BY <4>1
      <4> QED
        BY <3>1, <4>1, <4>2
    <3>2. CASE i # k + 1
      <4>1. i \in 1..k /\ i - 1 \in 0..k /\ i - 1 # k + 1
        BY <3>2
      <4> QED
        BY <2>1, <4>1 DEF PassDone
    <3> QED
      BY <3>1, <3>2
  <2>6. Done(k + 1, more)
    <3> HIDE DEF more
    <3> QED
      BY <2>4, <2>5 DEF PassDone
  <2>7. k + 1 \in 0..n
    OBVIOUS
  <2> HIDE DEF Done
  <2> QED
    BY <2>6, <2>7
<1>3. n \in S
  <2> HIDE DEF S
  <2>1. 0..n \subseteq S
    BY <1>1, <1>2, CountUp
  <2> QED
    BY <2>1
<1> QED
  BY <1>3

(* Turns over identifiers of calls: only an assistant's use them, only a     *)
(* user's answer them.                                                       *)
Turns(I) ==
  {t \in [role : {"user", "assistant"}, uses : SUBSET I, results : SUBSET I, text : BOOLEAN] :
     /\ t.role = "user" => t.uses = {}
     /\ t.role = "assistant" => t.results = {} /\ t.text}

(* The three steps of the repair build turns of turns.                       *)
LEMMA StepTypes ==
  ASSUME NEW I, NEW done \in Seq(Turns(I)), NEW t \in Turns(I)
  PROVE  /\ Answered(done, t) \in Seq(Turns(I))
         /\ Stripped(done, t) \in Seq(Turns(I))
         /\ \A roles : Merged(roles, done, t) \in Seq(Turns(I))
<1>0. done # <<>> => Len(done) \in DOMAIN done /\ Last(done) = done[Len(done)] /\ Last(done) \in Turns(I)
  BY DEF Last
<1>1. Answered(done, t) \in Seq(Turns(I))
  <2> DEFINE missing == Unanswered(done, t)
  <2>1. missing \in SUBSET I
    BY <1>0 DEF Unanswered, Turns
  <2>2. UserTurn(missing, FALSE) \in Turns(I)
    BY <2>1 DEF UserTurn, Turns
  <2>3. t.role = "user" => [t EXCEPT !.results = @ \cup missing] \in Turns(I)
    BY <2>1 DEF Turns
  <2> HIDE DEF missing
  <2>4. Append(Append(done, UserTurn(missing, FALSE)), t) \in Seq(Turns(I))
    <3>1. Append(done, UserTurn(missing, FALSE)) \in Seq(Turns(I))
      BY <2>2 DEF UserTurn
    <3> QED
      BY <3>1 DEF UserTurn
  <2>5. t.role = "user" => Append(done, [t EXCEPT !.results = @ \cup missing]) \in Seq(Turns(I))
    BY <2>3
  <2>6. Append(done, t) \in Seq(Turns(I))
    OBVIOUS
  <2> QED
    BY <2>4, <2>5, <2>6 DEF Answered, missing
<1>2. Stripped(done, t) \in Seq(Turns(I))
  <2>1. t.results \cap Asked(done) \in SUBSET t.results
    OBVIOUS
  <2>2. [t EXCEPT !.results = t.results \cap Asked(done)] \in Turns(I)
    BY DEF Turns
  <2> QED
    BY <2>2 DEF Stripped
<1>3. ASSUME NEW roles PROVE Merged(roles, done, t) \in Seq(Turns(I))
  <2>1. CASE done # <<>> /\ t.role \in roles /\ Last(done).role = t.role
    <3>1. Joined(Last(done), t) \in Turns(I)
      BY <1>0, <2>1 DEF Joined, Turns
    <3>2. Front(done) \in Seq(Turns(I))
      BY <2>1 DEF Front
    <3> QED
      BY <2>1, <3>1, <3>2 DEF Merged
  <2> QED
    BY <2>1 DEF Merged
<1> QED
  BY <1>1, <1>2, <1>3

(* What each of the three passes builds, turn by turn: the answers first,    *)
LEMMA AnsweredPass ==
  ASSUME NEW I, NEW turns \in Seq(Turns(I))
  PROVE  \E done \in [0..Len(turns) -> Seq(Turns(I))] :
           /\ done[0] = <<>>
           /\ \A i \in 1..Len(turns) : done[i] = Answered(done[i - 1], turns[i])
           /\ Pass(Answered, turns) = done[Len(turns)]
<1> DEFINE V == Seq(Turns(I))   n == Len(turns)
           step == [p \in V \X Turns(I) |-> Answered(p[1], p[2])]
           Solves(f) == f = [i \in 0..n |-> IF i = 0 THEN <<>> ELSE Answered(f[i - 1], turns[i])]
<1>1. step \in [V \X Turns(I) -> V]
  BY StepTypes
<1>2. n \in Nat /\ turns \in [1..n -> Turns(I)] /\ <<>> \in V
  OBVIOUS
<1>a. \A d \in V, t \in Turns(I) : step[<<d, t>>] = Answered(d, t)
  OBVIOUS
<1>b. \A i \in 1..n : turns[i] \in Turns(I) /\ i - 1 \in 0..n
  BY <1>2
<1> HIDE DEF step, V, n
<1>3. PICK g \in [0..n -> V] : g[0] = <<>> /\ \A i \in 1..n : g[i] = step[<<g[i - 1], turns[i]>>]
  <2>1. \A d \in V, i \in 1..n : step[<<d, turns[i]>>] \in V
    BY <1>1, <1>2
  <2>2. ASSUME NEW start \in V
        PROVE  \E g : PassDone(g, V, start, n, turns, step)
    BY <1>2, <2>1, PassExists
  <2> QED
    BY <1>2, <2>2 DEF PassDone
<1>4. \A i \in 1..n : g[i] = Answered(g[i - 1], turns[i])
  BY <1>3, <1>a, <1>b
<1>5. Solves(g)
  BY <1>3, <1>4
<1>6. Solves(CHOOSE f : Solves(f))
  <2> HIDE DEF Solves
  <2> QED
    BY <1>5
<1>7. Pass(Answered, turns) = (CHOOSE f : Solves(f))[n]
  BY DEF Pass, n
<1> DEFINE done == CHOOSE f : Solves(f)
<1>8. done = [i \in 0..n |-> IF i = 0 THEN <<>> ELSE Answered(done[i - 1], turns[i])] /\ Pass(Answered, turns) = done[n]
  BY <1>6, <1>7
<1> HIDE DEF done
<1>9. done[0] = <<>> /\ \A i \in 1..n : done[i] = Answered(done[i - 1], turns[i])
  BY <1>2, <1>8
<1>10. \A i \in 0..n : done[i] \in V
  <2> DEFINE S == {i \in 0..n : done[i] \in V}
  <2>1. 0 \in S
    BY <1>2, <1>9
  <2>2. ASSUME NEW i \in 0..n - 1, i \in S PROVE i + 1 \in S
    <3>1. i + 1 \in 1..n /\ i + 1 - 1 = i /\ i + 1 \in 0..n
      BY <1>2
    <3>2. done[i + 1] = Answered(done[i], turns[i + 1]) /\ turns[i + 1] \in Turns(I) /\ done[i] \in V
      BY <1>9, <1>b, <2>2, <3>1
    <3> QED
      BY <3>1, <3>2, StepTypes DEF V
  <2>3. 0..n \subseteq S
    <3> HIDE DEF S
    <3> QED
      BY <1>2, <2>1, <2>2, CountUp
  <2> QED
    BY <2>3
<1> QED
  BY <1>8, <1>9, <1>10 DEF V, n

(* then the results nobody asked for,                                        *)
LEMMA StrippedPass ==
  ASSUME NEW I, NEW turns \in Seq(Turns(I))
  PROVE  \E done \in [0..Len(turns) -> Seq(Turns(I))] :
           /\ done[0] = <<>>
           /\ \A i \in 1..Len(turns) : done[i] = Stripped(done[i - 1], turns[i])
           /\ Pass(Stripped, turns) = done[Len(turns)]
<1> DEFINE V == Seq(Turns(I))   n == Len(turns)
           step == [p \in V \X Turns(I) |-> Stripped(p[1], p[2])]
           Solves(f) == f = [i \in 0..n |-> IF i = 0 THEN <<>> ELSE Stripped(f[i - 1], turns[i])]
<1>1. step \in [V \X Turns(I) -> V]
  BY StepTypes
<1>2. n \in Nat /\ turns \in [1..n -> Turns(I)] /\ <<>> \in V
  OBVIOUS
<1>a. \A d \in V, t \in Turns(I) : step[<<d, t>>] = Stripped(d, t)
  OBVIOUS
<1>b. \A i \in 1..n : turns[i] \in Turns(I) /\ i - 1 \in 0..n
  BY <1>2
<1> HIDE DEF step, V, n
<1>3. PICK g \in [0..n -> V] : g[0] = <<>> /\ \A i \in 1..n : g[i] = step[<<g[i - 1], turns[i]>>]
  <2>1. \A d \in V, i \in 1..n : step[<<d, turns[i]>>] \in V
    BY <1>1, <1>2
  <2>2. ASSUME NEW start \in V
        PROVE  \E g : PassDone(g, V, start, n, turns, step)
    BY <1>2, <2>1, PassExists
  <2> QED
    BY <1>2, <2>2 DEF PassDone
<1>4. \A i \in 1..n : g[i] = Stripped(g[i - 1], turns[i])
  BY <1>3, <1>a, <1>b
<1>5. Solves(g)
  BY <1>3, <1>4
<1>6. Solves(CHOOSE f : Solves(f))
  <2> HIDE DEF Solves
  <2> QED
    BY <1>5
<1>7. Pass(Stripped, turns) = (CHOOSE f : Solves(f))[n]
  BY DEF Pass, n
<1> DEFINE done == CHOOSE f : Solves(f)
<1>8. done = [i \in 0..n |-> IF i = 0 THEN <<>> ELSE Stripped(done[i - 1], turns[i])] /\ Pass(Stripped, turns) = done[n]
  BY <1>6, <1>7
<1> HIDE DEF done
<1>9. done[0] = <<>> /\ \A i \in 1..n : done[i] = Stripped(done[i - 1], turns[i])
  BY <1>2, <1>8
<1>10. \A i \in 0..n : done[i] \in V
  <2> DEFINE S == {i \in 0..n : done[i] \in V}
  <2>1. 0 \in S
    BY <1>2, <1>9
  <2>2. ASSUME NEW i \in 0..n - 1, i \in S PROVE i + 1 \in S
    <3>1. i + 1 \in 1..n /\ i + 1 - 1 = i /\ i + 1 \in 0..n
      BY <1>2
    <3>2. done[i + 1] = Stripped(done[i], turns[i + 1]) /\ turns[i + 1] \in Turns(I) /\ done[i] \in V
      BY <1>9, <1>b, <2>2, <3>1
    <3> QED
      BY <3>1, <3>2, StepTypes DEF V
  <2>3. 0..n \subseteq S
    <3> HIDE DEF S
    <3> QED
      BY <1>2, <2>1, <2>2, CountUp
  <2> QED
    BY <2>3
<1> QED
  BY <1>8, <1>9, <1>10 DEF V, n

MergedBy(done, I, turns, roles) ==
  /\ done \in [0..Len(turns) -> Seq(Turns(I))] /\ done[0] = <<>>
  /\ \A i \in 1..Len(turns) : done[i] = Merged(roles, done[i - 1], turns[i])
  /\ Merge(turns, roles) = done[Len(turns)]

(* and the merging of turns of one role.                                     *)
LEMMA MergedPass ==
  ASSUME NEW I, NEW turns \in Seq(Turns(I)), NEW roles
  PROVE  \E done : MergedBy(done, I, turns, roles)
<1> DEFINE V == Seq(Turns(I))   n == Len(turns)
           step == [p \in V \X Turns(I) |-> Merged(roles, p[1], p[2])]
           Solves(f) == f = [i \in 0..n |-> IF i = 0 THEN <<>> ELSE Merged(roles, f[i - 1], turns[i])]
<1>1. step \in [V \X Turns(I) -> V]
  BY StepTypes
<1>2. n \in Nat /\ turns \in [1..n -> Turns(I)] /\ <<>> \in V
  OBVIOUS
<1>a. \A d \in V, t \in Turns(I) : step[<<d, t>>] = Merged(roles, d, t)
  OBVIOUS
<1>b. \A i \in 1..n : turns[i] \in Turns(I) /\ i - 1 \in 0..n
  BY <1>2
<1> HIDE DEF step, V, n
<1>3. PICK g \in [0..n -> V] : g[0] = <<>> /\ \A i \in 1..n : g[i] = step[<<g[i - 1], turns[i]>>]
  <2>1. \A d \in V, i \in 1..n : step[<<d, turns[i]>>] \in V
    BY <1>1, <1>2
  <2>2. ASSUME NEW start \in V
        PROVE  \E g : PassDone(g, V, start, n, turns, step)
    BY <1>2, <2>1, PassExists
  <2> QED
    BY <1>2, <2>2 DEF PassDone
<1>4. \A i \in 1..n : g[i] = Merged(roles, g[i - 1], turns[i])
  BY <1>3, <1>a, <1>b
<1>5. Solves(g)
  BY <1>3, <1>4
<1>6. Solves(CHOOSE f : Solves(f))
  <2> HIDE DEF Solves
  <2> QED
    BY <1>5
<1>7. Merge(turns, roles) = (CHOOSE f : Solves(f))[n]
  BY DEF Pass, Merge, n
<1> DEFINE done == CHOOSE f : Solves(f)
<1>8. done = [i \in 0..n |-> IF i = 0 THEN <<>> ELSE Merged(roles, done[i - 1], turns[i])] /\ Merge(turns, roles) = done[n]
  BY <1>6, <1>7
<1> HIDE DEF done
<1>9. done[0] = <<>> /\ \A i \in 1..n : done[i] = Merged(roles, done[i - 1], turns[i])
  BY <1>2, <1>8
<1>10. \A i \in 0..n : done[i] \in V
  <2> DEFINE S == {i \in 0..n : done[i] \in V}
  <2>1. 0 \in S
    BY <1>2, <1>9
  <2>2. ASSUME NEW i \in 0..n - 1, i \in S PROVE i + 1 \in S
    <3>1. i + 1 \in 1..n /\ i + 1 - 1 = i /\ i + 1 \in 0..n
      BY <1>2
    <3>2. done[i + 1] = Merged(roles, done[i], turns[i + 1]) /\ turns[i + 1] \in Turns(I) /\ done[i] \in V
      BY <1>9, <1>b, <2>2, <3>1
    <3> QED
      BY <3>1, <3>2, StepTypes, ZenonT(30) DEF V
  <2>3. 0..n \subseteq S
    <3> HIDE DEF S
    <3> QED
      BY <1>2, <2>1, <2>2, CountUp
  <2> QED
    BY <2>3
<1> QED
  BY <1>8, <1>9, <1>10 DEF V, n, MergedBy

(* Every tool use but the last turn's is answered by the next turn, and      *)
(* every result is one that the turn before it asked for.                    *)
UsesAnswered(d)  == \A i \in 1..Len(d) - 1 : d[i].uses \subseteq d[i + 1].results
NoneOpen(d)      == d # <<>> => d[Len(d)].uses = {}
ResultsAsked(d)  == \A i \in 1..Len(d) : d[i].results \subseteq (IF i = 1 THEN {} ELSE d[i - 1].uses)
RolesAlternate(d) == \A i \in 1..Len(d) - 1 : d[i].role # d[i + 1].role

(* With each turn, every use before the last is answered,                    *)
LEMMA AnsweredStep ==
  ASSUME NEW I, NEW d \in Seq(Turns(I)), NEW t \in Turns(I), UsesAnswered(d)
  PROVE  UsesAnswered(Answered(d, t))
<1> DEFINE missing == Unanswered(d, t)   u == [role |-> "user", uses |-> {}, results |-> missing, text |-> FALSE]
<1>0. /\ Len(d) \in Nat /\ \A i \in 1..Len(d) : d[i] \in Turns(I)
      /\ d # <<>> => Last(d) = d[Len(d)] /\ Len(d) \in 1..Len(d)
  BY DEF Last
<1>1. d # <<>> => d[Len(d)].uses \subseteq t.results \cup missing
  BY <1>0 DEF Unanswered, Turns
<1>2. ASSUME NEW x, d # <<>> => d[Len(d)].uses \subseteq x.results
      PROVE  UsesAnswered(Append(d, x))
  BY <1>0, <1>2 DEF UsesAnswered
<1>3. CASE missing = {}
  BY <1>1, <1>2, <1>3 DEF Answered
<1>4. CASE missing # {} /\ t.role = "user"
  <2> DEFINE x == [t EXCEPT !.results = t.results \cup missing]
  <2>1. x.results = t.results \cup missing
    BY DEF Turns
  <2>2. Answered(d, t) = Append(d, x)
    BY <1>4 DEF Answered
  <2> HIDE DEF x
  <2> QED
    BY <1>1, <1>2, <2>1, <2>2
<1>5. CASE missing # {} /\ t.role # "user"
  <2>1. Answered(d, t) = Append(Append(d, u), t)
    BY <1>5 DEF Answered, UserTurn
  <2>2. t.results = {} /\ u.results = missing /\ u.uses = {}
    BY <1>5 DEF Turns
  <2> HIDE DEF u
  <2>3. UsesAnswered(Append(d, u))
    BY <1>1, <1>2, <2>2
  <2>4. /\ Len(Append(Append(d, u), t)) = Len(d) + 2
        /\ \A i \in 1..Len(d) + 1 : Append(Append(d, u), t)[i] = Append(d, u)[i]
        /\ Append(d, u)[Len(d) + 1] = u /\ Len(Append(d, u)) = Len(d) + 1
    BY <1>0
  <2> QED
    BY <1>0, <2>1, <2>2, <2>3, <2>4 DEF UsesAnswered
<1> QED
  BY <1>3, <1>4, <1>5

(* After the first pass no tool use is left open.                            *)
LEMMA AllAnswered ==
  ASSUME NEW I, NEW turns \in Seq(Turns(I))
  PROVE  LET d == Closed(Pass(Answered, turns)) IN
         d \in Seq(Turns(I)) /\ UsesAnswered(d) /\ NoneOpen(d)
<1> DEFINE n == Len(turns)   p == Pass(Answered, turns)
<1>1. n \in Nat /\ \A i \in 1..n : turns[i] \in Turns(I)
  OBVIOUS
<1>2. PICK done \in [0..n -> Seq(Turns(I))] :
        /\ done[0] = <<>> /\ \A i \in 1..n : done[i] = Answered(done[i - 1], turns[i])
        /\ p = done[n]
  BY AnsweredPass
<1> DEFINE S == {i \in 0..n : UsesAnswered(done[i])}
<1>3. 0 \in S
  BY <1>1, <1>2 DEF UsesAnswered
<1>4. ASSUME NEW i \in 0..n - 1, i \in S PROVE i + 1 \in S
  <2>1. i + 1 \in 1..n /\ i + 1 \in 0..n /\ i \in 0..n /\ (i + 1) - 1 = i
    BY <1>1
  <2>2. done[i + 1] = Answered(done[i], turns[i + 1])
    BY <1>2, <2>1
  <2>3. done[i] \in Seq(Turns(I)) /\ turns[i + 1] \in Turns(I) /\ UsesAnswered(done[i])
    BY <1>1, <1>2, <1>4, <2>1
  <2>4. UsesAnswered(Answered(done[i], turns[i + 1]))
    BY <2>3, AnsweredStep
  <2> QED
    BY <2>1, <2>2, <2>4
<1>5. p \in Seq(Turns(I)) /\ UsesAnswered(p)
  <2> HIDE DEF S
  <2>1. 0..n \subseteq S
    BY <1>1, <1>3, <1>4, CountUp
  <2>2. n \in S /\ n \in 0..n
    BY <1>1, <2>1
  <2> QED
    BY <1>2, <2>2 DEF S
<1> HIDE DEF p
<1>6. CASE p # <<>> /\ Last(p).uses # {}
  <2> DEFINE u == [role |-> "user", uses |-> {}, results |-> p[Len(p)].uses, text |-> FALSE]
  <2>1. Closed(p) = Append(p, u) /\ Last(p) = p[Len(p)]
    BY <1>6 DEF Closed, UserTurn, Last
  <2>2. u \in Turns(I)
    BY <1>5, <1>6 DEF Turns
  <2>3. u.uses = {} /\ u.results = p[Len(p)].uses
    OBVIOUS
  <2> HIDE DEF u
  <2> QED
    BY <1>5, <2>1, <2>2, <2>3 DEF UsesAnswered, NoneOpen, p
<1>7. CASE p = <<>> \/ Last(p).uses = {}
  BY <1>5, <1>7 DEF Closed, NoneOpen, Last, p
<1> QED
  BY <1>6, <1>7

(* A turn is dropped in the second pass only if it answers nothing: not the  *)
(* one that answers the tool uses which are still open.                      *)
StrippedSoFar(d, open) ==
  /\ UsesAnswered(d) /\ ResultsAsked(d)
  /\ d # <<>> => d[Len(d)].uses \subseteq open

(* every result has its use in the turn before,                              *)
LEMMA StrippedStep ==
  ASSUME NEW I, NEW d \in Seq(Turns(I)), NEW t \in Turns(I), NEW open,
         StrippedSoFar(d, open), open \subseteq t.results
  PROVE  StrippedSoFar(Stripped(d, t), t.uses)
<1> DEFINE kept == t.results \cap Asked(d)   x == [t EXCEPT !.results = kept]
<1>0. /\ Len(d) \in Nat /\ \A i \in 1..Len(d) : d[i] \in Turns(I)
      /\ d # <<>> => Last(d) = d[Len(d)] /\ Len(d) \in 1..Len(d)
  BY DEF Last
<1>1. kept = IF d = <<>> THEN {} ELSE d[Len(d)].uses
  BY <1>0 DEF Asked, StrippedSoFar
<1>2. CASE Stripped(d, t) = d /\ kept = {} /\ ~t.text
  <2>1. t.uses = {}
    BY <1>2 DEF Turns
  <2>2. d # <<>> => d[Len(d)].uses = {}
    BY <1>1, <1>2
  <2> QED
    BY <1>2, <2>1, <2>2 DEF StrippedSoFar
<1>3. CASE Stripped(d, t) = Append(d, x)
  <2>1. x.results = kept /\ x.uses = t.uses
    BY DEF Turns
  <2>2. Stripped(d, t) = Append(d, x)
    BY <1>3
  <2> HIDE DEF x, kept
  <2> QED
    BY <1>0, <1>1, <2>1, <2>2 DEF StrippedSoFar, UsesAnswered, ResultsAsked
<1>4. Stripped(d, t) = Append(d, x) \/ (Stripped(d, t) = d /\ kept = {} /\ ~t.text)
  BY DEF Stripped
<1> QED
  BY <1>2, <1>3, <1>4

(* The second pass leaves only results that were asked for, and opens        *)
(* nothing.                                                                  *)
LEMMA AllAsked ==
  ASSUME NEW I, NEW turns \in Seq(Turns(I)), UsesAnswered(turns), NoneOpen(turns)
  PROVE  LET d == Pass(Stripped, turns) IN
         d \in Seq(Turns(I)) /\ UsesAnswered(d) /\ NoneOpen(d) /\ ResultsAsked(d)
<1> DEFINE n == Len(turns)   open(i) == IF i = 0 THEN {} ELSE turns[i].uses
<1>1. n \in Nat /\ \A i \in 1..n : turns[i] \in Turns(I)
  OBVIOUS
<1>2. PICK done \in [0..n -> Seq(Turns(I))] :
        /\ done[0] = <<>> /\ \A i \in 1..n : done[i] = Stripped(done[i - 1], turns[i])
        /\ Pass(Stripped, turns) = done[n]
  BY StrippedPass
<1> DEFINE S == {i \in 0..n : StrippedSoFar(done[i], open(i))}
<1>3. 0 \in S
  BY <1>1, <1>2 DEF StrippedSoFar, UsesAnswered, ResultsAsked
<1>4. ASSUME NEW i \in 0..n - 1, i \in S PROVE i + 1 \in S
  <2>1. i + 1 \in 1..n /\ i + 1 \in 0..n /\ i \in 0..n /\ (i + 1) - 1 = i /\ i + 1 # 0
    BY <1>1
  <2>2. done[i + 1] = Stripped(done[i], turns[i + 1])
    BY <1>2, <2>1
  <2>3. /\ done[i] \in Seq(Turns(I)) /\ turns[i + 1] \in Turns(I)
        /\ StrippedSoFar(done[i], open(i))
    BY <1>1, <1>2, <1>4, <2>1
  <2>4. open(i) \subseteq turns[i + 1].results
    BY <1>1, <2>1 DEF UsesAnswered
  <2>5. open(i + 1) = turns[i + 1].uses
    BY <2>1
  <2> HIDE DEF open
  <2>6. StrippedSoFar(Stripped(done[i], turns[i + 1]), turns[i + 1].uses)
    BY <2>3, <2>4, StrippedStep
  <2> QED
    BY <2>1, <2>2, <2>5, <2>6
<1>5. n \in S /\ n \in 0..n
  <2> HIDE DEF S
  <2>1. 0..n \subseteq S
    BY <1>1, <1>3, <1>4, CountUp
  <2> QED
    BY <1>1, <2>1
<1>6. open(n) = {}
  BY <1>1 DEF NoneOpen
<1> QED
  BY <1>2, <1>5, <1>6 DEF StrippedSoFar, NoneOpen

(* Neighbours of one role never answer each other, so that what is joined    *)
(* asks what the last of them asks, and answers what the first answers.      *)
MergedSoFar(d, role, open) ==
  /\ UsesAnswered(d) /\ ResultsAsked(d) /\ RolesAlternate(d)
  /\ d # <<>> => d[Len(d)].role = role /\ d[Len(d)].uses = open

(* and no two neighbours have one role.                                      *)
LEMMA MergedStep ==
  ASSUME NEW I, NEW d \in Seq(Turns(I)), NEW t \in Turns(I), NEW role, NEW open,
         MergedSoFar(d, role, open), open \subseteq t.results,
         t.results \subseteq (IF d = <<>> THEN {} ELSE open)
  PROVE  LET e == Merged({"user", "assistant"}, d, t) IN e # <<>> /\ MergedSoFar(e, t.role, t.uses)
<1> DEFINE e == Merged({"user", "assistant"}, d, t)   x == Joined(d[Len(d)], t)
<1>0. /\ Len(d) \in Nat /\ \A i \in 1..Len(d) : d[i] \in Turns(I)
      /\ d # <<>> => Last(d) = d[Len(d)] /\ Len(d) \in 1..Len(d)
  BY DEF Last
<1>1. CASE d # <<>> /\ d[Len(d)].role = t.role
  <2>1. e = Append(Front(d), x)
    BY <1>0, <1>1 DEF Merged, Turns
  <2>2. /\ x.role = t.role
        /\ x.uses = t.uses /\ x.results = d[Len(d)].results
    BY <1>0, <1>1 DEF Joined, MergedSoFar, Turns
  <2>3. /\ Front(d) \in Seq(Turns(I)) /\ Len(Front(d)) = Len(d) - 1
        /\ \A i \in 1..Len(d) - 1 : Front(d)[i] = d[i]
    <3>1. Len(d) - 1 \in Nat /\ Len(d) - 1 <= Len(d) /\ Front(d) = SubSeq(d, 1, Len(d) - 1)
      BY <1>0, <1>1 DEF Front
    <3>2. \A m \in Nat : m <= Len(d) => /\ SubSeq(d, 1, m) \in Seq(Turns(I)) /\ Len(SubSeq(d, 1, m)) = m
                                       /\ \A i \in 1..m : SubSeq(d, 1, m)[i] = d[i]
      BY <1>0
    <3> QED
      BY <3>1, <3>2
  <2> HIDE DEF x
  <2>4. /\ Len(e) = Len(d) /\ e[Len(d)] = x
        /\ \A i \in 1..Len(d) - 1 : e[i] = d[i]
    BY <1>0, <1>1, <2>1, <2>3
  <2>5. e # <<>>
    BY <2>1, <2>3
  <2> HIDE DEF e
  <2> QED
    <3>1. UsesAnswered(e)
      BY <1>0, <1>1, <2>2, <2>4 DEF MergedSoFar, UsesAnswered
    <3>2. ResultsAsked(e)
      BY <1>0, <1>1, <2>2, <2>4 DEF MergedSoFar, ResultsAsked
    <3>3. RolesAlternate(e)
      BY <1>0, <1>1, <2>2, <2>4 DEF MergedSoFar, RolesAlternate
    <3> QED
      BY <1>0, <1>1, <2>2, <2>4, <2>5, <3>1, <3>2, <3>3 DEF MergedSoFar, e
<1>2. CASE d = <<>> \/ d[Len(d)].role # t.role
  <2>1. e = Append(d, t)
    BY <1>0, <1>2 DEF Merged
  <2> HIDE DEF e
  <2>2. /\ Len(e) = Len(d) + 1 /\ e[Len(d) + 1] = t /\ e # <<>>
        /\ \A i \in 1..Len(d) : e[i] = d[i]
    BY <2>1
  <2>3. UsesAnswered(e)
    BY <1>0, <2>2 DEF MergedSoFar, UsesAnswered
  <2>4. ResultsAsked(e)
    BY <1>0, <2>2 DEF MergedSoFar, ResultsAsked
  <2>5. RolesAlternate(e)
    BY <1>0, <1>2, <2>2 DEF MergedSoFar, RolesAlternate
  <2> QED
    BY <1>0, <2>2, <2>3, <2>4, <2>5 DEF MergedSoFar, e
<1> QED
  BY <1>1, <1>2

(* Merging keeps the pairs of uses and results, and makes roles alternate.   *)
LEMMA AllMerged ==
  ASSUME NEW I, NEW turns \in Seq(Turns(I)),
         UsesAnswered(turns), NoneOpen(turns), ResultsAsked(turns)
  PROVE  LET d == Merge(turns, {"user", "assistant"}) IN
         /\ d \in Seq(Turns(I)) /\ UsesAnswered(d) /\ NoneOpen(d)
         /\ ResultsAsked(d) /\ RolesAlternate(d)
<1> DEFINE n == Len(turns)   both == {"user", "assistant"}
           role(i) == turns[i].role   open(i) == IF i = 0 THEN {} ELSE turns[i].uses
<1>1. n \in Nat /\ \A i \in 1..n : turns[i] \in Turns(I)
  OBVIOUS
<1>2. PICK done \in [0..n -> Seq(Turns(I))] :
        /\ done[0] = <<>> /\ \A i \in 1..n : done[i] = Merged(both, done[i - 1], turns[i])
        /\ Merge(turns, both) = done[n]
  <2>1. \E done : MergedBy(done, I, turns, both)
    BY MergedPass
  <2> QED
    BY <2>1 DEF MergedBy
<1> DEFINE S == {i \in 0..n : MergedSoFar(done[i], role(i), open(i)) /\ (i > 0 => done[i] # <<>>)}
<1>3. 0 \in S
  BY <1>1, <1>2 DEF MergedSoFar, UsesAnswered, ResultsAsked, RolesAlternate
<1>4. ASSUME NEW i \in 0..n - 1, i \in S PROVE i + 1 \in S
  <2>1. i + 1 \in 1..n /\ i + 1 \in 0..n /\ i \in 0..n /\ (i + 1) - 1 = i /\ i + 1 # 0
    BY <1>1
  <2>2. done[i + 1] = Merged(both, done[i], turns[i + 1])
    BY <1>2, <2>1
  <2>3. /\ done[i] \in Seq(Turns(I)) /\ turns[i + 1] \in Turns(I)
        /\ MergedSoFar(done[i], role(i), open(i)) /\ (i > 0 => done[i] # <<>>)
    BY <1>1, <1>2, <1>4, <2>1
  <2>4. open(i) \subseteq turns[i + 1].results
    BY <1>1, <2>1 DEF UsesAnswered
  <2>5. turns[i + 1].results \subseteq (IF done[i] = <<>> THEN {} ELSE open(i))
    BY <1>1, <1>2, <2>1, <2>3 DEF ResultsAsked
  <2>6. open(i + 1) = turns[i + 1].uses /\ role(i + 1) = turns[i + 1].role
    BY <2>1
  <2> HIDE DEF open, role
  <2>7. /\ Merged(both, done[i], turns[i + 1]) # <<>>
        /\ MergedSoFar(Merged(both, done[i], turns[i + 1]), turns[i + 1].role, turns[i + 1].uses)
    BY <2>3, <2>4, <2>5, MergedStep
  <2> QED
    BY <2>1, <2>2, <2>6, <2>7
<1>5. n \in S /\ n \in 0..n
  <2> HIDE DEF S
  <2>1. 0..n \subseteq S
    BY <1>1, <1>3, <1>4, CountUp
  <2> QED
    BY <1>1, <2>1
<1>6. open(n) = {}
  BY <1>1 DEF NoneOpen
<1> QED
  BY <1>2, <1>5, <1>6 DEF MergedSoFar, NoneOpen

(* Whatever the turns are, their repair is well formed.                      *)
LEMMA RepairWorks ==
  ASSUME NEW I, NEW turns \in Seq(Turns(I))
  PROVE  WellFormed(FixOrphanedToolUse(turns))
<1> DEFINE closed == Closed(Pass(Answered, turns))   stripped == Pass(Stripped, closed)
           d == Merge(stripped, {"user", "assistant"})
<1>1. closed \in Seq(Turns(I)) /\ UsesAnswered(closed) /\ NoneOpen(closed)
  BY AllAnswered
<1>2. /\ stripped \in Seq(Turns(I)) /\ UsesAnswered(stripped) /\ NoneOpen(stripped)
      /\ ResultsAsked(stripped)
  <2> HIDE DEF closed
  <2> QED
    BY <1>1, AllAsked
<1>3. /\ d \in Seq(Turns(I)) /\ UsesAnswered(d) /\ NoneOpen(d)
      /\ ResultsAsked(d) /\ RolesAlternate(d)
  <2> HIDE DEF stripped
  <2> QED
    BY <1>2, AllMerged
<1>4. WellFormed(d)
  <2> HIDE DEF d
  <2>1. Len(d) \in Nat /\ DOMAIN d = 1..Len(d)
    BY <1>3
  <2>2. ASSUME NEW i \in 1..Len(d)
        PROVE  /\ i > 1 => d[i].role # d[i - 1].role
               /\ d[i].uses # {} => i < Len(d) /\ d[i].uses \subseteq d[i + 1].results
               /\ d[i].results # {} => i > 1 /\ d[i].results \subseteq d[i - 1].uses
    <3>1. i > 1 => i - 1 \in 1..Len(d) - 1 /\ (i - 1) + 1 = i
      BY <2>1
    <3>2. i # Len(d) => i \in 1..Len(d) - 1
      <4>1. Len(d) \in Nat
        BY <2>1
      <4> QED
        BY <4>1
    <3>3. i > 1 => d[i].role # d[i - 1].role
      BY <1>3, <3>1 DEF RolesAlternate
    <3>4. d[i].uses # {} => i \in 1..Len(d) - 1
      <4>1. d # <<>>
        BY <1>3, <2>1
      <4> QED
        BY <1>3, <3>2, <4>1 DEF NoneOpen
    <3>5. i \in 1..Len(d) - 1 => i < Len(d) /\ d[i].uses \subseteq d[i + 1].results
      BY <1>3, <2>1 DEF UsesAnswered
    <3>6. d[i].results # {} => i > 1 /\ d[i].results \subseteq d[i - 1].uses
      BY <1>3, <2>1 DEF ResultsAsked
    <3> QED
      BY <3>3, <3>4, <3>5, <3>6
  <2> QED
    BY <2>1, <2>2 DEF WellFormed
<1> QED
  BY <1>4 DEF FixOrphanedToolUse

(* Numbers have a least one, *)
LEMMA LeastIs ==
  ASSUME NEW S \in SUBSET Nat, S # {}
  PROVE  Least(S) \in S /\ \A j \in S : Least(S) <= j
<1>1. PICK i \in S : \A j \in S : <<j, i>> \notin OpToRel(<, Nat)
  BY NatLessThanWellFounded, WFMin
<1>2. ASSUME NEW j \in S PROVE ~(j < i)
  <2>1. j \in Nat /\ i \in Nat /\ <<j, i>> \notin OpToRel(<, Nat)
    BY <1>1
  <2> QED
    BY <2>1, Zenon DEF OpToRel
<1>3. \A j \in S : i <= j
  BY <1>2
<1> QED
  BY <1>3 DEF Least

(* and if they are bounded, a greatest one.                                  *)
LEMMA GreatestIs ==
  ASSUME NEW n \in Nat, NEW S \in SUBSET (0..n), S # {}
  PROVE  Greatest(S) \in S /\ \A j \in S : j <= Greatest(S)
<1> DEFINE Above == {i \in 0..n : \A j \in S : j <= i}   g == Least(Above)
<1>1. n \in Above /\ Above \in SUBSET Nat
  OBVIOUS
<1>2. g \in Above /\ \A i \in Above : g <= i
  <2> HIDE DEF Above
  <2> QED
    BY <1>1, LeastIs
<1>3. g \in S
  <2>1. CASE g = 0
    <3>1. PICK j \in S : TRUE
      OBVIOUS
    <3>2. j \in Nat /\ j <= g
      BY <1>2, <3>1
    <3> QED
      BY <2>1, <3>1, <3>2
  <2>2. CASE g # 0 /\ g \notin S
    <3>1. g - 1 \in 0..n /\ \A j \in S : j <= g - 1
      BY <1>2, <2>2
    <3>2. g - 1 \in Above
      BY <3>1
    <3> QED
      BY <1>2, <3>2
  <2> QED
    BY <2>1, <2>2
<1> QED
  BY <1>2, <1>3 DEF Greatest

-----------------------------------------------------------------------------
(* How many numbers of S there are up to k.                                  *)
Rank(S, k) == Cardinality({j \in S : j <= k})

(* The rank of a number in a set counts the members up to it,                *)
LEMMA RankType ==
  ASSUME NEW n \in Nat, NEW S \in SUBSET (1..n), NEW k \in Nat
  PROVE  /\ IsFiniteSet(S) /\ IsFiniteSet({j \in S : j <= k})
         /\ Rank(S, k) \in 0..Cardinality(S) /\ Cardinality(S) \in Nat
<1>1. IsFiniteSet(1..n)
  BY FS_Interval
<1>2. IsFiniteSet(S)
  BY <1>1, FS_Subset
<1>3. /\ {j \in S : j <= k} \subseteq S
  OBVIOUS
<1>4. /\ IsFiniteSet({j \in S : j <= k})
      /\ Cardinality({j \in S : j <= k}) <= Cardinality(S)
  BY <1>2, <1>3, FS_Subset
<1> QED
  BY <1>2, <1>4, FS_CardinalityType DEF Rank

(* and grows by one with each member.                                        *)
LEMMA RankGrows ==
  ASSUME NEW n \in Nat, NEW S \in SUBSET (1..n), NEW k \in Nat
  PROVE  /\ Rank(S, 0) = 0 /\ Rank(S, n) = Cardinality(S)
         /\ Rank(S, k + 1) = Rank(S, k) + (IF k + 1 \in S THEN 1 ELSE 0)
<1>a. \A j \in S : j \in Nat /\ 1 <= j /\ j <= n
  OBVIOUS
<1>1. {j \in S : j <= 0} = {} /\ {j \in S : j <= n} = S
  <2>1. \A j \in S : ~(j <= 0) /\ j <= n
    BY <1>a
  <2> QED
    BY <2>1, Zenon
<1>b. \A j \in S : j <= k + 1 <=> (j <= k \/ j = k + 1)
  BY <1>a
<1>c. ~(k + 1 <= k)
  OBVIOUS
<1>2. Rank(S, 0) = 0 /\ Rank(S, n) = Cardinality(S)
  BY <1>1, FS_EmptySet DEF Rank
<1>3. CASE k + 1 \in S
  <2>1. {j \in S : j <= k + 1} = {j \in S : j <= k} \cup {k + 1} /\ k + 1 \notin {j \in S : j <= k}
    BY <1>3, <1>b, <1>c, Zenon
  <2>2. Cardinality({j \in S : j <= k} \cup {k + 1}) = Cardinality({j \in S : j <= k}) + 1
    BY <2>1, RankType, FS_AddElement
  <2> QED
    BY <1>2, <1>3, <2>1, <2>2 DEF Rank
<1>4. CASE k + 1 \notin S
  <2>1. {j \in S : j <= k + 1} = {j \in S : j <= k}
    BY <1>4, <1>b, Zenon
  <2> QED
    <3>1. Rank(S, k + 1) = Rank(S, k) /\ Rank(S, k) \in Nat
      BY <2>1, RankType DEF Rank
    <3> QED
      BY <1>2, <1>4, <3>1
<1> QED
  BY <1>3, <1>4

(* Numbers of S that differ differ in rank, in their order.                  *)
LEMMA RankOrders ==
  ASSUME NEW n \in Nat, NEW S \in SUBSET (1..n), NEW k \in S, NEW m \in S, k < m
  PROVE  Rank(S, k) < Rank(S, m)
<1> DEFINE A == {j \in S : j <= k}   B == {j \in S : j <= m}
<1>a. \A j \in S : j \in Nat /\ 1 <= j /\ j <= n
  OBVIOUS
<1>0. k \in Nat /\ m \in Nat
  BY <1>a
<1>1. IsFiniteSet(A) /\ IsFiniteSet(B) /\ Cardinality(A) \in Nat /\ Cardinality(B) \in Nat
  BY <1>0, RankType, FS_CardinalityType
<1>2. A \subseteq B /\ m \in B /\ m \notin A
  <2>1. \A j \in S : j <= k => j <= m
    BY <1>0, <1>a
  <2>2. m <= m /\ ~(m <= k)
    BY <1>0
  <2> QED
    BY <2>1, <2>2, Zenon
<1>3. Cardinality(A) <= Cardinality(B) /\ (Cardinality(A) = Cardinality(B) => A = B)
  BY <1>1, <1>2, FS_Subset
<1> HIDE DEF A, B
<1>4. Cardinality(A) < Cardinality(B)
  BY <1>1, <1>2, <1>3
<1> QED
  BY <1>4 DEF A, B, Rank

(* Every rank is that of one number.                                         *)
LEMMA RankMet ==
  ASSUME NEW n \in Nat, NEW S \in SUBSET (1..n), NEW i \in 1..Cardinality(S)
  PROVE  \E k \in S : Rank(S, k) = i
<1> DEFINE Reached == {k \in 0..n : i <= Rank(S, k)}   k == Least(Reached)
<1>1. Cardinality(S) \in Nat /\ Rank(S, n) = Cardinality(S) /\ Rank(S, 0) = 0
  BY RankType, RankGrows
<1>2. n \in Reached /\ Reached \in SUBSET Nat
  BY <1>1
<1>3. k \in Reached /\ \A m \in Reached : k <= m
  <2> HIDE DEF Reached
  <2> QED
    BY <1>2, LeastIs
<1> HIDE DEF k
<1>4. k \in 0..n /\ i <= Rank(S, k) /\ k # 0
  BY <1>1, <1>3
<1>5. k - 1 \in Nat /\ (k - 1) + 1 = k
  BY <1>4
<1>6. k - 1 \in 0..n /\ ~(k <= k - 1)
  BY <1>4
<1>7. ~(i <= Rank(S, k - 1))
  BY <1>3, <1>6
<1>8. Rank(S, k - 1) \in Nat /\ Rank(S, k) = Rank(S, k - 1) + (IF k \in S THEN 1 ELSE 0)
  <2> DEFINE m == k - 1
  <2>1. m \in Nat /\ m + 1 = k
    BY <1>5
  <2> HIDE DEF m
  <2>2. Rank(S, m) \in Nat
    <3>1. Rank(S, m) \in 0..Cardinality(S)
      BY <2>1, RankType
    <3> QED
      BY <1>1, <3>1
  <2>3. Rank(S, m + 1) = Rank(S, m) + (IF m + 1 \in S THEN 1 ELSE 0)
    BY <2>1, RankGrows
  <2> QED
    BY <2>1, <2>2, <2>3 DEF m
<1> QED
  BY <1>1, <1>4, <1>7, <1>8

(* InOrder lists the numbers of S, each once, in their order.                *)
LEMMA Ordered ==
  ASSUME NEW n \in Nat, NEW S \in SUBSET (1..n)
  PROVE  /\ InOrder(S) \in Seq(S) /\ Len(InOrder(S)) = Cardinality(S)
         /\ \A i, j \in 1..Len(InOrder(S)) : i < j => InOrder(S)[i] < InOrder(S)[j]
         /\ \A k \in S : \E i \in 1..Len(InOrder(S)) : InOrder(S)[i] = k
<1> DEFINE c == Cardinality(S)   s == InOrder(S)
<1>a. \A j \in S : j \in Nat /\ 1 <= j /\ j <= n
  OBVIOUS
<1>1. c \in Nat
  BY RankType
<1>2. s = [i \in 1..c |-> CHOOSE k \in S : Rank(S, k) = i]
  BY DEF InOrder, Rank
<1>3. ASSUME NEW i \in 1..c PROVE s[i] \in S /\ Rank(S, s[i]) = i
  <2>1. \E k \in S : Rank(S, k) = i
    BY RankMet
  <2> HIDE DEF s
  <2> QED
    BY <1>2, <2>1
<1> HIDE DEF s
<1>4. s \in Seq(S) /\ Len(s) = c
  <2>1. s \in [1..c -> S]
    BY <1>2, <1>3
  <2> HIDE DEF c
  <2> QED
    BY <1>1, <2>1
<1>5. ASSUME NEW i \in 1..c, NEW j \in 1..c, i < j PROVE s[i] < s[j]
  <2>1. s[i] \in S /\ s[j] \in S /\ Rank(S, s[i]) = i /\ Rank(S, s[j]) = j
    BY <1>3
  <2>2. s[i] \in Nat /\ s[j] \in Nat
    BY <1>a, <2>1
  <2>3. CASE s[j] < s[i]
    <3>1. Rank(S, s[j]) < Rank(S, s[i])
      BY <2>1, <2>3, RankOrders
    <3> QED
      BY <1>1, <1>5, <2>1, <3>1
  <2>4. CASE s[j] = s[i]
    BY <1>5, <2>1, <2>4
  <2> QED
    BY <2>2, <2>3, <2>4
<1>6. ASSUME NEW k \in S PROVE \E i \in 1..c : s[i] = k
  <2> DEFINE i == Rank(S, k)
  <2>0. k \in Nat /\ k >= 1 /\ k - 1 \in Nat /\ (k - 1) + 1 = k
    BY <1>a
  <2>1. i \in 0..c /\ Rank(S, k - 1) \in Nat /\ i = Rank(S, k - 1) + 1
    <3> DEFINE m == k - 1
    <3>1. m \in Nat /\ m + 1 = k
      BY <2>0
    <3> HIDE DEF m
    <3>2. Rank(S, m) \in 0..c /\ i \in 0..c
      BY <2>0, <3>1, RankType
    <3>3. Rank(S, m + 1) = Rank(S, m) + (IF m + 1 \in S THEN 1 ELSE 0)
      BY <3>1, RankGrows
    <3> QED
      BY <1>1, <3>1, <3>2, <3>3 DEF m
  <2>2. i \in 1..c
    BY <1>1, <2>1
  <2>3. s[i] \in S /\ Rank(S, s[i]) = i
    BY <1>3, <2>2
  <2> HIDE DEF i
  <2>4. s[i] \in Nat
    BY <1>a, <2>3
  <2>5. Rank(S, k) = i
    BY DEF i
  <2>6. i \in Int
    BY <1>1, <2>2
  <2>7. ~(s[i] < k)
    <3>1. s[i] < k => Rank(S, s[i]) < Rank(S, k)
      BY <2>3, RankOrders
    <3> QED
      BY <2>3, <2>5, <2>6, <3>1
  <2>8. ~(k < s[i])
    <3>1. k < s[i] => Rank(S, k) < Rank(S, s[i])
      BY <2>3, RankOrders
    <3> QED
      BY <2>3, <2>5, <2>6, <3>1
  <2> QED
    BY <2>0, <2>2, <2>4, <2>7, <2>8
<1> QED
  BY <1>4, <1>5, <1>6 DEF s

-----------------------------------------------------------------------------
(* Messages and the calls they carry.                                        *)
Roles == {"system", "memory", "nudge", "summary", "user", "assistant", "tool"}
Calls == Runs \X Nat
Msgs  == [role : Roles, calls : SUBSET Calls, row : Nat]

(* Whatever the context is, the request is well formed. *)
LEMMA RequestsWork ==
  ASSUME NEW context \in Seq(Msgs)
  PROVE  WellFormed(BuildMessages(context))
<1> DEFINE turns == [i \in 1..Len(context) - 1 |-> Turn(context[i + 1])]
           merged == Merge(turns, {"user"})
<1>1. \A m \in Msgs : Turn(m) \in Turns(Calls)
  BY DEF Turn, Turns, Msgs, AssistantTurn, UserTurn
<1>2. turns \in Seq(Turns(Calls))
  <2> DEFINE n == IF Len(context) = 0 THEN 0 ELSE Len(context) - 1
  <2>1. n \in Nat /\ 1..Len(context) - 1 = 1..n /\ \A i \in 1..n : i + 1 \in 1..Len(context)
    OBVIOUS
  <2>2. \A i \in 1..n : Turn(context[i + 1]) \in Turns(Calls)
    BY <1>1, <2>1
  <2>3. turns = [i \in 1..n |-> Turn(context[i + 1])]
    BY <2>1
  <2> HIDE DEF n
  <2>4. turns \in [1..n -> Turns(Calls)]
    BY <2>2, <2>3
  <2> HIDE DEF turns
  <2> QED
    BY <2>1, <2>4
<1>3. merged \in Seq(Turns(Calls))
  <2> HIDE DEF turns
  <2>1. PICK done : MergedBy(done, Calls, turns, {"user"})
    BY <1>2, MergedPass
  <2>2. Len(turns) \in 0..Len(turns)
    BY <1>2
  <2> QED
    BY <2>1, <2>2 DEF MergedBy
<1>4. WellFormed(FixOrphanedToolUse(merged))
  <2> HIDE DEF merged
  <2> QED
    BY <1>3, RepairWorks
<1> QED
  BY <1>4 DEF BuildMessages

(* Calls of a run in a context c.                                            *)
Asks(c, i, r)    == \E x \in c[i].calls : x[1] = r
Mine(c, i, r)    == c[i].role = "assistant" /\ Asks(c, i, r)
Behind(c, j, i)  == j < i /\ \A h \in j + 1..i : c[h].role = "tool"
GroupOf(c, i, j, r) == Mine(c, j, r) /\ Complete(c, j) /\ Behind(c, j, i)

PairedAt(c, i, r) ==
  Asks(c, i, r) =>
    Complete(c, i) \/ (c[i].role = "tool" /\ \E j \in 1..i - 1 : GroupOf(c, i, j, r))
Paired(c, r) == \A i \in 1..Len(c) : PairedAt(c, i, r)

SystemFirst(c) == Len(c) >= 1 /\ c[1].role = "system" /\ c[1].calls = {}
Once(c) == \A i, j \in 1..Len(c) : c[i].row # 0 /\ c[i].row = c[j].row => i = j

(* d holds messages of c in their order, behind the first; the second may be *)
(* new.  f says which they are.                                              *)
Selected(c, d, f) ==
  /\ f \in [1..Len(d) -> 0..Len(c)] /\ Len(d) >= 1 /\ f[1] = 1
  /\ \A p \in 1..Len(d) : f[p] # 0 => d[p] = c[f[p]]
  /\ \A p \in 1..Len(d) : f[p] = 0 => p = 2 /\ d[p].calls = {}
  /\ \A p, q \in 1..Len(d) : p < q => f[q] = 0 \/ f[p] < f[q]

(* A tool group of r is kept whole or not at all.                            *)
GroupsWhole(c, d, f, r) ==
  /\ \A p \in 1..Len(d), h \in 1..Len(c) :
       f[p] # 0 /\ Mine(c, f[p], r) /\ f[p] < h /\ (\A q \in 1..Len(d) : f[q] # h) =>
         c[h].role = "tool" /\ ~Behind(c, f[p], h)
  /\ \A q \in 1..Len(d), j \in 1..Len(c) :
       f[q] # 0 /\ Mine(c, j, r) /\ Behind(c, j, f[q]) => \E p \in 1..Len(d) : f[p] = j

(* Answers are the calls of the results behind. *)
LEMMA AnswersAre ==
  ASSUME NEW c \in Seq(Msgs), NEW i \in 1..Len(c)
  PROVE  \A x : x \in AnswersAfter(c, i) <=> \E j \in 1..Len(c) : Behind(c, i, j) /\ x \in c[j].calls
BY DEF AnswersAfter, Behind

(* What each says of a position. *)
LEMMA SelectedFacts ==
  ASSUME NEW c \in Seq(Msgs), NEW d \in Seq(Msgs), NEW f, Selected(c, d, f)
  PROVE  /\ Len(c) \in Nat /\ Len(d) \in Nat
         /\ \A i \in 1..Len(d) : i \in Nat /\ f[i] \in 0..Len(c)
         /\ \A i \in 1..Len(d) : f[i] # 0 => f[i] \in 1..Len(c) /\ d[i] = c[f[i]]
         /\ \A i \in 1..Len(d) : f[i] = 0 => i = 2 /\ d[i].calls = {}
         /\ \A i, j \in 1..Len(d) : i < j => f[j] = 0 \/ f[i] < f[j]
<1>1. Len(c) \in Nat /\ Len(d) \in Nat
  OBVIOUS
<1>2. \A i \in 1..Len(d) : i \in Nat /\ f[i] \in 0..Len(c)
  BY <1>1, SMTT(20) DEF Selected
<1>3. \A i \in 1..Len(d) : f[i] # 0 => f[i] \in 1..Len(c) /\ d[i] = c[f[i]]
  BY <1>1, <1>2 DEF Selected
<1>4. /\ \A i \in 1..Len(d) : f[i] = 0 => i = 2 /\ d[i].calls = {}
      /\ \A i, j \in 1..Len(d) : i < j => f[j] = 0 \/ f[i] < f[j]
  BY DEF Selected
<1> QED
  BY <1>1, <1>2, <1>3, <1>4

(* Behind a call of the run that is kept, messages keep their order.         *)
LEMMA SelectedAfter ==
  ASSUME NEW c \in Seq(Msgs), NEW d \in Seq(Msgs), NEW f, Selected(c, d, f), SystemFirst(c),
         NEW r, NEW p \in 1..Len(d), f[p] # 0, Mine(c, f[p], r)
  PROVE  p >= 2 /\ \A q \in 1..Len(d) : p < q => f[q] # 0 /\ f[p] < f[q]
<1>1. p # 1
  BY DEF Selected, SystemFirst, Mine, Asks
<1>2. p \in Nat /\ Len(d) \in Nat
  OBVIOUS
<1> QED
  BY <1>1, <1>2 DEF Selected

(* The results behind a kept call are those that were behind it,             *)
LEMMA BehindSelected ==
  ASSUME NEW c \in Seq(Msgs), NEW d \in Seq(Msgs), NEW f, Selected(c, d, f), SystemFirst(c),
         NEW r, GroupsWhole(c, d, f, r),
         NEW p \in 1..Len(d), f[p] # 0, Mine(c, f[p], r), NEW q \in 1..Len(d)
  PROVE  Behind(d, p, q) <=> f[q] # 0 /\ Behind(c, f[p], f[q])
<1>n. Len(c) \in Nat /\ Len(d) \in Nat
  OBVIOUS
<1>0. /\ \A i \in 1..Len(d) : i \in Nat /\ f[i] \in 0..Len(c)
      /\ \A i \in 1..Len(d) : f[i] # 0 => f[i] \in 1..Len(c) /\ d[i] = c[f[i]]
      /\ \A i \in 1..Len(d) : f[i] = 0 => i = 2 /\ d[i].calls = {}
      /\ \A i, j \in 1..Len(d) : i < j => f[j] = 0 \/ f[i] < f[j]
  BY SelectedFacts, SMTT(60)
<1>1. p >= 2 /\ \A i \in 1..Len(d) : p < i => f[i] # 0 /\ f[p] < f[i]
  BY SelectedAfter
<1>2. ASSUME Behind(d, p, q) PROVE f[q] # 0 /\ Behind(c, f[p], f[q])
  <2>1. p < q /\ f[q] # 0 /\ f[p] < f[q]
    BY <1>1, <1>2 DEF Behind
  <2>2. ASSUME NEW h \in f[p] + 1..f[q] PROVE c[h].role = "tool"
    <3>1. h \in 1..Len(c) /\ f[p] < h /\ h <= f[q]
      BY <1>0
    <3>2. CASE \A i \in 1..Len(d) : f[i] # h
      BY <3>1, <3>2 DEF GroupsWhole
    <3>3. CASE \E i \in 1..Len(d) : f[i] = h
      <4>1. PICK i \in 1..Len(d) : f[i] = h
        BY <3>3
      <4>2. ~(i < p) /\ i # p
        BY <1>n, <1>0, <3>1, <4>1
      <4>3. ~(q < i)
        BY <1>n, <1>0, <3>1, <4>1
      <4>4. i \in p + 1..q
        BY <1>n, <1>0, <4>2, <4>3
      <4> QED
        BY <1>n, <1>0, <1>2, <3>1, <4>1, <4>4, SMTT(20) DEF Behind
    <3> QED
      BY <3>2, <3>3
  <2> QED
    BY <2>1, <2>2 DEF Behind
<1>3. ASSUME f[q] # 0, Behind(c, f[p], f[q]) PROVE Behind(d, p, q)
  <2>1. f[p] < f[q]
    BY <1>3 DEF Behind
  <2>2. p < q
    BY <1>n, <1>0, <2>1
  <2>3. ASSUME NEW h \in p + 1..q PROVE d[h].role = "tool"
    <3>1. h \in 1..Len(d) /\ p < h /\ h <= q
      BY <1>0
    <3>2. f[h] # 0 /\ f[p] < f[h]
      BY <1>1, <3>1
    <3>3. f[h] <= f[q]
      BY <1>n, <1>0, <1>3, <3>1
    <3>4. f[h] \in f[p] + 1..f[q]
      BY <1>n, <1>0, <3>1, <3>2, <3>3
    <3> QED
      BY <1>n, <1>0, <1>3, <3>1, <3>2, <3>4 DEF Behind
  <2> QED
    BY <2>2, <2>3 DEF Behind
<1> QED
  BY <1>2, <1>3

(* so it has the same answers.                                               *)
LEMMA AnswersSelected ==
  ASSUME NEW c \in Seq(Msgs), NEW d \in Seq(Msgs), NEW f, Selected(c, d, f), SystemFirst(c),
         NEW r, GroupsWhole(c, d, f, r),
         NEW p \in 1..Len(d), f[p] # 0, Mine(c, f[p], r)
  PROVE  AnswersAfter(d, p) = AnswersAfter(c, f[p])
<1>0. /\ f[p] \in 1..Len(c)
      /\ \A i \in 1..Len(d) : f[i] \in 0..Len(c) /\ (f[i] # 0 => f[i] \in 1..Len(c) /\ d[i] = c[f[i]])
  BY SelectedFacts
<1>1. ASSUME NEW x, x \in AnswersAfter(d, p) PROVE x \in AnswersAfter(c, f[p])
  <2>1. PICK q \in 1..Len(d) : Behind(d, p, q) /\ x \in d[q].calls
    BY <1>1, AnswersAre
  <2>2. f[q] # 0 /\ Behind(c, f[p], f[q])
    BY <2>1, BehindSelected
  <2> QED
    BY <1>0, <2>1, <2>2, AnswersAre
<1>2. ASSUME NEW x, x \in AnswersAfter(c, f[p]) PROVE x \in AnswersAfter(d, p)
  <2>1. PICK h \in 1..Len(c) : Behind(c, f[p], h) /\ x \in c[h].calls
    BY <1>0, <1>2, AnswersAre
  <2>2. f[p] < h
    BY <2>1 DEF Behind
  <2>3. PICK q \in 1..Len(d) : f[q] = h
    BY <2>1, <2>2 DEF GroupsWhole
  <2>4. f[q] # 0
    BY <2>3
  <2>5. Behind(d, p, q)
    BY <2>1, <2>3, <2>4, BehindSelected
  <2> QED
    BY <1>0, <2>1, <2>3, <2>4, <2>5, AnswersAre
<1> QED
  BY <1>1, <1>2

(* What is selected is paired, if the groups are whole.                      *)
LEMMA PairedSelected ==
  ASSUME NEW c \in Seq(Msgs), NEW d \in Seq(Msgs), NEW f, Selected(c, d, f), SystemFirst(c),
         NEW r, GroupsWhole(c, d, f, r), Paired(c, r)
  PROVE  Paired(d, r)
<1>n. Len(c) \in Nat /\ Len(d) \in Nat
  OBVIOUS
<1>0. /\ \A i \in 1..Len(d) : i \in Nat /\ f[i] \in 0..Len(c)
      /\ \A i \in 1..Len(d) : f[i] # 0 => f[i] \in 1..Len(c) /\ d[i] = c[f[i]]
      /\ \A i \in 1..Len(d) : f[i] = 0 => i = 2 /\ d[i].calls = {}
      /\ \A i, j \in 1..Len(d) : i < j => f[j] = 0 \/ f[i] < f[j]
  BY SelectedFacts
<1>1. ASSUME NEW p \in 1..Len(d), f[p] # 0, Mine(c, f[p], r), Complete(c, f[p]) PROVE Mine(d, p, r) /\ Complete(d, p)
  BY <1>n, <1>0, <1>1, AnswersSelected DEF Complete, Mine, Asks
<1>2. ASSUME NEW q \in 1..Len(d), Asks(d, q, r)
      PROVE  Complete(d, q) \/ (d[q].role = "tool" /\ \E p \in 1..q - 1 : GroupOf(d, q, p, r))
  <2>1. f[q] # 0 /\ f[q] \in 1..Len(c) /\ d[q] = c[f[q]] /\ Asks(c, f[q], r)
    BY <1>n, <1>0, <1>2 DEF Asks
  <2>2. CASE Complete(c, f[q])
    BY <1>1, <2>1, <2>2 DEF Complete, Mine
  <2>3. CASE c[f[q]].role = "tool" /\ \E j \in 1..f[q] - 1 : GroupOf(c, f[q], j, r)
    <3>1. PICK j \in 1..f[q] - 1 : GroupOf(c, f[q], j, r)
      BY <2>3
    <3>2. j \in 1..Len(c) /\ Mine(c, j, r) /\ Complete(c, j) /\ Behind(c, j, f[q])
      BY <1>n, <1>0, <2>1, <3>1 DEF GroupOf
    <3>3. PICK p \in 1..Len(d) : f[p] = j
      BY <2>1, <3>2 DEF GroupsWhole
    <3>4. Mine(d, p, r) /\ Complete(d, p) /\ Behind(d, p, q)
      BY <1>1, <2>1, <3>2, <3>3, BehindSelected
    <3>5. p \in 1..q - 1
      BY <1>n, <1>0, <3>4 DEF Behind
    <3> QED
      BY <2>1, <2>3, <3>4, <3>5 DEF GroupOf
  <2> QED
    BY <2>1, <2>2, <2>3 DEF Paired, PairedAt
<1> QED
  BY <1>2 DEF Paired, PairedAt

(* No row appears twice.                                                     *)
LEMMA OnceSelected ==
  ASSUME NEW c \in Seq(Msgs), NEW d \in Seq(Msgs), NEW f, Selected(c, d, f), Once(c),
         \A p \in 1..Len(d) : f[p] = 0 /\ d[p].row # 0 => \A i \in 1..Len(c) : c[i].row # d[p].row
  PROVE  Once(d)
<1>n. Len(c) \in Nat /\ Len(d) \in Nat
  OBVIOUS
<1>0. /\ \A i \in 1..Len(d) : i \in Nat /\ f[i] \in 0..Len(c)
      /\ \A i \in 1..Len(d) : f[i] # 0 => f[i] \in 1..Len(c) /\ d[i] = c[f[i]]
      /\ \A i \in 1..Len(d) : f[i] = 0 => i = 2 /\ d[i].calls = {}
      /\ \A i, j \in 1..Len(d) : i < j => f[j] = 0 \/ f[i] < f[j]
  BY SelectedFacts
<1>1. ASSUME NEW i \in 1..Len(d), NEW j \in 1..Len(d), d[i].row # 0, d[i].row = d[j].row, i < j PROVE FALSE
  <2>1. CASE f[i] = 0 /\ f[j] # 0
    BY <1>n, <1>0, <1>1, <2>1
  <2>2. CASE f[j] = 0 /\ f[i] # 0
    BY <1>n, <1>0, <1>1, <2>2
  <2>3. CASE f[i] = 0 /\ f[j] = 0
    BY <1>n, <1>0, <1>1, <2>3
  <2>4. CASE f[i] # 0 /\ f[j] # 0
    <3>1. f[i] \in 1..Len(c) /\ f[j] \in 1..Len(c) /\ f[i] < f[j]
      BY <1>n, <1>0, <1>1, <2>4
    <3>2. c[f[i]].row # 0 /\ c[f[i]].row = c[f[j]].row
      BY <1>n, <1>0, <1>1, <2>4
    <3>3. f[i] = f[j]
      BY <3>1, <3>2 DEF Once
    <3> QED
      BY <1>n, <3>1, <3>3
  <2> QED
    BY <2>1, <2>2, <2>3, <2>4
<1>2. ASSUME NEW i \in 1..Len(d), NEW j \in 1..Len(d), d[i].row # 0, d[i].row = d[j].row PROVE i = j
  <2>1. ~(i < j) /\ ~(j < i)
    BY <1>1, <1>2
  <2> QED
    BY <1>n, <1>0, <2>1
<1> QED
  BY <1>2 DEF Once

(* Two sequences, one after the other.                                       *)
LEMMA Joins ==
  ASSUME NEW S, NEW s \in Seq(S), NEW t \in Seq(S)
  PROVE  /\ s \o t \in Seq(S) /\ Len(s \o t) = Len(s) + Len(t)
         /\ \A i \in 1..Len(s) : (s \o t)[i] = s[i]
         /\ \A i \in 1..Len(t) : (s \o t)[Len(s) + i] = t[i]
<1>1. s \o t \in Seq(S) /\ Len(s \o t) = Len(s) + Len(t) /\ Len(s) \in Nat /\ Len(t) \in Nat
  OBVIOUS
<1>2. ASSUME NEW i \in 1..Len(s) PROVE (s \o t)[i] = s[i]
  BY <1>1
<1>3. ASSUME NEW i \in 1..Len(t) PROVE (s \o t)[Len(s) + i] = t[i]
  <2>1. Len(s) + i \in 1..Len(s) + Len(t) /\ ~(Len(s) + i <= Len(s)) /\ (Len(s) + i) - Len(s) = i
    BY <1>1
  <2> QED
    BY <1>1, <2>1
<1> QED
  BY <1>1, <1>2, <1>3

(* No group of r is cut by giving up what is before end.                     *)
Uncut(c, end, r) == \A j \in 1..end - 1 : ~(Mine(c, j, r) /\ Behind(c, j, end))

(* The tail of a context, behind the first message and an introduction.      *)
CutAt(c, intro, end) == <<c[1], intro>> \o SubSeq(c, end, Len(c))
CutMap(c, end) == [p \in 1..Len(c) - end + 3 |-> IF p = 1 THEN 1 ELSE IF p = 2 THEN 0 ELSE end + p - 3]

(* The context after a cut: prompt, introduction and tail.                   *)
LEMMA CutIs ==
  ASSUME NEW c \in Seq(Msgs), SystemFirst(c), NEW intro \in Msgs, NEW end \in 2..Len(c)
  PROVE  /\ CutAt(c, intro, end) \in Seq(Msgs) /\ Len(CutAt(c, intro, end)) = Len(c) - end + 3
         /\ CutAt(c, intro, end)[1] = c[1] /\ CutAt(c, intro, end)[2] = intro
         /\ \A p \in 3..Len(c) - end + 3 : CutAt(c, intro, end)[p] = c[end + p - 3]
<1> DEFINE tail == SubSeq(c, end, Len(c))   head == <<c[1], intro>>
<1>1. Len(c) \in Nat /\ end \in Nat /\ 1 \in 1..Len(c) /\ c[1] \in Msgs
  OBVIOUS
<1>2. /\ tail \in Seq(Msgs) /\ Len(tail) = Len(c) - end + 1
      /\ \A i \in 1..Len(c) - end + 1 : tail[i] = c[end + i - 1]
  BY <1>1
<1>3. head \in Seq(Msgs) /\ Len(head) = 2 /\ head[1] = c[1] /\ head[2] = intro
  BY <1>1
<1> HIDE DEF tail, head
<1>4. /\ head \o tail \in Seq(Msgs) /\ Len(head \o tail) = 2 + Len(tail)
      /\ \A i \in 1..2 : (head \o tail)[i] = head[i]
      /\ \A i \in 1..Len(tail) : (head \o tail)[2 + i] = tail[i]
  <2>1. /\ head \o tail \in Seq(Msgs) /\ Len(head \o tail) = Len(head) + Len(tail)
        /\ \A i \in 1..Len(head) : (head \o tail)[i] = head[i]
        /\ \A i \in 1..Len(tail) : (head \o tail)[Len(head) + i] = tail[i]
    <3>1. head \in Seq(Msgs) /\ tail \in Seq(Msgs)
      BY <1>2, <1>3
    <3>2. \A i \in 1..Len(tail) : (head \o tail)[Len(head) + i] = tail[i]
      BY <3>1, Joins
    <3>3. /\ head \o tail \in Seq(Msgs) /\ Len(head \o tail) = Len(head) + Len(tail)
          /\ \A i \in 1..Len(head) : (head \o tail)[i] = head[i]
      BY <3>1, Joins, Zenon
    <3> QED
      BY <3>2, <3>3
  <2> QED
    BY <1>3, <2>1
<1>5. (head \o tail)[1] = c[1] /\ (head \o tail)[2] = intro
  BY <1>1, <1>2, <1>3, <1>4
<1>6. ASSUME NEW p \in 3..Len(c) - end + 3 PROVE (head \o tail)[p] = c[end + p - 3]
  <2>1. 2 + (p - 2) = p /\ p - 2 \in 1..Len(tail) /\ p - 2 \in 1..Len(c) - end + 1 /\ end + (p - 2) - 1 = end + p - 3
    BY <1>1, <1>2
  <2>2. (head \o tail)[p] = tail[p - 2]
    BY <1>4, <2>1
  <2>3. tail[p - 2] = c[end + (p - 2) - 1]
    BY <1>2, <2>1
  <2> QED
    BY <2>1, <2>2, <2>3
<1> QED
  BY <1>1, <1>2, <1>4, <1>5, <1>6 DEF head, tail, CutAt

(* A cut selects messages,                                                   *)
LEMMA CutSelects ==
  ASSUME NEW c \in Seq(Msgs), SystemFirst(c), NEW intro \in Msgs, intro.calls = {}, NEW end \in 2..Len(c)
  PROVE  Selected(c, CutAt(c, intro, end), CutMap(c, end))
<1> DEFINE d == CutAt(c, intro, end)   f == CutMap(c, end)
<1>1. Len(c) \in Nat /\ end \in Nat /\ end >= 2 /\ end <= Len(c)
  OBVIOUS
<1>d. d = CutAt(c, intro, end)
  OBVIOUS
<1>2. /\ d \in Seq(Msgs) /\ Len(d) = Len(c) - end + 3 /\ d[1] = c[1] /\ d[2] = intro
      /\ \A p \in 3..Len(c) - end + 3 : d[p] = c[end + p - 3]
  <2> HIDE DEF d
  <2>1. /\ CutAt(c, intro, end) \in Seq(Msgs) /\ Len(CutAt(c, intro, end)) = Len(c) - end + 3
        /\ CutAt(c, intro, end)[1] = c[1] /\ CutAt(c, intro, end)[2] = intro
        /\ \A p \in 3..Len(c) - end + 3 : CutAt(c, intro, end)[p] = c[end + p - 3]
    BY CutIs, Zenon
  <2> QED
    BY <1>d, <2>1, Zenon
<1>3. /\ f \in [1..Len(d) -> 0..Len(c)] /\ f[1] = 1 /\ f[2] = 0
      /\ \A p \in 3..Len(c) - end + 3 : f[p] = end + p - 3
  BY <1>1, <1>2 DEF CutMap
<1> HIDE DEF d, f
<1>4. \A p \in 1..Len(d) : p = 1 \/ p = 2 \/ p \in 3..Len(c) - end + 3
  BY <1>1, <1>2
<1>5. \A p \in 1..Len(d) : f[p] # 0 => d[p] = c[f[p]]
  BY <1>2, <1>3, <1>4
<1>6. \A p \in 1..Len(d) : f[p] = 0 => p = 2 /\ d[p].calls = {}
  BY <1>1, <1>2, <1>3, <1>4
<1>7. \A p, q \in 1..Len(d) : p < q => f[q] = 0 \/ f[p] < f[q]
  BY <1>1, <1>3, <1>4
<1> QED
  BY <1>1, <1>2, <1>3, <1>5, <1>6, <1>7 DEF Selected, d, f

(* and keeps groups whole if it goes through none.                           *)
LEMMA CutWhole ==
  ASSUME NEW c \in Seq(Msgs), SystemFirst(c), NEW intro \in Msgs, NEW end \in 2..Len(c), NEW r, Uncut(c, end, r)
  PROVE  GroupsWhole(c, CutAt(c, intro, end), CutMap(c, end), r)
<1> DEFINE d == CutAt(c, intro, end)   f == CutMap(c, end)
<1>1. Len(c) \in Nat /\ end \in Nat /\ end >= 2 /\ end <= Len(c)
  OBVIOUS
<1>2. Len(d) = Len(c) - end + 3
  BY CutIs
<1>3. /\ f[1] = 1 /\ f[2] = 0
      /\ \A p \in 3..Len(c) - end + 3 : f[p] = end + p - 3
  BY <1>1 DEF CutMap
<1> HIDE DEF d, f
<1>4. \A p \in 1..Len(d) : p = 1 \/ p = 2 \/ p \in 3..Len(c) - end + 3
  BY <1>1, <1>2
<1>5. ~Mine(c, 1, r)
  BY DEF Mine, Asks, SystemFirst
<1>6. \A h \in end..Len(c) : h - end + 3 \in 1..Len(d) /\ f[h - end + 3] = h
  <2> TAKE h \in end..Len(c)
  <2>1. h - end + 3 \in 3..Len(c) - end + 3 /\ end + (h - end + 3) - 3 = h /\ h - end + 3 \in 1..Len(d)
    BY <1>1, <1>2
  <2> QED
    BY <1>3, <2>1
<1>7. ASSUME NEW p \in 1..Len(d), NEW h \in 1..Len(c), f[p] # 0, Mine(c, f[p], r), f[p] < h, \A q \in 1..Len(d) : f[q] # h
      PROVE  FALSE
  <2>1. p \in 3..Len(c) - end + 3
    BY <1>3, <1>4, <1>5, <1>7
  <2>2. h \in end..Len(c)
    BY <1>1, <1>3, <1>7, <2>1
  <2> QED
    BY <1>6, <1>7, <2>2
<1>8. ASSUME NEW q \in 1..Len(d), NEW j \in 1..Len(c), f[q] # 0, Mine(c, j, r), Behind(c, j, f[q])
      PROVE  \E p \in 1..Len(d) : f[p] = j
  <2>1. j < f[q] /\ \A h \in j + 1..f[q] : c[h].role = "tool"
    BY <1>8 DEF Behind
  <2>2. q \in 3..Len(c) - end + 3
    BY <1>3, <1>4, <1>8, <2>1
  <2>3. CASE j < end
    <3>1. f[q] \in Nat /\ end <= f[q] /\ j \in 1..end - 1
      BY <1>1, <1>3, <2>2, <2>3
    <3>2. \A h \in j + 1..end : h \in j + 1..f[q]
      BY <1>1, <3>1
    <3>3. Behind(c, j, end)
      BY <2>1, <2>3, <3>2 DEF Behind
    <3> QED
      BY <1>8, <3>1, <3>3 DEF Uncut
  <2>4. CASE ~(j < end)
    <3>1. j \in end..Len(c)
      BY <1>1, <2>4
    <3> QED
      BY <1>6, <3>1
  <2> QED
    BY <2>3, <2>4
<1> QED
  BY <1>7, <1>8 DEF GroupsWhole, d, f

(* Both boundaries leave groups whole.                                       *)
LEMMA BoundaryUncut ==
  ASSUME NEW c \in Seq(Msgs), SystemFirst(c), CanCompact(c), NEW r
  PROVE  Boundary(c) \in 2..Len(c) /\ Uncut(c, Boundary(c), r)
<1> DEFINE users == {i \in DOMAIN c : c[i].role \in UserRoles}   last == Greatest(users)
           cuts == {b \in 2..last : \A i \in b..last - 1 : KeptWithNext(c, i)}   b == Least(cuts)
<1>1. Len(c) \in Nat /\ DOMAIN c = 1..Len(c) /\ b = Boundary(c)
  BY DEF Boundary
<1>2. users \in SUBSET (0..Len(c)) /\ users # {} /\ \E i \in users : i >= 2
  BY <1>1 DEF CanCompact
<1>3. last \in users /\ \A j \in users : j <= last
  <2> HIDE DEF users
  <2> QED
    BY <1>1, <1>2, GreatestIs
<1>4. last \in 2..Len(c)
  <2>1. last \in 1..Len(c)
    BY <1>1, <1>3
  <2>2. PICK i \in users : i >= 2
    BY <1>2
  <2>3. i <= last /\ i \in 1..Len(c)
    BY <1>1, <1>3, <2>2
  <2> HIDE DEF last
  <2> QED
    BY <2>1, <2>2, <2>3
<1>5. c[last].role \in UserRoles
  BY <1>3
<1> HIDE DEF last
<1>6. last \in cuts /\ cuts \in SUBSET Nat
  <2>1. \A i \in last..last - 1 : FALSE
    BY <1>1, <1>4
  <2> QED
    BY <1>4, <2>1
<1>7. b \in cuts /\ \A j \in cuts : b <= j
  <2> HIDE DEF cuts
  <2> QED
    BY <1>6, LeastIs
<1> HIDE DEF b
<1>8. b \in 2..last /\ \A i \in b..last - 1 : KeptWithNext(c, i)
  BY <1>7
<1>9. ASSUME NEW j \in 1..b - 1, Mine(c, j, r), Behind(c, j, b) PROVE FALSE
  <2>1. j # 1
    BY <1>9 DEF Mine, Asks, SystemFirst
  <2>2. j \in Nat /\ j >= 2 /\ j <= b - 1 /\ b \in Nat
    BY <1>4, <1>8, <1>9, <2>1
  <2>3. KeptWithNext(c, b - 1)
    <3>1. CASE j = b - 1
      BY <1>9, <3>1 DEF KeptWithNext, Mine, Asks
    <3>2. CASE j # b - 1
      <4>1. b - 1 \in j + 1..b
        BY <2>2, <3>2
      <4> QED
        BY <1>9, <4>1 DEF Behind, KeptWithNext
    <3> QED
      BY <3>1, <3>2
  <2>4. b - 1 \in 2..last
    BY <1>4, <1>8, <2>2
  <2>5. \A i \in (b - 1)..last - 1 : i = b - 1 \/ i \in b..last - 1
    BY <1>4, <2>2
  <2>6. b - 1 \in cuts
    BY <1>8, <2>3, <2>4, <2>5
  <2>7. b <= b - 1
    BY <1>7, <2>6
  <2> QED
    BY <2>2, <2>7
<1>10. b \in 2..Len(c)
  BY <1>1, <1>4, <1>8
<1> QED
  BY <1>1, <1>9, <1>10 DEF Uncut

(* The window never ends inside a group (trim_to_window).                    *)
LEMMA TrimUncut ==
  ASSUME NEW c \in Seq(Msgs), NEW end \in TrimEnds(c), NEW r
  PROVE  end \in 2..Len(c) /\ Uncut(c, end, r)
<1>1. Len(c) \in Nat /\ BodyStart(c) \in {2, 3}
  BY DEF BodyStart
<1>2. end \in BodyStart(c)..Len(c) /\ end # BodyStart(c) /\ c[end].role = "user"
  BY DEF TrimEnds, TurnStarts
<1>3. end \in 2..Len(c)
  BY <1>1, <1>2
<1>4. \A j \in 1..end - 1 : end \in j + 1..end
  BY <1>3
<1> QED
  BY <1>2, <1>3, <1>4 DEF Uncut, Behind

(* A sequence over a set is one over a larger set.                           *)
LEMMA SeqIn ==
  ASSUME NEW S, NEW T, S \subseteq T, NEW s \in Seq(S)
  PROVE  s \in Seq(T)
<1>1. Len(s) \in Nat /\ s \in [1..Len(s) -> S]
  OBVIOUS
<1>2. s \in [1..Len(s) -> T]
  BY <1>1
<1> QED
  BY <1>1, <1>2

(* The memory message is put back. *)
MemoryMap(c) == [p \in 1..Len(c) + 1 |-> IF p = 1 THEN 1 ELSE IF p = 2 THEN 0 ELSE p - 1]

(* The context with a memory message put in behind the prompt,               *)
LEMMA MemoryIs ==
  ASSUME NEW c \in Seq(Msgs), SystemFirst(c), BodyStart(c) # 3
  PROVE  /\ WithMemory(c) \in Seq(Msgs) /\ Len(WithMemory(c)) = Len(c) + 1
         /\ WithMemory(c)[1] = c[1] /\ WithMemory(c)[2] = Note("memory")
         /\ \A p \in 3..Len(c) + 1 : WithMemory(c)[p] = c[p - 1]
<1> DEFINE head == <<c[1], Note("memory")>>   tail == Tail(c)
<1>0. Len(c) \in Nat /\ Len(c) >= 1 /\ c # <<>> /\ c[1] \in Msgs /\ Note("memory") \in Msgs
  <2>1. Len(c) \in Nat /\ Len(c) >= 1
    BY DEF SystemFirst
  <2>2. c # <<>> /\ c[1] \in Msgs
    BY <2>1
  <2>3. Note("memory") \in Msgs
    BY DEF Note, Msgs, Roles
  <2> QED
    BY <2>1, <2>2, <2>3
<1>1. /\ tail \in Seq(Msgs) /\ Len(tail) = Len(c) - 1
      /\ \A i \in 1..Len(c) - 1 : tail[i] = c[i + 1]
  BY <1>0
<1>2. head \in Seq(Msgs) /\ Len(head) = 2 /\ head[1] = c[1] /\ head[2] = Note("memory")
  BY <1>0
<1>3. WithMemory(c) = head \o tail
  BY DEF WithMemory, Note
<1> HIDE DEF head, tail
<1>s. head \in Seq(Msgs) /\ tail \in Seq(Msgs)
  BY <1>1, <1>2
<1>4. /\ head \o tail \in Seq(Msgs) /\ Len(head \o tail) = Len(head) + Len(tail)
      /\ \A i \in 1..Len(head) : (head \o tail)[i] = head[i]
  BY <1>s, Joins, ZenonT(40)
<1>5. \A i \in 1..Len(tail) : (head \o tail)[Len(head) + i] = tail[i]
  BY <1>s, Joins
<1>6. ASSUME NEW p \in 3..Len(c) + 1 PROVE (head \o tail)[p] = c[p - 1]
  <2>1. p - 2 \in 1..Len(tail) /\ Len(head) + (p - 2) = p /\ p - 2 \in 1..Len(c) - 1 /\ (p - 2) + 1 = p - 1
    BY <1>0, <1>1, <1>2
  <2>2. (head \o tail)[p] = tail[p - 2]
    BY <1>5, <2>1
  <2>3. tail[p - 2] = c[(p - 2) + 1]
    BY <1>1, <2>1
  <2> QED
    BY <2>1, <2>2, <2>3
<1>7. (head \o tail)[1] = c[1] /\ (head \o tail)[2] = Note("memory")
  BY <1>2, <1>4
<1>8. Len(head \o tail) = Len(c) + 1
  BY <1>0, <1>1, <1>2, <1>4
<1> QED
  BY <1>3, <1>4, <1>6, <1>7, <1>8

(* that selects all messages,                                                *)
LEMMA MemorySelects ==
  ASSUME NEW c \in Seq(Msgs), SystemFirst(c), BodyStart(c) # 3
  PROVE  Selected(c, WithMemory(c), MemoryMap(c))
<1> DEFINE d == WithMemory(c)   f == MemoryMap(c)
<1>1. Len(c) \in Nat /\ Len(c) >= 1
  BY DEF SystemFirst
<1>2. /\ d \in Seq(Msgs) /\ Len(d) = Len(c) + 1 /\ d[1] = c[1] /\ d[2] = Note("memory")
      /\ \A p \in 3..Len(c) + 1 : d[p] = c[p - 1]
  BY MemoryIs
<1>3. /\ f \in [1..Len(d) -> 0..Len(c)] /\ f[1] = 1 /\ f[2] = 0
      /\ \A p \in 3..Len(c) + 1 : f[p] = p - 1
  BY <1>1, <1>2 DEF MemoryMap
<1>n. d[2].calls = {}
  BY <1>2 DEF Note
<1> HIDE DEF d, f
<1>4. \A p \in 1..Len(d) : p = 1 \/ p = 2 \/ p \in 3..Len(c) + 1
  BY <1>1, <1>2
<1>5. \A p \in 1..Len(d) : f[p] # 0 => d[p] = c[f[p]]
  BY <1>2, <1>3, <1>4
<1>6. \A p \in 1..Len(d) : f[p] = 0 => p = 2 /\ d[p].calls = {}
  BY <1>1, <1>n, <1>3, <1>4
<1>7. \A p, q \in 1..Len(d) : p < q => f[q] = 0 \/ f[p] < f[q]
  BY <1>1, <1>3, <1>4
<1> QED
  BY <1>1, <1>2, <1>3, <1>5, <1>6, <1>7 DEF Selected, d, f

(* and takes none from its group.                                            *)
LEMMA MemoryWhole ==
  ASSUME NEW c \in Seq(Msgs), SystemFirst(c), BodyStart(c) # 3, NEW r
  PROVE  GroupsWhole(c, WithMemory(c), MemoryMap(c), r)
<1> DEFINE d == WithMemory(c)   f == MemoryMap(c)
<1>1. Len(c) \in Nat /\ Len(c) >= 1
  BY DEF SystemFirst
<1>2. Len(d) = Len(c) + 1
  BY MemoryIs
<1>3. ASSUME NEW h \in 1..Len(c) PROVE \E p \in 1..Len(d) : f[p] = h
  <2>1. CASE h = 1
    BY <1>1, <1>2, <2>1 DEF MemoryMap
  <2>2. CASE h # 1
    <3>1. h + 1 \in 1..Len(c) + 1 /\ h + 1 # 1 /\ h + 1 # 2 /\ (h + 1) - 1 = h
      BY <1>1, <2>2
    <3>2. f[h + 1] = h
      BY <3>1 DEF MemoryMap
    <3> QED
      BY <1>2, <3>1, <3>2
  <2> QED
    BY <2>1, <2>2
<1> HIDE DEF d, f
<1> QED
  BY <1>3 DEF GroupsWhole, d, f

(* Results outside of a group go. *)
KeptBy(c) == InOrder({i \in 1..Len(c) : c[i].role = "tool" => InGroup(c, i)})
Filtered(c) == [n \in DOMAIN KeptBy(c) |-> c[KeptBy(c)[n]]]

(* The context without the results that are in no group,                     *)
LEMMA FilterIs ==
  ASSUME NEW c \in Seq(Msgs), SystemFirst(c)
  PROVE  /\ Filtered(c) \in Seq(Msgs) /\ Len(Filtered(c)) = Len(KeptBy(c))
         /\ KeptBy(c) \in [1..Len(KeptBy(c)) -> 1..Len(c)] /\ Len(KeptBy(c)) \in Nat
         /\ \A i, j \in 1..Len(KeptBy(c)) : i < j => KeptBy(c)[i] < KeptBy(c)[j]
         /\ \A i \in 1..Len(KeptBy(c)) : Filtered(c)[i] = c[KeptBy(c)[i]]
         /\ \A k \in 1..Len(c) : (c[k].role = "tool" => InGroup(c, k)) =>
              \E i \in 1..Len(KeptBy(c)) : KeptBy(c)[i] = k
<1> DEFINE S == {i \in 1..Len(c) : c[i].role = "tool" => InGroup(c, i)}   s == KeptBy(c)
<1>1. Len(c) \in Nat /\ S \in SUBSET (1..Len(c))
  OBVIOUS
<1>2. s = InOrder(S)
  BY DEF KeptBy
<1> HIDE DEF S
<1>3. /\ InOrder(S) \in Seq(S)
      /\ \A i, j \in 1..Len(InOrder(S)) : i < j => InOrder(S)[i] < InOrder(S)[j]
      /\ \A k \in S : \E i \in 1..Len(InOrder(S)) : InOrder(S)[i] = k
  BY <1>1, Ordered
<1> HIDE DEF s
<1>4. s \in [1..Len(s) -> 1..Len(c)] /\ Len(s) \in Nat /\ DOMAIN s = 1..Len(s)
  <2>1. s \in Seq(1..Len(c))
    <3>1. s \in Seq(S) /\ S \subseteq 1..Len(c)
      BY <1>1, <1>2, <1>3
    <3> QED
      BY <3>1, SeqIn
  <2> QED
    BY <2>1
<1>5. Filtered(c) = [n \in 1..Len(s) |-> c[s[n]]]
  BY <1>4 DEF Filtered, s
<1>6. \A n \in 1..Len(s) : c[s[n]] \in Msgs
  BY <1>4
<1>7. Filtered(c) \in Seq(Msgs) /\ Len(Filtered(c)) = Len(s) /\ \A i \in 1..Len(s) : Filtered(c)[i] = c[s[i]]
  BY <1>4, <1>5, <1>6
<1>8. \A k \in 1..Len(c) : (c[k].role = "tool" => InGroup(c, k)) => \E i \in 1..Len(s) : s[i] = k
  BY <1>2, <1>3 DEF S
<1> QED
  BY <1>2, <1>3, <1>4, <1>7, <1>8 DEF s

(* that selects the others,                                                  *)
LEMMA FilterSelects ==
  ASSUME NEW c \in Seq(Msgs), SystemFirst(c)
  PROVE  Selected(c, Filtered(c), KeptBy(c))
<1> DEFINE d == Filtered(c)   f == KeptBy(c)
<1>1. /\ d \in Seq(Msgs) /\ Len(d) = Len(f) /\ f \in [1..Len(d) -> 1..Len(c)] /\ Len(d) \in Nat
      /\ \A i, j \in 1..Len(d) : i < j => f[i] < f[j]
      /\ \A i \in 1..Len(d) : d[i] = c[f[i]]
      /\ \A k \in 1..Len(c) : (c[k].role = "tool" => InGroup(c, k)) => \E i \in 1..Len(d) : f[i] = k
  BY FilterIs
<1>2. Len(c) \in Nat /\ 1 \in 1..Len(c) /\ c[1].role # "tool"
  BY DEF SystemFirst
<1> HIDE DEF d, f
<1>3. PICK i \in 1..Len(d) : f[i] = 1
  BY <1>1, <1>2
<1>4. 1 \in 1..Len(d) /\ f[1] \in 1..Len(c) /\ i \in Nat /\ i >= 1
  BY <1>1, <1>3
<1>5. f[1] = 1
  <2>1. CASE i = 1
    BY <1>3, <2>1
  <2>2. CASE i # 1
    <3>1. f[1] < f[i]
      BY <1>1, <1>4, <2>2
    <3> QED
      BY <1>2, <1>3, <1>4, <3>1
  <2> QED
    BY <2>1, <2>2
<1>6. f \in [1..Len(d) -> 0..Len(c)] /\ \A p \in 1..Len(d) : f[p] # 0
  BY <1>1, <1>2, SMTT(20)
<1> QED
  BY <1>1, <1>4, <1>5, <1>6 DEF Selected, d, f

(* and keeps groups whole: a result behind a call of the run is in one.      *)
LEMMA FilterWhole ==
  ASSUME NEW c \in Seq(Msgs), SystemFirst(c), BodyStart(c) = 3, NEW r
  PROVE  GroupsWhole(c, Filtered(c), KeptBy(c), r)
<1> DEFINE d == Filtered(c)   f == KeptBy(c)
<1>1. /\ d \in Seq(Msgs) /\ Len(d) = Len(f) /\ f \in [1..Len(d) -> 1..Len(c)] /\ Len(d) \in Nat
      /\ \A k \in 1..Len(c) : (c[k].role = "tool" => InGroup(c, k)) => \E i \in 1..Len(d) : f[i] = k
  BY FilterIs
<1>2. Len(c) \in Nat /\ c[2].role = "memory"
  BY DEF BodyStart
<1> HIDE DEF d, f
<1>3. \A j \in 1..Len(c) : Mine(c, j, r) => j >= 3 /\ c[j].calls # {} /\ c[j].role = "assistant"
  BY <1>2 DEF Mine, Asks, SystemFirst
<1>4. ASSUME NEW j \in 1..Len(c), NEW h \in 1..Len(c), Mine(c, j, r), Behind(c, j, h) PROVE InGroup(c, h)
  <2>1. j \in 3..h - 1
    BY <1>2, <1>3, <1>4 DEF Behind
  <2>2. \A i \in j + 1..h - 1 : i \in j + 1..h
    BY <1>2, <2>1
  <2>3. \A i \in j + 1..h - 1 : c[i].role = "tool"
    BY <1>4, <2>2 DEF Behind
  <2> QED
    BY <1>3, <1>4, <2>1, <2>3 DEF InGroup
<1>5. ASSUME NEW p \in 1..Len(d), NEW h \in 1..Len(c), f[p] # 0, Mine(c, f[p], r), f[p] < h, \A q \in 1..Len(d) : f[q] # h
      PROVE  c[h].role = "tool" /\ ~Behind(c, f[p], h)
  <2>1. f[p] \in 1..Len(c)
    BY <1>1
  <2> QED
    BY <1>1, <1>4, <1>5, <2>1
<1>6. ASSUME NEW q \in 1..Len(d), NEW j \in 1..Len(c), f[q] # 0, Mine(c, j, r), Behind(c, j, f[q])
      PROVE  \E p \in 1..Len(d) : f[p] = j
  <2>1. c[j].role # "tool"
    BY <1>3, <1>6
  <2> QED
    BY <1>1, <2>1
<1> QED
  BY <1>5, <1>6 DEF GroupsWhole, d, f

(* Together: *)
Tidied(c, d, r) ==
  /\ d \in Seq(Msgs) /\ SystemFirst(d)
  /\ Once(c) => Once(d)
  /\ Paired(c, r) => Paired(d, r)
  /\ \A p \in 1..Len(d) : d[p].row = 0 \/ \E i \in 1..Len(c) : d[p] = c[i]

(* Whatever selects whole groups tidies a context;                           *)
LEMMA SelectedTidy ==
  ASSUME NEW c \in Seq(Msgs), SystemFirst(c), NEW d \in Seq(Msgs), NEW f, Selected(c, d, f),
         \A p \in 1..Len(d) : f[p] = 0 => d[p].row = 0,
         NEW r, GroupsWhole(c, d, f, r)
  PROVE  Tidied(c, d, r)
<1>1. SystemFirst(d)
  BY SelectedFacts DEF Selected, SystemFirst
<1>2. Once(c) => Once(d)
  BY OnceSelected
<1>3. Paired(c, r) => Paired(d, r)
  BY PairedSelected
<1>4. \A p \in 1..Len(d) : d[p].row = 0 \/ \E i \in 1..Len(c) : d[p] = c[i]
  BY SelectedFacts
<1> QED
  BY <1>1, <1>2, <1>3, <1>4 DEF Tidied

(* a memory message does,                                                    *)
LEMMA MemoryTidy ==
  ASSUME NEW c \in Seq(Msgs), SystemFirst(c), NEW r
  PROVE  Tidied(c, WithMemory(c), r) /\ BodyStart(WithMemory(c)) = 3
<1>1. CASE BodyStart(c) = 3
  BY <1>1 DEF WithMemory, Tidied
<1>2. CASE BodyStart(c) # 3
  <2> DEFINE d == WithMemory(c)   f == MemoryMap(c)
  <2>1. d \in Seq(Msgs) /\ Len(d) = Len(c) + 1 /\ d[2] = Note("memory")
    BY <1>2, MemoryIs
  <2>2. Selected(c, d, f) /\ GroupsWhole(c, d, f, r)
    BY <1>2, MemorySelects, MemoryWhole
  <2>3. BodyStart(d) = 3
    BY <2>1 DEF BodyStart, Note, SystemFirst
  <2>4. d[2].row = 0
    BY <2>1 DEF Note
  <2> HIDE DEF d, f
  <2>5. \A p \in 1..Len(d) : f[p] = 0 => d[p].row = 0
    BY <2>2, <2>4 DEF Selected
  <2>6. Tidied(c, d, r)
    BY <2>1, <2>2, <2>5, SelectedTidy
  <2> QED
    BY <2>3, <2>6 DEF d
<1> QED
  BY <1>1, <1>2

(* and so does all of the check for local models (preflight_check).          *)
LEMMA PreflightTidy ==
  ASSUME NEW c \in Seq(Msgs), SystemFirst(c), NEW r
  PROVE  Tidied(c, PreflightCheck(c), r)
<1> DEFINE w == WithMemory(c)   d == Filtered(w)   f == KeptBy(w)
<1>1. Tidied(c, w, r) /\ BodyStart(w) = 3
  BY MemoryTidy
<1>2. PreflightCheck(c) = d
  <2>1. DOMAIN w = 1..Len(w)
    BY <1>1 DEF Tidied
  <2> QED
    BY <2>1 DEF PreflightCheck, Filtered, KeptBy
<1> HIDE DEF w
<1>3. w \in Seq(Msgs) /\ SystemFirst(w)
  BY <1>1 DEF Tidied
<1>4. d \in Seq(Msgs) /\ Selected(w, d, f) /\ GroupsWhole(w, d, f, r)
  BY <1>1, <1>3, FilterIs, FilterSelects, FilterWhole
<1>5. \A p \in 1..Len(d) : f[p] # 0
  <2>1. f \in [1..Len(f) -> 1..Len(w)] /\ Len(d) = Len(f)
    BY <1>3, FilterIs
  <2>2. Len(w) \in Nat
    BY <1>3
  <2> HIDE DEF f, d
  <2> QED
    BY <2>1, <2>2
<1> HIDE DEF d, f
<1>6. Tidied(w, d, r)
  BY <1>3, <1>4, <1>5, SelectedTidy
<1> QED
  BY <1>1, <1>2, <1>6 DEF Tidied

Places == {"idle", "posted", "poll", "compact", "window", "check", "fallback",
           "marked", "call", "tools", "done"}
Hows   == {"none", "window", "reset", "summary"}
Rows   == [role : Roles, calls : SUBSET Calls, state : {"visible", "compacted", "open"}]

LoopTypes ==
  /\ scenario \in Scenarios /\ rows \in Seq(Rows)
  /\ pc \in [Runs -> Places] /\ ctx \in [Runs -> Seq(Msgs)]
  /\ seen \in [Runs -> Nat] /\ count \in [Runs -> Nat] /\ todo \in [Runs -> Nat]
  /\ pending \in [Runs -> [how : Hows, end : Nat]]
  /\ given \in [Runs -> SUBSET Nat] /\ passed \in [Runs -> SUBSET Nat]

(* The user's rows ask for no calls, the others only for those of runs that  *)
(* have read the thread.                                                     *)
RowsKnown ==
  \A k \in 1..Len(rows) :
    /\ rows[k].role = "user" => rows[k].calls = {}
    /\ \A x \in rows[k].calls : pc[x[1]] \notin {"idle", "posted"}

Active(r) == pc[r] \notin {"idle", "posted", "done"}

SeenStands(r)   == seen[r] # 0 => seen[r] \in 1..Len(rows) /\ rows[seen[r]].state # "open"
NothingMissed(r) == \A k \in UserRows : k <= seen[r] => k \in given[r] \cup passed[r] \cup late

(* A message with a row is that row; a message of the user has been seen.    *)
OfRow(m, table, n) ==
  m.row # 0 =>
    /\ m.row \in 1..Len(table) /\ m.role = table[m.row].role
    /\ m.role = "user" => m.row <= n
Fits(c, table, n) == SystemFirst(c) /\ Once(c) /\ \A i \in 1..Len(c) : OfRow(c[i], table, n)

(* The calls that are still to be made.                                      *)
Open(r) == {<<r, n>> : n \in count[r] + 1..count[r] + todo[r]}

(* All groups of r but the last are complete, the last but for open calls.   *)
AllButLast(c, open, r) ==
  \E l \in 1..Len(c) :
    /\ Mine(c, l, r) /\ c[l].calls = AnswersAfter(c, l) \cup open
    /\ \A h \in l + 1..Len(c) : c[h].role = "tool"
    /\ \A i \in 1..l - 1 : PairedAt(c, i, r)

Blocks(r) ==
  mode(r) # "cwc" =>
    IF pc[r] = "tools" /\ todo[r] > 0 THEN AllButLast(ctx[r], Open(r), r) ELSE Paired(ctx[r], r)

Cut(r) ==
  pc[r] = "marked" => pending[r].end \in 2..Len(ctx[r]) /\ Uncut(ctx[r], pending[r].end, r)

Sound(r) ==
  /\ Fits(ctx[r], rows, seen[r]) /\ SeenStands(r) /\ NothingMissed(r)
  /\ Blocks(r) /\ Cut(r)

LoopInv == LoopTypes /\ RowsKnown /\ \A r \in Runs : Active(r) => Sound(r)

-----------------------------------------------------------------------------
(* d is c with messages behind it.                                           *)
Longer(c, d) ==
  /\ c \in Seq(Msgs) /\ d \in Seq(Msgs)
  /\ Len(c) <= Len(d) /\ \A i \in 1..Len(c) : d[i] = c[i]

(* One more message,                                                         *)
LEMMA LongerOne ==
  ASSUME NEW c \in Seq(Msgs), NEW m \in Msgs
  PROVE  Longer(c, Append(c, m)) /\ Len(Append(c, m)) = Len(c) + 1 /\ Append(c, m)[Len(c) + 1] = m
<1>1. Append(c, m) \in Seq(Msgs) /\ Len(Append(c, m)) = Len(c) + 1 /\ Len(c) \in Nat
  OBVIOUS
<1>2. Append(c, m)[Len(c) + 1] = m /\ \A i \in 1..Len(c) : Append(c, m)[i] = c[i]
  OBVIOUS
<1> QED
  BY <1>1, <1>2 DEF Longer

(* or several.                                                               *)
LEMMA LongerMany ==
  ASSUME NEW c \in Seq(Msgs), NEW e \in Seq(Msgs)
  PROVE  /\ Longer(c, c \o e) /\ Len(c \o e) = Len(c) + Len(e)
         /\ \A i \in 1..Len(e) : (c \o e)[Len(c) + i] = e[i]
<1>1. c \o e \in Seq(Msgs) /\ Len(c \o e) = Len(c) + Len(e) /\ \A i \in 1..Len(c) : (c \o e)[i] = c[i]
  BY Joins, Zenon
<1>2. \A i \in 1..Len(e) : (c \o e)[Len(c) + i] = e[i]
  BY Joins
<1>3. Len(c) \in Nat /\ Len(e) \in Nat
  OBVIOUS
<1> QED
  BY <1>1, <1>2, <1>3 DEF Longer

(* What a position needs, whatever lies behind a message that is no tool's.  *)
LEMMA LongerBehind ==
  ASSUME NEW c, NEW d, Longer(c, d), NEW j \in 1..Len(c)
  PROVE  \A i \in 1..Len(c) : Behind(d, j, i) <=> Behind(c, j, i)
BY DEF Longer, Behind

(* A message that is no result ends the groups before it,                    *)
LEMMA LongerBeyond ==
  ASSUME NEW c, NEW d, Longer(c, d), NEW j \in 1..Len(c), NEW s \in j + 1..Len(d), d[s].role # "tool"
  PROVE  \A i \in s..Len(d) : ~Behind(d, j, i)
BY DEF Longer, Behind

(* and a group that has ended has its answers.                               *)
LEMMA LongerAnswers ==
  ASSUME NEW c, NEW d, Longer(c, d), NEW j \in 1..Len(c),
         \A i \in Len(c) + 1..Len(d) : ~Behind(d, j, i)
  PROVE  AnswersAfter(d, j) = AnswersAfter(c, j)
<1>1. c \in Seq(Msgs) /\ d \in Seq(Msgs) /\ Len(c) \in Nat /\ Len(d) \in Nat /\ Len(c) <= Len(d)
      /\ j \in 1..Len(d) /\ \A i \in 1..Len(c) : d[i] = c[i]
  BY DEF Longer
<1>2. \A i \in 1..Len(c) : Behind(d, j, i) <=> Behind(c, j, i)
  BY LongerBehind
<1>3. \A i \in 1..Len(d) : i \in 1..Len(c) \/ i \in Len(c) + 1..Len(d)
  BY <1>1
<1>4. \A i \in 1..Len(c) : i \in 1..Len(d)
  BY <1>1
<1>5. \A x : x \in AnswersAfter(d, j) <=> \E i \in 1..Len(d) : Behind(d, j, i) /\ x \in d[i].calls
  BY <1>1, AnswersAre
<1>6. \A x : x \in AnswersAfter(c, j) <=> \E i \in 1..Len(c) : Behind(c, j, i) /\ x \in c[i].calls
  BY <1>1, AnswersAre
<1>7. \A x : x \in AnswersAfter(d, j) <=> x \in AnswersAfter(c, j)
  <2>1. ASSUME NEW x, x \in AnswersAfter(d, j) PROVE x \in AnswersAfter(c, j)
    BY <1>1, <1>2, <1>3, <1>5, <1>6, <2>1
  <2>2. ASSUME NEW x, x \in AnswersAfter(c, j) PROVE x \in AnswersAfter(d, j)
    BY <1>1, <1>2, <1>4, <1>5, <1>6, <2>2
  <2> QED
    BY <2>1, <2>2
<1> QED
  BY <1>7

(* A position stays paired as long as the group it belongs to is not joined  *)
(* by the new messages.                                                      *)
LEMMA LongerPairedAt ==
  ASSUME NEW c, NEW d, Longer(c, d), NEW r, NEW k \in 1..Len(c), PairedAt(c, k, r),
         \A j \in 1..k : c[j].role = "assistant" => \A i \in Len(c) + 1..Len(d) : ~Behind(d, j, i)
  PROVE  PairedAt(d, k, r)
<1>1. Len(c) \in Nat /\ Len(d) \in Nat /\ \A i \in 1..Len(c) : d[i] = c[i]
  BY DEF Longer
<1>2. \A j \in 1..k : c[j].role = "assistant" => AnswersAfter(d, j) = AnswersAfter(c, j)
  BY <1>1, LongerAnswers
<1>3. \A j \in 1..k : Complete(c, j) => Complete(d, j)
  BY <1>1, <1>2 DEF Complete
<1>4. \A j \in 1..k : GroupOf(c, k, j, r) => GroupOf(d, k, j, r)
  BY <1>1, <1>3, LongerBehind DEF GroupOf, Mine, Asks
<1>5. \A j \in 1..k - 1 : j \in 1..k
  BY <1>1
<1> QED
  BY <1>1, <1>3, <1>4, <1>5 DEF PairedAt, Asks

(* Messages that neither ask nor answer leave the groups alone.              *)
LEMMA PairedWithNotes ==
  ASSUME NEW c, NEW d, Longer(c, d), NEW r, Paired(c, r),
         \A i \in Len(c) + 1..Len(d) : d[i].role # "tool" /\ d[i].calls = {}
  PROVE  Paired(d, r)
<1>1. c \in Seq(Msgs) /\ Len(c) \in Nat /\ Len(d) \in Nat /\ Len(c) <= Len(d)
  BY DEF Longer
<1>2. \A j \in 1..Len(c), i \in Len(c) + 1..Len(d) : i \in j + 1..Len(d) /\ i \in i..Len(d)
  BY <1>1
<1>3. \A j \in 1..Len(c), i \in Len(c) + 1..Len(d) : ~Behind(d, j, i)
  BY <1>2, LongerBeyond
<1>4. ASSUME NEW k \in 1..Len(c) PROVE PairedAt(d, k, r)
  <2>1. PairedAt(c, k, r) /\ \A j \in 1..k : j \in 1..Len(c)
    BY <1>1 DEF Paired
  <2> QED
    BY <1>3, <2>1, LongerPairedAt
<1>5. ASSUME NEW k \in Len(c) + 1..Len(d) PROVE PairedAt(d, k, r)
  BY <1>5 DEF PairedAt, Asks
<1>6. \A i \in 1..Len(d) : i \in 1..Len(c) \/ i \in Len(c) + 1..Len(d)
  BY <1>1
<1> QED
  BY <1>4, <1>5, <1>6 DEF Paired

(* The LLM asks for calls: all groups but the new one are complete.          *)
LEMMA AsksForCalls ==
  ASSUME NEW c \in Seq(Msgs), NEW r, Paired(c, r),
         NEW m \in Msgs, m.role = "assistant", \E x \in m.calls : x[1] = r
  PROVE  AllButLast(Append(c, m), m.calls, r)
<1> DEFINE d == Append(c, m)   l == Len(c) + 1
<1>1. Longer(c, d) /\ Len(d) = l /\ d[l] = m
  BY LongerOne
<1>2. Len(c) \in Nat /\ d \in Seq(Msgs) /\ l \in 1..Len(d) /\ l \in Nat
  BY <1>1 DEF Longer
<1> HIDE DEF d
<1>3. Mine(d, l, r)
  BY <1>1 DEF Mine, Asks
<1>4. AnswersAfter(d, l) = {}
  <2>1. \A i \in 1..Len(d) : ~Behind(d, l, i)
    BY <1>1, <1>2 DEF Behind
  <2> QED
    BY <1>2, <2>1, AnswersAre
<1>5. \A h \in l + 1..Len(d) : FALSE
  BY <1>1, <1>2
<1>6. ASSUME NEW k \in 1..l - 1 PROVE PairedAt(d, k, r)
  <2>1. k \in 1..Len(c) /\ PairedAt(c, k, r) /\ \A j \in 1..k : j \in 1..Len(c)
    BY <1>2 DEF Paired
  <2>2. \A j \in 1..Len(c) : l \in j + 1..Len(d)
    BY <1>1, <1>2
  <2>3. \A j \in 1..Len(c) : ~Behind(d, j, l)
    BY <1>1, <2>2 DEF Behind
  <2>4. \A i \in Len(c) + 1..Len(d) : i = l
    BY <1>1, <1>2
  <2> QED
    BY <1>1, <2>1, <2>3, <2>4, LongerPairedAt
<1> QED
  BY <1>1, <1>2, <1>3, <1>4, <1>5, <1>6 DEF AllButLast, d

(* A tool answers one of the open calls.                                     *)
LEMMA AnswersCall ==
  ASSUME NEW c \in Seq(Msgs), NEW r, NEW open, AllButLast(c, open, r),
         NEW m \in Msgs, m.role = "tool", NEW left, open = m.calls \cup left
  PROVE  AllButLast(Append(c, m), left, r)
<1> DEFINE d == Append(c, m)   e == Len(c) + 1
<1>1. Longer(c, d) /\ Len(d) = e /\ d[e] = m
  BY LongerOne
<1>2. Len(c) \in Nat /\ d \in Seq(Msgs) /\ Len(c) <= Len(d) /\ \A i \in 1..Len(c) : d[i] = c[i] /\ i \in 1..Len(d)
  BY <1>1 DEF Longer
<1> HIDE DEF d
<1>3. PICK l \in 1..Len(c) :
        /\ Mine(c, l, r) /\ c[l].calls = AnswersAfter(c, l) \cup open
        /\ \A h \in l + 1..Len(c) : c[h].role = "tool"
        /\ \A i \in 1..l - 1 : PairedAt(c, i, r)
  BY DEF AllButLast
<1>4. d[l] = c[l] /\ Mine(d, l, r) /\ l \in 1..Len(d) /\ d[l].role = "assistant"
  BY <1>2, <1>3 DEF Mine, Asks
<1>5. \A h \in l + 1..Len(d) : d[h].role = "tool"
  <2>n. l \in Nat /\ l >= 1 /\ Len(d) = Len(c) + 1
    BY <1>1, <1>2
  <2>1. \A h \in l + 1..Len(d) : h = e \/ (h \in l + 1..Len(c) /\ h \in 1..Len(c))
    BY <1>2, <2>n
  <2> QED
    BY <1>1, <1>2, <1>3, <2>1
<1>6. AnswersAfter(d, l) = AnswersAfter(c, l) \cup m.calls
  <2>1. \A i \in 1..Len(d) : (i \in 1..Len(c) /\ i # e) \/ i = e
    BY <1>1, <1>2
  <2>2. \A i \in 1..Len(c) : Behind(d, l, i) <=> Behind(c, l, i)
    BY <1>1, LongerBehind
  <2>3. Behind(d, l, e)
    BY <1>1, <1>2, <1>5 DEF Behind
  <2>4. \A x : x \in AnswersAfter(d, l) <=> \E i \in 1..Len(d) : Behind(d, l, i) /\ x \in d[i].calls
    BY <1>2, <1>4, AnswersAre
  <2>5. \A x : x \in AnswersAfter(c, l) <=> \E i \in 1..Len(c) : Behind(c, l, i) /\ x \in c[i].calls
    BY AnswersAre
  <2>6. e \in 1..Len(d)
    BY <1>1, <1>2
  <2>7. ASSUME NEW x PROVE x \in AnswersAfter(d, l) <=> x \in AnswersAfter(c, l) \/ x \in m.calls
    <3>1. ASSUME x \in AnswersAfter(d, l) PROVE x \in AnswersAfter(c, l) \/ x \in m.calls
      BY <1>1, <1>2, <2>1, <2>2, <2>4, <2>5, <3>1
    <3>2. ASSUME x \in AnswersAfter(c, l) PROVE x \in AnswersAfter(d, l)
      BY <1>2, <2>2, <2>4, <2>5, <3>2
    <3>3. ASSUME x \in m.calls PROVE x \in AnswersAfter(d, l)
      BY <1>1, <2>3, <2>4, <2>6, <3>3
    <3> QED
      BY <3>1, <3>2, <3>3
  <2> QED
    BY <2>7
<1>7. d[l].calls = AnswersAfter(d, l) \cup left
  BY <1>3, <1>4, <1>6
<1>8. ASSUME NEW k \in 1..l - 1 PROVE PairedAt(d, k, r)
  <2>1. k \in 1..Len(c) /\ PairedAt(c, k, r) /\ \A j \in 1..k : j \in 1..Len(c) /\ l \in j + 1..Len(d)
    BY <1>1, <1>2, <1>3
  <2>2. \A i \in Len(c) + 1..Len(d) : i \in l..Len(d)
    BY <1>2
  <2>3. \A j \in 1..k : \A i \in Len(c) + 1..Len(d) : ~Behind(d, j, i)
    BY <1>1, <1>4, <2>1, <2>2, LongerBeyond
  <2> QED
    BY <1>1, <2>1, <2>3, LongerPairedAt
<1> QED
  BY <1>4, <1>5, <1>7, <1>8 DEF AllButLast, d

(* The last open call is answered.                                           *)
LEMMA NoneLeft ==
  ASSUME NEW c \in Seq(Msgs), NEW r, AllButLast(c, {}, r)
  PROVE  Paired(c, r)
<1>1. Len(c) \in Nat
  OBVIOUS
<1>2. PICK l \in 1..Len(c) :
        /\ Mine(c, l, r) /\ c[l].calls = AnswersAfter(c, l) \cup {}
        /\ \A h \in l + 1..Len(c) : c[h].role = "tool"
        /\ \A i \in 1..l - 1 : PairedAt(c, i, r)
  BY DEF AllButLast
<1>3. Complete(c, l)
  BY <1>2 DEF Complete, Mine
<1>4. ASSUME NEW i \in l + 1..Len(c) PROVE PairedAt(c, i, r)
  <2>1. l \in 1..i - 1 /\ l < i /\ i \in l + 1..Len(c) /\ \A h \in l + 1..i : h \in l + 1..Len(c)
    BY <1>1
  <2>2. Behind(c, l, i) /\ c[i].role = "tool"
    BY <1>2, <2>1 DEF Behind
  <2> QED
    BY <1>2, <1>3, <2>1, <2>2 DEF PairedAt, GroupOf
<1>5. PairedAt(c, l, r)
  BY <1>3 DEF PairedAt
<1>6. \A i \in 1..Len(c) : i \in 1..l - 1 \/ i = l \/ i \in l + 1..Len(c)
  BY <1>1
<1> QED
  BY <1>2, <1>4, <1>5, <1>6 DEF Paired

(* A paired context has complete calls only.                                 *)
LEMMA PairedCalls ==
  ASSUME NEW c \in Seq(Msgs), NEW r, Paired(c, r), NEW i \in 1..Len(c), \E x \in c[i].calls : x[1] = r
  PROVE  \/ Complete(c, i)
         \/ c[i].role = "tool" /\ \E j \in 1..i - 1 : Complete(c, j) /\ c[i].calls \subseteq c[j].calls
<1>1. CASE Complete(c, i)
  BY <1>1
<1>2. CASE ~Complete(c, i)
  <2>1. c[i].role = "tool"
    BY <1>2 DEF Paired, PairedAt, Asks
  <2>2. PICK j \in 1..i - 1 : GroupOf(c, i, j, r)
    BY <1>2 DEF Paired, PairedAt, Asks
  <2>3. j \in 1..Len(c) /\ Complete(c, j) /\ Behind(c, j, i)
    BY <2>2 DEF GroupOf
  <2>4. c[i].calls \subseteq AnswersAfter(c, j)
    BY <2>3, AnswersAre
  <2> QED
    BY <2>1, <2>3, <2>4 DEF Complete
<1> QED
  BY <1>1, <1>2

-----------------------------------------------------------------------------
(* What every step does to the thread's rows: none goes, none is another, a  *)
(* committed one stays so.                                                   *)
Grown(old, new) ==
  /\ old \in Seq(Rows) /\ new \in Seq(Rows) /\ Len(old) <= Len(new)
  /\ \A k \in 1..Len(old) :
       /\ new[k].role = old[k].role /\ new[k].calls = old[k].calls
       /\ old[k].state # "open" => new[k].state # "open"

(* d has messages of c, and some that are no rows.                           *)
DrawnFrom(c, d) ==
  /\ c \in Seq(Msgs) /\ d \in Seq(Msgs) /\ SystemFirst(d)
  /\ Once(c) => Once(d)
  /\ \A p \in 1..Len(d) : d[p].row = 0 \/ \E i \in 1..Len(c) : d[p] = c[i]

(* When the thread grows, messages keep their rows,                          *)
LEMMA OfRowGrown ==
  ASSUME NEW m \in Msgs, NEW old, NEW new, Grown(old, new),
         NEW n \in Nat, NEW n2 \in Nat, n <= n2, OfRow(m, old, n)
  PROVE  OfRow(m, new, n2)
<1>1. Len(old) \in Nat /\ Len(new) \in Nat /\ Len(old) <= Len(new) /\ m.row \in Nat
  BY DEF Grown, Msgs
<1>2. ASSUME m.row # 0
      PROVE  m.row \in 1..Len(new) /\ m.role = new[m.row].role /\ (m.role = "user" => m.row <= n2)
  <2>1. m.row \in 1..Len(old) /\ m.role = old[m.row].role /\ (m.role = "user" => m.row <= n)
    BY <1>2 DEF OfRow
  <2>2. m.role = new[m.row].role
    BY <2>1 DEF Grown
  <2> QED
    BY <1>1, <2>1, <2>2
<1> QED
  BY <1>2 DEF OfRow

(* and contexts fit it.                                                      *)
LEMMA FitsGrown ==
  ASSUME NEW c \in Seq(Msgs), NEW old, NEW new, Grown(old, new),
         NEW n \in Nat, NEW n2 \in Nat, n <= n2, Fits(c, old, n)
  PROVE  Fits(c, new, n2)
<1>1. \A i \in 1..Len(c) : c[i] \in Msgs
  OBVIOUS
<1> QED
  BY <1>1, OfRowGrown DEF Fits

(* A context drawn from one that fits, fits too.                             *)
LEMMA FitsDrawn ==
  ASSUME NEW c, NEW d, DrawnFrom(c, d), NEW table, NEW n, Fits(c, table, n)
  PROVE  Fits(d, table, n)
<1>1. \A p \in 1..Len(d) : OfRow(d[p], table, n)
  BY DEF DrawnFrom, Fits, OfRow
<1> QED
  BY <1>1 DEF DrawnFrom, Fits

(* A tidied context is drawn from the one before.                            *)
LEMMA TidiedDrawn ==
  ASSUME NEW c \in Seq(Msgs), NEW d, NEW r, Tidied(c, d, r)
  PROVE  DrawnFrom(c, d)
BY DEF Tidied, DrawnFrom

(* A message is added that is no row, or a new row.                          *)
LEMMA FitsOne ==
  ASSUME NEW c \in Seq(Msgs), NEW m \in Msgs, NEW table, NEW n, Fits(c, table, n), OfRow(m, table, n),
         m.row # 0 => \A i \in 1..Len(c) : c[i].row # m.row
  PROVE  Fits(Append(c, m), table, n)
<1> DEFINE d == Append(c, m)   e == Len(c) + 1
<1>1. Len(d) = Len(c) + 1 /\ d[Len(c) + 1] = m /\ Len(c) \in Nat /\ \A i \in 1..Len(c) : d[i] = c[i]
  BY LongerOne DEF Longer
<1> HIDE DEF d
<1>2. \A i \in 1..Len(d) : i \in 1..Len(c) \/ i = Len(c) + 1
  BY <1>1
<1>3. SystemFirst(d)
  BY <1>1 DEF Fits, SystemFirst
<1>4. ASSUME NEW i \in 1..Len(d), NEW j \in 1..Len(d), d[i].row # 0, d[i].row = d[j].row PROVE i = j
  <2>1. CASE i \in 1..Len(c) /\ j \in 1..Len(c)
    BY <1>1, <1>4, <2>1 DEF Fits, Once
  <2>2. CASE i = Len(c) + 1 /\ j \in 1..Len(c)
    BY <1>1, <1>4, <2>2
  <2>3. CASE j = Len(c) + 1 /\ i \in 1..Len(c)
    BY <1>1, <1>4, <2>3
  <2> QED
    BY <1>2, <2>1, <2>2, <2>3
<1>5. \A i \in 1..Len(d) : OfRow(d[i], table, n)
  BY <1>1, <1>2 DEF Fits
<1> QED
  BY <1>3, <1>4, <1>5 DEF Fits, Once, d

(* Messages are added that are rows the context does not have yet.           *)
LEMMA FitsMany ==
  ASSUME NEW c \in Seq(Msgs), NEW e \in Seq(Msgs), NEW table, NEW n, Fits(c, table, n), Once(e),
         \A i \in 1..Len(e) : OfRow(e[i], table, n),
         \A i \in 1..Len(c), j \in 1..Len(e) : c[i].row # 0 => c[i].row # e[j].row
  PROVE  Fits(c \o e, table, n)
<1> DEFINE d == c \o e
<1>1. /\ Len(d) = Len(c) + Len(e) /\ Len(c) \in Nat /\ Len(e) \in Nat
      /\ \A i \in 1..Len(c) : d[i] = c[i]
      /\ \A i \in 1..Len(e) : d[Len(c) + i] = e[i]
  <2>1. Len(d) = Len(c) + Len(e) /\ \A i \in 1..Len(e) : d[Len(c) + i] = e[i]
    BY LongerMany
  <2>2. \A i \in 1..Len(c) : d[i] = c[i]
    BY LongerMany DEF Longer
  <2> QED
    BY <2>1, <2>2
<1> HIDE DEF d
<1>2. \A i \in 1..Len(d) : i \in 1..Len(c) \/ (~(i <= Len(c)) /\ i - Len(c) \in 1..Len(e) /\ d[i] = e[i - Len(c)])
  <2> TAKE i \in 1..Len(d)
  <2>1. CASE i <= Len(c)
    BY <1>1, <2>1
  <2>2. CASE ~(i <= Len(c))
    <3>1. i - Len(c) \in 1..Len(e) /\ Len(c) + (i - Len(c)) = i
      BY <1>1, <2>2
    <3> QED
      BY <1>1, <2>2, <3>1
  <2> QED
    BY <2>1, <2>2
<1>3. SystemFirst(d)
  BY <1>1 DEF Fits, SystemFirst
<1>4. ASSUME NEW i \in 1..Len(d), NEW j \in 1..Len(d), d[i].row # 0, d[i].row = d[j].row PROVE i = j
  <2>1. CASE i \in 1..Len(c) /\ j \in 1..Len(c)
    BY <1>1, <1>4, <2>1 DEF Fits, Once
  <2>2. CASE ~(i <= Len(c)) /\ j \in 1..Len(c)
    BY <1>1, <1>2, <1>4, <2>2
  <2>3. CASE ~(j <= Len(c)) /\ i \in 1..Len(c)
    BY <1>1, <1>2, <1>4, <2>3
  <2>4. CASE ~(i <= Len(c)) /\ ~(j <= Len(c))
    <3>1. i - Len(c) \in 1..Len(e) /\ d[i] = e[i - Len(c)] /\ j - Len(c) \in 1..Len(e) /\ d[j] = e[j - Len(c)]
      BY <1>1, <1>2, <2>4
    <3>2. i - Len(c) = j - Len(c)
      BY <1>4, <3>1 DEF Once
    <3> QED
      BY <1>1, <3>2
  <2> QED
    BY <1>1, <1>2, <2>1, <2>2, <2>3, <2>4
<1>5. \A i \in 1..Len(d) : OfRow(d[i], table, n)
  BY <1>1, <1>2 DEF Fits
<1> QED
  BY <1>3, <1>4, <1>5 DEF Fits, Once, d

(* The rows of a set as messages.                                            *)
LEMMA MessagesAre ==
  ASSUME rows \in Seq(Rows), NEW S \in SUBSET (1..Len(rows))
  PROVE  /\ Messages(S) \in Seq(Msgs) /\ Once(Messages(S))
         /\ \A i \in 1..Len(Messages(S)) :
              \E k \in S : Messages(S)[i] = Message(k)
<1> DEFINE s == InOrder(S)   n == Len(rows)
<1>1. n \in Nat /\ S \in SUBSET (1..n)
  OBVIOUS
<1> HIDE DEF n
<1>2. /\ InOrder(S) \in Seq(S)
      /\ \A i, j \in 1..Len(InOrder(S)) : i < j => InOrder(S)[i] < InOrder(S)[j]
  BY <1>1, Ordered
<1> HIDE DEF s
<1>3. /\ DOMAIN s = 1..Len(s) /\ Len(s) \in Nat /\ \A i \in 1..Len(s) : s[i] \in S
      /\ \A i, j \in 1..Len(s) : i < j => s[i] < s[j]
  BY <1>2 DEF s
<1>4. \A k \in S : k \in Nat /\ k # 0 /\ k \in 1..Len(rows)
  BY <1>1
<1>5. \A k \in S : Message(k) \in Msgs /\ Message(k).row = k
  <2> TAKE k \in S
  <2>1. rows[k] \in Rows /\ k \in Nat
    BY <1>4
  <2> QED
    BY <2>1 DEF Message, Msgs, Rows
<1> DEFINE d == [i \in 1..Len(s) |-> Message(s[i])]
<1>6. Messages(S) = d
  BY <1>3 DEF Messages, s
<1>7. \A i \in 1..Len(s) : Message(s[i]) \in Msgs
  BY <1>3, <1>5
<1>8. d \in Seq(Msgs) /\ Len(d) = Len(s) /\ \A i \in 1..Len(s) : d[i] = Message(s[i])
  BY <1>3, <1>7
<1> HIDE DEF d
<1>9. ASSUME NEW i \in 1..Len(d), NEW j \in 1..Len(d), d[i].row = d[j].row PROVE i = j
  <2>1. s[i] = s[j] /\ s[i] \in Nat
    BY <1>3, <1>4, <1>5, <1>8, <1>9
  <2>2. ~(i < j) /\ ~(j < i)
    BY <1>3, <1>8, <2>1
  <2> QED
    BY <1>3, <1>8, <2>2
<1>10. \A i \in 1..Len(d) : \E k \in S : d[i] = Message(k)
  BY <1>3, <1>8
<1> QED
  BY <1>6, <1>8, <1>9, <1>10 DEF Once

(* The greater of a number and those of a set.                               *)
LEMMA AtLeastIs ==
  ASSUME NEW m \in Nat, NEW S \in SUBSET (1..m), NEW n \in Nat
  PROVE  /\ AtLeast(n, S) \in Nat /\ n <= AtLeast(n, S)
         /\ AtLeast(n, S) = n \/ AtLeast(n, S) \in S
         /\ \A k \in S : k <= AtLeast(n, S)
<1>1. CASE S = {}
  BY <1>1 DEF AtLeast
<1>2. CASE S # {}
  <2>1. S \in SUBSET (0..m) /\ \A k \in S : k \in Nat
    OBVIOUS
  <2>2. Greatest(S) \in S /\ \A j \in S : j <= Greatest(S)
    BY <1>2, <2>1, GreatestIs
  <2>3. Greatest(S) \in Nat
    BY <2>1, <2>2
  <2>4. CASE n > Greatest(S)
    <3>1. AtLeast(n, S) = n
      BY <1>2, <2>4 DEF AtLeast
    <3>2. \A k \in S : k <= n
      BY <2>1, <2>2, <2>3, <2>4
    <3> QED
      BY <3>1, <3>2
  <2>5. CASE ~(n > Greatest(S))
    <3>1. AtLeast(n, S) = Greatest(S)
      BY <1>2, <2>5 DEF AtLeast
    <3> QED
      BY <2>2, <2>3, <2>5, <3>1
  <2> QED
    BY <2>4, <2>5
<1> QED
  BY <1>1, <1>2

(* cwc_session drops messages behind the first and may add a nudge.          *)
LEMMA HeadDropped ==
  ASSUME NEW c \in Seq(Msgs), SystemFirst(c), NEW k \in 2..Len(c)
  PROVE  DrawnFrom(c, <<c[1]>> \o SubSeq(c, k, Len(c)))
<1> DEFINE head == <<c[1]>>   tail == SubSeq(c, k, Len(c))   d == head \o tail
<1>1. Len(c) \in Nat /\ k \in Nat /\ k >= 2 /\ k <= Len(c) /\ c[1] \in Msgs
  OBVIOUS
<1>2. /\ tail \in Seq(Msgs) /\ Len(tail) = Len(c) - k + 1
      /\ \A i \in 1..Len(c) - k + 1 : tail[i] = c[k + i - 1]
  BY <1>1
<1>3. head \in Seq(Msgs) /\ Len(head) = 1 /\ head[1] = c[1]
  BY <1>1
<1> HIDE DEF head, tail
<1>s. head \in Seq(Msgs) /\ tail \in Seq(Msgs)
  BY <1>2, <1>3
<1>4. /\ d \in Seq(Msgs) /\ Len(d) = Len(head) + Len(tail)
      /\ \A i \in 1..Len(head) : d[i] = head[i]
  BY <1>s, Joins, Zenon
<1>5. \A i \in 1..Len(tail) : d[Len(head) + i] = tail[i]
  BY <1>s, Joins
<1> HIDE DEF d
<1>6. Len(d) = Len(c) - k + 2 /\ d[1] = c[1]
  BY <1>1, <1>2, <1>3, <1>4
<1>7. ASSUME NEW p \in 2..Len(d) PROVE d[p] = c[k + p - 2]
  <2>1. p - 1 \in 1..Len(tail) /\ Len(head) + (p - 1) = p /\ p - 1 \in 1..Len(c) - k + 1 /\ k + (p - 1) - 1 = k + p - 2
    BY <1>1, <1>2, <1>3, <1>6
  <2>2. d[p] = tail[p - 1]
    BY <1>5, <2>1
  <2>3. tail[p - 1] = c[k + (p - 1) - 1]
    BY <1>2, <2>1
  <2> QED
    BY <2>1, <2>2, <2>3
<1> DEFINE f == [p \in 1..Len(d) |-> IF p = 1 THEN 1 ELSE k + p - 2]
<1>8. /\ \A p \in 1..Len(d) : f[p] \in 1..Len(c) /\ d[p] = c[f[p]]
      /\ \A p, q \in 1..Len(d) : f[p] = f[q] => p = q
  <2>1. \A p \in 1..Len(d) : p = 1 \/ p \in 2..Len(d)
    BY <1>1, <1>6
  <2>2. \A p \in 1..Len(d) : f[p] \in 1..Len(c) /\ d[p] = c[f[p]]
    BY <1>1, <1>6, <1>7, <2>1
  <2>3. \A p, q \in 1..Len(d) : f[p] = f[q] => p = q
    BY <1>1, <1>6
  <2> QED
    BY <2>2, <2>3
<1> HIDE DEF f
<1>9. Once(c) => Once(d)
  <2>1. ASSUME Once(c), NEW p \in 1..Len(d), NEW q \in 1..Len(d), d[p].row # 0, d[p].row = d[q].row
        PROVE  p = q
    <3>i. f[p] \in 1..Len(c) /\ f[q] \in 1..Len(c) /\ d[p] = c[f[p]] /\ d[q] = c[f[q]]
      BY <1>8
    <3>1. f[p] = f[q]
      BY <2>1, <3>i DEF Once
    <3> QED
      BY <1>8, <3>1
  <2> QED
    BY <2>1 DEF Once
<1>10. SystemFirst(d)
  BY <1>1, <1>6 DEF SystemFirst
<1>11. \A p \in 1..Len(d) : d[p].row = 0 \/ \E i \in 1..Len(c) : d[p] = c[i]
  BY <1>8
<1> QED
  BY <1>4, <1>9, <1>10, <1>11 DEF DrawnFrom, d, head, tail

(* The messages without rows are messages.                                   *)
LEMMA NotesAre ==
  \A role \in Roles : Note(role) \in Msgs /\ Note(role).row = 0 /\ Note(role).calls = {} /\ Note(role).role = role
BY DEF Note, Msgs

(* Whatever cwc_session drops, the context fits the thread.                  *)
LEMMA CwcDrawn ==
  ASSUME NEW c \in Seq(Msgs), NEW table, NEW n, Fits(c, table, n), NEW d \in CwcOptimize(c)
  PROVE  d \in Seq(Msgs) /\ Fits(d, table, n)
<1>1. PICK k \in 2..Len(c), nudge \in {<<>>, <<Note("nudge")>>} : d = <<c[1]>> \o SubSeq(c, k, Len(c)) \o nudge
  BY DEF CwcOptimize
<1> DEFINE e == <<c[1]>> \o SubSeq(c, k, Len(c))
<1>2. DrawnFrom(c, e)
  BY HeadDropped DEF Fits
<1>3. d = e \o nudge
  BY <1>1
<1> HIDE DEF e
<1>4. e \in Seq(Msgs) /\ Fits(e, table, n)
  BY <1>2, FitsDrawn DEF DrawnFrom
<1>5. Note("nudge") \in Msgs /\ Note("nudge").row = 0
  BY NotesAre DEF Roles
<1>6. CASE nudge = <<>>
  BY <1>3, <1>4, <1>6
<1>7. CASE nudge = <<Note("nudge")>>
  <2>1. d = Append(e, Note("nudge"))
    BY <1>3, <1>4, <1>5, <1>7
  <2>2. OfRow(Note("nudge"), table, n)
    BY <1>5 DEF OfRow
  <2>3. Append(e, Note("nudge")) \in Seq(Msgs)
    BY <1>4, <1>5
  <2>4. Fits(Append(e, Note("nudge")), table, n)
    BY <1>4, <1>5, <2>2, FitsOne
  <2> QED
    BY <2>1, <2>3, <2>4
<1> QED
  BY <1>6, <1>7

(* What is left of a context when its head has been given up.                *)
LEMMA CutFits ==
  ASSUME NEW c \in Seq(Msgs), NEW table, NEW n, Fits(c, table, n), NEW end \in 2..Len(c),
         NEW intro \in Msgs, OfRow(intro, table, n),
         intro.row # 0 => \A i \in 1..Len(c) : c[i].row # intro.row
  PROVE  CutAt(c, intro, end) \in Seq(Msgs) /\ Fits(CutAt(c, intro, end), table, n)
<1> DEFINE d == CutAt(c, intro, end)
<1>0. Len(c) \in Nat /\ end \in Nat /\ end >= 2 /\ end <= Len(c) /\ SystemFirst(c)
  BY DEF Fits
<1>1. /\ d \in Seq(Msgs) /\ Len(d) = Len(c) - end + 3 /\ d[1] = c[1] /\ d[2] = intro
      /\ \A p \in 3..Len(c) - end + 3 : d[p] = c[end + p - 3]
  BY <1>0, CutIs
<1> HIDE DEF d
<1>2. \A p \in 1..Len(d) : p = 1 \/ p = 2 \/ p \in 3..Len(c) - end + 3
  BY <1>0, <1>1
<1>3. \A p \in 1..Len(d) : p = 2 \/ (\E i \in 1..Len(c) : i = (IF p = 1 THEN 1 ELSE end + p - 3) /\ d[p] = c[i])
  BY <1>0, <1>1, <1>2
<1>4. ASSUME NEW p \in 1..Len(d), NEW q \in 1..Len(d), d[p].row # 0, d[p].row = d[q].row PROVE p = q
  <2>1. CASE p = 2
    BY <1>0, <1>1, <1>3, <1>4, <2>1
  <2>2. CASE q = 2
    BY <1>0, <1>1, <1>3, <1>4, <2>2
  <2>3. CASE p # 2 /\ q # 2
    <3>1. PICK i \in 1..Len(c) : i = (IF p = 1 THEN 1 ELSE end + p - 3) /\ d[p] = c[i]
      BY <1>3, <2>3
    <3>2. PICK j \in 1..Len(c) : j = (IF q = 1 THEN 1 ELSE end + q - 3) /\ d[q] = c[j]
      BY <1>3, <2>3
    <3>3. i = j
      BY <1>4, <3>1, <3>2 DEF Fits, Once
    <3> QED
      BY <1>0, <1>1, <2>3, <3>1, <3>2, <3>3
  <2> QED
    BY <2>1, <2>2, <2>3
<1>5. SystemFirst(d)
  BY <1>0, <1>1 DEF SystemFirst
<1>6. \A p \in 1..Len(d) : OfRow(d[p], table, n)
  BY <1>1, <1>3 DEF Fits
<1> QED
  BY <1>1, <1>4, <1>5, <1>6 DEF Fits, Once, d

(* A cut that goes through no group leaves each call with its answers.       *)
LEMMA CutPaired ==
  ASSUME NEW c \in Seq(Msgs), SystemFirst(c), NEW end \in 2..Len(c), NEW r, Uncut(c, end, r),
         NEW intro \in Msgs, intro.calls = {}, Paired(c, r)
  PROVE  Paired(CutAt(c, intro, end), r)
<1>1. Selected(c, CutAt(c, intro, end), CutMap(c, end))
  BY CutSelects
<1>2. GroupsWhole(c, CutAt(c, intro, end), CutMap(c, end), r)
  BY CutWhole
<1>3. CutAt(c, intro, end) \in Seq(Msgs)
  BY CutIs
<1> QED
  BY <1>1, <1>2, <1>3, PairedSelected

-----------------------------------------------------------------------------
(* What a step may do to the thread: rows stay, and one that becomes visible *)
(* is new or late.                                                           *)
RowsGrow ==
  /\ Grown(rows, rows') /\ late \subseteq late'
  /\ \A k \in UserRows' : k \notin UserRows =>
       \/ k \notin 1..Len(rows)
       \/ /\ rows[k].state = "open"
          /\ \A j \in 1..Len(rows) : j > k /\ rows[j].state # "open" => k \in late'

(* A thread may stay,                                                        *)
LEMMA GrowSame ==
  ASSUME rows \in Seq(Rows), rows' = rows, late' = late
  PROVE  RowsGrow
<1>1. UserRows' = UserRows
  BY DEF UserRows, Visible
<1>2. Len(rows) \in Nat
  OBVIOUS
<1> QED
  BY <1>1, <1>2 DEF RowsGrow, Grown

(* get one more row,                                                         *)
LEMMA GrowOne ==
  ASSUME rows \in Seq(Rows), NEW row \in Rows, rows' = Append(rows, row), late' = late
  PROVE  /\ RowsGrow /\ Len(rows') = Len(rows) + 1 /\ rows'[Len(rows) + 1] = row
         /\ \A k \in 1..Len(rows) : rows'[k] = rows[k]
<1>1. /\ rows' \in Seq(Rows) /\ Len(rows') = Len(rows) + 1 /\ rows'[Len(rows) + 1] = row
      /\ Len(rows) \in Nat /\ DOMAIN rows = 1..Len(rows) /\ DOMAIN rows' = 1..Len(rows')
      /\ \A k \in 1..Len(rows) : rows'[k] = rows[k]
  OBVIOUS
<1>2. \A k \in UserRows' : k \in 1..Len(rows) => k \in UserRows
  BY <1>1 DEF UserRows, Visible
<1> QED
  BY <1>1, <1>2 DEF RowsGrow, Grown

(* have rows marked,                                                         *)
LEMMA GrowMarked ==
  ASSUME rows \in Seq(Rows), NEW n, rows' = Marked(n), late' = late
  PROVE  RowsGrow /\ Len(rows') = Len(rows)
<1>1. Len(rows) \in Nat /\ DOMAIN rows = 1..Len(rows) /\ \A k \in 1..Len(rows) : rows[k] \in Rows
  OBVIOUS
<1>2. DOMAIN rows' = 1..Len(rows)
  BY <1>1 DEF Marked
<1>3. \A k \in 1..Len(rows) :
        /\ rows'[k] \in Rows /\ rows'[k].role = rows[k].role /\ rows'[k].calls = rows[k].calls
        /\ rows'[k] = rows[k] \/ (rows[k].state = "visible" /\ rows'[k].state = "compacted")
  <2> TAKE k \in 1..Len(rows)
  <2>1. rows'[k] = IF k <= n /\ k \in Visible /\ rows[k].role # "summary"
                   THEN [rows[k] EXCEPT !.state = "compacted"] ELSE rows[k]
    BY <1>1 DEF Marked
  <2>2. CASE rows'[k] = rows[k]
    BY <1>1, <2>2
  <2>3. CASE k \in Visible /\ rows'[k] = [rows[k] EXCEPT !.state = "compacted"]
    BY <1>1, <2>3 DEF Rows, Visible
  <2> QED
    BY <2>1, <2>2, <2>3
<1>4. rows' \in Seq(Rows) /\ Len(rows') = Len(rows)
  <2>1. rows' \in [1..Len(rows) -> Rows]
    BY <1>2, <1>3 DEF Marked
  <2> QED
    BY <1>1, <2>1
<1>5. Grown(rows, rows')
  BY <1>1, <1>3, <1>4 DEF Grown
<1>6. \A k \in UserRows' : k \in UserRows
  BY <1>1, <1>2, <1>3 DEF UserRows, Visible
<1> QED
  BY <1>4, <1>5, <1>6 DEF RowsGrow

(* and have a row committed.                                                 *)
LEMMA GrowCommitted ==
  ASSUME rows \in Seq(Rows), QueueCommit
  PROVE  RowsGrow /\ Len(rows') = Len(rows)
<1>1. PICK k \in DOMAIN rows :
        /\ rows[k].state = "open" /\ rows' = [rows EXCEPT ![k].state = "visible"]
        /\ late' = IF \E j \in DOMAIN rows : j > k /\ rows[j].state # "open" THEN late \cup {k} ELSE late
  BY DEF QueueCommit
<1>2. Len(rows) \in Nat /\ DOMAIN rows = 1..Len(rows) /\ \A j \in 1..Len(rows) : rows[j] \in Rows
  OBVIOUS
<1>3. DOMAIN rows' = 1..Len(rows) /\ \A j \in 1..Len(rows) : j # k => rows'[j] = rows[j]
  BY <1>1, <1>2
<1>4. rows'[k] = [rows[k] EXCEPT !.state = "visible"] /\ k \in 1..Len(rows)
  BY <1>1, <1>2
<1>5. rows'[k] \in Rows /\ rows'[k].role = rows[k].role /\ rows'[k].calls = rows[k].calls /\ rows'[k].state = "visible"
  BY <1>2, <1>4 DEF Rows
<1>6. rows' \in Seq(Rows) /\ Len(rows') = Len(rows)
  <2>1. rows' \in [1..Len(rows) -> Rows]
    BY <1>1, <1>2, <1>3, <1>5
  <2> QED
    BY <1>2, <2>1
<1>7. Grown(rows, rows')
  <2>1. \A j \in 1..Len(rows) : rows'[j].role = rows[j].role /\ rows'[j].calls = rows[j].calls
                                /\ (rows[j].state # "open" => rows'[j].state # "open")
    BY <1>1, <1>3, <1>4, <1>5
  <2> QED
    BY <1>2, <1>6, <2>1 DEF Grown
<1>8. \A j \in UserRows' : j \notin UserRows => j = k
  BY <1>2, <1>3 DEF UserRows, Visible
<1>9. \A j \in 1..Len(rows) : j > k /\ rows[j].state # "open" => k \in late'
  BY <1>1, <1>2
<1>10. late \subseteq late'
  BY <1>1
<1> QED
  BY <1>1, <1>6, <1>7, <1>8, <1>9, <1>10 DEF RowsGrow

(* Rows stay known if the new ones are.                                      *)
LEMMA KnownGrown ==
  ASSUME LoopTypes, RowsKnown, RowsGrow,
         \A q \in Runs : pc[q] \notin {"idle", "posted"} => pc'[q] \notin {"idle", "posted"},
         \A k \in 1..Len(rows') : k \notin 1..Len(rows) =>
           /\ rows'[k].role = "user" => rows'[k].calls = {}
           /\ \A x \in rows'[k].calls : pc'[x[1]] \notin {"idle", "posted"}
  PROVE  RowsKnown'
<1>1. ASSUME NEW k \in 1..Len(rows')
      PROVE  /\ rows'[k].role = "user" => rows'[k].calls = {}
             /\ \A x \in rows'[k].calls : pc'[x[1]] \notin {"idle", "posted"}
  <2>1. CASE k \in 1..Len(rows)
    <3>1. rows'[k].role = rows[k].role /\ rows'[k].calls = rows[k].calls /\ rows[k] \in Rows
      BY <2>1 DEF RowsGrow, Grown
    <3>2. \A x \in rows[k].calls : x[1] \in Runs
      BY <3>1 DEF Rows, Calls
    <3> QED
      BY <2>1, <3>1, <3>2 DEF RowsKnown
  <2> QED
    BY <2>1
<1> QED
  BY <1>1 DEF RowsKnown

(* What a run has seen stays seen.                                           *)
LEMMA SeenKept ==
  ASSUME LoopTypes, RowsGrow, NEW r \in Runs, SeenStands(r), NothingMissed(r),
         seen'[r] = seen[r], given[r] \subseteq given'[r], passed[r] \subseteq passed'[r]
  PROVE  SeenStands(r)' /\ NothingMissed(r)'
<1>1. /\ Grown(rows, rows') /\ late \subseteq late' /\ Len(rows) \in Nat /\ Len(rows') \in Nat /\ Len(rows) <= Len(rows')
      /\ seen[r] \in Nat
  BY DEF RowsGrow, Grown, LoopTypes
<1>2. SeenStands(r)'
  BY <1>1 DEF SeenStands, Grown
<1>3. \A k \in UserRows' : k \in 1..Len(rows')
  BY <1>1 DEF UserRows, Visible, Grown
<1>4. ASSUME NEW k \in UserRows', k <= seen[r] PROVE k \in given'[r] \cup passed'[r] \cup late'
  <2>0. k \in 1..Len(rows')
    BY <1>3
  <2>1. CASE k \in UserRows
    BY <1>1, <1>4, <2>1 DEF NothingMissed
  <2>2. CASE k \notin UserRows
    <3>1. seen[r] # 0 /\ seen[r] \in 1..Len(rows) /\ rows[seen[r]].state # "open"
      BY <1>1, <1>4, <2>0 DEF SeenStands
    <3>2. k \in 1..Len(rows)
      BY <1>1, <1>4, <2>0, <3>1
    <3>3. /\ rows[k].state = "open"
          /\ \A j \in 1..Len(rows) : j > k /\ rows[j].state # "open" => k \in late'
      BY <2>2, <3>2 DEF RowsGrow
    <3>4. seen[r] # k
      BY <3>1, <3>3
    <3>5. seen[r] > k
      BY <1>1, <1>4, <3>2, <3>4
    <3> QED
      BY <3>1, <3>3, <3>5
  <2> QED
    BY <2>1, <2>2
<1> QED
  BY <1>2, <1>4 DEF NothingMissed

(* A run that reads rows has read or passed over those up to the last one.   *)
LEMMA SeenRaised ==
  ASSUME LoopTypes, rows' = rows, late' = late, NEW r \in Runs, SeenStands(r), NothingMissed(r),
         NEW S \in SUBSET Visible, seen'[r] = AtLeast(seen[r], S),
         given[r] \subseteq given'[r], passed[r] \subseteq passed'[r],
         \A k \in Later(seen[r]) : k <= seen'[r] => k \in given'[r] \cup passed'[r]
  PROVE  SeenStands(r)' /\ NothingMissed(r)' /\ seen[r] <= seen'[r] /\ seen'[r] \in Nat
<1>1. /\ rows \in Seq(Rows) /\ seen[r] \in Nat /\ DOMAIN rows = 1..Len(rows) /\ Len(rows) \in Nat
      /\ S \in SUBSET (1..Len(rows))
  BY DEF LoopTypes, Visible
<1>2. /\ AtLeast(seen[r], S) \in Nat /\ seen[r] <= AtLeast(seen[r], S)
      /\ AtLeast(seen[r], S) = seen[r] \/ AtLeast(seen[r], S) \in S
  BY <1>1, AtLeastIs
<1>3. SeenStands(r)'
  <2>1. \A k \in S : k \in 1..Len(rows) /\ rows[k].state # "open"
    BY <1>1 DEF Visible
  <2> QED
    BY <1>2, <2>1 DEF SeenStands
<1>4. UserRows' = UserRows
  BY DEF UserRows, Visible
<1>5. \A k \in UserRows : k \in Nat
  BY <1>1 DEF UserRows, Visible
<1>6. ASSUME NEW k \in UserRows', k <= seen'[r] PROVE k \in given'[r] \cup passed'[r] \cup late'
  <2>1. k \in UserRows /\ k \in Nat
    BY <1>4, <1>5
  <2>2. CASE k <= seen[r]
    BY <2>1, <2>2 DEF NothingMissed
  <2>3. CASE ~(k <= seen[r])
    <3>1. k > seen[r]
      BY <1>1, <2>1, <2>3
    <3> QED
      BY <1>6, <2>1, <3>1 DEF Later
  <2> QED
    BY <2>2, <2>3
<1> QED
  BY <1>2, <1>3, <1>6 DEF NothingMissed

(* The runs that do not take the step.                                       *)
LEMMA OthersSound ==
  ASSUME LoopTypes, RowsGrow, scenario' = scenario, NEW q \in Runs, Sound(q),
         pc'[q] = pc[q], ctx'[q] = ctx[q], seen'[q] = seen[q], count'[q] = count[q], todo'[q] = todo[q],
         pending'[q] = pending[q], given'[q] = given[q], passed'[q] = passed[q]
  PROVE  Sound(q)'
<1>1. SeenStands(q)' /\ NothingMissed(q)'
  BY SeenKept DEF Sound
<1>2. Fits(ctx'[q], rows', seen'[q])
  <2>1. ctx[q] \in Seq(Msgs) /\ seen[q] \in Nat /\ seen[q] <= seen[q] /\ Fits(ctx[q], rows, seen[q])
    BY DEF LoopTypes, Sound
  <2>2. Grown(rows, rows')
    BY DEF RowsGrow
  <2> QED
    BY <2>1, <2>2, FitsGrown
<1>3. Blocks(q)'
  <2>1. Blocks(q) /\ Open(q)' = Open(q) /\ mode(q)' = mode(q)
    BY DEF Sound, Open, mode
  <2> QED
    BY <2>1 DEF Blocks
<1>4. Cut(q)'
  BY DEF Sound, Cut
<1> QED
  BY <1>1, <1>2, <1>3, <1>4 DEF Sound

-----------------------------------------------------------------------------
(* A step leaves a run alone.                                                *)
LeftAlone(q) ==
  /\ pc'[q] = pc[q] /\ ctx'[q] = ctx[q] /\ seen'[q] = seen[q]
  /\ count'[q] = count[q] /\ todo'[q] = todo[q] /\ pending'[q] = pending[q]
  /\ given'[q] = given[q] /\ passed'[q] = passed[q]

(* The rows a step adds are known.                                           *)
NewRows ==
  \A k \in 1..Len(rows') : k \notin 1..Len(rows) =>
    /\ rows'[k].role = "user" => rows'[k].calls = {}
    /\ \A x \in rows'[k].calls : pc'[x[1]] \notin {"idle", "posted"}

(* A step keeps the invariant if it does so for the runs it moves.           *)
LEMMA StepSound ==
  ASSUME LoopInv, LoopTypes', RowsGrow, NewRows, scenario' = scenario,
         NEW moved \in SUBSET Runs, \A q \in Runs \ moved : LeftAlone(q),
         \A q \in moved : (pc[q] \notin {"idle", "posted"} => pc'[q] \notin {"idle", "posted"})
                          /\ (Active(q)' => Sound(q)')
  PROVE  LoopInv'
<1>1. LoopTypes /\ RowsKnown /\ \A q \in Runs : Active(q) => Sound(q)
  BY DEF LoopInv
<1>2. ASSUME NEW q \in Runs, Active(q)' PROVE Sound(q)'
  <2>1. CASE q \in moved
    BY <1>2, <2>1
  <2>2. CASE q \notin moved
    <3>1. LeftAlone(q)
      BY <2>2
    <3>2. Active(q)
      BY <1>2, <3>1 DEF Active, LeftAlone
    <3> QED
      BY <1>1, <3>1, <3>2, OthersSound DEF LeftAlone
  <2> QED
    BY <2>1, <2>2
<1>3. \A q \in Runs : pc[q] \notin {"idle", "posted"} => pc'[q] \notin {"idle", "posted"}
  BY DEF LeftAlone
<1>4. RowsKnown'
  BY <1>1, <1>3, KnownGrown DEF NewRows
<1> QED
  BY <1>2, <1>4 DEF LoopInv

(* A step may add no row,                                                    *)
LEMMA NoNewRows ==
  ASSUME LoopTypes, Len(rows') = Len(rows)
  PROVE  NewRows
BY DEF NewRows, LoopTypes

(* or one that is known.                                                     *)
LEMMA OneNewRow ==
  ASSUME LoopTypes, NEW row \in Rows, rows' = Append(rows, row),
         row.role = "user" => row.calls = {},
         \A x \in row.calls : pc'[x[1]] \notin {"idle", "posted"}
  PROVE  NewRows
<1>1. /\ Len(rows) \in Nat /\ Len(rows') = Len(rows) + 1 /\ rows'[Len(rows) + 1] = row
  BY DEF LoopTypes
<1>2. \A k \in 1..Len(rows') : k \notin 1..Len(rows) => k = Len(rows) + 1
  BY <1>1
<1> QED
  BY <1>1, <1>2 DEF NewRows

(* What is inserted is a row.                                                *)
LEMMA RowsAre ==
  \A role \in Roles, calls \in SUBSET Calls :
    Row(role, calls) \in Rows /\ Row(role, calls).role = role /\ Row(role, calls).calls = calls
BY DEF Row, Rows

-----------------------------------------------------------------------------
(* Runs start and end.                                                       *)
LEMMA StartKeeps ==
  ASSUME LoopInv, NEW r \in Runs, Start(r)
  PROVE  LoopInv'
<1>1. LoopTypes /\ rows \in Seq(Rows) /\ pc \in [Runs -> Places]
  BY DEF LoopInv, LoopTypes
<1>2. rows' = Append(rows, Row("user", {})) /\ late' = late /\ pc' = [pc EXCEPT ![r] = "posted"]
  BY DEF Start, Persist, Goto
<1>3. Row("user", {}) \in Rows /\ Row("user", {}).role = "user" /\ Row("user", {}).calls = {}
  BY RowsAre DEF Roles
<1>4. RowsGrow
  BY <1>1, <1>2, <1>3, GrowOne
<1>5. LoopTypes'
  <2>1. rows' \in Seq(Rows)
    BY <1>4 DEF RowsGrow, Grown
  <2>2. pc' \in [Runs -> Places]
    BY <1>1, <1>2 DEF Places
  <2> QED
    BY <1>1, <2>1, <2>2 DEF LoopTypes, Start, loop, env
<1>6. NewRows
  BY <1>1, <1>2, <1>3, OneNewRow
<1>7. pc[r] = "idle" /\ pc'[r] = "posted"
  BY <1>1, <1>2 DEF Start
<1>8. \A q \in Runs \ {r} : LeftAlone(q)
  BY <1>1, <1>2 DEF LeftAlone, Start, loop
<1>9. scenario' = scenario /\ {r} \in SUBSET Runs
  BY DEF Start
<1> QED
  BY <1>4, <1>5, <1>6, <1>7, <1>8, <1>9, StepSound DEF Active

(* A run ends, and may leave its answer.                                     *)
LEMMA EndKeeps ==
  ASSUME LoopInv, NEW r \in Runs, EndRun(r), scenario' = scenario, late' = late,
         rows' = rows \/ rows' = Append(rows, Row("assistant", {}))
  PROVE  LoopInv'
<1>1. /\ LoopTypes /\ rows \in Seq(Rows) /\ pc \in [Runs -> Places] /\ ctx \in [Runs -> Seq(Msgs)]
      /\ seen \in [Runs -> Nat] /\ count \in [Runs -> Nat] /\ todo \in [Runs -> Nat]
      /\ pending \in [Runs -> [how : Hows, end : Nat]]
      /\ given \in [Runs -> SUBSET Nat] /\ passed \in [Runs -> SUBSET Nat]
  BY DEF LoopInv, LoopTypes
<1>2. pc'[r] = "done"
  BY <1>1 DEF EndRun, Goto
<1>3. Row("assistant", {}) \in Rows /\ Row("assistant", {}).role = "assistant" /\ Row("assistant", {}).calls = {}
  BY RowsAre DEF Roles
<1>4. RowsGrow /\ NewRows
  <2>1. CASE rows' = rows
    BY <1>1, <2>1, GrowSame, NoNewRows
  <2>2. CASE rows' = Append(rows, Row("assistant", {}))
    <3>1. RowsGrow
      BY <1>1, <1>3, <2>2, GrowOne
    <3>2. NewRows
      BY <1>1, <1>3, <2>2, OneNewRow
    <3> QED
      BY <3>1, <3>2
  <2> QED
    BY <2>1, <2>2
<1>5. LoopTypes'
  <2>1. rows' \in Seq(Rows) /\ scenario' \in Scenarios
    BY <1>1, <1>4 DEF RowsGrow, Grown, LoopTypes
  <2>2. pc' \in [Runs -> Places] /\ <<>> \in Seq(Msgs) /\ NoCompaction \in [how : Hows, end : Nat]
    <3>1. pc' \in [Runs -> Places]
      BY <1>1 DEF EndRun, Goto, Places
    <3>2. NoCompaction \in [how : Hows, end : Nat]
      BY DEF NoCompaction, Hows
    <3>3. <<>> \in Seq(Msgs)
      OBVIOUS
    <3> QED
      BY <3>1, <3>2, <3>3
  <2>3. /\ ctx' \in [Runs -> Seq(Msgs)] /\ seen' \in [Runs -> Nat] /\ count' \in [Runs -> Nat]
        /\ todo' \in [Runs -> Nat] /\ pending' \in [Runs -> [how : Hows, end : Nat]]
        /\ given' \in [Runs -> SUBSET Nat] /\ passed' \in [Runs -> SUBSET Nat]
    BY <1>1, <2>2 DEF EndRun
  <2> QED
    BY <2>1, <2>2, <2>3 DEF LoopTypes
<1>6. \A q \in Runs \ {r} : LeftAlone(q)
  BY <1>1 DEF LeftAlone, EndRun, Goto
<1>7. {r} \in SUBSET Runs
  OBVIOUS
<1> QED
  BY <1>2, <1>4, <1>5, <1>6, <1>7, StepSound DEF Active

-----------------------------------------------------------------------------
(* The user's queued messages.                                               *)
LEMMA QueueKeeps ==
  ASSUME LoopInv, QueueInsert \/ QueueCommit
  PROVE  LoopInv'
<1>1. LoopTypes /\ rows \in Seq(Rows)
  BY DEF LoopInv, LoopTypes
<1>2. RowsGrow /\ NewRows
  <2>1. CASE QueueInsert
    <3> DEFINE row == [Row("user", {}) EXCEPT !.state = "open"]
    <3>1. row \in Rows /\ row.role = "user" /\ row.calls = {}
      BY DEF Row, Rows, Roles
    <3>2. rows' = Append(rows, row) /\ late' = late
      BY <2>1 DEF QueueInsert, Persist
    <3> HIDE DEF row
    <3>3. RowsGrow
      BY <1>1, <3>1, <3>2, GrowOne
    <3>4. NewRows
      BY <1>1, <3>1, <3>2, OneNewRow
    <3> QED
      BY <3>3, <3>4
  <2>2. CASE QueueCommit
    BY <1>1, <2>2, GrowCommitted, NoNewRows
  <2> QED
    BY <2>1, <2>2
<1>3. UNCHANGED <<scenario, pc, ctx, seen, loop, pending, given, passed>>
  BY DEF QueueInsert, QueueCommit
<1>4. LoopTypes'
  <2>1. rows' \in Seq(Rows)
    BY <1>2 DEF RowsGrow, Grown
  <2> QED
    BY <1>1, <1>3, <2>1 DEF LoopTypes, loop
<1>5. \A q \in Runs \ {} : LeftAlone(q)
  BY <1>3 DEF LeftAlone, loop
<1>6. {} \in SUBSET Runs /\ scenario' = scenario /\ \A q \in {} : FALSE
  BY <1>3
<1> QED
  BY <1>2, <1>4, <1>5, <1>6, StepSound

(* Messages of a set of visible rows, as far as n.                           *)
LEMMA MessagesFit ==
  ASSUME LoopTypes, NEW S \in SUBSET Visible, NEW n \in Nat,
         \A k \in S : rows[k].role = "user" => k <= n
  PROVE  /\ Messages(S) \in Seq(Msgs) /\ Once(Messages(S))
         /\ \A i \in 1..Len(Messages(S)) : OfRow(Messages(S)[i], rows, n)
<1>1. rows \in Seq(Rows) /\ DOMAIN rows = 1..Len(rows) /\ S \in SUBSET (1..Len(rows))
  BY DEF LoopTypes, Visible
<1>2. /\ Messages(S) \in Seq(Msgs) /\ Once(Messages(S))
      /\ \A i \in 1..Len(Messages(S)) : \E k \in S : Messages(S)[i] = Message(k)
  BY <1>1, MessagesAre
<1>3. \A k \in S : OfRow(Message(k), rows, n)
  BY <1>1 DEF OfRow, Message
<1> QED
  BY <1>2, <1>3

-----------------------------------------------------------------------------
(* The context that a run starts with.                                       *)
Prompt == <<Note("system")>> \o (IF memory THEN <<Note("memory")>> ELSE <<>>)
Whole  == Prompt \o Messages(Visible)

(* The prompt has no rows,                                                   *)
LEMMA PromptFits ==
  ASSUME NEW n, NEW table
  PROVE  Prompt \in Seq(Msgs) /\ Fits(Prompt, table, n) /\ \A i \in 1..Len(Prompt) : Prompt[i].row = 0 /\ Prompt[i].calls = {}
<1>1. /\ Note("system") \in Msgs /\ Note("system").row = 0 /\ Note("system").calls = {} /\ Note("system").role = "system"
      /\ Note("memory") \in Msgs /\ Note("memory").row = 0 /\ Note("memory").calls = {}
  BY NotesAre DEF Roles
<1> DEFINE s == Note("system")   m == Note("memory")
<1>2. Prompt = <<s>> \o <<m>> \/ Prompt = <<s>> \o <<>>
  BY DEF Prompt
<1> HIDE DEF s, m
<1>3. /\ s \in Msgs /\ s.row = 0 /\ s.calls = {} /\ s.role = "system" /\ m \in Msgs /\ m.row = 0 /\ m.calls = {}
  BY <1>1 DEF s, m
<1>a. <<s>> \in Seq(Msgs) /\ Len(<<s>>) = 1 /\ <<s>>[1] = s /\ <<m>> \in Seq(Msgs) /\ Len(<<m>>) = 1 /\ <<m>>[1] = m
  BY <1>3
<1>4. Prompt \in Seq(Msgs) /\ Len(Prompt) >= 1 /\ Prompt[1] = s
  <2>1. CASE Prompt = <<s>> \o <<m>>
    BY <1>a, <2>1
  <2>2. CASE Prompt = <<s>> \o <<>>
    BY <1>a, <2>2
  <2> QED
    BY <1>2, <2>1, <2>2
<1>5. \A i \in 1..Len(Prompt) : Prompt[i].row = 0 /\ Prompt[i].calls = {}
  BY <1>2, <1>3
<1> HIDE DEF Prompt
<1>6. Fits(Prompt, table, n)
  BY <1>3, <1>4, <1>5 DEF Fits, SystemFirst, Once, OfRow
<1> QED
  BY <1>4, <1>5, <1>6

(* the context read from the thread fits it and has no call of the new run.  *)
LEMMA WholeFits ==
  ASSUME LoopTypes, RowsKnown, NEW r \in Runs, pc[r] = "posted"
  PROVE  /\ Whole \in Seq(Msgs) /\ Fits(Whole, rows, AtLeast(0, Visible))
         /\ Paired(Whole, r)
<1> DEFINE e == Messages(Visible)   n == AtLeast(0, Visible)
<1>1. rows \in Seq(Rows) /\ DOMAIN rows = 1..Len(rows) /\ Len(rows) \in Nat /\ Visible \in SUBSET (1..Len(rows))
  BY DEF LoopTypes, Visible
<1>2. n \in Nat /\ \A k \in Visible : k <= n
  <2>1. 0 \in Nat
    OBVIOUS
  <2> QED
    BY <1>1, <2>1, AtLeastIs
<1> HIDE DEF n
<1>3. /\ e \in Seq(Msgs) /\ Once(e)
      /\ \A i \in 1..Len(e) : OfRow(e[i], rows, n)
  BY <1>2, MessagesFit
<1>4. \A i \in 1..Len(e) : \E k \in Visible : e[i] = Message(k)
  BY <1>1, MessagesAre
<1> HIDE DEF e
<1>5. Prompt \in Seq(Msgs) /\ Fits(Prompt, rows, n) /\ \A i \in 1..Len(Prompt) : Prompt[i].row = 0 /\ Prompt[i].calls = {}
  BY PromptFits
<1>6. Fits(Prompt \o e, rows, n) /\ Prompt \o e \in Seq(Msgs)
  BY <1>3, <1>5, FitsMany
<1>7. ASSUME NEW i \in 1..Len(e), NEW x \in e[i].calls PROVE x[1] # r
  <2>1. PICK k \in Visible : e[i] = Message(k)
    BY <1>4
  <2>2. k \in 1..Len(rows) /\ e[i].calls = rows[k].calls
    BY <1>1, <2>1 DEF Message
  <2> QED
    BY <1>7, <2>2 DEF RowsKnown
<1>8. Paired(Prompt \o e, r)
  <2>1. /\ Len(Prompt \o e) = Len(Prompt) + Len(e) /\ Len(Prompt) \in Nat /\ Len(e) \in Nat
        /\ \A i \in 1..Len(e) : (Prompt \o e)[Len(Prompt) + i] = e[i]
    BY <1>3, <1>5, LongerMany
  <2>2. \A i \in 1..Len(Prompt) : (Prompt \o e)[i] = Prompt[i]
    BY <1>3, <1>5, LongerMany DEF Longer
  <2>3. ASSUME NEW i \in 1..Len(Prompt \o e) PROVE ~Asks(Prompt \o e, i, r)
    <3>1. CASE i <= Len(Prompt)
      <4>1. i \in 1..Len(Prompt)
        BY <2>1, <3>1
      <4> QED
        BY <1>5, <2>2, <4>1 DEF Asks
    <3>2. CASE ~(i <= Len(Prompt))
      <4>1. i - Len(Prompt) \in 1..Len(e) /\ Len(Prompt) + (i - Len(Prompt)) = i
        BY <2>1, <3>2
      <4>2. (Prompt \o e)[i] = e[i - Len(Prompt)]
        BY <2>1, <4>1
      <4> QED
        BY <1>7, <4>1, <4>2 DEF Asks
    <3> QED
      BY <3>1, <3>2
  <2> QED
    BY <2>3 DEF Paired, PairedAt
<1> QED
  BY <1>6, <1>8 DEF Whole, e, n

(* The start of a run.                                                       *)
LEMMA LoadKeeps ==
  ASSUME LoopInv, NEW r \in Runs, Load(r)
  PROVE  LoopInv'
<1>1. /\ LoopTypes /\ RowsKnown /\ rows \in Seq(Rows) /\ pc \in [Runs -> Places] /\ ctx \in [Runs -> Seq(Msgs)]
      /\ seen \in [Runs -> Nat] /\ given \in [Runs -> SUBSET Nat] /\ pc[r] = "posted"
      /\ DOMAIN rows = 1..Len(rows) /\ Len(rows) \in Nat
  BY DEF LoopInv, LoopTypes, Load
<1>2. /\ rows' = rows /\ late' = late /\ scenario' = scenario
      /\ seen' = [seen EXCEPT ![r] = AtLeast(0, Visible)] /\ given' = [given EXCEPT ![r] = UserRows]
      /\ UNCHANGED <<count, todo, pending, passed>>
  BY DEF Load, loop
<1>3. \E c : /\ ctx' = [ctx EXCEPT ![r] = c]
             /\ \/ mode(r) = "cwc" /\ c \in CwcOptimize(Whole)
                \/ c = Whole
  BY DEF Load, Whole, Prompt
<1>4. PICK c : /\ ctx' = [ctx EXCEPT ![r] = c]
               /\ \/ mode(r) = "cwc" /\ c \in CwcOptimize(Whole)
                  \/ c = Whole
  BY <1>3
<1>5. \E w \in {"poll", "compact"} : pc' = [pc EXCEPT ![r] = w]
  BY DEF Load, Goto
<1> DEFINE n == AtLeast(0, Visible)
<1>6. n \in Nat /\ (n = 0 \/ n \in Visible) /\ \A k \in Visible : k <= n
  <2>1. 0 \in Nat /\ Visible \in SUBSET (1..Len(rows))
    BY <1>1 DEF Visible
  <2> QED
    BY <1>1, <2>1, AtLeastIs
<1> HIDE DEF n
<1>7. Whole \in Seq(Msgs) /\ Fits(Whole, rows, n) /\ Paired(Whole, r)
  BY <1>1, WholeFits DEF n
<1>8. c \in Seq(Msgs) /\ Fits(c, rows, n) /\ (mode(r) # "cwc" => Paired(c, r))
  BY <1>4, <1>7, CwcDrawn
<1>9. UserRows \in SUBSET Nat
  BY <1>1 DEF UserRows, Visible
<1>10. LoopTypes'
  <2>1. pc' \in [Runs -> Places]
    BY <1>1, <1>5 DEF Places
  <2>2. ctx' \in [Runs -> Seq(Msgs)]
    BY <1>1, <1>4, <1>8
  <2>3. seen' \in [Runs -> Nat] /\ given' \in [Runs -> SUBSET Nat]
    BY <1>1, <1>2, <1>6, <1>9 DEF n
  <2> QED
    BY <1>1, <1>2, <2>1, <2>2, <2>3 DEF LoopTypes
<1>11. RowsGrow /\ NewRows
  BY <1>1, <1>2, GrowSame, NoNewRows
<1>12. pc'[r] \in {"poll", "compact"} /\ ctx'[r] = c /\ seen'[r] = n /\ given'[r] = UserRows
  BY <1>1, <1>2, <1>4, <1>5 DEF n
<1>13. Sound(r)'
  <2>1. Fits(ctx'[r], rows', seen'[r])
    BY <1>2, <1>8, <1>12
  <2>2. SeenStands(r)'
    BY <1>1, <1>2, <1>6, <1>12 DEF SeenStands, Visible
  <2>3. NothingMissed(r)'
    BY <1>2, <1>12 DEF NothingMissed, UserRows, Visible
  <2>4. Blocks(r)'
    BY <1>2, <1>8, <1>12 DEF Blocks, mode
  <2>5. Cut(r)'
    BY <1>12 DEF Cut
  <2> QED
    BY <2>1, <2>2, <2>3, <2>4, <2>5 DEF Sound
<1>14. \A q \in Runs \ {r} : LeftAlone(q)
  BY <1>1, <1>2, <1>4, <1>5 DEF LeftAlone
<1>15. {r} \in SUBSET Runs
  OBVIOUS
<1> QED
  BY <1>2, <1>10, <1>11, <1>12, <1>13, <1>14, <1>15, StepSound

(* A step of one run keeps the invariant if that run stays sound.            *)
LEMMA RunStepSound ==
  ASSUME LoopInv, LoopTypes', RowsGrow, NewRows, scenario' = scenario,
         NEW r \in Runs, \A q \in Runs \ {r} : LeftAlone(q), pc'[r] \notin {"idle", "posted"},
         Fits(ctx'[r], rows', seen'[r]), SeenStands(r)', NothingMissed(r)', Blocks(r)', Cut(r)'
  PROVE  LoopInv'
<1>1. Sound(r)' /\ {r} \in SUBSET Runs
  BY DEF Sound
<1> QED
  BY <1>1, StepSound

-----------------------------------------------------------------------------
(* What a run has seen, after a step of it that leaves the thread alone.     *)
Raised(r) ==
  /\ seen' \in [Runs -> Nat] /\ given' \in [Runs -> SUBSET Nat] /\ passed' \in [Runs -> SUBSET Nat]
  /\ \A q \in Runs \ {r} : seen'[q] = seen[q] /\ given'[q] = given[q] /\ passed'[q] = passed[q]
  /\ seen[r] <= seen'[r] /\ SeenStands(r)' /\ NothingMissed(r)'

(* The run may have seen no more,                                            *)
LEMMA RaisedSame ==
  ASSUME LoopTypes, NEW r \in Runs, SeenStands(r), NothingMissed(r), rows' = rows, late' = late,
         UNCHANGED <<seen, given, passed>>
  PROVE  Raised(r)
<1>1. RowsGrow
  BY GrowSame DEF LoopTypes
<1>2. SeenStands(r)' /\ NothingMissed(r)'
  BY <1>1, SeenKept
<1>3. seen[r] \in Nat /\ seen[r] <= seen[r]
  BY DEF LoopTypes
<1> QED
  BY <1>2, <1>3 DEF Raised, LoopTypes

(* have read the thread again, passing over rows,                            *)
LEMMA RaisedReread ==
  ASSUME LoopTypes, NEW r \in Runs, SeenStands(r), NothingMissed(r), rows' = rows, late' = late,
         Reread(r), given' = given
  PROVE  Raised(r)
<1>1. /\ rows \in Seq(Rows) /\ seen \in [Runs -> Nat] /\ given \in [Runs -> SUBSET Nat] /\ passed \in [Runs -> SUBSET Nat]
      /\ DOMAIN rows = 1..Len(rows)
  BY DEF LoopTypes
<1>2. /\ seen' = [seen EXCEPT ![r] = AtLeast(seen[r], Visible)]
      /\ passed' = [passed EXCEPT ![r] = passed[r] \cup (Later(seen[r]) \ given[r])]
  BY DEF Reread
<1>3. seen'[r] = AtLeast(seen[r], Visible) /\ passed'[r] = passed[r] \cup (Later(seen[r]) \ given[r]) /\ given'[r] = given[r]
  BY <1>1, <1>2
<1>4. Visible \in SUBSET Visible
  OBVIOUS
<1>5. SeenStands(r)' /\ NothingMissed(r)' /\ seen[r] <= seen'[r] /\ seen'[r] \in Nat
  BY <1>3, <1>4, SeenRaised
<1>6. Later(seen[r]) \in SUBSET Nat
  BY <1>1 DEF Later, UserRows, Visible
<1>7. seen' \in [Runs -> Nat] /\ given' \in [Runs -> SUBSET Nat] /\ passed' \in [Runs -> SUBSET Nat]
  <2>1. seen' \in [Runs -> Nat]
    BY <1>1, <1>2, <1>3, <1>5
  <2>2. passed' \in [Runs -> SUBSET Nat]
    BY <1>1, <1>2, <1>6
  <2> QED
    BY <1>1, <2>1, <2>2
<1> QED
  BY <1>1, <1>2, <1>5, <1>7 DEF Raised

(* or have polled, taking them into its context.                             *)
LEMMA RaisedPoll ==
  ASSUME LoopTypes, NEW r \in Runs, SeenStands(r), NothingMissed(r), rows' = rows, late' = late,
         seen' = [seen EXCEPT ![r] = AtLeast(seen[r], Later(seen[r]))],
         given' = [given EXCEPT ![r] = given[r] \cup Later(seen[r])], passed' = passed
  PROVE  Raised(r)
<1>1. /\ rows \in Seq(Rows) /\ seen \in [Runs -> Nat] /\ given \in [Runs -> SUBSET Nat] /\ passed \in [Runs -> SUBSET Nat]
      /\ DOMAIN rows = 1..Len(rows)
  BY DEF LoopTypes
<1>2. seen'[r] = AtLeast(seen[r], Later(seen[r])) /\ given'[r] = given[r] \cup Later(seen[r]) /\ passed'[r] = passed[r]
  BY <1>1
<1>3. Later(seen[r]) \in SUBSET Visible
  BY DEF Later, UserRows
<1>4. SeenStands(r)' /\ NothingMissed(r)' /\ seen[r] <= seen'[r] /\ seen'[r] \in Nat
  BY <1>2, <1>3, SeenRaised
<1>5. Later(seen[r]) \in SUBSET Nat
  BY <1>1 DEF Later, UserRows, Visible
<1>6. seen' \in [Runs -> Nat] /\ given' \in [Runs -> SUBSET Nat]
  <2>1. seen' \in [Runs -> Nat]
    BY <1>1, <1>2, <1>4
  <2>2. given' \in [Runs -> SUBSET Nat]
    BY <1>1, <1>5
  <2> QED
    BY <2>1, <2>2
<1> QED
  BY <1>1, <1>4, <1>6 DEF Raised

(* A step that leaves the thread alone and no call open.                     *)
Between == {"poll", "compact", "window", "check", "fallback", "call"}

(* A step that leaves the thread alone and brings the run to where it has no *)
(* open calls.                                                               *)
LEMMA QuietKeeps ==
  ASSUME LoopInv, NEW r \in Runs, rows' = rows, late' = late, scenario' = scenario,
         NEW w \in Between, pc' = [pc EXCEPT ![r] = w],
         NEW c \in Seq(Msgs), ctx' = [ctx EXCEPT ![r] = c], Fits(c, rows, seen'[r]),
         mode(r) # "cwc" => Paired(c, r),
         count' = count, todo' = todo, Raised(r),
         pending' = pending \/ pending' = [pending EXCEPT ![r] = NoCompaction]
  PROVE  LoopInv'
<1>1. /\ LoopTypes /\ rows \in Seq(Rows) /\ pc \in [Runs -> Places] /\ ctx \in [Runs -> Seq(Msgs)]
      /\ pending \in [Runs -> [how : Hows, end : Nat]]
  BY DEF LoopInv, LoopTypes
<1>2. RowsGrow /\ NewRows
  BY <1>1, GrowSame, NoNewRows
<1>3. LoopTypes'
  <2>1. pc' \in [Runs -> Places]
    BY <1>1 DEF Between, Places
  <2>2. ctx' \in [Runs -> Seq(Msgs)]
    BY <1>1
  <2>3. NoCompaction \in [how : Hows, end : Nat]
    BY DEF NoCompaction, Hows
  <2>4. pending' \in [Runs -> [how : Hows, end : Nat]]
    BY <1>1, <2>3
  <2> QED
    BY <1>1, <2>1, <2>2, <2>4 DEF LoopTypes, Raised
<1>4. pc'[r] = w /\ ctx'[r] = c
  BY <1>1
<1>5. \A q \in Runs \ {r} : LeftAlone(q)
  BY <1>1 DEF LeftAlone, Raised
<1>6. Blocks(r)' /\ Cut(r)'
  BY <1>4 DEF Blocks, Cut, Between, mode
<1>7. Fits(ctx'[r], rows', seen'[r]) /\ SeenStands(r)' /\ NothingMissed(r)'
  BY <1>4 DEF Raised
<1>8. pc'[r] \notin {"idle", "posted"}
  BY <1>4 DEF Between
<1> QED
  BY <1>2, <1>3, <1>5, <1>6, <1>7, <1>8, RunStepSound

(* What holds of a run between its requests.                                 *)
LEMMA BetweenFacts ==
  ASSUME LoopInv, NEW r \in Runs, Active(r), pc[r] = "tools" => todo[r] = 0
  PROVE  /\ LoopTypes /\ SeenStands(r) /\ NothingMissed(r) /\ Fits(ctx[r], rows, seen[r])
         /\ ctx[r] \in Seq(Msgs) /\ seen[r] \in Nat /\ rows \in Seq(Rows)
         /\ ctx' = ctx => ctx' = [ctx EXCEPT ![r] = ctx[r]]
         /\ mode(r) # "cwc" => Paired(ctx[r], r)
<1>1. LoopTypes /\ Sound(r)
  BY DEF LoopInv
<1>2. mode(r) # "cwc" => Paired(ctx[r], r)
  BY <1>1 DEF LoopTypes, Sound, Blocks
<1>3. ctx' = ctx => ctx' = [ctx EXCEPT ![r] = ctx[r]]
  BY <1>1 DEF LoopTypes
<1> QED
  BY <1>1, <1>2, <1>3 DEF LoopTypes, Sound

(* Seeing more is no harm to what fits.                                      *)
LEMMA FitsSame ==
  ASSUME NEW c \in Seq(Msgs), NEW n \in Nat, NEW m \in Nat, n <= m, rows \in Seq(Rows), Fits(c, rows, n)
  PROVE  Fits(c, rows, m)
<1>1. Grown(rows, rows)
  BY DEF Grown
<1> QED
  BY <1>1, FitsGrown

-----------------------------------------------------------------------------
(* The size is checked after the window,                                     *)
LEMMA AfterWindowKeeps ==
  ASSUME LoopInv, NEW r \in Runs, AfterWindow(r)
  PROVE  LoopInv'
<1>0. Active(r) /\ pc[r] # "tools"
  BY DEF AfterWindow, Active
<1>1. /\ LoopTypes /\ SeenStands(r) /\ NothingMissed(r) /\ Fits(ctx[r], rows, seen[r])
      /\ ctx[r] \in Seq(Msgs) /\ seen[r] \in Nat /\ rows \in Seq(Rows)
      /\ ctx' = ctx => ctx' = [ctx EXCEPT ![r] = ctx[r]]
      /\ mode(r) # "cwc" => Paired(ctx[r], r)
  BY <1>0, BetweenFacts
<1>2. /\ rows' = rows /\ late' = late /\ scenario' = scenario /\ ctx' = ctx /\ count' = count /\ todo' = todo
      /\ pending' = pending /\ given' = given
  BY DEF AfterWindow, thread, loop
<1>3. Raised(r) /\ \E w \in Between : pc' = [pc EXCEPT ![r] = w]
  <2>1. CASE Goto(r, "poll") /\ UNCHANGED <<hist, seen, passed>>
    BY <1>1, <1>2, <2>1, RaisedSame DEF Goto, Between
  <2>2. CASE Goto(r, "compact") /\ Reread(r)
    BY <1>1, <1>2, <2>2, RaisedReread DEF Goto, Between
  <2> QED
    BY <2>1, <2>2 DEF AfterWindow, CheckSize
<1>4. Fits(ctx[r], rows, seen'[r])
  BY <1>1, <1>3, FitsSame DEF Raised
<1> QED
  BY <1>1, <1>2, <1>3, <1>4, QuietKeeps

(* or after the tool calls.                                                  *)
LEMMA AfterToolsKeeps ==
  ASSUME LoopInv, NEW r \in Runs, AfterTools(r)
  PROVE  LoopInv'
<1>0. Active(r) /\ todo[r] = 0
  BY DEF AfterTools, Active
<1>1. /\ LoopTypes /\ SeenStands(r) /\ NothingMissed(r) /\ Fits(ctx[r], rows, seen[r])
      /\ ctx[r] \in Seq(Msgs) /\ seen[r] \in Nat /\ rows \in Seq(Rows)
      /\ ctx' = ctx => ctx' = [ctx EXCEPT ![r] = ctx[r]]
      /\ mode(r) # "cwc" => Paired(ctx[r], r)
  BY <1>0, BetweenFacts
<1>2. /\ rows' = rows /\ late' = late /\ scenario' = scenario /\ count' = count /\ todo' = todo
      /\ pending' = pending /\ given' = given
  BY DEF AfterTools, thread, loop
<1>3. CASE mode(r) = "cwc" /\ Goto(r, "poll") /\ UNCHANGED <<hist, seen, passed>>
           /\ \E c \in CwcOptimize(ctx[r]) : ctx' = [ctx EXCEPT ![r] = c]
  <2>1. PICK c \in CwcOptimize(ctx[r]) : ctx' = [ctx EXCEPT ![r] = c]
    BY <1>3
  <2>2. c \in Seq(Msgs) /\ Fits(c, rows, seen[r])
    BY <1>1, CwcDrawn
  <2>3. Raised(r) /\ seen'[r] = seen[r]
    BY <1>1, <1>2, <1>3, RaisedSame
  <2>4. "poll" \in Between /\ pc' = [pc EXCEPT ![r] = "poll"]
    BY <1>3 DEF Goto, Between
  <2> QED
    BY <1>2, <1>3, <2>1, <2>2, <2>3, <2>4, QuietKeeps
<1>4. CASE CheckSize(r) /\ ctx' = [ctx EXCEPT ![r] = Append(@, Note("nudge"))]
  <2> DEFINE c == Append(ctx[r], Note("nudge"))
  <2>1. Note("nudge") \in Msgs /\ Note("nudge").row = 0 /\ Note("nudge").calls = {} /\ Note("nudge").role = "nudge"
    BY NotesAre DEF Roles
  <2>2. Longer(ctx[r], c) /\ Len(c) = Len(ctx[r]) + 1 /\ c[Len(ctx[r]) + 1] = Note("nudge") /\ Len(ctx[r]) \in Nat
    BY <1>1, <2>1, LongerOne
  <2>3. mode(r) # "cwc" => Paired(c, r)
    <3>1. \A i \in Len(ctx[r]) + 1..Len(c) : c[i].role # "tool" /\ c[i].calls = {}
      <4> HIDE DEF c
      <4>1. \A i \in Len(ctx[r]) + 1..Len(c) : i = Len(ctx[r]) + 1
        BY <2>2
      <4> QED
        BY <2>1, <2>2, <4>1
    <3> QED
      BY <1>1, <2>2, <3>1, PairedWithNotes
  <2>4. OfRow(Note("nudge"), rows, seen[r])
    BY <2>1 DEF OfRow
  <2>5. Fits(c, rows, seen[r])
    BY <1>1, <2>1, <2>4, FitsOne
  <2>6. c \in Seq(Msgs)
    BY <2>2 DEF Longer
  <2>7. Raised(r) /\ \E w \in Between : pc' = [pc EXCEPT ![r] = w]
    <3>1. CASE Goto(r, "poll") /\ UNCHANGED <<hist, seen, passed>>
      BY <1>1, <1>2, <3>1, RaisedSame DEF Goto, Between
    <3>2. CASE Goto(r, "compact") /\ Reread(r)
      BY <1>1, <1>2, <3>2, RaisedReread DEF Goto, Between
    <3> QED
      BY <1>4, <3>1, <3>2 DEF CheckSize
  <2>8. Fits(c, rows, seen'[r])
    BY <1>1, <2>5, <2>6, <2>7, FitsSame DEF Raised
  <2>9. ctx' = [ctx EXCEPT ![r] = c]
    BY <1>4
  <2> HIDE DEF c
  <2> QED
    BY <1>2, <2>3, <2>6, <2>7, <2>8, <2>9, QuietKeeps
<1>5. CASE Goto(r, "window") /\ Reread(r) /\ UNCHANGED ctx
  <2>1. Raised(r)
    BY <1>1, <1>2, <1>5, RaisedReread
  <2>2. Fits(ctx[r], rows, seen'[r])
    BY <1>1, <2>1, FitsSame DEF Raised
  <2>3. "window" \in Between /\ pc' = [pc EXCEPT ![r] = "window"] /\ ctx' = [ctx EXCEPT ![r] = ctx[r]]
    BY <1>1, <1>5 DEF Goto, Between
  <2> QED
    BY <1>1, <1>2, <2>1, <2>2, <2>3, QuietKeeps
<1> QED
  BY <1>3, <1>4, <1>5 DEF AfterTools

(* However a compaction ends, the run goes on to a place without open calls. *)
LEMMA LeavesBetween ==
  \A r, how, done : Leave(r, how, done) \in Between
BY DEF Leave, Between

(* A compaction ends without one.                                            *)
LEMMA SkipKeeps ==
  ASSUME LoopInv, NEW r \in Runs, Skip(r) \/ CompactionFails(r)
  PROVE  LoopInv'
<1>0. Active(r) /\ pc[r] # "tools"
  BY DEF Skip, CompactionFails, Active, Compacting
<1>1. /\ LoopTypes /\ SeenStands(r) /\ NothingMissed(r) /\ Fits(ctx[r], rows, seen[r])
      /\ ctx[r] \in Seq(Msgs) /\ seen[r] \in Nat /\ rows \in Seq(Rows)
      /\ ctx' = ctx => ctx' = [ctx EXCEPT ![r] = ctx[r]]
      /\ mode(r) # "cwc" => Paired(ctx[r], r)
  BY <1>0, BetweenFacts
<1>2. /\ rows' = rows /\ late' = late /\ scenario' = scenario /\ ctx' = ctx /\ count' = count /\ todo' = todo
      /\ given' = given /\ UNCHANGED <<seen, passed>>
  BY DEF Skip, CompactionFails, thread, loop
<1>3. pending' = pending \/ pending' = [pending EXCEPT ![r] = NoCompaction]
  BY DEF Skip, CompactionFails
<1>4. \E w \in Between : pc' = [pc EXCEPT ![r] = w]
  BY LeavesBetween DEF Skip, CompactionFails, Goto
<1>5. Raised(r) /\ seen'[r] = seen[r]
  BY <1>1, <1>2, RaisedSame
<1> QED
  BY <1>1, <1>2, <1>3, <1>4, <1>5, QuietKeeps

(* Rows are marked: where the tail starts no group is cut.                   *)
LEMMA EndsUncut ==
  ASSUME NEW r \in Runs, ctx[r] \in Seq(Msgs), SystemFirst(ctx[r]), NEW end \in Ends(r)
  PROVE  end \in 2..Len(ctx[r]) /\ Uncut(ctx[r], end, r)
<1>1. CASE How(r) = "window"
  BY <1>1, TrimUncut DEF Ends
<1>2. CASE How(r) # "window"
  <2>1. CanCompact(ctx[r]) /\ end = Boundary(ctx[r])
    BY <1>2 DEF Ends
  <2> QED
    BY <2>1, BoundaryUncut
<1> QED
  BY <1>1, <1>2

-----------------------------------------------------------------------------
(* The compaction marks rows, and stays outside the run's groups.            *)
LEMMA MarkKeeps ==
  ASSUME LoopInv, NEW r \in Runs, Mark(r)
  PROVE  LoopInv'
<1>0. Active(r) /\ pc[r] # "tools"
  BY DEF Mark, Active, Compacting
<1>1. /\ LoopTypes /\ SeenStands(r) /\ NothingMissed(r) /\ Fits(ctx[r], rows, seen[r])
      /\ ctx[r] \in Seq(Msgs) /\ seen[r] \in Nat /\ rows \in Seq(Rows)
      /\ mode(r) # "cwc" => Paired(ctx[r], r)
      /\ pc \in [Runs -> Places] /\ pending \in [Runs -> [how : Hows, end : Nat]]
  BY <1>0, BetweenFacts DEF LoopTypes
<1>2. PICK end \in Ends(r) :
        /\ rows' = Marked(UpTo(end, hist[r]))
        /\ pending' = [pending EXCEPT ![r] = [how |-> How(r), end |-> end]]
  BY DEF Mark
<1>3. /\ late' = late /\ scenario' = scenario /\ ctx' = ctx /\ seen' = seen /\ count' = count /\ todo' = todo
      /\ given' = given /\ passed' = passed /\ pc' = [pc EXCEPT ![r] = "marked"]
  BY DEF Mark, loop, Goto
<1>4. end \in 2..Len(ctx[r]) /\ Uncut(ctx[r], end, r) /\ end \in Nat
  <2>1. SystemFirst(ctx[r]) /\ Len(ctx[r]) \in Nat
    BY <1>1 DEF Fits
  <2>2. end \in 2..Len(ctx[r]) /\ Uncut(ctx[r], end, r)
    BY <1>1, <2>1, EndsUncut
  <2> QED
    BY <2>1, <2>2
<1>5. RowsGrow /\ Len(rows') = Len(rows)
  BY <1>1, <1>2, <1>3, GrowMarked
<1>6. NewRows
  BY <1>1, <1>5, NoNewRows
<1>7. LoopTypes'
  <2>1. rows' \in Seq(Rows)
    BY <1>5 DEF RowsGrow, Grown
  <2>2. pc' \in [Runs -> Places]
    BY <1>1, <1>3 DEF Places
  <2>3. [how |-> How(r), end |-> end] \in [how : Hows, end : Nat]
    BY <1>4 DEF How, Hows
  <2>4. pending' \in [Runs -> [how : Hows, end : Nat]]
    BY <1>1, <1>2, <2>3
  <2> QED
    BY <1>1, <1>3, <2>1, <2>2, <2>4 DEF LoopTypes
<1>8. pc'[r] = "marked" /\ pending'[r].end = end
  BY <1>1, <1>2, <1>3
<1>9. \A q \in Runs \ {r} : LeftAlone(q)
  BY <1>1, <1>2, <1>3 DEF LeftAlone
<1>10. SeenStands(r)' /\ NothingMissed(r)'
  BY <1>1, <1>3, <1>5, SeenKept
<1>11. Fits(ctx'[r], rows', seen'[r])
  <2>1. Grown(rows, rows') /\ seen[r] <= seen[r]
    BY <1>1, <1>5 DEF RowsGrow
  <2> QED
    BY <1>1, <1>3, <2>1, FitsGrown
<1>12. Blocks(r)'
  BY <1>1, <1>3, <1>8 DEF Blocks, mode
<1>13. Cut(r)'
  BY <1>3, <1>4, <1>8 DEF Cut
<1>14. pc'[r] \notin {"idle", "posted"}
  BY <1>8
<1> QED
  BY <1>3, <1>5, <1>6, <1>7, <1>9, <1>10, <1>11, <1>12, <1>13, <1>14, RunStepSound

(* The context is rebuilt from what the summary leaves of it.                *)
LEMMA InsertSummaryKeeps ==
  ASSUME LoopInv, NEW r \in Runs, InsertSummary(r)
  PROVE  LoopInv'
<1>0. Active(r) /\ pc[r] # "tools" /\ pc[r] = "marked"
  BY DEF InsertSummary, Active
<1>1. /\ LoopTypes /\ SeenStands(r) /\ NothingMissed(r) /\ Fits(ctx[r], rows, seen[r])
      /\ ctx[r] \in Seq(Msgs) /\ seen[r] \in Nat /\ rows \in Seq(Rows)
      /\ mode(r) # "cwc" => Paired(ctx[r], r)
      /\ pc \in [Runs -> Places] /\ pending \in [Runs -> [how : Hows, end : Nat]]
      /\ ctx \in [Runs -> Seq(Msgs)]
  BY <1>0, BetweenFacts DEF LoopTypes
<1> DEFINE end == pending[r].end
           intro == IF pending[r].how = "summary"
                    THEN [role |-> "summary", calls |-> {}, row |-> Len(rows) + 1]
                    ELSE Note("memory")
           c == CutAt(ctx[r], intro, end)
<1>2. end \in 2..Len(ctx[r]) /\ Uncut(ctx[r], end, r) /\ SystemFirst(ctx[r])
  BY <1>0, <1>1 DEF LoopInv, Sound, Cut, Fits
<1>3. /\ rows' = Append(rows, Row("summary", {})) /\ ctx' = [ctx EXCEPT ![r] = c]
      /\ pending' = [pending EXCEPT ![r] = NoCompaction]
      /\ pc' = [pc EXCEPT ![r] = Leave(r, pending[r].how, TRUE)]
      /\ late' = late /\ scenario' = scenario /\ seen' = seen /\ count' = count /\ todo' = todo
      /\ given' = given /\ passed' = passed
  BY DEF InsertSummary, Persist, Goto, loop, CutAt
<1>4. Row("summary", {}) \in Rows /\ Row("summary", {}).role = "summary" /\ Row("summary", {}).calls = {}
  BY RowsAre DEF Roles
<1>5. /\ RowsGrow /\ Len(rows') = Len(rows) + 1 /\ rows'[Len(rows) + 1] = Row("summary", {})
      /\ Len(rows) \in Nat
  BY <1>1, <1>3, <1>4, GrowOne
<1>6. NewRows
  BY <1>1, <1>3, <1>4, OneNewRow
<1>7. /\ intro \in Msgs /\ intro.calls = {}
      /\ intro.row = 0 \/ (intro.row = Len(rows) + 1 /\ intro.role = "summary")
  <2>1. CASE pending[r].how = "summary"
    BY <1>5, <2>1 DEF Msgs, Roles
  <2>2. CASE pending[r].how # "summary"
    BY <2>2, NotesAre DEF Roles
  <2> QED
    BY <2>1, <2>2
<1> HIDE DEF intro, end
<1>8. Fits(ctx[r], rows', seen[r])
  <2>1. Grown(rows, rows') /\ seen[r] <= seen[r]
    BY <1>1, <1>5 DEF RowsGrow
  <2> QED
    BY <1>1, <2>1, FitsGrown
<1>9. OfRow(intro, rows', seen[r])
  BY <1>4, <1>5, <1>7 DEF OfRow
<1>10. intro.row # 0 => \A i \in 1..Len(ctx[r]) : ctx[r][i].row # intro.row
  <2>1. \A i \in 1..Len(ctx[r]) : ctx[r][i].row # 0 => ctx[r][i].row \in 1..Len(rows)
    BY <1>1 DEF Fits, OfRow
  <2> QED
    BY <1>5, <1>7, <2>1
<1>11. c \in Seq(Msgs) /\ Fits(c, rows', seen[r])
  BY <1>1, <1>2, <1>7, <1>8, <1>9, <1>10, CutFits
<1>12. mode(r) # "cwc" => Paired(c, r)
  BY <1>1, <1>2, <1>7, CutPaired
<1> HIDE DEF c
<1>13. Leave(r, pending[r].how, TRUE) \in Between
  BY LeavesBetween
<1>14. LoopTypes'
  <2>1. rows' \in Seq(Rows)
    BY <1>5 DEF RowsGrow, Grown
  <2>2. pc' \in [Runs -> Places]
    BY <1>1, <1>3, <1>13 DEF Places, Between
  <2>3. NoCompaction \in [how : Hows, end : Nat]
    BY DEF NoCompaction, Hows
  <2>4. pending' \in [Runs -> [how : Hows, end : Nat]]
    BY <1>1, <1>3, <2>3
  <2>5. ctx' \in [Runs -> Seq(Msgs)]
    BY <1>1, <1>3, <1>11
  <2> QED
    BY <1>1, <1>3, <2>1, <2>2, <2>4, <2>5 DEF LoopTypes
<1>15. pc'[r] \in Between /\ ctx'[r] = c
  BY <1>1, <1>3, <1>13
<1>16. \A q \in Runs \ {r} : LeftAlone(q)
  BY <1>1, <1>3 DEF LeftAlone
<1>17. SeenStands(r)' /\ NothingMissed(r)'
  BY <1>1, <1>3, <1>5, SeenKept
<1>18. Blocks(r)' /\ Cut(r)'
  BY <1>3, <1>12, <1>15 DEF Blocks, Cut, Between, mode
<1>19. Fits(ctx'[r], rows', seen'[r]) /\ pc'[r] \notin {"idle", "posted"}
  BY <1>3, <1>11, <1>15 DEF Between
<1> QED
  BY <1>3, <1>5, <1>6, <1>14, <1>16, <1>17, <1>18, <1>19, RunStepSound

(* The context of a request, tidied if the model is local.                   *)
LEMMA EnterKeeps ==
  ASSUME LoopInv, NEW r \in Runs, pc[r] = "poll", rows' = rows, late' = late, scenario' = scenario,
         Raised(r), NEW c \in Seq(Msgs), Enter(r, c), Fits(c, rows, seen'[r]),
         mode(r) # "cwc" => Paired(c, r)
  PROVE  LoopInv'
<1> DEFINE d == IF mode(r) = "local" THEN PreflightCheck(c) ELSE c
<1>1. SystemFirst(c)
  BY DEF Fits
<1>2. Tidied(c, PreflightCheck(c), r)
  BY <1>1, PreflightTidy
<1>3. d \in Seq(Msgs) /\ Fits(d, rows, seen'[r]) /\ (mode(r) # "cwc" => Paired(d, r))
  <2>1. CASE mode(r) = "local"
    <3>1. d = PreflightCheck(c)
      BY <2>1
    <3>2. DrawnFrom(c, d)
      BY <1>2, <3>1, TidiedDrawn
    <3>3. mode(r) # "cwc" => Paired(d, r)
      BY <1>2, <3>1 DEF Tidied
    <3> HIDE DEF d
    <3> QED
      BY <3>2, <3>3, FitsDrawn DEF DrawnFrom
  <2>2. CASE mode(r) # "local"
    BY <2>2
  <2> QED
    BY <2>1, <2>2
<1>4. /\ ctx' = [ctx EXCEPT ![r] = d] /\ pc' = [pc EXCEPT ![r] = "call"] /\ "call" \in Between
      /\ count' = count /\ todo' = todo /\ pending' = pending
  BY DEF Enter, Goto, loop, Between
<1> HIDE DEF d
<1> QED
  BY <1>3, <1>4, QuietKeeps

-----------------------------------------------------------------------------
(* The run polls for messages,                                               *)
LEMMA PollKeeps ==
  ASSUME LoopInv, NEW r \in Runs, Poll(r)
  PROVE  LoopInv'
<1>0. Active(r) /\ pc[r] = "poll"
  BY DEF Poll, Active
<1>1. /\ LoopTypes /\ SeenStands(r) /\ NothingMissed(r) /\ Fits(ctx[r], rows, seen[r])
      /\ ctx[r] \in Seq(Msgs) /\ seen[r] \in Nat /\ rows \in Seq(Rows)
      /\ mode(r) # "cwc" => Paired(ctx[r], r)
      /\ DOMAIN rows = 1..Len(rows) /\ Len(rows) \in Nat
  BY <1>0, BetweenFacts DEF LoopTypes
<1>2. rows' = rows /\ late' = late /\ scenario' = scenario
  BY DEF Poll, thread
<1> DEFINE new == Later(seen[r])   e == Messages(new)   c == ctx[r] \o e
<1>3. CASE EndRun(r)
  BY <1>2, <1>3, EndKeeps
<1>4. CASE /\ Enter(r, c)
           /\ seen' = [seen EXCEPT ![r] = AtLeast(seen[r], new)]
           /\ given' = [given EXCEPT ![r] = given[r] \cup new]
  <2>1. passed' = passed
    BY <1>4 DEF Enter
  <2>2. Raised(r)
    BY <1>1, <1>2, <1>4, <2>1, RaisedPoll
  <2>3. seen'[r] = AtLeast(seen[r], new)
    BY <1>1, <1>4 DEF LoopTypes
  <2>4. new \in SUBSET Visible /\ new \in SUBSET (1..Len(rows)) /\ \A k \in new : k > seen[r] /\ rows[k].role = "user" /\ rows[k].calls = {}
    BY <1>1 DEF Later, UserRows, Visible, LoopInv, RowsKnown
  <2>5. seen'[r] \in Nat /\ \A k \in new : k <= seen'[r]
    <3> HIDE DEF new
    <3>1. new \in SUBSET (1..Len(rows)) /\ seen[r] \in Nat /\ Len(rows) \in Nat
      BY <1>1, <2>4
    <3>2. AtLeast(seen[r], new) \in Nat /\ \A k \in new : k <= AtLeast(seen[r], new)
      BY <3>1, AtLeastIs
    <3> QED
      BY <2>3, <3>2
  <2> HIDE DEF new
  <2>6. e \in Seq(Msgs) /\ Once(e) /\ \A i \in 1..Len(e) : OfRow(e[i], rows, seen'[r])
    BY <1>1, <2>4, <2>5, MessagesFit
  <2>7. \A i \in 1..Len(e) : \E k \in new : e[i] = Message(k)
    BY <1>1, <2>4, MessagesAre
  <2>8. \A i \in 1..Len(e) :
          /\ e[i].row > seen[r] /\ e[i].row \in 1..Len(rows) /\ e[i].role = "user"
          /\ rows[e[i].row].role = "user" /\ e[i].calls = {}
    <3> TAKE i \in 1..Len(e)
    <3>1. PICK k \in new : e[i] = Message(k)
      BY <2>7
    <3>2. e[i].row = k /\ e[i].role = rows[k].role /\ e[i].calls = rows[k].calls
      BY <3>1 DEF Message
    <3>3. k > seen[r] /\ rows[k].role = "user" /\ rows[k].calls = {} /\ k \in 1..Len(rows)
      BY <2>4
    <3> QED
      BY <3>2, <3>3
  <2> HIDE DEF e
  <2>9. Fits(ctx[r], rows, seen'[r])
    BY <1>1, <2>2, FitsSame DEF Raised
  <2>10. ASSUME NEW i \in 1..Len(ctx[r]), NEW j \in 1..Len(e), ctx[r][i].row # 0, ctx[r][i].row = e[j].row PROVE FALSE
    <3>1. ctx[r][i].role = rows[ctx[r][i].row].role /\ (ctx[r][i].role = "user" => ctx[r][i].row <= seen[r])
      BY <1>1, <2>10 DEF Fits, OfRow
    <3>2. ctx[r][i].row <= seen[r]
      BY <2>8, <2>10, <3>1
    <3> QED
      BY <1>1, <2>8, <2>10, <3>2
  <2>11. c \in Seq(Msgs) /\ Fits(c, rows, seen'[r])
    BY <1>1, <2>6, <2>9, <2>10, FitsMany, SMTT(20)
  <2>12. mode(r) # "cwc" => Paired(c, r)
    <3>1. /\ Longer(ctx[r], c) /\ Len(c) = Len(ctx[r]) + Len(e) /\ Len(ctx[r]) \in Nat /\ Len(e) \in Nat
          /\ \A i \in 1..Len(e) : c[Len(ctx[r]) + i] = e[i]
      BY <1>1, <2>6, LongerMany
    <3> HIDE DEF c
    <3>2. ASSUME NEW i \in Len(ctx[r]) + 1..Len(c) PROVE c[i].role # "tool" /\ c[i].calls = {}
      <4>1. i - Len(ctx[r]) \in 1..Len(e) /\ Len(ctx[r]) + (i - Len(ctx[r])) = i
        BY <3>1
      <4>2. c[i] = e[i - Len(ctx[r])]
        BY <3>1, <4>1
      <4> QED
        BY <2>8, <4>1, <4>2
    <3> QED
      BY <1>1, <3>1, <3>2, PairedWithNotes
  <2> HIDE DEF c
  <2> QED
    BY <1>0, <1>2, <1>4, <2>2, <2>11, <2>12, EnterKeeps
<1> QED
  BY <1>3, <1>4 DEF Poll

(* or fails to.                                                              *)
LEMMA PollFailsKeeps ==
  ASSUME LoopInv, NEW r \in Runs, PollFails(r)
  PROVE  LoopInv'
<1>0. Active(r) /\ pc[r] = "poll"
  BY DEF PollFails, Active
<1>1. /\ LoopTypes /\ SeenStands(r) /\ NothingMissed(r) /\ Fits(ctx[r], rows, seen[r])
      /\ ctx[r] \in Seq(Msgs) /\ seen[r] \in Nat /\ rows \in Seq(Rows)
      /\ mode(r) # "cwc" => Paired(ctx[r], r)
  BY <1>0, BetweenFacts
<1>2. /\ rows' = rows /\ late' = late /\ scenario' = scenario /\ Enter(r, ctx[r])
      /\ UNCHANGED <<seen, given, passed>>
  BY DEF PollFails, thread, Enter
<1>3. Raised(r) /\ seen'[r] = seen[r]
  BY <1>1, <1>2, RaisedSame
<1> QED
  BY <1>0, <1>1, <1>2, <1>3, EnterKeeps

-----------------------------------------------------------------------------
(* The calls that are open when k have been made and t are left.             *)
OpenCalls(r, k, t) == {<<r, n>> : n \in k + 1..k + t}

(* A message of the run's own, with its row or without.                      *)
LEMMA SayKeeps ==
  ASSUME LoopInv, NEW r \in Runs, pc[r] \in {"call", "tools"}, NEW role \in {"assistant", "tool"},
         NEW calls \in SUBSET Calls, \A x \in calls : x[1] = r, NEW row \in Nat,
         \/ row = 0 /\ rows' = rows
         \/ row = Len(rows) + 1 /\ rows' = Append(rows, Row(role, calls)),
         NEW m, m = [role |-> role, calls |-> calls, row |-> row],
         ctx' = [ctx EXCEPT ![r] = Append(ctx[r], m)], pc' = [pc EXCEPT ![r] = "tools"],
         NEW k \in Nat, NEW t \in Nat, count' = [count EXCEPT ![r] = k], todo' = [todo EXCEPT ![r] = t],
         UNCHANGED <<scenario, seen, pending, given, passed, late>>,
         mode(r) # "cwc" => IF t > 0 THEN AllButLast(Append(ctx[r], m), OpenCalls(r, k, t), r)
                            ELSE Paired(Append(ctx[r], m), r)
  PROVE  LoopInv'
<1>0. Active(r) /\ LoopTypes /\ Sound(r)
  BY DEF Active, LoopInv
<1>1. /\ SeenStands(r) /\ NothingMissed(r) /\ Fits(ctx[r], rows, seen[r])
      /\ ctx[r] \in Seq(Msgs) /\ seen[r] \in Nat /\ rows \in Seq(Rows) /\ Len(rows) \in Nat
      /\ pc \in [Runs -> Places] /\ ctx \in [Runs -> Seq(Msgs)]
      /\ count \in [Runs -> Nat] /\ todo \in [Runs -> Nat]
  BY <1>0 DEF LoopTypes, Sound
<1>2. /\ m \in Msgs /\ m.row = row /\ m.role = role /\ m.calls = calls /\ role \in Roles
      /\ Row(role, calls) \in Rows /\ Row(role, calls).role = role /\ Row(role, calls).calls = calls
  <2>1. role \in Roles
    BY DEF Roles
  <2>2. m \in Msgs /\ m.row = row /\ m.role = role /\ m.calls = calls
    BY <2>1 DEF Msgs
  <2>3. Row(role, calls) \in Rows /\ Row(role, calls).role = role /\ Row(role, calls).calls = calls
    BY <2>1, RowsAre
  <2> QED
    BY <2>1, <2>2, <2>3
<1>3. pc'[r] = "tools" /\ \A q \in Runs \ {r} : pc'[q] = pc[q]
  BY <1>1
<1>4. RowsGrow /\ NewRows /\ (row # 0 => row \in 1..Len(rows') /\ row = Len(rows) + 1 /\ rows'[row].role = role)
  <2>1. CASE row = 0 /\ rows' = rows
    BY <1>0, <1>1, <2>1, GrowSame, NoNewRows
  <2>2. CASE row = Len(rows) + 1 /\ rows' = Append(rows, Row(role, calls))
    <3>1. RowsGrow /\ Len(rows') = Len(rows) + 1 /\ rows'[Len(rows) + 1] = Row(role, calls)
      BY <1>1, <1>2, <2>2, GrowOne
    <3>2. role # "user" /\ \A x \in calls : pc'[x[1]] \notin {"idle", "posted"}
      BY <1>3
    <3>3. NewRows
      BY <1>0, <1>2, <2>2, <3>2, OneNewRow
    <3> QED
      BY <1>1, <1>2, <2>2, <3>1, <3>3
  <2> QED
    BY <2>1, <2>2
<1>5. LoopTypes'
  <2>1. rows' \in Seq(Rows)
    BY <1>4 DEF RowsGrow, Grown
  <2>2. pc' \in [Runs -> Places]
    BY <1>1 DEF Places
  <2>3. Append(ctx[r], m) \in Seq(Msgs)
    BY <1>1, <1>2
  <2>4. ctx' \in [Runs -> Seq(Msgs)]
    BY <1>1, <2>3
  <2>5. count' \in [Runs -> Nat] /\ todo' \in [Runs -> Nat]
    BY <1>1
  <2> QED
    BY <1>0, <2>1, <2>2, <2>4, <2>5 DEF LoopTypes
<1>6. SeenStands(r)' /\ NothingMissed(r)'
  BY <1>0, <1>1, <1>4, SeenKept
<1>7. Fits(ctx'[r], rows', seen'[r])
  <2>1. Grown(rows, rows') /\ seen[r] <= seen[r]
    BY <1>1, <1>4 DEF RowsGrow
  <2>2. Fits(ctx[r], rows', seen[r])
    BY <1>1, <2>1, FitsGrown
  <2>3. OfRow(m, rows', seen[r])
    BY <1>2, <1>4 DEF OfRow
  <2>4. m.row # 0 => \A i \in 1..Len(ctx[r]) : ctx[r][i].row # m.row
    <3>1. \A i \in 1..Len(ctx[r]) : ctx[r][i].row # 0 => ctx[r][i].row \in 1..Len(rows)
      BY <1>1 DEF Fits, OfRow
    <3> QED
      BY <1>1, <1>2, <1>4, <3>1
  <2>5. Fits(Append(ctx[r], m), rows', seen[r])
    BY <1>1, <1>2, <2>2, <2>3, <2>4, FitsOne
  <2> QED
    BY <1>1, <2>5
<1>8. Blocks(r)'
  <2>1. ctx'[r] = Append(ctx[r], m) /\ count'[r] = k /\ todo'[r] = t
    BY <1>1
  <2>2. Open(r)' = OpenCalls(r, k, t) /\ mode(r)' = mode(r)
    BY <2>1 DEF Open, OpenCalls, mode
  <2> QED
    BY <1>3, <2>1, <2>2 DEF Blocks
<1>9. Cut(r)' /\ pc'[r] \notin {"idle", "posted"}
  BY <1>3 DEF Cut
<1>10. \A q \in Runs \ {r} : LeftAlone(q)
  BY <1>1, <1>3 DEF LeftAlone
<1> QED
  BY <1>4, <1>5, <1>6, <1>7, <1>8, <1>9, <1>10, RunStepSound

(* The LLM asks for tools.                                                   *)
LEMMA RespondCallsKeeps ==
  ASSUME LoopInv, NEW r \in Runs, RespondCalls(r)
  PROVE  LoopInv'
<1>0. Active(r) /\ pc[r] = "call"
  BY DEF RespondCalls, Active
<1>1. /\ LoopTypes /\ ctx[r] \in Seq(Msgs) /\ rows \in Seq(Rows) /\ Len(rows) \in Nat
      /\ mode(r) # "cwc" => Paired(ctx[r], r)
      /\ count \in [Runs -> Nat] /\ scenario.batch \in Nat
  BY <1>0, BetweenFacts, LoopConstants, SMTT(20) DEF LoopTypes
<1>2. PICK n \in 1..scenario.batch, failed \in BOOLEAN :
        /\ Say(r, "assistant", {<<r, count[r] + i>> : i \in 1..n}, failed)
        /\ todo' = [todo EXCEPT ![r] = n]
  BY DEF RespondCalls
<1> DEFINE calls == {<<r, count[r] + i>> : i \in 1..n}   k == count[r]
           row == IF failed THEN 0 ELSE Len(rows) + 1
           m == [role |-> "assistant", calls |-> calls, row |-> row]
<1>3. n \in Nat /\ n >= 1 /\ k \in Nat /\ row \in Nat
  BY <1>1
<1>4. calls \in SUBSET Calls /\ (\A x \in calls : x[1] = r) /\ <<r, k + 1>> \in calls
  <2>1. \A i \in 1..n : k + i \in Nat /\ 1 \in 1..n
    BY <1>3
  <2>2. \A x \in calls : x \in Calls /\ x[1] = r
    BY <2>1 DEF Calls
  <2>3. <<r, k + 1>> \in calls
    BY <1>3, <2>1
  <2> HIDE DEF calls
  <2> QED
    BY <2>2, <2>3
<1>5. calls = OpenCalls(r, k, n)
  <2>1. \A i \in 1..n : k + i \in k + 1..k + n
    BY <1>3
  <2>2. \A j \in k + 1..k + n : j - k \in 1..n /\ k + (j - k) = j
    BY <1>3
  <2>3. calls \subseteq OpenCalls(r, k, n)
    BY <2>1 DEF OpenCalls
  <2>4. OpenCalls(r, k, n) \subseteq calls
    BY <2>2 DEF OpenCalls
  <2> QED
    BY <2>3, <2>4
<1>6. /\ (row = 0 /\ rows' = rows) \/ (row = Len(rows) + 1 /\ rows' = Append(rows, Row("assistant", calls)))
      /\ ctx' = [ctx EXCEPT ![r] = Append(ctx[r], m)]
  <2>1. Say(r, "assistant", calls, failed)
    BY <1>2
  <2> HIDE DEF calls
  <2>2. CASE failed
    <3>1. row = 0
      BY <2>2
    <3>2. rows' = rows
      BY <2>1, <2>2 DEF Say
    <3>3. ctx' = [ctx EXCEPT ![r] = Append(ctx[r], [role |-> "assistant", calls |-> calls, row |-> row])]
      BY <2>1, <2>2 DEF Say
    <3> QED
      BY <3>1, <3>2, <3>3
  <2>3. CASE ~failed
    BY <2>1, <2>3 DEF Say, Persist
  <2> QED
    BY <2>2, <2>3
<1>7. /\ pc' = [pc EXCEPT ![r] = "tools"] /\ count' = [count EXCEPT ![r] = k]
      /\ UNCHANGED <<scenario, seen, pending, given, passed, late>>
  BY <1>1 DEF RespondCalls, Goto
<1> HIDE DEF calls, row, k
<1>8. m \in Msgs /\ m.role = "assistant" /\ m.calls = calls
  BY <1>3, <1>4 DEF Msgs, Roles
<1>9. mode(r) # "cwc" => AllButLast(Append(ctx[r], m), OpenCalls(r, k, n), r)
  <2>1. \E x \in m.calls : x[1] = r
    BY <1>4, <1>8
  <2> HIDE DEF m
  <2> QED
    BY <1>1, <1>5, <1>8, <2>1, AsksForCalls
<1>10. m = [role |-> "assistant", calls |-> calls, row |-> row] /\ n > 0 /\ pc[r] \in {"call", "tools"} /\ "assistant" \in {"assistant", "tool"}
  BY <1>0, <1>3
<1> HIDE DEF m
<1> QED
  BY <1>2, <1>3, <1>4, <1>6, <1>7, <1>9, <1>10, SayKeeps

(* A tool's answer.                                                          *)
LEMMA ToolKeeps ==
  ASSUME LoopInv, NEW r \in Runs, ToolReturns(r) \/ ToolRefused(r)
  PROVE  LoopInv'
<1>0. Active(r) /\ pc[r] = "tools" /\ todo[r] > 0
  BY DEF ToolReturns, ToolRefused, Dispatch, Active
<1>1. /\ LoopTypes /\ ctx[r] \in Seq(Msgs) /\ rows \in Seq(Rows) /\ Len(rows) \in Nat
      /\ mode(r) # "cwc" => AllButLast(ctx[r], Open(r), r)
      /\ count \in [Runs -> Nat] /\ todo \in [Runs -> Nat] /\ pc \in [Runs -> Places]
  BY <1>0 DEF LoopInv, LoopTypes, Sound, Blocks
<1> DEFINE k == count[r]   t == todo[r]   calls == {<<r, k + 1>>}
<1>2. /\ count' = [count EXCEPT ![r] = k + 1] /\ todo' = [todo EXCEPT ![r] = t - 1]
      /\ pc' = [pc EXCEPT ![r] = "tools"]
      /\ UNCHANGED <<scenario, seen, pending, given, passed, late>>
  BY <1>0, <1>1 DEF ToolReturns, ToolRefused, Dispatch
<1>3. \E row \in Nat :
        /\ (row = 0 /\ rows' = rows) \/ (row = Len(rows) + 1 /\ rows' = Append(rows, Row("tool", calls)))
        /\ ctx' = [ctx EXCEPT ![r] = Append(ctx[r], [role |-> "tool", calls |-> calls, row |-> row])]
  <2>1. CASE ToolReturns(r)
    <3>1. PICK failed \in BOOLEAN : Say(r, "tool", calls, failed)
      BY <2>1 DEF ToolReturns
    <3> DEFINE row == IF failed THEN 0 ELSE Len(rows) + 1
    <3>2. /\ (row = 0 /\ rows' = rows) \/ (row = Len(rows) + 1 /\ rows' = Append(rows, Row("tool", calls)))
          /\ ctx' = [ctx EXCEPT ![r] = Append(ctx[r], [role |-> "tool", calls |-> calls, row |-> row])]
      <4> HIDE DEF calls
      <4>1. CASE failed
        BY <3>1, <4>1 DEF Say
      <4>2. CASE ~failed
        BY <3>1, <4>2 DEF Say, Persist
      <4> QED
        BY <4>1, <4>2
    <3>3. row \in Nat
      BY <1>1
    <3> QED
      BY <3>2, <3>3
  <2>2. CASE ToolRefused(r)
    <3>1. /\ 0 \in Nat /\ rows' = rows
          /\ ctx' = [ctx EXCEPT ![r] = Append(ctx[r], [role |-> "tool", calls |-> calls, row |-> 0])]
      BY <2>2 DEF ToolRefused, thread
    <3> HIDE DEF calls
    <3> QED
      BY <3>1
  <2> QED
    BY <2>1, <2>2
<1>4. PICK row \in Nat :
        /\ (row = 0 /\ rows' = rows) \/ (row = Len(rows) + 1 /\ rows' = Append(rows, Row("tool", calls)))
        /\ ctx' = [ctx EXCEPT ![r] = Append(ctx[r], [role |-> "tool", calls |-> calls, row |-> row])]
  BY <1>3
<1> DEFINE m == [role |-> "tool", calls |-> calls, row |-> row]
<1>5. k \in Nat /\ t \in Nat /\ t > 0 /\ k + 1 \in Nat /\ t - 1 \in Nat
  BY <1>0, <1>1
<1>6. calls \in SUBSET Calls /\ \A x \in calls : x[1] = r
  BY <1>5 DEF Calls
<1>7. Open(r) = calls \cup OpenCalls(r, k + 1, t - 1)
  <2>1. \A j : j \in k + 1..k + t <=> j = k + 1 \/ j \in (k + 1) + 1..(k + 1) + (t - 1)
    BY <1>5
  <2>2. \A x : x \in Open(r) <=> x \in calls \cup OpenCalls(r, k + 1, t - 1)
    <3>1. ASSUME NEW x, x \in Open(r) PROVE x \in calls \cup OpenCalls(r, k + 1, t - 1)
      <4>1. PICK j \in k + 1..k + t : x = <<r, j>>
        BY <3>1 DEF Open
      <4> QED
        BY <2>1, <4>1 DEF OpenCalls
    <3>2. ASSUME NEW x, x \in calls \cup OpenCalls(r, k + 1, t - 1) PROVE x \in Open(r)
      <4>1. PICK j : x = <<r, j>> /\ (j = k + 1 \/ j \in (k + 1) + 1..(k + 1) + (t - 1))
        BY <3>2 DEF OpenCalls
      <4> QED
        BY <2>1, <4>1 DEF Open
    <3> QED
      BY <3>1, <3>2
  <2> QED
    BY <2>2
<1>8. t - 1 = 0 => OpenCalls(r, k + 1, t - 1) = {}
  BY <1>5 DEF OpenCalls
<1> HIDE DEF calls, k, t
<1>9. m \in Msgs /\ m.role = "tool" /\ m.calls = calls
  BY <1>6 DEF Msgs, Roles
<1> HIDE DEF m
<1>10. mode(r) # "cwc" => AllButLast(Append(ctx[r], m), OpenCalls(r, k + 1, t - 1), r)
  BY <1>1, <1>7, <1>9, AnswersCall
<1>11. mode(r) # "cwc" => IF t - 1 > 0 THEN AllButLast(Append(ctx[r], m), OpenCalls(r, k + 1, t - 1), r)
                          ELSE Paired(Append(ctx[r], m), r)
  <2>1. CASE t - 1 > 0
    BY <1>10, <2>1
  <2>2. CASE ~(t - 1 > 0)
    <3>1. OpenCalls(r, k + 1, t - 1) = {} /\ Append(ctx[r], m) \in Seq(Msgs)
      BY <1>1, <1>5, <1>8, <1>9, <2>2
    <3> QED
      BY <1>10, <2>2, <3>1, NoneLeft
  <2> QED
    BY <2>1, <2>2
<1>12. /\ m = [role |-> "tool", calls |-> calls, row |-> row]
       /\ pc[r] \in {"call", "tools"} /\ "tool" \in {"assistant", "tool"}
  BY <1>0 DEF m
<1>13. /\ (row = 0 /\ rows' = rows) \/ (row = Len(rows) + 1 /\ rows' = Append(rows, Row("tool", calls)))
       /\ ctx' = [ctx EXCEPT ![r] = Append(ctx[r], m)]
  BY <1>4 DEF m
<1> QED
  BY <1>2, <1>5, <1>6, <1>11, <1>12, <1>13, SayKeeps

-----------------------------------------------------------------------------
(* The invariant holds before any run starts,                                *)
LEMMA LoopStarts ==
  ASSUME LoopInit
  PROVE  LoopInv
<1>1. LoopTypes
  <2>1. <<>> \in Seq(Msgs) /\ <<>> \in Seq(Rows)
    OBVIOUS
  <2>2. NoCompaction \in [how : Hows, end : Nat]
    BY DEF NoCompaction, Hows
  <2> QED
    BY <2>1, <2>2 DEF LoopInit, LoopTypes, Places
<1>2. RowsKnown /\ \A r \in Runs : ~Active(r)
  BY DEF LoopInit, RowsKnown, Active
<1> QED
  BY <1>1, <1>2 DEF LoopInv

(* A retry after an empty response.                                          *)
LEMMA RetryKeeps ==
  ASSUME LoopInv, NEW r \in Runs, RespondEmpty(r)
  PROVE  LoopInv'
<1>0. Active(r) /\ pc[r] = "call" /\ pc[r] # "tools"
  BY DEF RespondEmpty, Active
<1>1. /\ LoopTypes /\ SeenStands(r) /\ NothingMissed(r) /\ Fits(ctx[r], rows, seen[r])
      /\ ctx[r] \in Seq(Msgs) /\ seen[r] \in Nat /\ rows \in Seq(Rows)
      /\ mode(r) # "cwc" => Paired(ctx[r], r)
      /\ pc \in [Runs -> Places]
  BY <1>0, BetweenFacts DEF LoopTypes
<1>2. /\ rows' = rows \/ rows' = Append(rows, Row("assistant", {}))
      /\ late' = late /\ scenario' = scenario
  BY DEF RespondEmpty, Persist
<1>3. CASE EndRun(r)
  BY <1>2, <1>3, EndKeeps
<1>4. CASE Goto(r, "poll") /\ UNCHANGED <<ctx, seen, count, todo, pending, given, passed>>
  <2>1. Row("assistant", {}) \in Rows /\ Row("assistant", {}).role = "assistant" /\ Row("assistant", {}).calls = {}
    BY RowsAre DEF Roles
  <2>2. RowsGrow /\ NewRows
    <3>1. CASE rows' = rows
      BY <1>1, <1>2, <3>1, GrowSame, NoNewRows
    <3>2. CASE rows' = Append(rows, Row("assistant", {}))
      <4>1. RowsGrow
        BY <1>1, <1>2, <2>1, <3>2, GrowOne
      <4>2. NewRows
        BY <1>1, <2>1, <3>2, OneNewRow
      <4> QED
        BY <4>1, <4>2
    <3> QED
      BY <1>2, <3>1, <3>2
  <2>3. pc'[r] = "poll" /\ pc' \in [Runs -> Places] /\ \A q \in Runs \ {r} : pc'[q] = pc[q]
    BY <1>1, <1>4 DEF Goto, Places
  <2>4. LoopTypes'
    <3>1. rows' \in Seq(Rows)
      BY <2>2 DEF RowsGrow, Grown
    <3> QED
      BY <1>1, <1>2, <1>4, <2>3, <3>1 DEF LoopTypes
  <2>5. \A q \in Runs \ {r} : LeftAlone(q)
    BY <1>4, <2>3 DEF LeftAlone
  <2>6. SeenStands(r)' /\ NothingMissed(r)'
    BY <1>1, <1>4, <2>2, SeenKept
  <2>7. Fits(ctx'[r], rows', seen'[r])
    <3>1. Grown(rows, rows') /\ seen[r] <= seen[r]
      BY <1>1, <2>2 DEF RowsGrow
    <3> QED
      BY <1>1, <1>4, <3>1, FitsGrown
  <2>8. Blocks(r)' /\ Cut(r)' /\ pc'[r] \notin {"idle", "posted"}
    BY <1>1, <1>2, <1>4, <2>3 DEF Blocks, Cut, mode
  <2> QED
    BY <1>2, <2>2, <2>4, <2>5, <2>6, <2>7, <2>8, RunStepSound
<1> QED
  BY <1>3, <1>4 DEF RespondEmpty

(* when one ends or is dropped,                                              *)
LEMMA EndsKeep ==
  ASSUME LoopInv, NEW r \in Runs, RespondText(r) \/ CallFails(r) \/ Drop(r)
  PROVE  LoopInv'
<1>1. /\ EndRun(r) /\ scenario' = scenario /\ late' = late
      /\ rows' = rows \/ rows' = Append(rows, Row("assistant", {}))
  BY DEF RespondText, CallFails, Drop, thread, Persist
<1> QED
  BY <1>1, EndKeeps

(* and after every step of any of them.                                      *)
LEMMA LoopSteps ==
  ASSUME LoopInv, [LoopNext]_loopVars
  PROVE  LoopInv'
<1>1. ASSUME NEW r \in Runs, Start(r) PROVE LoopInv'
  BY <1>1, StartKeeps
<1>2. ASSUME NEW r \in Runs, RunStep(r) PROVE LoopInv'
  <2>1. CASE Load(r)
    BY <2>1, LoadKeeps
  <2>2. CASE AfterTools(r)
    BY <2>2, AfterToolsKeeps
  <2>3. CASE AfterWindow(r)
    BY <2>3, AfterWindowKeeps
  <2>4. CASE Mark(r)
    BY <2>4, MarkKeeps
  <2>5. CASE Skip(r) \/ CompactionFails(r)
    BY <2>5, SkipKeeps
  <2>6. CASE InsertSummary(r)
    BY <2>6, InsertSummaryKeeps
  <2>7. CASE Poll(r)
    BY <2>7, PollKeeps
  <2>8. CASE PollFails(r)
    BY <2>8, PollFailsKeeps
  <2>9. CASE RespondCalls(r)
    BY <2>9, RespondCallsKeeps
  <2>10. CASE ToolReturns(r) \/ ToolRefused(r)
    BY <2>10, ToolKeeps
  <2>11. CASE RespondEmpty(r)
    BY <2>11, RetryKeeps
  <2>12. CASE RespondText(r) \/ CallFails(r)
    BY <2>12, EndsKeep
  <2> QED
    BY <1>2, <2>1, <2>2, <2>3, <2>4, <2>5, <2>6, <2>7, <2>8, <2>9, <2>10, <2>11, <2>12 DEF RunStep
<1>3. ASSUME NEW r \in Runs, Drop(r) PROVE LoopInv'
  BY <1>3, EndsKeep
<1>4. CASE QueueInsert \/ QueueCommit
  BY <1>4, QueueKeeps
<1>5. CASE UNCHANGED loopVars
  <2>1. UNCHANGED <<scenario, rows, pc, ctx, seen, count, todo, pending, given, passed, late>>
    BY <1>5 DEF loopVars, thread, loop
  <2>2. LoopTypes
    BY DEF LoopInv
  <2>3. RowsGrow /\ NewRows
    BY <2>1, <2>2, GrowSame, NoNewRows DEF LoopTypes
  <2>4. LoopTypes'
    BY <2>1, <2>2 DEF LoopTypes
  <2>5. (\A q \in Runs \ {} : LeftAlone(q)) /\ {} \in SUBSET Runs
    BY <2>1 DEF LeftAlone
  <2> QED
    BY <2>1, <2>3, <2>4, <2>5, StepSound
<1> QED
  BY <1>1, <1>2, <1>3, <1>4, <1>5 DEF LoopNext

(* The invariant: at all times every run's context fits the thread, has read *)
(* what it counts as seen, and keeps the run's calls and results together.   *)
THEOREM LoopInvHolds == LoopSpec => []LoopInv
<1>1. LoopInit => LoopInv
  BY LoopStarts
<1>2. LoopInv /\ [LoopNext]_loopVars => LoopInv'
  BY LoopSteps
<1> QED
  BY <1>1, <1>2, PTL DEF LoopSpec

(* Every request the Anthropic backend builds is one that the API accepts,   *)
(* whatever other runs, failed inserts and compactions have made of the      *)
(* thread (build_messages, fix_orphaned_tool_use in llm/anthropic.rs).       *)
THEOREM RequestsRepaired == LoopSpec => []RequestRepaired
<1>1. LoopInv => RequestRepaired
  BY RequestsWork DEF LoopInv, LoopTypes, RequestRepaired
<1> QED
  BY <1>1, LoopInvHolds, PTL

(* The calls a run made itself are answered in its requests, complete and in *)
(* one block: no boundary of a compaction, no window and no check for local  *)
(* models separates them (runtime.rs, compaction.rs).                        *)
THEOREM OwnCallsAreAnswered == LoopSpec => []OwnCallsAnswered
<1>1. ASSUME LoopInv, NEW r \in Runs, pc[r] = "call", mode(r) # "cwc",
             NEW i \in DOMAIN ctx[r], \E x \in ctx[r][i].calls : x[1] = r
      PROVE  \/ Complete(ctx[r], i)
             \/ /\ ctx[r][i].role = "tool"
                /\ \E j \in 1..i - 1 : Complete(ctx[r], j) /\ ctx[r][i].calls \subseteq ctx[r][j].calls
  <2>1. Active(r) /\ pc[r] # "tools"
    BY <1>1 DEF Active
  <2>2. ctx[r] \in Seq(Msgs) /\ Paired(ctx[r], r)
    BY <1>1, <2>1, BetweenFacts
  <2>3. i \in 1..Len(ctx[r])
    BY <2>2
  <2> QED
    BY <1>1, <2>2, <2>3, PairedCalls
<1>2. LoopInv => OwnCallsAnswered
  BY <1>1 DEF OwnCallsAnswered
<1> QED
  BY <1>2, LoopInvHolds, PTL

(* A run reads every message of the user once.  One it never reads was       *)
(* committed after a later row, or passed over when the thread was read      *)
(* again (last_seen_seq in runtime.rs).                                      *)
THEOREM MessagesReadOnce == LoopSpec => []QueuedReadOnce
<1>1. ASSUME LoopInv, NEW r \in Runs, pc[r] \in {"poll", "call", "tools"}
      PROVE  /\ \A k \in UserRows : k <= seen[r] => k \in given[r] \cup passed[r] \cup late
             /\ \A i, j \in DOMAIN ctx[r] : ctx[r][i].row # 0 /\ ctx[r][i].row = ctx[r][j].row => i = j
  <2>1. Active(r)
    BY <1>1 DEF Active
  <2>2. NothingMissed(r) /\ Once(ctx[r]) /\ ctx[r] \in Seq(Msgs)
    BY <1>1, <2>1 DEF LoopInv, LoopTypes, Sound, Fits
  <2> QED
    BY <2>2 DEF NothingMissed, Once
<1>2. LoopInv => QueuedReadOnce
  BY <1>1 DEF QueuedReadOnce
<1> QED
  BY <1>2, LoopInvHolds, PTL
=============================================================================
