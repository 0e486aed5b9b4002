# A specification of Arbeiterfarm

Arbeiterfarm is a platform on which LLM agents analyse files with tools. Its
core is in `src/af/crates/*` (Rust, PostgreSQL); `src/arbeiterfarm/*` adds the
reverse-engineering tools, `src/ui` a web page. Several processes share one
database and one directory tree: the API server (`af serve`), worker daemons
(`af worker start`), and `af tick`, which cron starts every minute whether or
not the last one has ended. Almost everything that is hard about the program is
what these processes do to each other's rows and files, so that is what the
modules are about. The rest is what one process does to itself when its tasks
interleave and the models, programs and services it calls misbehave.

This directory holds TLA+ modules for twelve parts of it, TLC configurations that
check them on small instances, and TLAPS proofs for every size of the instance.

    tlc -workers 2 -config ToolRuns.cfg MCToolRuns.tla
    tlapm ToolRunsProofs.tla

## 1. Inventory

| Part | State | Operations | Hard behaviours | Correct when |
|---|---|---|---|---|
| **Tool-run queue** (`af-jobs`, `tool_runs.rs`, `scratch.rs`) | `tool_runs` rows with lease and attempt, scratch directories, heartbeat tasks, advisory locks | enqueue under quota, claim, heartbeat, complete, fail, reap, poll, clean up | claims by daemon and inline workers, a reaper against slow workers, panics, crashes and Ctrl-C between any two steps, unguarded `complete`/`fail` by id | quota kept, attempts bounded, one worker per run, stable answers, every run ends |
| **Blob store** (`af-storage`, `blobs.rs`, `artifacts.rs`, upload route, garbage collection of `tick.rs`) | files by hash, `blobs`, `artifacts`, `storage_bytes_used` | upload, tool output, delete, collect | deduplicating stores against a two-phase collection, reservations that must be given back on every path | nothing referenced is lost, accounts exact, garbage goes |
| **Work queues** (`url_ingest.rs`, `embed_queue.rs`, `notifications.rs`) | three tables with the same row protocol: status, attempts, age | enqueue, claim, complete, fail, cancel, retry, recover stale rows | claims carry no owner: a recovered row may still be worked on | attempts bounded, final rows stay |
| **Ingestion and embedding** (`af-builtin-tools`) | progress and vectors per document, results per URL | fetch, chunk, enqueue, embed in batches, resume | overlapping ticks, stale listings, death between a batch and its progress | nothing skipped, nothing lost between the queues, every row settles |
| **Notifications and email** (`af-notify`, `af-email`) | channels, `notification_queue`, `email_scheduled`, recipient rules | announce, listen, deliver, schedule, send | the listener and ticks see the same row, lost answers, rules that change meanwhile | repetitions have a cause, reports are true, nothing forbidden is sent, every notification ends |
| **Workflow orchestrator** (`af-agents`) | groups, completed agents, repivot counter, fan-out tree with visited hashes | run groups, apply signals, re-queue on replaced artifacts, fan out, join | threads that see each other's artifacts, timeouts, panics, an aborted parent, agents that request each other | ends, bounded fan-out, contents do not come back, parents wait, nobody runs without a reason |
| **Agent loop** (`af-agents/runtime.rs`, `compaction.rs`, `thread_memory.rs`, `anthropic.rs`) | messages of a thread, a run's context, call and error budgets, `last_seen_seq` | read, poll, call the model, call tools, compact, store, drop | two agents in one thread, messages queued meanwhile, compaction in steps with other runs between them, failed inserts, dropped futures | requests well-formed, calls and results together, messages read once, every run ends |
| **LLM calls** (`user_quotas.rs`, `lib.rs`, the routes that stream) | today's row of `usage_daily`, a counter of streams per user | reserve, post, release, take and give slots | a call that spans midnight, several usage reports, panics, timeouts that drop the future, a counter beside its mutex | the row explained by reports and reservations, quota passed by a bounded amount, slots come back |
| **Hooks** (`project_hooks.rs`, `hooks.rs`) | rows with `tick_generation` and `last_tick_at`, what a tick has listed | create, edit, delete, fire on uploads and ticks | overlapping ticks with stale lists, a tick that dies after its claim | once per interval, no due hook forgotten |
| **Out-of-process tools** (`oop_executor.rs`, `context_builder.rs`) | pipes, processes, files of the scratch directory | sandbox, spawn, write, wait, kill, collect, parse, take files in, sweep | programs that neither read nor exit, forked processes that keep pipes, a second execution in the first one's directory | own work answered, the worker freed |
| **Gateways and email tools** (`af-web-gateway`, `af-re-vt`, `af-email`) | token buckets, a map of them per user, rules, caches | admit, check rules, resolve, redirect, call, cache | tasks that sleep on a limiter which the map has dropped, rules edited and caches filled meanwhile, redirects | pace kept, every call vetted, answers fresh |
| **Projects and threads** (`projects.rs`, `project_members.rs`, `threads.rs`, migrations 010-031, the retention of `tick.rs`) | rows of a project in fourteen tables, members and their roles, a retention per project, trees of threads | delete a project, change a role, migrate, set a retention, delete or purge threads | a transaction that empties the tables which row security reads, other sessions' inserts between its statements, one bad row in a statement over all projects | owners delete everything, a refusal has a cause, expired threads go |
| **Ghidra tools** (`analyze.rs`, `decompile.rs`, `rename.rs`, `re_executor.rs`) | a directory per binary, shared or per project, its lock, what an import has written | import, list, decompile, rename | an import whose executor was killed and which goes on, a cache recognised before it is complete, a flag that is looked up and changes | partial results have a cause, what was analysed is found |
| **Other authorization, LLM translation, analysis tools, CLI, UI** | none or per request | pure decisions, translation, I/O | - | out of scope, see section 8 |

How they meet: agents call tools through the tool-run queue (`JobQueueInvoker`);
tools store artifacts in the blob store and enqueue documents for embedding;
ticks run garbage collection, URL ingestion, embedding, email, notifications
and hooks one after the other; uploads and hooks start workflows. PostgreSQL
carries every message; the only other channels are `LISTEN/NOTIFY` for
notifications, the file system, and the sockets of the gateways.

## 2. Modules

| Module | Models | Extends / uses |
|---|---|---|
| `RunLifecycle` | what the tool-run queue promises of one run | - |
| `JobQueue` | `enqueue.rs`, `invoker.rs`, `worker.rs`, `daemon.rs`, `reaper.rs`, `tool_runs.rs`, `scratch.rs` | `RunLifecycle` as refinement target |
| `BlobStore` | upload route, `blob_store.rs`, `blobs.rs`, `artifacts.rs`, the collection of `tick.rs`, storage part of `user_quotas.rs` | - |
| `WorkQueue` | the row protocol of the three queue tables | - |
| `IngestQueues` | URL ingestion and background embedding, two tables of `WorkQueue` that feed each other | `WorkQueue` |
| `Delivery` | notifications (table of `WorkQueue`), the listener, scheduled email | `WorkQueue` |
| `Workflow` | `orchestrator.rs`, the conflict resolution of `signal_parser.rs`, the time limit of the workflow route | - |
| `SlotPool` | what the stream tracker promises a user | - |
| `LlmCalls` | `ActiveStreamTracker`, token reservations, the two ways an LLM call is made, timeouts | `SlotPool` as refinement target |
| `Compaction` | pure part of `compaction.rs`: boundaries, tool groups, turns, window, the check before a run | - |
| `AnthropicRequest` | `build_messages` and `fix_orphaned_tool_use` of `anthropic.rs` | - |
| `AgentLoop` | `runtime.rs` with the statements of `messages.rs` | `Compaction`, `AnthropicRequest` |
| `Hooks` | `project_hooks.rs`, `hooks.rs` (API and firing) | - |
| `OopExecutor` | `oop_executor.rs` under `worker.rs`, `scratch.rs` | - |
| `RateLimit` | the token bucket of three crates | - |
| `Gateways` | the web gateway, the VirusTotal gateway and the email tools | `RateLimit` |
| `ProjectDeletion` | the transaction of `delete_project` under row security, and its route | - |
| `ThreadRetention` | creating, deleting and purging threads | - |
| `GhidraCache` | the three Ghidra tools in a worker and in `re_executor` | - |
| `MC*` | instances for TLC: quotas, sizes, symmetry | the modules they instantiate |
| `ToolRunsProofs` | theorems about tool runs | `JobQueue`, `GhidraCache`, `OopExecutor` |
| `LimitsProofs` | theorems about limits | `LlmCalls`, `Gateways` |
| `AgentsProofs` | theorems about agents | `Workflow`, `AgentLoop` |
| `ProjectsProofs` | theorems about projects | `BlobStore`, `Hooks`, `ProjectDeletion` |
| `IngestQueuesProofs`, `DeliveryProofs`, `WorkQueueProofs` | theorems | the module they prove about |
| `SumProofs` | lemmas on sums over finite sets | - |

Parts that share no state can be checked in one run. `MCToolRuns` (`JobQueue`,
`GhidraCache`), `MCLimits` (`LlmCalls`, `Gateways`) and `MCProjects` (`Hooks`,
`ProjectDeletion`, `ThreadRetention`) choose a `part` in the initial state and let
only that part move: their graphs are the union of the parts' graphs, not the
product, and nothing is assumed about the parts together.

An operator whose comment begins with "Mutant" or "A mutant of" is a wrong
version of the definition after it. It is used by nothing: it records which
error of the code each property would reveal.

### JobQueue

*State.* `status`, `attempt`, `lease`, `actor` are the table `tool_runs`; rows
are numbered in order of `created_at`, which is the time a transaction begins,
so that a later row may be committed first. `wphase`, `wrun`, `wres` are where a
worker task stands in `Worker::try_execute_one`; `hb` is its heartbeat task;
`cphase`, `crun`, `cuser` are a caller of `invoke()`; `lock` the advisory lock
of the quota check; `leaked` the heartbeat tasks that outlived a worker;
`scratch` the scratch directories that exist, named after runs, and `aged` those
whose modification time is two hours back. `overrun` is a history: the runs whose
lease ran out while a worker was on them.

*Time.* A lease is valid or expired. It expires by itself when nothing extends
it. If a worker is alive, expiry means that the worker, or its database, was
stalled for longer than the lease; such stalls are counted (`stalls`), and what
cannot hold for a run after one excepts that run (`overrun`) and no other. This is
the assumption under which leases work at all.

*Scratch directories.* A tick removes a directory by its age (`RemoveStaleScratch`)
and asks nobody whether it is in use. A directory is as old as its last
modification: `ScratchAges` may happen to any directory, because an execution may
take longer than two hours and need not write at the top of its directory, and
`StartExecution` leaves the age of a directory that a lost attempt left behind,
because `create_dir_all` does. A directory that did not exist is new. The look at
the modification time and the removal, two system calls of the tick, are one
step. So an execution can lose its directory in two ways only, and
`ScratchLossExplained` says so: it was two hours old, or the run is in `overrun` and
another attempt's cleanup took it.

*Actions* are one per database statement or task switch: `EnqueueBegin`,
`EnqueueLock`, `EnqueueCheck`, `EnqueueCommit`, `Poll`, `GiveUp` for a caller;
`Claim` ... `CleanupScratch` for a worker; `ReclaimExpired` and `FailExhausted`
for the reaper; `DaemonCrash`, `ApiCrash`, `Shutdown`, `WorkerStops`,
`DaemonExit`, `DaemonStart` for processes; `ScratchAges` and `RemoveStaleScratch` for
time and ticks. Every error return is an action:
`LookupFails` (an unknown tool leaves the row running), writes whose error is
ignored (`WriteComplete(w, FALSE)`), row security that matches no row.

### BlobStore

A blob is its hash. A store goes `streamed` (body hashed), `reserved`, `placed`
(renamed into place), `conflict` (`INSERT .. ON CONFLICT DO NOTHING` found the
row and the `SELECT` is still to come), `stored`, and ends with an artifact or
an error. `Fail` is every early return that releases the reservation;
`TransactionErrs` the two that leave through `?` without doing so;
`ReserveErrs` the `unwrap_or(true)` that takes an error for a reservation. A
tick lists candidates (`Scan`), then per candidate removes the file and, in a
second statement, the row if still unreferenced. Histories: `billed` (bytes of
completed uploads), `raced` (hashes stored while a tick had them as candidates).

### WorkQueue, IngestQueues, Delivery

`WorkQueue` has one operator per statement of the three tables. Time is the set
`stale` of rows that have been `processing` for two minutes: anyone's write to a
row refreshes it. A row that nobody holds grows stale by itself; one that is
being worked on only as a fault (`HeldStale`), as many as `MaxFaults`.

`IngestQueues` is `process_url_queue` and `process_embed_queue` of any number of
overlapping ticks. A document's chunks come in `Batches`. `snapshot` is what the
tick listed: progress is resumed from, and written back as, that old value.

`Delivery` is `process_due_emails` followed by `process_notification_queue` in
ticks, and `process_single` in the listener. `inbox` is what PostgreSQL has
announced and the listener has not seen; it is lost with the listener.
`delivered` and `mailed` count what reached the remote side, which the sender
may not learn. `barred` remembers the senders that claimed a row they must not
send. `kind = "webhook"` stands for webhook, Matrix and WebDAV; Matrix
deduplicates by transaction id, which is on the remote side and left out.
`"email"` is the channel type that the code answers with a permanent failure.
The URL and embedding phases between emails and notifications touch none of this
state and are left out.

### Workflow

`wf[t]` is one `execute_workflow`, in one conversation thread: `plan` is
`groups` (steps per agent and group), `completed`, `repivots` its local
variables, `visited` and `depth` the fields of its `OrchestratorRuntime`. A round
of the group loop is `StartGroup` (pop the first group, note the time),
`EndGroup` (all agents have returned, failed or timed out; their signals are
resolved and applied), `Repivot` or `NoRepivot`, `FindChildren`, then for each
file that others came out of `SpawnChildren` and `Join`. Failed and panicked
agents count as completed in the code, those that timed out or have no
configuration do not: `ended` is any part of the group.

The two queries go by project and `created_at >= group_start_time`. So `Replace`
and `Extract` are steps of the environment (an agent of this or of another
workflow or chat of the project, or a tool that outlives its agent), and every
thread sees them that has started its group and not yet asked. `Abort` is a
panic, an error, or the time limit of the route, which drops the future of the
root: the handles of its children go with it and the children go on. Threads are
slots; how many are busy at once is a bound, and `SpawnChildren` may create fewer
threads than it wants, as the code does when `create_child_thread` fails.
Histories: `lineage`, `skipped`, `runs`, `requested`. Not distinguished: the
order of agents in a group (parallel first), the clocks of orchestrator and
database.

### LlmCalls

A request is `idle`, `running` between calls, `opening` (the row of the day was
inserted, the reservation is the next statement), `calling`, `ended` or `refused`.
Synchronous requests take no slot. `acquire()` holds the map's mutex from its
read to its increment (`lock`), the guards decrement without it: `AcquireRead`
and `AcquireAdd` are two steps. A stream may report usage several times
(`UsageChunk`); the code releases the reservation with each report that has
prompt tokens, which `freed` counts. `TimesOut` drops the future at any point,
`Crash` all of them; neither writes anything, so `lost` grows. `Midnight` leaves
every request where it is and starts a row without reservations.

### AgentLoop, Compaction, AnthropicRequest

`rows` is the table of messages of one thread; a row is `visible`, `compacted`, or
inserted by a transaction that is still open. A run has its own context `ctx`,
whose messages remember the row they were made of, and the history `hist` a
compaction was computed from. The steps follow `send_message` and
`streaming_loop`: `Load`, `Poll` (queued messages, then the limits), the answer
of the model (`RespondCalls`, `RespondText`, `RespondEmpty`, `CallFails`), one
step per tool call (`ToolReturns`, `ToolRefused`), `AfterTools`, `CheckSize`.
Compaction is three steps of the run, `Mark`, `InsertSummary` (or a failure) and
`Reread`, and other runs may be anywhere between them. `mode` says which of
three ways is taken: a summary by a cloud model, a reset with memory for a local
one, or the bridge to the context compiler, which at the start of a run falls back on
a summary when it fails; the sliding window follows each.
`Drop` is a request that disconnects: the run stops where it is.

`Compaction` and `AnthropicRequest` are the pure functions, on sequences of
roles and sets of call ids. What a message says is left out, how large it is too:
`CheckSize` and the window choose any cut that the code could choose.

The instance is chosen by `scenario`, so that one run covers four: two agents
that share a thread, one that fails and is sent messages, in two modes, and the
bridge.

### Hooks

A tick lists due hooks (`ListDue`), then claims them one at a time: `Claim` is
`UPDATE ... WHERE tick_generation = $2`, `Spawn` comes after it, and a process
may be killed in between. `row` survives deletion as `present = FALSE`, because
ids are not used again. Executions that hang keep their process but the model
lets a slot of `Ticks` begin a new one, as cron does.

### OopExecutor

One run and its executions, which share the scratch directory. A new one begins
when the lease of the last has run out: its worker died, stalls, or could not
store the result (`Superseded`). Data are lengths: a request and a response have so
many units, a pipe holds one. `answer` and `taken` are sets of executions, namely
who wrote what was answered or made an artifact of. Files and the response of
oaie carry the number of their writer. `TickSweeps` is the tick that finds the
directory two hours old and removes it in the middle of an execution. The program may fork a process that
keeps its pipes (`orphan`); in a PID namespace it dies with the sandbox.

### Gateways, RateLimit

A request is the list of stages it has still to pass, `todo`, in the order of its
handler (`Route`); the three services differ in their routes, in whom a full map
of limiters throws out (`Outs`), and in how `acquire` waits (`Nap`, `TooLate`).
A limiter is named by the request that created it, so that a request can hold one
that is no longer in the map. Buckets are refilled as time passes instead of when
they are used, which is the same (module comment). `Tick` is a unit of time, and
only happens while every request in service sleeps or waits for a call: a task
that can go on is assumed to be faster than a limiter's interval. `debt` is what
a limiter has granted and time has not yet paid for.

### ProjectDeletion, ThreadRetention

`rows` is the set of tables that hold committed rows of the project: how many rows
is not distinguished, a statement deletes all it sees. `References` are the foreign
keys that neither cascade nor are set to null, `Statements` the transaction's
statements in their order, with those that row security filters. `Execute` is one
statement, `Violates` the foreign key that refuses it; `gone` and `late` are what
the open transaction has deleted and what was inserted since (an insert whose
parent the transaction has deleted waits, so it is not enabled). `Visible` is the
policy for whoever asks: it reads `members`, which the transaction itself empties,
and `narrow` is which of its definitions is in force, because every start of a
process runs all the migrations again, one transaction each.

A thread is `live` under a `parent`, which never changes. `Purge` is the one
statement of a tick over all projects; it has no effect when a foreign key
refuses it. `updated_at` is never written after the insert, so that `Expire` is
time alone.

### GhidraCache

A call begins with the flag its hook gave it, or without (`told`), which decides its
directory. `marker` and `data` are the two entries of the directory that the code
takes for a finished analysis; `importer` is the process `analyzeHeadless`, which
writes both before it has finished and may outlive the executor that started it.
`external` chooses `re_executor` or the analyzer in the worker, which differ in three
places: what a failed lock means, what a failed import leaves, and whether
decompiling locks. `spoiled`, `raced` and `before` are histories.

## 3. Runs

| Run | Instance | Question |
|---|---|---|
| `tool_runs` | queue: 2 callers of one user with quota 1, 2 runs, a daemon and an inline worker, 2 attempts, 1 stall, panics of the daemon's worker, the directory of run 1 may grow old; Ghidra: 2 analyses and a decompilation or renaming, 1 project with either flag, 1 flip, 2 kills | quota; executions exclusive and answers stable but after an overrun lease; lost scratch directories explained; partial analyses explained, analyses found |
| `job_queue_liveness` | 1 caller, 2 runs, 2 workers, one crash or shutdown anywhere, disk faults, the directory of run 1 may grow old | implements `RunLifecycle`; every queued run gets an outcome |
| `blob_store` | 2 stores, 2 ticks, a small and a large content, quota 2, 2 artifacts, 1 fault | quota, exact accounts, collection, loss only by the one known race |
| `ingest_queues` | 2 ticks, 1 URL row and 1 document, 2 batches, 2 attempts, 1 fault, 1 retry | nothing skipped, nothing lost, every row settles |
| `delivery` | 2 ticks and the listener, 1 notification, 1 email, 2 attempts, 1 fault, 1 change by a user | repetitions explained, reports true, nothing forbidden, every notification ends |
| `workflow` | 3 threads, 2 agents, 3 groups, 2 extracted files, 2 levels, 1 repivot per thread, 1 signal, 2 artifacts, 1 abort | contents do not come back, parents wait, no run without a reason or twice in a plan, everything ends |
| `limits` | LLM: 2 streaming requests and a synchronous one, 1 slot, 1 call each, 2 reports, 1 midnight, 1 fault; gateways: 3 requests, 2 users or nobody, 2 pages, 3 addresses, 2 versions of the rules, each service, maps of 1 or 2 users | the day's row explained, overrun bounded, the tracker is a pool; calls vetted, answers fresh, pace kept |
| `agent_loop` | 2 agents with 1 call each, or 1 agent with 2 calls, batches of 2, 1 queued message, 1 failed statement, in three modes | requests repaired, calls with their results, messages read once, every run ends |
| `agent_tail_compacted` | 2 agents, the second finds the first one's memory | refutes "tail always preserved" |
| `projects` | hooks: 2 of either event, 2 tick processes, 2 minutes, intervals 1 and 2, 2 edits, 1 upload, 1 kill; deletion: an administrator, the owner or a user with any roles, a project with all tables filled, all but memory, or four, 2 disturbances; retention: 4 threads, 3 of them a chain or a star, 2 projects, 2 changes of settings | once per interval, no due hook forgotten; refusals explained, owners delete everything; expired threads go |
| `project_deleted` | the same | refutes "delete a project and all associated data" for managers |
| `oop_executor` | 2 executions of a run, request and response twice a pipe, 5 hosts (trusted, oaie, bwrap with and without a namespace, none), 1 fault | own work answered, worker freed unless the program keeps a pipe |

*Why these bounds.* Races in this code are between two parties over one row or
one hash, so two workers, two stores, two ticks are needed and a second row or
hash gives the order of claims and the sum of sizes something to decide. Two
attempts make "first", "last" and "one too many" different. One stall, crash or
error at any point is what each recovery path is written for; the theorems
remove the bound where they apply. Users are symmetric in the code and meet
only through their own quota, so one is enough; clients are interchangeable,
and symmetry is used for them in the `tool_runs` only. Quota 1 with two callers
is the smallest contention; sizes 1 and 2 with a limit of 2 make both "fits
alone, not together" and "fits exactly" happen.

For a workflow, three threads are a root, a child and either its sibling or a
child of its own; two artifacts are two fan-outs, or one and a replacement; the
group between an agent and the next one gives a priority something to do.

A second LLM call of a request begins where the first one began, so one call per
request and three requests give the orders of reserving and posting; two reports
are the least that release a reservation twice. A thread needs two agents or one
agent and a user to be written from two sides, and two calls in a response to be
torn apart. Two minutes with intervals 1 and 2 are a hook that is due again and one
that is not. A request of two units in a pipe of one is a request that does not
fit. Three requests are two of one user, one that takes the global token
meanwhile, and with two users a map that is full.

Two disturbances are an insert between statements together with a change of roles, or
a migration that begins and ends inside the transaction. Three threads are a leaf
that goes, a thread that becomes a leaf by it and one above both; the fourth is in
another project, to be held up by the others. Two Ghidra calls are an import and one
that finds what it left, the third comes when the first two disagree about the
flag; two kills are a killed executor whose import goes on and a lock that fails.

Only the directory of the first run grows old, and only the daemon's worker panics: a
second such directory, or a panic in the inline worker, repeats what the first
does with one more run waiting. Directories are left over by panics in `tool_runs` and
by removals that fail in `job_queue_liveness`; for a later attempt they are the
same. In the theorems any directory may grow old and any worker may panic.

*Deadlock* checking is off: enqueues, faults, artifacts, edits and requests are
bounded everywhere, so that all work may be done. That work does get done is the
subject of the liveness properties.

Symbolic bounds: `MaxRuns`, `MaxArtifacts`, `MaxSignals`, `MaxCalls`, `MaxExecutions`,
`MaxUploads`, `Requests`, `Calls`, `Threads`, `queue` and `batch` of a scenario (work begun), `MaxStalls`,
`MaxStops`, `MaxFaults`, `MaxMishaps`, `MaxAborts`, `MaxKills`, `faults` (misfortune), `MaxRetries`, `MaxChanges`,
`MaxEdits`, `MaxFlips`, `MaxSettings`, `MaxInterference`, `Rules` (interventions by users and
other sessions), `MaxTime`, `MaxNights`, `Ageing` (time), `MaxChunks`,
`Request`, `Response`, `Asks`, `Contents`, `Shapes`, `ToolPlans` (sizes and shapes). `MaxAttempts`, `MaxMailAttempts`, `MaxRepivots`,
`MaxDepth`, `MaxChildren`, `MaxErrors`, `MaxStreams`, `MaxPerEvent`, `MaxUsers`,
`MaxRedirects`, `GlobalRpm`, `UserRpm`, `ShortWait`, `LongWait`, `CacheTtl`, `LimiterTtl`,
`budget` and `retries` are the code's own limits, made small.

Type invariants (`TypeOK`) are theorems for the modules with proofs and not
properties of runs; a type error in the others would show as an evaluation error.

## 4. Fairness

Only what the code schedules is fair.

* *JobQueue.* Worker tasks run on and tools return. That tools return is an
  assumption: tools in the worker's process have no timeout, and out-of-process
  ones are killed at theirs, but hold the worker for as long as a pipe they inherited
  stays open (`HeldUp` in `OopExecutor`; `EndsOrHeldUp` says that nothing else holds
  it). `EveryRunFinishes` promises nothing for a run whose tool never returns. The daemon is
  restarted by its supervisor; the reaper runs every 30 s; a lease nobody
  extends runs out. Callers, the ticks' removal of old directories and faults are not
  fair: a caller may stay away for ever. `EveryRunFinishes` is checked without
  panics, because a detached heartbeat keeps a dead run's lease alive until the
  process ends.
* *BlobStore.* cron starts ticks and a tick goes on. Stores are not fair.
* *IngestQueues, Delivery.* A tick started by cron goes on, and time passes for
  rows nobody holds. The listener is fair while it delivers, never in receiving:
  liveness must not rest on `NOTIFY`.

* *Workflow.* Every thread's orchestrator goes on, and a group ends: an agent makes
  at most 20 tool calls, its requests to a model have read timeouts, and a tool's
  caller gives up. Signals are bounded, and must be: the code limits neither
  requests nor groups, so two agents that ask for each other never end.
  Artifacts and aborts are not fair.
* *LlmCalls.* The timeouts around a request are timers of the server, and
  `acquire()` has no await once it holds the mutex. Providers and the database owe
  nothing.
* *AgentLoop.* A run goes on: statements, tools and models answer or fail. What
  they answer is not fair, so every run must end by its budgets.
* *Hooks.* cron keeps starting processes, and they list and claim. Executions may
  hang for ever.
* *OopExecutor.* Workers go on and their timers fire. Programs owe nothing, neither
  reading nor exiting.
* *ThreadRetention.* cron keeps starting ticks, so `Purge` is fair. Users' deletions
  and time are not.
* *Gateways*, *ProjectDeletion* and *GhidraCache* have safety properties only.

Weak fairness is enough throughout: what is waited for stays possible until it
happens. The exception would be claims by one particular process, and no
property asks for that.

## 5. Proofs

All theorems hold for every value of the constants that satisfies the
assumptions declared with them: any number of workers, callers, users, rows,
hashes, ticks and faults. The assumptions say that bounds are naturals, that
sets of different things are disjoint and that the null values are not members.
Three of them say more. `BlobConstants`: there are finitely many `Stores` (a sum over
the uploads under way would be undefined otherwise). `GatewayConstants`: a limiter
grants at most one token per unit of time (a unit is as fine as one likes), and
`LimiterTtl >= Minute + ShortWait` (the email tools' executor.rs has 1800 s, 60 s and
5 s). And one theorem has the hypothesis `MaxStalls = 0`, named there.

Each theorem `Spec => []P` is proved with an inductive invariant that says what `P`
leaves out, and the invariant was checked by TLC before it was proved. The
sections below say what it adds, and why it is needed.

### Tool runs

*`JobQueue`.* `TypeCorrect` first. `RowInv` relates the rows to the
transactions that insert them: a number not handed out has no row, an open
transaction has a number of its own and no row yet, a worker holds a row that
exists, and a row that can still be claimed has an attempt left;
`AttemptsBounded` follows. `FinishedStaysFinished` follows from a lemma on how
one row's status can move. For `QuotaSafe` the invariant adds that a client
between its check and its commit holds its user's lock (`LockHeld`), and that the
check stays true until then (`RoomLeft`).

`HoldInv` says of a claimed run that is not in `overrun` that it is running, has a valid
lease and exactly one worker, or is terminal and its worker is about to clean up;
and of an executing worker, that its directory is there unless it has aged or the
run is in `overrun`. `ExclusiveSafe`, `ScratchLosses` and `AnswerSafe` follow, without a
hypothesis: a stall of one worker takes nothing from the other runs. `AnswerSafe` adds that
a told outcome is the row's (`OutcomeKept`), which every write of another attempt would
break: such an attempt needs a claim of a terminal row, or an overrun. `ImplementsLifecycle` maps every step to a step of `RunLifecycle` or a
stutter; its hypothesis is `MaxStalls = 0`, which is a real restriction: with
a stalled worker the unguarded `complete()` does overwrite a later outcome, so
the refinement is false. `FinishedStaysFinished` is what remains true then.

*`GhidraCache`.* For `PartialIsExplained`, `Unspoiled` says what the lock does to a
directory where no kill, failed import or failed lock has interfered: partial data is being
written, by an import whose call holds the lock, and who reads it has it shared or
is not reading yet. `AnalysesAreFound` needs that what was analysed in full stays
cached (`FullIsCached`): in a worker because whoever clears a directory holds its
lock and found no marker, with `re_executor` because nothing is cleared.

*`OopExecutor`.* `ResultsAreOwn`: an execution begins only when all earlier ones
are superseded (`OneByOne`); a program runs only while its worker waits for it or
is dead (`ProgramsAttended`), so a file appears only then; and what lies in the
scratch directory is the work of an execution that has not swept it, or that went
astray (`InDirectory`). An execution that finds another's file therefore
finds that of a worker that died or stalled, or, of a trusted program, that of a
process it left behind.

### Projects

*`BlobStore`.* `TypeCorrect` contains that `storage_bytes_used` never
becomes negative. `LossNeedsRace`: `LossOnlyByRace` is not inductive, since it
says nothing of stores under way and of ticks about to delete. `LossInv` adds that a
hash outside `raced` which an artifact refers to, or which a store has placed but
not yet given an artifact, has its file and is a candidate of no tick; and that
the candidate whose file was just removed is still in its tick's list.

`StorageIsBounded` and `AccountsAreExact` come from one invariant (`MoneyInv`): a
user's account is within the limit, covers what is stored together with what uploads
under way have reserved, and, as long as nothing has failed, equals what was billed
and reserved. Each step is one of four (`AccountsStay`, `FailStep`, `GrantStep`,
`CommitStep`) and moves one addend of a sum over all uploads or artifacts.

*`Hooks`.* `FiresSpaced` is not inductive, because it says nothing of what ticks
have listed. `SpacedInv` adds that the row remembers its last firing with its
generation, and that a listed row with the current generation was due when it was
listed and still is. A claim compares generations only; that is enough.

*`ProjectDeletion`.* `KeysHold` says that foreign keys hold in what is committed and
in what the transaction sees. As long as nobody has interfered, the statements passed
have deleted what they name, until the one that ends the caller's membership
(`AloneInv`); so a row that refuses a statement is one that no earlier statement names
(`FailuresAreExplained`). An owner or administrator sees all rows at every statement,
and the last one leaves no project (`OwnersLeaveNothing`).

*`SumProofs`* has the lemmas this rests on. The sum of a function over a finite set is a
fold, and no induction theorem of the library can be used (its hypothesis is
an operator). It is therefore compared with the number of the pairs `<<x, i>>` with
`1 <= i <= f[x]`, whose cardinality library lemmas govern, by the least
counterexample among the subsets: a smallest set where the two differ has an
element, without which they agree. `SumGrows` and `SumChange` then say how
a change of one addend changes the sum. `AgentsProofs` uses them too.

### Queues

*`WorkQueueProofs`* proves once, per operation of the row protocol, that types are
kept and claims counted (`claims[r]` is at most `attempts[r]`, plus one while
processing), and that final rows stay. *`IngestQueuesProofs`* uses it for each
action of a tick: `ClaimsAreBounded`, `EndedStaysEnded` (final rows stay), and, from an invariant
on where each tick stands (the batches before the one it is at are stored; a
tick about to complete has stored them all), `NothingSkipped` and
`ResultsHandedOn`.

*`DeliveryProofs`.* An email under way is `sending`, has one holder and an attempt left
(`Sole`): that is `EmailsHeldOnce`, and why writes without a guard hit the writer's
own row. `NothingBarredIsSent` adds that a sender barred before it looks will find
what bars it (`WillSee`), since what lifts the bar also takes the sender out of
`barred`. `RepeatsAreExplained` counts: the deliveries made of a row, the senders
that may yet deliver it or give it back, and one if it waits to be claimed or
set back, are at most one more than the faults and changes so far (`CountedAt`). Every
step is one of seven ways to move these numbers (`Accounted`), of which each keeps
the sum. The reports are true because a sender knows of its delivery (`TrueReports`).

### Limits

*`LlmCalls`.* `LlmInv` holds the types, that the row of a day exists while a
reservation stands in it, that reservations belong to calls under way, and that
the counter of the tracker is the number of guards, plus the one about to be
counted. `LedgerHolds` adds up each way a call can end. `OverrunHolds` needs a
stronger sum: at the moment of a reservation the row is within the quota, and from
then on each session adds at most what its report exceeds its reservation by. The
sums are over cardinalities of sets of sessions, so they hold for any number of
them. `TrackerIsPool` maps the counter to `SlotPool`: acquiring is atomic although
its two halves interleave with guards that are dropped.

*`Gateways`, what is called.* `VetInv` says, of each stage a request may be ahead of, what has
been vetted so far: before its rules are checked nothing, afterwards that they allow the
target, once it is resolved that they allow its addresses; and of each row of the
cache, that it answers the question it stands under and was fetched from pages which the
rules of the one that put it there allow. `CallsAreVetted` and `AnswersAreExplained` follow, for a
request sent back by a redirect is at a stage before its check again.

*`Gateways`, the pace.* `PaceIsKept` is for the shared limiter and for that of every
user who was not evicted, for any rate and any number of requests. What a limiter has granted and time not paid for
(`debt`) is at most one interval for each token its bucket lacks, less the part of
the interval it is in (`Owed`); one step of time moves `since` by one, or completes
an interval and adds a token, unless the bucket is full. A request asleep at its
user's limiter holds the one in the map (`AtUser`), because no limiter with a sleeper
is pruned: the email tools prune after `LimiterTtl` without use, and a sleeper
used it at most `ShortWait` ago. Whoever is pruned has rested until the debt is
paid, hence the assumption. The VirusTotal gateway never prunes. The web gateway throws out users whether they
rest or not; of those the property says nothing, because the code promises nothing.

### Agents

*`Workflow`.* `TypeCorrect` holds the code's limits (`MAX_REPIVOTS`,
`MAX_FANOUT_DEPTH`); it needs that only a thread above the last level has files to
spawn for. `FilesDoNotComeBack`: `StepShape` sorts every step into one that keeps
a thread's workflow, one that ends it and one that spawns a child; `Chained` says
that what a thread and its ancestors were spawned for is visited, and a child is
spawned for what is not. `ParentsWait` is inductive with the types, by the cases
of who moves: the child, its parent or another thread. `SkippedAgentsStayOut`
follows the steps of one agent through signals and replacements.
`StepsHaveReasons` keeps an account per thread and agent: steps taken and steps left in the plan are
at most those of the plan it began with, the requests for it and the
replacements (`Accounted`). A signal moves steps from group to group or adds one if
none is left, so the steps left are a sum over groups, and `SumProofs` applies.

*`AgentLoop`.* All three invariants come from one (`LoopInv`). `RowsKnown`: the rows of the
user ask for no calls, and the others only for those of runs that have begun. And of each
run under way (`Sound`):

* Its context fits the thread (`Fits`): the prompt comes first, a message with a row is
  that row, and no row is there twice. A message of the user has a row up to `seen`.
* `seen` is 0 or a committed row (`SeenStands`), and every visible row of the user
  up to it was given to the run, passed over, or committed late (`NothingMissed`). A row inserted
  before `seen` that commits afterwards is late by definition; without
  `SeenStands` one could be missed that is not.
* Its own calls are in whole groups (`Blocks`), an assistant message directly followed by
  results for exactly its calls; only in the last group, while tools run, may results
  be missing, for just the calls still to be made.
* A compaction that has marked rows will cut where no group of the run is cut
  (`Cut`).

`MessagesReadOnce` reads the first two off, `OwnCallsAreAnswered` the third.
What cuts, windows and the check of a local model do to a context is one notion:
`Selected` says that the new context is messages of the old one in their order, with
one more perhaps in second place, and `GroupsWhole` that a group is kept whole or not at
all; under these the pairing is kept (`CutPaired`, `Tidied`).

`RequestsRepaired` needs none of this: `RequestsWork` holds for any sequence of messages.
It follows the three passes turn by turn. After the first every tool use but
those of the last turn is answered in the next turn; `Closed` answers those; the second
drops the results that were not asked for, and the third merges neighbours of one role
without parting a use from its result, because the two stand in turns of different roles. The
passes are recursive functions. What such a function computes is proved here by
the least counterexample: `NatLessThanWellFounded` and `WFMin` give the least number
for which a set lacks a member (`CountUp`), and the set is "the turns for which
the pass so far exists and has its property" (`PassExists`).

`LoopConstants` says that limits are naturals and that a scenario gives each run its mode.
A run with `AF_USE_CWC` is in the theorems as it is in the model: what `cwc_session` drops
is open, so `OwnCallsAreAnswered` says nothing of it, and the other two hold for it too.

### Model-checked only

Every invariant and every action property that the passing runs check is stated by a
theorem. Model-checked only are:

* the nine liveness properties (`EveryRunFinishes`, `GarbageCollected`, `EveryRowSettles`,
  `EveryNotificationEnds`, `EveryWorkflowEnds`, `EveryRunEnds`, `DueHooksFire`,
  `ExpiredArePurged`, `EndsOrHeldUp`) and the fair part of `SlotsAsPool`, whose safety part is
  `TrackerIsPool`: the prover has no rules for fairness and `ENABLED`;
* the two refutations (section 6), each of which is one behaviour.

## 6. Disagreements with the documentation

`compaction.rs:186` says that the tail of a compacted context is "always
preserved". `try_compact` and `local_context_reset` translate positions of the
context into rows of the history by subtracting one for the system prompt
(`compaction.rs:115`), but with a memory message in the context the difference is
two: the first message that is kept has its row marked as compacted, and the next
run does not load it (`agent_tail_compacted`).

`db/projects.rs:172` says "Delete a project and all associated data", and the route
answers `"deleted": true`. A manager, who passes the route's check although its
comment (`routes/projects.rs:116`) says "Only owner or admin can delete", deletes
under row security. The statement that deletes `project_members` ends the manager's
own membership, with it the project's visibility, and `DELETE FROM projects` matches
no row; `delete_project` then returns false, which `routes/projects.rs:119` ignores.
The project stays, empty, without members and with its owner (`project_deleted`).

Statements of the documentation that the models contradict without a run of
their own (the invariants state what holds instead):

* `tick_hooks_scheduling.md:1021`, `worker.rs:117`: a worker whose run was reaped is
  told by its failing heartbeat. `heartbeat` updates by id and succeeds.
* `USAGE.md:794`: jobs in progress complete before exit. `select!` drops the
  execution.
* `worker.rs:98`: scratch directories are cleaned up on panic. A panic unwinds past
  the cleanup and leaves a detached heartbeat; a tick removes the directory later.
* `scratch.rs:21`, `tick.rs:18`: a tick removes orphaned directories left by crashed
  workers. It looks at the modification time only, and removes a directory in use
  when an execution takes longer than two hours, or has taken over an old one
  (`ScratchLossExplained`, `TickSweeps`).
* `tick.rs:26`, `tick_hooks_scheduling.md:1092`: no race of collection and store.
  The file goes before the re-check; `LossOnlyByRace` says that nothing else loses
  a file.
* `tick_hooks_scheduling.md:1095`: exactly once. A stall or a lost answer repeats a
  delivery; `RepeatsExplained` is what holds.
* `tick_hooks_scheduling.md:1108`: email has no stuck state. A tick that dies leaves
  a row in `sending`, which nothing looks at.
* `examples/local-tools/README.md:47`: `timeout_ms` is the maximal execution time. It
  covers neither writing stdin nor collecting after the exit (`HeldUp`).
* `docs/oop-sandbox-manual.md:801`: sandboxed processes die with the parent. Without
  a PID namespace only bwrap itself does.

Noticed while reading, and not the subject of a run: artifacts' bytes are never
given back on deletion; `begin_scoped`/`commit` errors of an upload leak its
reservation (`TransactionErrs`); `USAGE.md:375` skips a file "already analyzed in
the current tree", while `visited_sha256` knows only ancestors and their siblings,
so that two branches, or two artifacts with one content, analyse it twice;
`can_repivot = false` of a re-queued step ("prevent cascading") is never read;
a skipped agent is called back by a replacement, although a skip removes it "from
all future groups"; `ARCHITECTURE.txt:301` gives `MAX_FANOUT_DEPTH` as 1, the code
has 3; when the root meets its time limit its children go on unwatched; each attempt on a URL creates its artifacts
anew; retrying a failed URL that was submitted again meanwhile breaks a unique
index and surfaces as an internal error; `deliver_webdav` reads
`storage_root/xx/<sha256>` while blobs are under `data/xx/yy/`; a channel update
without `enabled` writes back an old value; files without a `blobs` row and
temporary upload files are never collected; limits on the outputs of a tool are
checked before they are added to; a document resumed under another embedding
model is a mixture; a stream with several reports releases its reservation with
each; re-reading the thread after a compaction raises `last_seen_seq` past
messages queued meanwhile (`passed`), and one that commits late is never polled
(`late`); the synchronous loop stores empty answers; the goal of a run is stored by
the streaming loop only; `invoke_agent` strips `meta.` tools against recursion, while
they are called `internal.*`; an agent hook ignores `route_override`; a claim of a
hook does not look at `enabled` or the interval again; a program that exits with 0
without reading a request larger than a pipe is an error; stderr that is not UTF-8
ends its reader; the exit status of oaie is ignored when there is a response; a
page from the cache may have been reached through a redirect which this project's
rules forbid; allow rules for addresses never match at the first check, which has
no addresses, so that an allowlist of only those blocks everything; redirects, and
reading, listing and searching of email, pass no limiter; the email tools take
a global token before they refuse a user; VirusTotal's map of limiters never
shrinks, its check and insert are two steps, and its expired cache rows are never
deleted; a full map of the web gateway evicts limiters even when the user has one,
and the evicted start with a full bucket; no statement of `delete_project` deletes
`thread_memory`, whose rows refuse the deletion of their threads
(`FailuresExplained`); the purge of threads deletes no rows of the two mail tables, so
that one expired thread with mail fails it for all projects, at every tick
(`HeldUp`); `af_visible_projects` is redefined three times by every start of a process,
and between migrations 010 and 018 projects shared with everyone are invisible;
`re_executor` leaves the files of a failed import, which the next call takes for an
analysis, and its decompiler takes no lock; inline workers, and a hook whose lookup
fails, analyse a shared binary a second time in the project's own directory.

### What the properties excuse

A property that the code breaks in one known way excepts just that way, so that it
still excludes all others. These hazards are therefore reported, not excluded:

* a worker that overwrites the outcome, or shares the run or the directory, of an attempt that
  replaced it after its lease ran out (`overrun`: `AnswerMatchesRow`,
  `ExclusiveExecution`, `ScratchLossExplained`), and a directory removed for its age (`aged`);
* the collection that removes a file while a store adopts its row (`raced`: `LossOnlyByRace`);
* a counter of embedded chunks that goes back (`EmbeddingsBacked` forbids one that runs ahead);
* the second limiter of a user whom the web gateway's full map has evicted (`RequestsPaced`);
* queued messages passed over or committed late (`passed`, `late`: `QueuedReadOnce`);
* the firing that is lost between claim and spawn (`DueHooksFire` is about the next ones);
* projects with a remembered thread (`FailuresExplained`) and threads held up by mail
  (`ExpiredArePurged`).

## 7. Plan

Done, in this order: `RunLifecycle` and `JobQueue` (every agent depends on it),
`BlobStore` (the only place where data can be lost), `WorkQueue` with
`IngestQueues`, `Delivery`, `Workflow`, `SlotPool` with `LlmCalls`, `Compaction` and
`AnthropicRequest` with `AgentLoop`, `Hooks`, `OopExecutor`, `RateLimit` with `Gateways`, `ProjectDeletion` with `ThreadRetention`,
`GhidraCache`. Next:

1. An abstract specification of a workflow (a bounded sequence of groups with
   fan-outs between them) that `Workflow` implements, and the conflict resolution
   of `signal_parser.rs` against it.
2. The memory of a thread (`thread_memory.rs`) and sub-agents, as parts of
   `AgentLoop`.


## 8. Not modelled

* Workflows: the notices put into threads, events sent to the client, prompts, the
  parsing of signals out of text, sub-agents started by tools.
* Contents: hashing, text, vectors, prompts, HTTP, formats, logs.
* In `JobQueue`, what happens inside an execution: its outcome is `ExecutionEnds`,
  and nothing of what it stores or enqueues. `OopExecutor` has the inside, for one run.
* Agent loop: the bridge to the context compiler is modelled with a cloud model,
  where its failure leads to a summary; with a local one it would lead to a reset
  without a summary to fall back on. Prompts, repair of malformed arguments, discovery of tools, what
  memory holds, sub-agents. A compaction that is dropped between marking rows and
  inserting their summary leaves the rows hidden; the code has no recovery, and the
  properties hold in these states too.
* Sandboxes: mounts, policies, the contents of requests.
* Gateways: parsing of pages and search results, GeoIP data, providers of email.
* Cascades to the queue tables when artifacts go; row security outside of
  `ProjectDeletion`, beyond "an update may match no row".
* Projects: creating, renaming and listing them, exports, the contents of settings.
* Ghidra: what lists of functions and decompilations contain, the overlay of renamed
  functions, partial saves when an analysis meets its time limit per file.
* The batch limit of 50 due emails (one email is enough to be due); credentials,
  tone presets.
* A missing embedding backend: the tick then skips its queue.
* Files without a `blobs` row, left by a crash between the rename and the upsert; no
  tick looks for them.
* API keys, route permissions and the limiter per key, translation to and from LLM APIs, analysis tools, command line, UI:
  pure decisions, translation or I/O.
