----------------------------- MODULE JobQueue -----------------------------
(***************************************************************************)
(* The tool-run queue of af-jobs: clients enqueue tool runs under a        *)
(* per-user quota and poll for the outcome, daemon workers and inline      *)
(* drain workers claim runs under a lease that a heartbeat task extends,   *)
(* a reaper requeues or fails runs whose lease expired.  Two processes     *)
(* share the database: the worker daemon and the API server that hosts the *)
(* clients and their inline workers; either may crash between any two      *)
(* steps.                                                                  *)
(*                                                                         *)
(* Time is abstracted: the lease of a running row is valid or expired.  It *)
(* expires on its own when nothing extends it any more.  When its worker   *)
(* is still alive, expiry means that the worker (or its database) was      *)
(* stalled for longer than the lease: such stalls are bounded by MaxStalls.*)
(***************************************************************************)
EXTENDS Naturals, FiniteSets

CONSTANTS
  Daemon,       \* the worker tasks of the daemon process
  Inline,       \* slots for inline drain workers of the API process (a bound)
  Clients,      \* concurrent callers of JobQueueInvoker::invoke
  Users,        \* users a run can be charged to
  NoUser,       \* actor_user_id = None
  Limited,      \* users that have a user_quotas row
  Quota,        \* max_concurrent_runs of each limited user
  MaxRuns,      \* bound: enqueue transactions ever begun
  MaxAttempts,  \* reaper.rs MAX_ATTEMPTS
  MaxStalls,    \* bound: workers stalled for longer than their lease
  MaxStops,     \* bound: crashes and shutdowns of processes
  Panicking,    \* workers in which a tool executor may panic
  DiskFaults,   \* may the removal of a scratch directory fail?
  Ageing,       \* bound: runs whose scratch directory may grow two hours old
  NoRun, NoClient

Workers == Daemon \cup Inline

ASSUME SizesAssumption ==
  MaxRuns \in Nat /\ MaxAttempts \in Nat \ {0} /\ MaxStalls \in Nat /\ MaxStops \in Nat
ASSUME FlagsAssumption ==
  Panicking \subseteq Workers /\ DiskFaults \in BOOLEAN /\ Ageing \subseteq 1..MaxRuns
ASSUME WorkersAssumption == Daemon \cap Inline = {}
ASSUME UsersAssumption ==
  /\ NoUser \notin Users /\ NoClient \notin Clients
  /\ Limited \subseteq Users /\ Quota \in [Limited -> Nat]
ASSUME NoRunAssumption == NoRun \notin 1..MaxRuns

Runs == 1..MaxRuns
Procs == {"daemon", "api"}

VARIABLES
  status, attempt, lease, actor,  \* the tool_runs table, by run
  nextRun,     \* number of the next enqueue transaction, in created_at order
  scratch,     \* runs whose directory exists under scratch_root
  aged,        \* runs whose directory, there or removed by a tick, is two hours old
  wphase, wrun, wres,  \* the task of each worker: step, claimed run, result
  hb,          \* the worker's heartbeat task: fine, or it signalled a failure
  cphase, crun, cuser, \* each client's invoke: step, run, acting user
  answer,      \* outcome invoke() returned for a run
  lock,        \* per-user advisory lock
  daemon,      \* daemon process: up, stopping (Ctrl-C) or down
  leaked,      \* heartbeat tasks that outlived their worker, by process
  stalls, stops,
  \* History:
  overrun      \* runs whose lease ran out while a worker was on them

table   == <<status, attempt, lease, actor>>
worker  == <<wphase, wrun, wres, hb>>
client  == <<cphase, crun, cuser, answer, lock, nextRun>>
process == <<daemon, leaked>>
dirs    == <<scratch, aged>>
faults  == <<stalls, stops, overrun>>
vars == <<table, worker, client, process, dirs, faults>>

Terminal == {"completed", "failed"}
RowStatus == {"none", "queued", "running"} \cup Terminal
WorkerPhase == {"off", "idle", "claimed", "executing", "finishing", "cleanup"}
ClientPhase == {"idle", "begun", "locked", "admitted", "polling"}

(* The type invariant of the queue. *)
TypeOK ==
  /\ status \in [Runs -> RowStatus] /\ attempt \in [Runs -> Nat]
  /\ lease \in [Runs -> {"none", "valid", "expired"}]
  /\ actor \in [Runs -> Users \cup {NoUser}]
  /\ nextRun \in 1..(MaxRuns + 1) /\ scratch \in SUBSET Runs /\ aged \in SUBSET Runs
  /\ wphase \in [Workers -> WorkerPhase] /\ wrun \in [Workers -> Runs \cup {NoRun}]
  /\ wres \in [Workers -> {"none", "ok", "err"}] /\ hb \in [Workers -> {"fine", "failed"}]
  /\ cphase \in [Clients -> ClientPhase] /\ crun \in [Clients -> Runs \cup {NoRun}]
  /\ cuser \in [Clients -> Users \cup {NoUser}]
  /\ answer \in [Runs -> {"none"} \cup Terminal]
  /\ lock \in [Users -> Clients \cup {NoClient}]
  /\ daemon \in {"up", "stopping", "down"} /\ leaked \in [Procs -> SUBSET Runs]
  /\ stalls \in 0..MaxStalls /\ stops \in 0..MaxStops /\ overrun \in SUBSET Runs

Init ==
  /\ status = [r \in Runs |-> "none"] /\ attempt = [r \in Runs |-> 0]
  /\ lease = [r \in Runs |-> "none"] /\ actor = [r \in Runs |-> NoUser]
  /\ nextRun = 1 /\ scratch = {} /\ aged = {}
  /\ wphase = [w \in Workers |-> IF w \in Daemon THEN "idle" ELSE "off"]
  /\ wrun = [w \in Workers |-> NoRun] /\ wres = [w \in Workers |-> "none"]
  /\ hb = [w \in Workers |-> "fine"]
  /\ cphase = [c \in Clients |-> "idle"] /\ crun = [c \in Clients |-> NoRun]
  /\ cuser = [c \in Clients |-> NoUser] /\ answer = [r \in Runs |-> "none"]
  /\ lock = [u \in Users |-> NoClient]
  /\ daemon = "up" /\ leaked = [p \in Procs |-> {}]
  /\ stalls = 0 /\ stops = 0 /\ overrun = {}

-----------------------------------------------------------------------------
(* Enqueue: quota check and insert in one transaction under the user's      *)
(* advisory lock (enqueue.rs, user_quotas.rs, tool_runs.rs).                *)

(* The runs of u that count against its concurrent-run quota. *)
Active(u) == {r \in Runs : actor[r] = u /\ status[r] \in {"queued", "running"}}

(* Leave invoke(): the client's transaction, if any, ends with its lock. *)
Leave(c) ==
  /\ cphase' = [cphase EXCEPT ![c] = "idle"]
  /\ crun' = [crun EXCEPT ![c] = NoRun] /\ cuser' = [cuser EXCEPT ![c] = NoUser]
  /\ lock' = [u \in Users |-> IF lock[u] = c THEN NoClient ELSE lock[u]]

(* BEGIN after the request was validated; now() of the transaction is the    *)
(* row's created_at.  Without an acting user there is no lock and no quota.  *)
EnqueueBegin(c, u) ==
  /\ cphase[c] = "idle" /\ nextRun <= MaxRuns
  /\ nextRun' = nextRun + 1
  /\ cphase' = [cphase EXCEPT ![c] = IF u = NoUser THEN "admitted" ELSE "begun"]
  /\ crun' = [crun EXCEPT ![c] = nextRun] /\ cuser' = [cuser EXCEPT ![c] = u]
  /\ UNCHANGED <<table, worker, answer, lock, process, dirs, faults>>

(* Mutant: count without taking the advisory lock. *)
EnqueueWithoutLock(c) ==
  /\ cphase[c] = "begun"
  /\ lock' = [lock EXCEPT ![cuser[c]] = c]
  /\ cphase' = [cphase EXCEPT ![c] = "locked"]
  /\ UNCHANGED <<table, worker, crun, cuser, answer, nextRun, process, dirs, faults>>

(* pg_advisory_xact_lock *)
EnqueueLock(c) ==
  /\ cphase[c] = "begun" /\ lock[cuser[c]] = NoClient
  /\ lock' = [lock EXCEPT ![cuser[c]] = c]
  /\ cphase' = [cphase EXCEPT ![c] = "locked"]
  /\ UNCHANGED <<table, worker, crun, cuser, answer, nextRun, process, dirs, faults>>

OverQuota(u) == u \in Limited /\ Cardinality(Active(u)) >= Quota[u]

(* count_active_runs and get_quota: admit the run or roll back. *)
EnqueueCheck(c) ==
  /\ cphase[c] = "locked"
  /\ IF OverQuota(cuser[c])
     THEN Leave(c)
     ELSE cphase' = [cphase EXCEPT ![c] = "admitted"] /\ UNCHANGED <<crun, cuser, lock>>
  /\ UNCHANGED <<table, worker, answer, nextRun, process, dirs, faults>>

(* Insert the row, COMMIT, and spawn the inline drain worker of invoke(). *)
EnqueueCommit(c, w) ==
  /\ cphase[c] = "admitted" /\ w \in Inline /\ wphase[w] = "off"
  /\ status' = [status EXCEPT ![crun[c]] = "queued"]
  /\ actor' = [actor EXCEPT ![crun[c]] = cuser[c]]
  /\ lock' = [u \in Users |-> IF lock[u] = c THEN NoClient ELSE lock[u]]
  /\ cphase' = [cphase EXCEPT ![c] = "polling"]
  /\ wphase' = [wphase EXCEPT ![w] = "idle"]
  /\ UNCHANGED <<attempt, lease, wrun, wres, hb, crun, cuser, answer, nextRun,
                 process, dirs, faults>>

(* A poll sees a terminal status and invoke() returns it. *)
Poll(c) ==
  /\ cphase[c] = "polling" /\ status[crun[c]] \in Terminal
  /\ answer' = [answer EXCEPT ![crun[c]] = status[crun[c]]]
  /\ Leave(c)
  /\ UNCHANGED <<table, worker, nextRun, process, dirs, faults>>

(* A database error, the 300 s timeout, or the caller dropping the future:   *)
(* an open transaction rolls back, a committed run and its worker stay.      *)
GiveUp(c) ==
  /\ cphase[c] # "idle"
  /\ Leave(c)
  /\ UNCHANGED <<table, worker, answer, nextRun, process, dirs, faults>>

-----------------------------------------------------------------------------
(* One pass of Worker::try_execute_one.                                     *)

(* What the caller's loop does with Err: the daemon goes on after a pause,   *)
(* the inline drain loop ends.                                               *)
AfterError(w) == IF w \in Daemon THEN "idle" ELSE "off"

Release(w, phase) ==
  /\ wphase' = [wphase EXCEPT ![w] = phase]
  /\ wrun' = [wrun EXCEPT ![w] = NoRun] /\ wres' = [wres EXCEPT ![w] = "none"]
  /\ hb' = [hb EXCEPT ![w] = "fine"]

(* Mutant: claim also retries a failed row. *)
ClaimableAgain(r) ==
  /\ status[r] \in {"queued", "failed"}
  /\ \A q \in Runs : status[q] = "queued" /\ q < r => \E w \in Workers : wrun[w] = q

(* Mutant: ORDER BY created_at dropped. *)
ClaimableUnordered(r) == status[r] = "queued"

(* The oldest queued row; SKIP LOCKED passes over a row another worker is    *)
(* writing at the moment.                                                    *)
Claimable(r) ==
  /\ status[r] = "queued"
  /\ \A q \in Runs : status[q] = "queued" /\ q < r => \E w \in Workers : wrun[w] = q

Claim(w, r) ==
  /\ wphase[w] = "idle" /\ Claimable(r)
  /\ status' = [status EXCEPT ![r] = "running"]
  /\ attempt' = [attempt EXCEPT ![r] = @ + 1]
  /\ lease' = [lease EXCEPT ![r] = "valid"]
  /\ wphase' = [wphase EXCEPT ![w] = "claimed"] /\ wrun' = [wrun EXCEPT ![w] = r]
  /\ UNCHANGED <<actor, wres, hb, client, process, dirs, faults>>

(* An inline worker ends when it finds the queue empty (or the claim fails). *)
DrainEnds(w) ==
  /\ w \in Inline /\ wphase[w] = "idle"
  /\ Release(w, "off")
  /\ UNCHANGED <<table, client, process, dirs, faults>>

(* Tool or executor not registered in this process, or build_context failed: *)
(* Err, with the row left running and no heartbeat.                          *)
LookupFails(w) ==
  /\ wphase[w] = "claimed"
  /\ Release(w, AfterError(w))
  /\ UNCHANGED <<table, client, process, dirs, faults>>

(* build_context made the scratch directory; the heartbeat task is spawned.  *)
(* create_dir_all takes the directory that a lost attempt left as it is, its *)
(* age included.                                                             *)
StartExecution(w) ==
  /\ wphase[w] = "claimed"
  /\ scratch' = scratch \cup {wrun[w]}
  /\ aged' = IF wrun[w] \in scratch THEN aged ELSE aged \ {wrun[w]}
  /\ wphase' = [wphase EXCEPT ![w] = "executing"]
  /\ UNCHANGED <<table, wrun, wres, hb, client, process, faults>>

(* tool_runs::heartbeat updates the row by id, whatever its status. *)
Heartbeat(w) ==
  /\ wphase[w] = "executing" /\ hb[w] = "fine"
  /\ lease' = [lease EXCEPT ![wrun[w]] = "valid"]
  /\ UNCHANGED <<status, attempt, actor, worker, client, process, dirs, faults>>

(* The update returned an error: the task signals the executor and ends. *)
HeartbeatFails(w) ==
  /\ wphase[w] = "executing" /\ hb[w] = "fine"
  /\ hb' = [hb EXCEPT ![w] = "failed"]
  /\ UNCHANGED <<table, wphase, wrun, wres, client, process, dirs, faults>>

(* validate() rejected, execute() returned, or the select! saw the lost      *)
(* heartbeat; the heartbeat task is aborted.                                 *)
ExecutionEnds(w, res) ==
  /\ wphase[w] = "executing"
  /\ wphase' = [wphase EXCEPT ![w] = "finishing"]
  /\ wres' = [wres EXCEPT ![w] = res] /\ hb' = [hb EXCEPT ![w] = "fine"]
  /\ UNCHANGED <<table, wrun, client, process, dirs, faults>>

(* The executor panics: the task unwinds past the cleanup, and dropping the  *)
(* JoinHandle detaches the heartbeat instead of stopping it.                 *)
ProcOf(w) == IF w \in Daemon THEN "daemon" ELSE "api"
Detach(w) == IF wphase[w] = "executing" /\ hb[w] = "fine"
             THEN [leaked EXCEPT ![ProcOf(w)] = @ \cup {wrun[w]}]
             ELSE leaked
ExecutorPanics(w) ==
  /\ wphase[w] = "executing"
  /\ leaked' = Detach(w)
  /\ Release(w, "off")
  /\ UNCHANGED <<table, client, daemon, dirs, faults>>

(* complete() by id; every error of the scoped transaction is ignored. *)
WriteComplete(w, stored) ==
  /\ wphase[w] = "finishing" /\ wres[w] = "ok"
  /\ status' = IF stored THEN [status EXCEPT ![wrun[w]] = "completed"] ELSE status
  /\ wphase' = [wphase EXCEPT ![w] = "cleanup"]
  /\ UNCHANGED <<attempt, lease, actor, wrun, wres, hb, client, process, dirs, faults>>

(* scoped_fail() by id; its error is the result of the pass.  Under row      *)
(* security the update may also match no row, which is no error.             *)
WriteFail(w, stored, res) ==
  /\ wphase[w] = "finishing" /\ wres[w] = "err"
  /\ stored => res = "ok"
  /\ status' = IF stored THEN [status EXCEPT ![wrun[w]] = "failed"] ELSE status
  /\ wphase' = [wphase EXCEPT ![w] = "cleanup"]
  /\ wres' = [wres EXCEPT ![w] = res]
  /\ UNCHANGED <<attempt, lease, actor, wrun, hb, client, process, dirs, faults>>

(* try_execute_one removes the directory and returns to the caller's loop. *)
CleanupScratch(w, removed) ==
  /\ wphase[w] = "cleanup"
  /\ removed \/ DiskFaults
  /\ scratch' = IF removed THEN scratch \ {wrun[w]} ELSE scratch
  /\ aged' = IF removed THEN aged \ {wrun[w]} ELSE aged
  /\ Release(w, IF wres[w] = "ok" THEN "idle" ELSE AfterError(w))
  /\ UNCHANGED <<table, client, process, faults>>

-----------------------------------------------------------------------------
(* Leases, the reaper, and the tick's removal of orphaned directories.      *)

(* Does a live task still extend, or is about to give up, r's lease? *)
InHand(r)   == \E w \in Workers : wrun[w] = r
Attended(r) == InHand(r) \/ (\E p \in Procs : r \in leaked[p])

LeaseExpires(r) ==
  /\ status[r] = "running" /\ lease[r] = "valid"
  /\ Attended(r) => stalls < MaxStalls
  /\ lease' = [lease EXCEPT ![r] = "expired"]
  /\ stalls' = IF Attended(r) THEN stalls + 1 ELSE stalls
  /\ overrun' = IF InHand(r) THEN overrun \cup {r} ELSE overrun
  /\ UNCHANGED <<status, attempt, actor, worker, client, process, dirs, stops>>

(* Mutant: the reaper does not look at the lease. *)
ReapableAlive(r) == status[r] = "running"

(* Mutant: the reaper does not look at the status. *)
ReapableFinished(r) == lease[r] = "expired"

Reapable(r) == status[r] = "running" /\ lease[r] = "expired"

(* Mutant: attempt <= max_attempts. *)
ReclaimAtMax ==
  LET S == {r \in Runs : Reapable(r) /\ attempt[r] <= MaxAttempts} IN
  /\ S # {}
  /\ status' = [r \in Runs |-> IF r \in S THEN "queued" ELSE status[r]]
  /\ lease' = [r \in Runs |-> IF r \in S THEN "none" ELSE lease[r]]
  /\ UNCHANGED <<attempt, actor, worker, client, process, dirs, faults>>

(* Mutant: attempt + 1 < max_attempts leaves the last but one attempt to nobody. *)
ReclaimTooFew ==
  LET S == {r \in Runs : Reapable(r) /\ attempt[r] + 1 < MaxAttempts} IN
  /\ S # {}
  /\ status' = [r \in Runs |-> IF r \in S THEN "queued" ELSE status[r]]
  /\ lease' = [r \in Runs |-> IF r \in S THEN "none" ELSE lease[r]]
  /\ UNCHANGED <<attempt, actor, worker, client, process, dirs, faults>>

ReclaimExpired ==
  LET S == {r \in Runs : Reapable(r) /\ attempt[r] < MaxAttempts} IN
  /\ S # {}
  /\ status' = [r \in Runs |-> IF r \in S THEN "queued" ELSE status[r]]
  /\ lease' = [r \in Runs |-> IF r \in S THEN "none" ELSE lease[r]]
  /\ UNCHANGED <<attempt, actor, worker, client, process, dirs, faults>>

FailExhausted ==
  LET S == {r \in Runs : Reapable(r) /\ attempt[r] >= MaxAttempts} IN
  /\ S # {}
  /\ status' = [r \in Runs |-> IF r \in S THEN "failed" ELSE status[r]]
  /\ UNCHANGED <<attempt, lease, actor, worker, client, process, dirs, faults>>

(* A detached heartbeat task goes on until its update fails. *)
LeakedHeartbeat(p, r) ==
  /\ r \in leaked[p]
  /\ lease' = [lease EXCEPT ![r] = "valid"]
  /\ UNCHANGED <<status, attempt, actor, worker, client, process, dirs, faults>>

LeakedHeartbeatFails(p, r) ==
  /\ r \in leaked[p]
  /\ leaked' = [leaked EXCEPT ![p] = @ \ {r}]
  /\ UNCHANGED <<table, worker, client, daemon, dirs, faults>>

(* Two hours pass. *)
ScratchAges(r) ==
  /\ r \in Ageing \cap (scratch \ aged)
  /\ aged' = aged \cup {r}
  /\ UNCHANGED <<table, worker, client, process, scratch, faults>>

(* Mutant: the age of the directory is not looked at. *)
RemoveScratch(r) ==
  /\ r \in scratch
  /\ scratch' = scratch \ {r}
  /\ UNCHANGED <<table, worker, client, process, aged, faults>>

(* cleanup_stale_dirs: a directory not modified for two hours, whether an    *)
(* execution works in it or not.  Whether the tool has modified it since it  *)
(* was made is up to the tool.                                               *)
RemoveStaleScratch(r) ==
  /\ r \in scratch \cap aged
  /\ scratch' = scratch \ {r}
  /\ UNCHANGED <<table, worker, client, process, aged, faults>>

-----------------------------------------------------------------------------
(* Processes.                                                               *)

Stop == stops < MaxStops /\ stops' = stops + 1 /\ UNCHANGED <<stalls, overrun>>

(* Every task of W disappears between two of its steps. *)
Kill(W) ==
  /\ wphase' = [w \in Workers |-> IF w \in W THEN "off" ELSE wphase[w]]
  /\ wrun' = [w \in Workers |-> IF w \in W THEN NoRun ELSE wrun[w]]
  /\ wres' = [w \in Workers |-> IF w \in W THEN "none" ELSE wres[w]]
  /\ hb' = [w \in Workers |-> IF w \in W THEN "fine" ELSE hb[w]]

DaemonCrash ==
  /\ daemon # "down" /\ Stop
  /\ daemon' = "down" /\ leaked' = [leaked EXCEPT !["daemon"] = {}]
  /\ Kill(Daemon)
  /\ UNCHANGED <<table, client, dirs>>

(* The API process dies and comes back with no client and no worker. *)
ApiCrash ==
  /\ Stop
  /\ leaked' = [leaked EXCEPT !["api"] = {}]
  /\ Kill(Inline)
  /\ cphase' = [c \in Clients |-> "idle"] /\ crun' = [c \in Clients |-> NoRun]
  /\ cuser' = [c \in Clients |-> NoUser] /\ lock' = [u \in Users |-> NoClient]
  /\ UNCHANGED <<table, answer, nextRun, daemon, dirs>>

(* Ctrl-C sets the watch flag of every worker task. *)
Shutdown ==
  /\ daemon = "up" /\ Stop
  /\ daemon' = "stopping"
  /\ UNCHANGED <<table, worker, client, leaked, dirs>>

(* The select! of the claim loop takes the changed() branch: the future of   *)
(* try_execute_one is dropped wherever it was suspended.                     *)
WorkerStops(w) ==
  /\ daemon = "stopping" /\ w \in Daemon /\ wphase[w] # "off"
  /\ leaked' = Detach(w)
  /\ Release(w, "off")
  /\ UNCHANGED <<table, client, daemon, dirs, faults>>

(* All handles joined: run() returns and the process exits. *)
DaemonExit ==
  /\ daemon = "stopping" /\ \A w \in Daemon : wphase[w] = "off"
  /\ daemon' = "down" /\ leaked' = [leaked EXCEPT !["daemon"] = {}]
  /\ UNCHANGED <<table, worker, client, dirs, faults>>

DaemonStart ==
  /\ daemon = "down"
  /\ daemon' = "up"
  /\ wphase' = [w \in Workers |-> IF w \in Daemon THEN "idle" ELSE wphase[w]]
  /\ UNCHANGED <<table, wrun, wres, hb, client, leaked, dirs, faults>>

-----------------------------------------------------------------------------
ClientStep(c) ==
  \/ \E u \in Users \cup {NoUser} : EnqueueBegin(c, u)
  \/ EnqueueLock(c) \/ EnqueueCheck(c)
  \/ \E w \in Inline : EnqueueCommit(c, w)
  \/ Poll(c) \/ GiveUp(c)

WorkerStep(w) ==
  \/ \E r \in Runs : Claim(w, r)
  \/ DrainEnds(w) \/ LookupFails(w) \/ StartExecution(w)
  \/ Heartbeat(w) \/ HeartbeatFails(w)
  \/ \E res \in {"ok", "err"} : ExecutionEnds(w, res)
  \/ \E stored \in BOOLEAN : WriteComplete(w, stored)
  \/ \E stored \in BOOLEAN, res \in {"ok", "err"} : WriteFail(w, stored, res)
  \/ \E removed \in BOOLEAN : CleanupScratch(w, removed)
  \/ WorkerStops(w)

LeaseStep(r) ==
  \/ LeaseExpires(r) \/ ScratchAges(r) \/ RemoveStaleScratch(r)
  \/ \E p \in Procs : LeakedHeartbeat(p, r) \/ LeakedHeartbeatFails(p, r)

ProcessStep == DaemonCrash \/ ApiCrash \/ Shutdown \/ DaemonExit \/ DaemonStart

Next ==
  \/ \E c \in Clients : ClientStep(c)
  \/ \E w \in Workers : WorkerStep(w)
  \/ \E w \in Panicking : ExecutorPanics(w)
  \/ \E r \in Runs : LeaseStep(r)
  \/ ReclaimExpired \/ FailExhausted
  \/ ProcessStep

Spec == Init /\ [][Next]_vars

-----------------------------------------------------------------------------
(* Fairness.  Worker tasks are scheduled and tools return: an assumption on  *)
(* the tools that run in-process, which have no timeout, and for programs    *)
(* their timeout, up to the pipes that hold a worker up (OopExecutor).  The  *)
(* daemon is restarted after it stopped; its reaper runs every 30 s; an      *)
(* unattended lease runs out.                                                *)
Progress(w) ==
  \/ \E r \in Runs : Claim(w, r)
  \/ LookupFails(w) \/ StartExecution(w)
  \/ \E res \in {"ok", "err"} : ExecutionEnds(w, res)
  \/ \E stored \in BOOLEAN : WriteComplete(w, stored)
  \/ \E stored \in BOOLEAN, res \in {"ok", "err"} : WriteFail(w, stored, res)
  \/ \E removed \in BOOLEAN : CleanupScratch(w, removed)

Fairness ==
  /\ \A w \in Workers : WF_vars(Progress(w)) /\ WF_vars(WorkerStops(w))
  /\ \A r \in Runs : WF_vars(~Attended(r) /\ LeaseExpires(r))
  /\ WF_vars(ReclaimExpired) /\ WF_vars(FailExhausted)
  /\ WF_vars(DaemonExit) /\ WF_vars(DaemonStart)

FairSpec == Spec /\ Fairness

-----------------------------------------------------------------------------
(* Properties.                                                              *)

(* The enqueue check of user_quotas.max_concurrent_runs holds at all times:  *)
(* however many clients of a user enqueue at once, its queued and running    *)
(* runs never exceed its quota.                                              *)
QuotaRespected == \A u \in Limited : Cardinality(Active(u)) <= Quota[u]

(* Claim counts the attempt and the reaper decides on it, in two statements  *)
(* of two processes: no run is executed more than MAX_ATTEMPTS times.        *)
AttemptBound == \A r \in Runs : attempt[r] <= MaxAttempts

(* As long as its lease did not run out under its worker, a claimed run has  *)
(* one worker: neither the reaper nor a second claim hands it out again      *)
(* while the first worker is anywhere between claim and cleanup, whatever    *)
(* happens to other runs.                                                    *)
ExclusiveExecution ==
  \A v, w \in Workers : wrun[v] # NoRun /\ wrun[v] = wrun[w] =>
    v = w \/ wrun[v] \in overrun

(* The scratch directory is named after the run, not the attempt, and nobody *)
(* asks whether it is in use.  An execution loses it in two ways only: a     *)
(* tick found it more than two hours old, its own or the one that a lost     *)
(* attempt had left, or the lease ran out under a worker, so that another    *)
(* attempt's cleanup takes it.                                               *)
ScratchLossExplained ==
  \A w \in Workers : wphase[w] = "executing" => wrun[w] \in scratch \cup aged \cup overrun

(* What invoke() told its caller stays true: the row is not finished again   *)
(* with another outcome, nor executed again, after the caller has acted,     *)
(* unless the lease ran out under a worker, whose complete() or fail() then  *)
(* overwrites what another attempt has written.                              *)
AnswerMatchesRow ==
  \A r \in Runs : answer[r] # "none" => status[r] = answer[r] \/ r \in overrun

(* Even with stalled workers that write late, a finished run never goes back *)
(* to the queue: complete() and fail() have no status guard, so this rests   *)
(* on the guards of claim() and of the reaper alone.                         *)
FinishedNeverRequeued ==
  [][\A r \in Runs : status[r] \in Terminal => status'[r] \in Terminal]_vars

(* Without stalls the queue keeps the promises of RunLifecycle: creation     *)
(* order, bounded retries, one outcome that never changes.                   *)
Lifecycle == INSTANCE RunLifecycle
  WITH Runs <- Runs, MaxAttempts <- MaxAttempts, status <- status, attempt <- attempt
LifecycleSpec == Lifecycle!Spec

(* A queued run gets an outcome although workers, processes and the writes   *)
(* of results may fail: a lost attempt is reclaimed or counted as failed.    *)
EveryRunFinishes ==
  \A r \in Runs : (status[r] = "queued") ~> (status[r] \in Terminal)
=============================================================================
