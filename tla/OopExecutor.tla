---------------------------- MODULE OopExecutor ----------------------------
(***************************************************************************)
(* The executions of one tool run by a program of its own                  *)
(* (af-jobs/src/oop_executor.rs, under the worker of worker.rs).  The      *)
(* worker starts the program, in a sandbox if it can, writes the request   *)
(* to its stdin, waits for it with a timeout, collects what it wrote and   *)
(* takes in the files it left in the scratch directory.  oaie gives its    *)
(* program no pipes, so there request and response are files of the        *)
(* scratch directory.                                                      *)
(*                                                                         *)
(* The programs are not ours: they read, write, fork, hang and exit when   *)
(* they like.  A pipe holds so much and no more.  A run whose worker died  *)
(* or stalled is executed again, in the same scratch directory.            *)
(***************************************************************************)
EXTENDS Integers, FiniteSets

CONSTANTS
  MaxExecutions, \* bound: executions of the run (its attempts)
  Hosts,         \* what the host offers: [profile, oaie, bwrap, unsandboxed]
  Request,       \* length of the request, in units of a pipe's buffer
  Response,      \* length of a whole response, in the same units
  MaxMishaps     \* bound: workers that die or stall, statements that fail

ASSUME OopConstants ==
  /\ MaxExecutions \in Nat /\ Request \in Nat /\ Response \in Nat /\ MaxMishaps \in Nat
  /\ Hosts \subseteq [profile : {"Trusted", "PrivateLoopback", "NoNetReadOnly"},
                      oaie : BOOLEAN, bwrap : BOOLEAN, unsandboxed : BOOLEAN]

Executions  == 1..MaxExecutions
NoExecution == 0
Capacity    == 1       \* of a pipe

VARIABLES
  host,
  at,        \* of the worker: "idle", "ready", "writing", "waiting", "collecting",
             \* "fetching", "parsing", "ingesting", "settling", "sweeping", "done", "dead"
  unsent,    \* what it has still to write
  reader,    \* its task that collects stdout: "none", "reading", "eof"
  got,       \* what that has collected
  program,   \* "none", "setup", "running", "ok", "failed"
  orphan,    \* a process that the program has forked, with its pipes
  stdin,     \* what is in the two pipes
  stdout,
  written,   \* how much of its response the program has written
  dir,       \* the scratch directory exists
  response,  \* _af_response.json: who wrote each part of it
  file,      \* who wrote the file that executions produce
  replied,   \* who wrote what an execution has taken as its response
  taken,     \* who wrote the file it has made an artifact of
  lost,      \* executions whose result could not be stored: the run goes on running
  mishaps,
  \* History:
  astray,    \* executions whose worker died or stalled
  forked     \* those whose program left a process behind outside of a sandbox

executor  == <<at, unsent, reader, got, replied, taken>>
child     == <<program, orphan, stdin, stdout, written>>
directory == <<dir, response, file>>
rest      == <<host, lost, mishaps, astray, forked>>
oopVars   == <<executor, child, directory, rest>>

Missing == [i \in 1..Response |-> NoExecution]

OopInit ==
  /\ host \in Hosts
  /\ at = [e \in Executions |-> "idle"] /\ unsent = [e \in Executions |-> Request]
  /\ reader = [e \in Executions |-> "none"] /\ got = [e \in Executions |-> 0]
  /\ program = [e \in Executions |-> "none"] /\ orphan = [e \in Executions |-> FALSE]
  /\ stdin = [e \in Executions |-> 0] /\ stdout = [e \in Executions |-> 0]
  /\ written = [e \in Executions |-> 0]
  /\ dir = FALSE /\ response = Missing /\ file = NoExecution
  /\ replied = [e \in Executions |-> {}]
  /\ taken = [e \in Executions |-> {}]
  /\ lost = {} /\ mishaps = 0 /\ astray = {} /\ forked = {}

-----------------------------------------------------------------------------
(* The sandbox.  With bwrap the processes of a namespace die together, but   *)
(* PrivateLoopback has none.                                                 *)
Sandbox ==
  IF host.profile = "Trusted" THEN "direct"
  ELSE IF host.oaie THEN "oaie"
  ELSE IF host.bwrap THEN (IF host.profile = "PrivateLoopback" THEN "shared" ELSE "namespace")
  ELSE IF host.unsandboxed THEN "direct" ELSE "refused"

Piped == Sandbox # "oaie"

Goto(e, where) == at' = [at EXCEPT ![e] = where]

(* The future of an execution is dropped: kill_on_drop.  What the program    *)
(* has forked dies with its namespace only.                                  *)
KillProgram(e) ==
  /\ program' = [program EXCEPT ![e] = IF @ \in {"setup", "running"} THEN "failed" ELSE @]
  /\ orphan' = [orphan EXCEPT ![e] = @ /\ Sandbox # "namespace"]

(* The locals of the worker's task are gone, its ends of the pipes too. *)
ClosePipes(e) ==
  /\ stdin' = [stdin EXCEPT ![e] = 0] /\ stdout' = [stdout EXCEPT ![e] = 0]
  /\ written' = [written EXCEPT ![e] = IF Piped THEN 0 ELSE @]

Reap(e) == program' = [program EXCEPT ![e] = IF @ \in {"ok", "failed"} THEN "none" ELSE @]

Forget(e) ==
  /\ ClosePipes(e)
  /\ unsent' = [unsent EXCEPT ![e] = Request] /\ got' = [got EXCEPT ![e] = 0]
  /\ reader' = [reader EXCEPT ![e] = "none"] /\ replied' = [replied EXCEPT ![e] = {}]
  /\ taken' = [taken EXCEPT ![e] = {}]

Error(e) == Goto(e, "settling")

-----------------------------------------------------------------------------
(* The worker. *)

(* A run is claimed again when its lease has run out: its worker died, or    *)
(* stalls, or could not store the result.                                    *)
Superseded(e) == at[e] = "dead" \/ e \in astray \/ (at[e] = "done" /\ e \in lost)

(* build_context creates the scratch directory if there is none. *)
Begin(e) ==
  /\ at[e] = "idle" /\ (e > 1 => Superseded(e - 1))
  /\ Goto(e, "ready")
  /\ dir' = TRUE
  /\ UNCHANGED <<unsent, reader, got, replied, taken, child, response, file, rest>>

(* The program is started; the shell that oaie runs truncates the response.  *)
Spawn(e) ==
  /\ at[e] = "ready" /\ Sandbox # "refused"
  /\ Goto(e, IF Piped THEN "writing" ELSE "waiting")
  /\ program' = [program EXCEPT ![e] = IF Piped THEN "running" ELSE "setup"]
  /\ UNCHANGED <<unsent, reader, got, replied, taken, orphan, stdin, stdout, written, directory, rest>>

(* No sandbox, no binary, or a request file that cannot be written. *)
SpawnFails(e) ==
  /\ at[e] = "ready" /\ Error(e)
  /\ UNCHANGED <<unsent, reader, got, replied, taken, child, directory, rest>>

Hears(e) == program[e] = "running" \/ orphan[e]

(* write_all, outside of the timeout and with nobody reading stdout yet. *)
WriteStdin(e) ==
  /\ at[e] = "writing" /\ unsent[e] > 0 /\ Hears(e) /\ stdin[e] < Capacity
  /\ unsent' = [unsent EXCEPT ![e] = @ - 1]
  /\ stdin' = [stdin EXCEPT ![e] = @ + 1]
  /\ UNCHANGED <<at, reader, got, replied, taken, program, orphan, stdout, written, directory, rest>>

(* Nobody has the other end of the pipe. *)
BrokenPipe(e) ==
  /\ at[e] = "writing" /\ unsent[e] > 0 /\ ~Hears(e)
  /\ Error(e)
  /\ UNCHANGED <<unsent, reader, got, replied, taken, child, directory, rest>>

(* What is in the pipe is the program's to read; that changes nothing here. *)
CloseStdin(e) ==
  /\ at[e] = "writing" /\ unsent[e] = 0
  /\ Goto(e, "waiting")
  /\ stdin' = [stdin EXCEPT ![e] = 0]
  /\ reader' = [reader EXCEPT ![e] = "reading"]
  /\ UNCHANGED <<unsent, got, replied, taken, program, orphan, stdout, written, directory, rest>>

ReadStdout(e) ==
  /\ reader[e] = "reading"
  /\ \/ /\ stdout[e] > 0
        /\ stdout' = [stdout EXCEPT ![e] = @ - 1] /\ got' = [got EXCEPT ![e] = @ + 1]
        /\ UNCHANGED reader
     \/ /\ stdout[e] = 0 /\ ~Hears(e)
        /\ reader' = [reader EXCEPT ![e] = "eof"]
        /\ UNCHANGED <<stdout, got>>
  /\ UNCHANGED <<at, unsent, replied, taken, program, orphan, stdin, written, directory, rest>>

(* child.wait() has a timeout, the readers that are awaited after it do not. *)
ProgramExited(e) ==
  /\ at[e] = "waiting" /\ program[e] \in {"ok", "failed"}
  /\ Goto(e, IF Piped THEN "collecting" ELSE "fetching")
  /\ UNCHANGED <<unsent, reader, got, replied, taken, child, directory, rest>>

(* A mutant of TimesOut: oaie is trusted to keep the time. *)
TimesOutPiped(e) ==
  /\ at[e] = "waiting" /\ Piped /\ program[e] \notin {"ok", "failed"}
  /\ KillProgram(e) /\ ClosePipes(e) /\ Error(e)
  /\ reader' = [reader EXCEPT ![e] = "none"]
  /\ UNCHANGED <<unsent, got, replied, taken, directory, rest>>

(* The program is killed, its output is not read on. *)
TimesOut(e) ==
  /\ at[e] = "waiting" /\ program[e] \notin {"ok", "failed"}
  /\ KillProgram(e) /\ ClosePipes(e) /\ Error(e)
  /\ reader' = [reader EXCEPT ![e] = "none"]
  /\ UNCHANGED <<unsent, got, replied, taken, directory, rest>>

(* A status other than 0 is an error. *)
Collect(e) ==
  /\ at[e] = "collecting" /\ reader[e] = "eof"
  /\ IF program[e] = "ok" THEN Goto(e, "parsing") ELSE Error(e)
  /\ UNCHANGED <<unsent, reader, got, replied, taken, child, directory, rest>>

(* oaie's status matters only if there is no response. *)
Fetch(e) ==
  /\ at[e] = "fetching"
  /\ \/ program[e] = "failed" /\ response = Missing /\ Error(e) /\ UNCHANGED <<got, replied>>
     \/ /\ program[e] = "ok" \/ response # Missing
        /\ Goto(e, "parsing")
        /\ got' = [got EXCEPT ![e] = Cardinality({i \in 1..Response : response[i] # NoExecution})]
        /\ replied' = [replied EXCEPT ![e] = {response[i] : i \in 1..Response} \ {NoExecution}]
  /\ response' = Missing
  /\ UNCHANGED <<unsent, reader, taken, child, dir, file, rest>>

(* A response is parsed; it may report an error of the tool, or more files   *)
(* than the policy allows.                                                   *)
ParseFails(e) ==
  /\ at[e] = "parsing" /\ Error(e)
  /\ replied' = [replied EXCEPT ![e] = {}]
  /\ UNCHANGED <<unsent, reader, got, taken, child, directory, rest>>

Parse(e) ==
  /\ at[e] = "parsing" /\ got[e] = Response
  /\ replied' = [replied EXCEPT ![e] = IF Piped THEN {e} ELSE @]
  /\ Goto(e, "ingesting")
  /\ UNCHANGED <<unsent, reader, got, taken, child, directory, rest>>

(* A file that is missing, too large, outside of the directory or cannot be  *)
(* stored is left out with a warning.                                        *)
Ingest(e) ==
  /\ at[e] = "ingesting"
  /\ \/ file # NoExecution /\ taken' = [taken EXCEPT ![e] = {file}]
     \/ UNCHANGED taken
  /\ Goto(e, "settling")
  /\ UNCHANGED <<unsent, reader, got, replied, child, directory, rest>>

(* The heartbeat could not be stored: select! drops the execution wherever   *)
(* it waits, and its reader is left to itself.                               *)
HeartbeatLost(e) ==
  /\ at[e] \in {"writing", "waiting", "collecting", "fetching", "ingesting"}
  /\ mishaps < MaxMishaps /\ mishaps' = mishaps + 1
  /\ KillProgram(e) /\ ClosePipes(e) /\ Error(e)
  /\ UNCHANGED <<unsent, reader, got, replied, taken, directory, host, lost, astray, forked>>

(* complete() or fail(), whose errors leave the row as it was. *)
Settle(e) ==
  /\ at[e] = "settling"
  /\ \/ UNCHANGED <<lost, mishaps>>
     \/ mishaps < MaxMishaps /\ mishaps' = mishaps + 1 /\ lost' = lost \cup {e}
  /\ Goto(e, "sweeping")
  /\ UNCHANGED <<unsent, reader, got, replied, taken, child, directory, host, astray, forked>>

(* A mutant of Sweep: the directory stays. *)
SweepNothing(e) ==
  /\ at[e] = "sweeping"
  /\ Goto(e, "done") /\ Forget(e) /\ Reap(e)
  /\ UNCHANGED <<orphan, directory, rest>>

(* cleanup_scratch_dir *)
Sweep(e) ==
  /\ at[e] = "sweeping"
  /\ Goto(e, "done") /\ Forget(e) /\ Reap(e)
  /\ dir' = FALSE /\ response' = Missing /\ file' = NoExecution
  /\ UNCHANGED <<orphan, rest>>

(* The worker's process dies.  bwrap dies with its parent, other programs    *)
(* live on with broken pipes.                                                *)
WorkerDies(e) ==
  /\ at[e] \notin {"idle", "done", "dead"}
  /\ mishaps < MaxMishaps /\ mishaps' = mishaps + 1
  /\ Goto(e, "dead") /\ Forget(e) /\ astray' = astray \cup {e}
  /\ IF Sandbox \in {"namespace", "shared"} THEN KillProgram(e)
     ELSE Reap(e) /\ UNCHANGED orphan
  /\ UNCHANGED <<directory, host, lost, forked>>

(* Its lease runs out although it lives. *)
WorkerStalls(e) ==
  /\ at[e] \notin {"idle", "done", "dead"} /\ e \notin astray
  /\ mishaps < MaxMishaps /\ mishaps' = mishaps + 1
  /\ astray' = astray \cup {e}
  /\ UNCHANGED <<executor, child, directory, host, lost, forked>>

(* cleanup_stale_dirs: the tick finds the directory two hours old, and does  *)
(* not ask who uses it.                                                      *)
TickSweeps ==
  /\ dir
  /\ dir' = FALSE /\ response' = Missing /\ file' = NoExecution
  /\ UNCHANGED <<executor, child, rest>>

-----------------------------------------------------------------------------
(* The programs (external). *)

OaieStarts(e) ==
  /\ program[e] = "setup" /\ dir
  /\ program' = [program EXCEPT ![e] = "running"]
  /\ response' = Missing
  /\ UNCHANGED <<executor, orphan, stdin, stdout, written, dir, file, rest>>

ReadsStdin(e) ==
  /\ program[e] = "running" /\ stdin[e] > 0
  /\ stdin' = [stdin EXCEPT ![e] = @ - 1]
  /\ UNCHANGED <<executor, program, orphan, stdout, written, directory, rest>>

Writes(e) ==
  /\ program[e] = "running" /\ written[e] < Response
  /\ written' = [written EXCEPT ![e] = @ + 1]
  /\ IF Piped
     THEN /\ at[e] # "dead" /\ stdout[e] < Capacity
          /\ stdout' = [stdout EXCEPT ![e] = @ + 1]
          /\ UNCHANGED response
     ELSE /\ response' = IF dir THEN [response EXCEPT ![written'[e]] = e] ELSE response
          /\ UNCHANGED stdout
  /\ UNCHANGED <<executor, program, orphan, stdin, dir, file, rest>>

Produces(e) ==
  /\ program[e] = "running" \/ (orphan[e] /\ Sandbox = "direct")
  /\ dir
  /\ file' = e
  /\ UNCHANGED <<executor, child, dir, response, rest>>

Forks(e) ==
  /\ program[e] = "running" /\ Piped /\ ~orphan[e]
  /\ orphan' = [orphan EXCEPT ![e] = TRUE]
  /\ forked' = IF Sandbox = "direct" THEN forked \cup {e} ELSE forked
  /\ UNCHANGED <<executor, program, stdin, stdout, written, directory, host, lost, mishaps, astray>>

Exits(e) ==
  /\ program[e] \in {"setup", "running"}
  /\ \E status \in {"ok", "failed"} :
       /\ program[e] = "setup" => status = "failed"
       /\ program' = [program EXCEPT ![e] = status]
  /\ orphan' = [orphan EXCEPT ![e] = @ /\ Sandbox # "namespace"]
  /\ written' = [written EXCEPT ![e] = 0]
  /\ UNCHANGED <<executor, stdin, stdout, directory, rest>>

OrphanExits(e) ==
  /\ orphan[e]
  /\ orphan' = [orphan EXCEPT ![e] = FALSE]
  /\ UNCHANGED <<executor, program, stdin, stdout, written, directory, rest>>

-----------------------------------------------------------------------------
ExecutorStep(e) ==
  \/ Spawn(e) \/ SpawnFails(e) \/ WriteStdin(e) \/ BrokenPipe(e) \/ CloseStdin(e)
  \/ ReadStdout(e) \/ ProgramExited(e) \/ TimesOut(e) \/ Collect(e) \/ Fetch(e)
  \/ ParseFails(e) \/ Parse(e) \/ Ingest(e) \/ Settle(e) \/ Sweep(e)

ProgramStep(e) ==
  \/ OaieStarts(e) \/ ReadsStdin(e) \/ Writes(e) \/ Produces(e) \/ Forks(e)
  \/ Exits(e) \/ OrphanExits(e)

OopNext ==
  \/ \E e \in Executions :
       \/ Begin(e) \/ ExecutorStep(e) \/ ProgramStep(e)
       \/ HeartbeatLost(e) \/ WorkerDies(e) \/ WorkerStalls(e)
  \/ TickSweeps

OopSpec == OopInit /\ [][OopNext]_oopVars

(* Workers go on and their timers fire; programs owe nothing. *)
FairOopSpec == OopSpec /\ \A e \in Executions : WF_oopVars(ExecutorStep(e))

-----------------------------------------------------------------------------
OopTypeOK ==
  /\ host \in Hosts
  /\ at \in [Executions -> {"idle", "ready", "writing", "waiting", "collecting", "fetching",
                            "parsing", "ingesting", "settling", "sweeping", "done", "dead"}]
  /\ unsent \in [Executions -> 0..Request] /\ got \in [Executions -> 0..Response]
  /\ reader \in [Executions -> {"none", "reading", "eof"}]
  /\ program \in [Executions -> {"none", "setup", "running", "ok", "failed"}]
  /\ orphan \in [Executions -> BOOLEAN]
  /\ stdin \in [Executions -> 0..Capacity] /\ stdout \in [Executions -> 0..Capacity]
  /\ written \in [Executions -> 0..Response]
  /\ dir \in BOOLEAN /\ response \in [1..Response -> 0..MaxExecutions]
  /\ file \in 0..MaxExecutions
  /\ replied \in [Executions -> SUBSET Executions] /\ taken \in [Executions -> SUBSET Executions]
  /\ lost \subseteq Executions
  /\ mishaps \in 0..MaxMishaps /\ astray \subseteq Executions /\ forked \subseteq Executions

(* What an execution answers is its own program's work, and so are the files *)
(* it takes in.  Through oaie's files and the directory it may get another   *)
(* execution's, but only if a worker died or stalled meanwhile, or, for      *)
(* files, if a trusted program left a process behind: never because a result *)
(* was lost, and never through a pipe.                                       *)
OwnWork ==
  /\ \A e \in Executions : \A d \in replied[e] :
       d = e \/ (~Piped /\ {d, e} \cap astray # {})
  /\ \A e \in Executions : \A d \in taken[e] :
       d = e \/ {d, e} \cap astray # {} \/ d \in forked

(* An execution ends, within its timeout, unless the program or a process it *)
(* has left behind keeps a pipe: stdin full and nobody reading, which the    *)
(* timeout does not yet cover, or stdout open, which it no longer covers.    *)
HeldUp(e) ==
  \/ at[e] = "writing" /\ unsent[e] > 0 /\ stdin[e] = Capacity /\ Hears(e)
  \/ at[e] = "collecting" /\ orphan[e]

EndsOrHeldUp ==
  \A e \in Executions : (at[e] = "ready") ~> (at[e] \in {"done", "dead"} \/ HeldUp(e))
=============================================================================
