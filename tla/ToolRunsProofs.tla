-------------------------- MODULE ToolRunsProofs --------------------------
(***************************************************************************)
(* Proofs about JobQueue for every number of workers, clients, users and   *)
(* runs, and every bound on attempts, stalls and stops; about GhidraCache  *)
(* for every number of calls, projects, changes of a flag and failures;    *)
(* and about OopExecutor for every number of executions, hosts, lengths    *)
(* and mishaps.                                                            *)
(***************************************************************************)
EXTENDS JobQueue, GhidraCache, OopExecutor, FiniteSetTheorems, TLAPS

(* A worker has a run exactly between its claim and its cleanup, and a       *)
(* stopped daemon has no worker task left.                                  *)
WorkerShape ==
  /\ \A w \in Workers : wphase[w] \in {"off", "idle"} <=> wrun[w] = NoRun
  /\ daemon = "down" => \A w \in Daemon : wphase[w] = "off"

TypeInv == TypeOK /\ WorkerShape

(* The initial state is well typed. *)
LEMMA TypeInit == Init => TypeInv
  BY SizesAssumption DEF Init, TypeInv, TypeOK, WorkerShape, RowStatus, Terminal,
     WorkerPhase, ClientPhase, Workers, Runs

(* Every step keeps the types and the shape of the worker tasks. *)
LEMMA TypeStep == TypeInv /\ [Next]_vars => TypeInv'
<1> SUFFICES ASSUME TypeInv, [Next]_vars PROVE TypeInv'
  OBVIOUS
<1>0. NoRun \notin Runs
  BY NoRunAssumption DEF Runs
<1> USE <1>0, SizesAssumption, UsersAssumption, WorkersAssumption
    DEF TypeInv, TypeOK, WorkerShape, RowStatus, Terminal, WorkerPhase, ClientPhase,
        Procs, table, worker, client, process, dirs, faults
<1>1. ASSUME NEW c \in Clients, NEW u \in Users \cup {NoUser}, EnqueueBegin(c, u)
      PROVE TypeInv'
  BY <1>1 DEF EnqueueBegin, Runs
<1>2. ASSUME NEW c \in Clients, EnqueueLock(c) PROVE TypeInv'
  BY <1>2 DEF EnqueueLock
<1>3. ASSUME NEW c \in Clients, EnqueueCheck(c) PROVE TypeInv'
  BY <1>3 DEF EnqueueCheck, Leave
<1>4. ASSUME NEW c \in Clients, NEW w \in Inline, EnqueueCommit(c, w) PROVE TypeInv'
  <2>1. w \in Workers /\ w \notin Daemon
    BY DEF Workers
  <2>2. TypeOK'
    BY <1>4, <2>1 DEF EnqueueCommit
  <2>3. WorkerShape'
    BY <1>4, <2>1 DEF EnqueueCommit, Workers
  <2> QED
    BY <2>2, <2>3
<1>5. ASSUME NEW c \in Clients, Poll(c) PROVE TypeInv'
  BY <1>5 DEF Poll, Leave
<1>5a. ASSUME NEW c \in Clients, GiveUp(c) PROVE TypeInv'
  BY <1>5a DEF GiveUp, Leave
<1>6. ASSUME NEW w \in Workers, NEW r \in Runs, Claim(w, r) PROVE TypeInv'
  BY <1>6 DEF Claim, Claimable
<1>7. ASSUME NEW w \in Workers, DrainEnds(w) PROVE TypeInv'
  BY <1>7 DEF DrainEnds, Release
<1>7a. ASSUME NEW w \in Workers, LookupFails(w) PROVE TypeInv'
  BY <1>7a DEF LookupFails, Release, AfterError
<1>8. ASSUME NEW w \in Workers, StartExecution(w) PROVE TypeInv'
  BY <1>8 DEF StartExecution
<1>9. ASSUME NEW w \in Workers, Heartbeat(w) \/ HeartbeatFails(w) PROVE TypeInv'
  BY <1>9 DEF Heartbeat, HeartbeatFails
<1>10. ASSUME NEW w \in Workers, NEW res \in {"ok", "err"}, ExecutionEnds(w, res)
       PROVE TypeInv'
  BY <1>10 DEF ExecutionEnds
<1>11. ASSUME NEW w \in Workers, ExecutorPanics(w) PROVE TypeInv'
  BY <1>11 DEF ExecutorPanics, Release, Detach, ProcOf
<1>11a. ASSUME NEW w \in Workers, WorkerStops(w) PROVE TypeInv'
  BY <1>11a DEF WorkerStops, Release, Detach, ProcOf
<1>12. ASSUME NEW w \in Workers, NEW stored \in BOOLEAN, WriteComplete(w, stored)
       PROVE TypeInv'
  BY <1>12 DEF WriteComplete
<1>13. ASSUME NEW w \in Workers, NEW stored \in BOOLEAN, NEW res \in {"ok", "err"},
              WriteFail(w, stored, res)
       PROVE TypeInv'
  BY <1>13 DEF WriteFail
<1>14. ASSUME NEW w \in Workers, NEW removed \in BOOLEAN, CleanupScratch(w, removed)
       PROVE TypeInv'
  BY <1>14 DEF CleanupScratch, Release, AfterError
<1>15. ASSUME NEW r \in Runs, LeaseExpires(r) \/ ScratchAges(r) \/ RemoveStaleScratch(r)
       PROVE TypeInv'
  BY <1>15 DEF LeaseExpires, ScratchAges, RemoveStaleScratch
<1>16. ASSUME NEW r \in Runs, NEW p \in Procs,
              LeakedHeartbeat(p, r) \/ LeakedHeartbeatFails(p, r)
       PROVE TypeInv'
  BY <1>16 DEF LeakedHeartbeat, LeakedHeartbeatFails
<1>17. ASSUME ReclaimExpired \/ FailExhausted PROVE TypeInv'
  BY <1>17 DEF ReclaimExpired, FailExhausted
<1>18. ASSUME DaemonCrash PROVE TypeInv'
  BY <1>18 DEF DaemonCrash, Stop, Kill, Workers
<1>18a. ASSUME ApiCrash PROVE TypeInv'
  BY <1>18a DEF ApiCrash, Stop, Kill, Workers
<1>19. ASSUME Shutdown \/ DaemonExit \/ DaemonStart PROVE TypeInv'
  BY <1>19 DEF Shutdown, DaemonExit, DaemonStart, Stop
<1>20. CASE UNCHANGED vars
  BY <1>20 DEF vars
<1>21. ASSUME NEW c \in Clients, ClientStep(c) PROVE TypeInv'
  BY <1>21, <1>1, <1>2, <1>3, <1>4, <1>5, <1>5a, SMTT(60) DEF ClientStep
<1>22. ASSUME NEW w \in Workers, WorkerStep(w) PROVE TypeInv'
  BY <1>22, <1>6, <1>7, <1>7a, <1>8, <1>9, <1>10, <1>11a, <1>12, <1>13, <1>14, SMTT(60)
  DEF WorkerStep
<1> QED
  BY <1>11, <1>15, <1>16, <1>17, <1>18, <1>18a, <1>19, <1>20, <1>21, <1>22, FlagsAssumption,
     SMTT(30)
  DEF Next, LeaseStep, ProcessStep

(* The specification is type correct: no handler of the queue leaves a row,  *)
(* a worker task or a client in a state its code does not expect.            *)
THEOREM TypeCorrect == Spec => []TypeOK
<1>1. Spec => []TypeInv
  BY TypeInit, TypeStep, PTL DEF Spec
<1>2. TypeInv => TypeOK
  BY DEF TypeInv
<1> QED
  BY <1>1, <1>2, PTL
-----------------------------------------------------------------------------
(* Rows and the transactions that insert them.                              *)

Pending == {"begun", "locked", "admitted"}

(* Row numbers not handed out yet have no row.                               *)
FreshRows == \A r \in Runs : nextRun <= r => status[r] = "none"

(* A client in invoke() has a number of its own, and as long as its          *)
(* transaction is open there is no row.                                      *)
OpenTransactions ==
  /\ \A c \in Clients : cphase[c] # "idle" => crun[c] \in Runs /\ crun[c] < nextRun
  /\ \A c \in Clients : cphase[c] \in Pending => status[crun[c]] = "none"
  /\ \A c, d \in Clients :
       cphase[c] \in Pending /\ cphase[d] # "idle" /\ crun[c] = crun[d] => c = d

(* A worker holds a row that exists. *)
HeldRows == \A w \in Workers : wrun[w] # NoRun => status[wrun[w]] # "none"

(* A row that can still be claimed has an attempt left: what makes           *)
(* AttemptBound inductive.                                                   *)
AttemptsLeft ==
  \A r \in Runs : status[r] \in {"none", "queued"} => attempt[r] < MaxAttempts

RowInv == FreshRows /\ OpenTransactions /\ HeldRows /\ AttemptsLeft /\ AttemptBound

(* The rows are empty at first. *)
LEMMA RowInit == Init => RowInv
  BY SizesAssumption DEF Init, RowInv, FreshRows, OpenTransactions, HeldRows, AttemptsLeft,
     AttemptBound, Pending, Runs

(* Every step keeps the row invariant. *)
LEMMA RowStep == TypeInv /\ RowInv /\ [Next]_vars => RowInv'
<1> SUFFICES ASSUME TypeInv, RowInv, [Next]_vars PROVE RowInv'
  OBVIOUS
<1>0. NoRun \notin Runs
  BY NoRunAssumption DEF Runs
<1> USE <1>0, SizesAssumption
    DEF TypeInv, TypeOK, RowInv, FreshRows, OpenTransactions, HeldRows, AttemptsLeft,
        AttemptBound, Pending, Runs
<1>u. ASSUME UNCHANGED <<status, attempt, nextRun, cphase, crun, wrun>> PROVE RowInv'
  BY <1>u
<1>r. ASSUME NEW w \in Workers, UNCHANGED <<status, attempt, nextRun, cphase, crun>>,
             wrun' = [wrun EXCEPT ![w] = NoRun]
      PROVE RowInv'
  BY <1>r
<1>l. ASSUME NEW c \in Clients, Leave(c), UNCHANGED <<status, attempt, nextRun, wrun>>
      PROVE RowInv'
  <2>1. cphase'[c] = "idle" /\ \A d \in Clients \ {c} : cphase'[d] = cphase[d] /\ crun'[d] = crun[d]
    BY <1>l DEF Leave
  <2>2. \A d \in Clients : cphase'[d] # "idle" => d # c
    BY <2>1
  <2>3. OpenTransactions'
    <3>1. ASSUME NEW d \in Clients, cphase'[d] # "idle"
          PROVE cphase'[d] = cphase[d] /\ crun'[d] = crun[d]
      BY <2>1, <2>2, <3>1
    <3>2. \A d \in Clients : cphase'[d] # "idle" => crun'[d] \in Runs /\ crun'[d] < nextRun'
      BY <3>1, <1>l
    <3>3. \A d \in Clients : cphase'[d] \in Pending => status'[crun'[d]] = "none"
      BY <3>1, <1>l
    <3>4. \A d, e \in Clients :
            cphase'[d] \in Pending /\ cphase'[e] # "idle" /\ crun'[d] = crun'[e] => d = e
      BY <3>1
    <3> QED
      BY <3>2, <3>3, <3>4
  <2> QED
    BY <2>3, <1>l
<1>1. ASSUME NEW c \in Clients, NEW u \in Users \cup {NoUser}, EnqueueBegin(c, u)
      PROVE RowInv'
  BY <1>1 DEF EnqueueBegin, table, worker, ClientPhase
<1>2. ASSUME NEW c \in Clients, EnqueueLock(c) PROVE RowInv'
  BY <1>2 DEF EnqueueLock, table, worker
<1>3. ASSUME NEW c \in Clients, EnqueueCheck(c) PROVE RowInv'
  <2>1. CASE OverQuota(cuser[c])
    BY <1>3, <2>1, <1>l DEF EnqueueCheck, table, worker
  <2>2. CASE ~OverQuota(cuser[c])
    <3>1. /\ cphase' = [cphase EXCEPT ![c] = "admitted"] /\ cphase[c] = "locked"
          /\ UNCHANGED <<status, attempt, nextRun, crun, wrun>>
      BY <1>3, <2>2 DEF EnqueueCheck, table, worker
    <3> QED
      BY <3>1
  <2> QED
    BY <2>1, <2>2
<1>4. ASSUME NEW c \in Clients, NEW w \in Inline, EnqueueCommit(c, w) PROVE RowInv'
  BY <1>4 DEF EnqueueCommit
<1>5. ASSUME NEW c \in Clients, Poll(c) \/ GiveUp(c) PROVE RowInv'
  BY <1>5, <1>l DEF Poll, GiveUp, table, worker
<1>6. ASSUME NEW w \in Workers, NEW r \in Runs, Claim(w, r) PROVE RowInv'
  BY <1>6 DEF Claim, Claimable, client
<1>7. ASSUME NEW w \in Workers,
             DrainEnds(w) \/ LookupFails(w) \/ ExecutorPanics(w) \/ WorkerStops(w)
      PROVE RowInv'
  BY <1>7, <1>r DEF DrainEnds, LookupFails, ExecutorPanics, WorkerStops, Release, table, client
<1>8. ASSUME NEW w \in Workers, NEW removed \in BOOLEAN, CleanupScratch(w, removed)
      PROVE RowInv'
  BY <1>8, <1>r DEF CleanupScratch, Release, table, client
<1>9. ASSUME NEW w \in Workers, NEW res \in {"ok", "err"},
             StartExecution(w) \/ Heartbeat(w) \/ HeartbeatFails(w) \/ ExecutionEnds(w, res)
      PROVE RowInv'
  BY <1>9, <1>u DEF StartExecution, Heartbeat, HeartbeatFails, ExecutionEnds, table, client, worker
<1>10. ASSUME NEW w \in Workers, NEW stored \in BOOLEAN, WriteComplete(w, stored)
       PROVE RowInv'
  BY <1>10 DEF WriteComplete, client, WorkerShape
<1>11. ASSUME NEW w \in Workers, NEW stored \in BOOLEAN, NEW res \in {"ok", "err"},
              WriteFail(w, stored, res)
       PROVE RowInv'
  BY <1>11 DEF WriteFail, client, WorkerShape
<1>12. ASSUME NEW r \in Runs, NEW p \in Procs,
              \/ LeaseExpires(r) \/ ScratchAges(r) \/ RemoveStaleScratch(r)
              \/ LeakedHeartbeat(p, r) \/ LeakedHeartbeatFails(p, r)
       PROVE RowInv'
  BY <1>12, <1>u DEF LeaseExpires, ScratchAges, RemoveStaleScratch, LeakedHeartbeat, LeakedHeartbeatFails,
     table, client, worker
<1>13. ASSUME ReclaimExpired PROVE RowInv'
  BY <1>13 DEF ReclaimExpired, Reapable, client, worker
<1>14. ASSUME FailExhausted PROVE RowInv'
  BY <1>14 DEF FailExhausted, Reapable, client, worker
<1>15. ASSUME DaemonCrash PROVE RowInv'
  BY <1>15 DEF DaemonCrash, Kill, table, client
<1>16. ASSUME ApiCrash PROVE RowInv'
  BY <1>16 DEF ApiCrash, Kill, table
<1>17. ASSUME Shutdown \/ DaemonExit \/ DaemonStart PROVE RowInv'
  BY <1>17, <1>u DEF Shutdown, DaemonExit, DaemonStart, table, client, worker
<1>18. CASE UNCHANGED vars
  BY <1>18, <1>u DEF vars, table, client, worker
<1> QED
  BY <1>1, <1>2, <1>3, <1>4, <1>5, <1>6, <1>7, <1>8, <1>9, <1>10, <1>11, <1>12, <1>13,
     <1>14, <1>15, <1>16, <1>17, <1>18, FlagsAssumption
  DEF Next, ClientStep, WorkerStep, LeaseStep, ProcessStep, Procs

(* However often workers stall or crash and the reaper requeues, no run is   *)
(* started more than MaxAttempts times.                                      *)
THEOREM AttemptsBounded == Spec => []AttemptBound
<1>1. Spec => [](TypeInv /\ RowInv)
  BY TypeInit, TypeStep, RowInit, RowStep, PTL DEF Spec
<1>2. RowInv => AttemptBound
  BY DEF RowInv
<1> QED
  BY <1>1, <1>2, PTL
-----------------------------------------------------------------------------
(* How the status of one row can move in one step.                          *)

StatusMove(r) ==
  \/ status'[r] = status[r]
  \/ status[r] = "none" /\ status'[r] = "queued"
  \/ status[r] = "queued" /\ status'[r] = "running"
  \/ status[r] = "running" /\ status'[r] = "queued"
  \/ status[r] # "none" /\ status'[r] \in Terminal

(* The status of a row moves along the lifecycle, except that a late write   *)
(* of a stalled worker may give any existing row an outcome.                 *)
LEMMA StatusMoves ==
  TypeInv /\ RowInv /\ [Next]_vars => \A r \in Runs : StatusMove(r)
<1> SUFFICES ASSUME TypeInv, RowInv, [Next]_vars PROVE \A r \in Runs : StatusMove(r)
  OBVIOUS
<1> USE DEF TypeInv, TypeOK, StatusMove
<1>u. ASSUME UNCHANGED status PROVE \A r \in Runs : StatusMove(r)
  BY <1>u
<1>1. ASSUME NEW c \in Clients, NEW w \in Inline, EnqueueCommit(c, w)
      PROVE \A r \in Runs : StatusMove(r)
  BY <1>1 DEF EnqueueCommit, RowInv, OpenTransactions, Pending
<1>2. ASSUME NEW w \in Workers, NEW q \in Runs, Claim(w, q)
      PROVE \A r \in Runs : StatusMove(r)
  BY <1>2 DEF Claim, Claimable
<1>3. ASSUME NEW w \in Workers, NEW stored \in BOOLEAN, NEW res \in {"ok", "err"},
             WriteComplete(w, stored) \/ WriteFail(w, stored, res)
      PROVE \A r \in Runs : StatusMove(r)
  <2>1. wrun[w] # NoRun
    BY <1>3 DEF WriteComplete, WriteFail, WorkerShape
  <2>2. status[wrun[w]] # "none"
    BY <2>1 DEF RowInv, HeldRows
  <2> QED
    BY <1>3, <2>2 DEF WriteComplete, WriteFail, Terminal
<1>4. ASSUME ReclaimExpired \/ FailExhausted PROVE \A r \in Runs : StatusMove(r)
  BY <1>4 DEF ReclaimExpired, FailExhausted, Reapable, Terminal
<1>5. ASSUME NEW c \in Clients, NEW u \in Users \cup {NoUser},
             EnqueueBegin(c, u) \/ EnqueueLock(c) \/ EnqueueCheck(c) \/ Poll(c) \/ GiveUp(c)
      PROVE \A r \in Runs : StatusMove(r)
  BY <1>5, <1>u DEF EnqueueBegin, EnqueueLock, EnqueueCheck, Poll, GiveUp, table
<1>6. ASSUME NEW w \in Workers, NEW res \in {"ok", "err"}, NEW removed \in BOOLEAN,
             \/ DrainEnds(w) \/ LookupFails(w) \/ StartExecution(w) \/ Heartbeat(w)
             \/ HeartbeatFails(w) \/ ExecutionEnds(w, res) \/ ExecutorPanics(w)
             \/ CleanupScratch(w, removed) \/ WorkerStops(w)
      PROVE \A r \in Runs : StatusMove(r)
  BY <1>6, <1>u DEF DrainEnds, LookupFails, StartExecution, Heartbeat, HeartbeatFails,
     ExecutionEnds, ExecutorPanics, CleanupScratch, WorkerStops, table
<1>7. ASSUME NEW q \in Runs, NEW p \in Procs,
             \/ LeaseExpires(q) \/ ScratchAges(q) \/ RemoveStaleScratch(q)
             \/ LeakedHeartbeat(p, q) \/ LeakedHeartbeatFails(p, q)
      PROVE \A r \in Runs : StatusMove(r)
  BY <1>7, <1>u DEF LeaseExpires, ScratchAges, RemoveStaleScratch, LeakedHeartbeat,
     LeakedHeartbeatFails, table
<1>8. ASSUME ProcessStep \/ UNCHANGED vars PROVE \A r \in Runs : StatusMove(r)
  BY <1>8, <1>u DEF ProcessStep, DaemonCrash, ApiCrash, Shutdown, DaemonExit, DaemonStart,
     table, vars
<1> QED
  BY <1>1, <1>2, <1>3, <1>4, <1>5, <1>6, <1>7, <1>8, FlagsAssumption
  DEF Next, ClientStep, WorkerStep, LeaseStep, Procs

(* complete() and fail() write by id alone; still no finished run is ever    *)
(* queued or running again, whatever stalls, crashes and late writes happen. *)
THEOREM FinishedStaysFinished == Spec => FinishedNeverRequeued
<1>1. Spec => [](TypeInv /\ RowInv)
  BY TypeInit, TypeStep, RowInit, RowStep, PTL DEF Spec
<1>2. TypeInv /\ RowInv /\ [Next]_vars
      => [\A r \in Runs : status[r] \in Terminal => status'[r] \in Terminal]_vars
  BY StatusMoves DEF StatusMove, Terminal
<1> QED
  BY <1>1, <1>2, PTL DEF Spec, FinishedNeverRequeued

-----------------------------------------------------------------------------
(* The concurrent-run quota.                                                *)

(* Between its check and its commit a client holds its user's lock.          *)
LockHeld ==
  \A c \in Clients :
    /\ cphase[c] \in {"begun", "locked"} => cuser[c] \in Users
    /\ cphase[c] = "locked" \/ (cphase[c] = "admitted" /\ cuser[c] # NoUser)
       => lock[cuser[c]] = c

(* The check stays true until the commit. *)
RoomLeft ==
  \A c \in Clients : cphase[c] = "admitted" /\ cuser[c] \in Limited
                     => Cardinality(Active(cuser[c])) < Quota[cuser[c]]

QuotaInv == LockHeld /\ RoomLeft /\ QuotaRespected

(* A user's active runs are a finite set. *)
LEMMA ActiveFinite ==
  ASSUME NEW u
  PROVE  /\ IsFiniteSet(Active(u)) /\ Cardinality(Active(u)) \in Nat
         /\ Cardinality(Active(u)') \in Nat
<1>1. IsFiniteSet(Runs)
  BY SizesAssumption, FS_Interval DEF Runs
<1>2. Active(u) \in SUBSET Runs /\ Active(u)' \in SUBSET Runs
  BY DEF Active
<1> QED
  BY <1>1, <1>2, FS_Subset, FS_CardinalityType

(* Initially no run is active and no lock is taken. *)
LEMMA QuotaInit == Init => QuotaInv
<1> SUFFICES ASSUME Init PROVE QuotaInv
  OBVIOUS
<1>1. \A u : Active(u) = {}
  BY DEF Init, Active
<1>2. QuotaRespected
  BY <1>1, FS_EmptySet, UsersAssumption DEF QuotaRespected
<1> QED
  BY <1>2 DEF QuotaInv, LockHeld, RoomLeft, Init
(* A commit adds its own row to the active runs of its own user. *)
LEMMA ActiveCommit ==
  ASSUME TypeInv, RowInv, NEW c \in Clients, NEW w \in Inline, EnqueueCommit(c, w),
         NEW u \in Users
  PROVE  /\ u = cuser[c] => Cardinality(Active(u)') <= Cardinality(Active(u)) + 1
         /\ u # cuser[c] => Active(u)' = Active(u)
<1>1. status[crun[c]] = "none" /\ crun[c] \in Runs
  BY DEF RowInv, OpenTransactions, EnqueueCommit, Pending
<1>2. /\ status' = [status EXCEPT ![crun[c]] = "queued"]
      /\ actor' = [actor EXCEPT ![crun[c]] = cuser[c]]
  BY DEF EnqueueCommit
<1>3. \A r \in Runs \ {crun[c]} : status'[r] = status[r] /\ actor'[r] = actor[r]
  BY <1>1, <1>2 DEF TypeInv, TypeOK
<1>4. actor'[crun[c]] = cuser[c] /\ status'[crun[c]] = "queued"
  BY <1>1, <1>2 DEF TypeInv, TypeOK
<1>5. Active(u)' \subseteq Active(u) \cup {crun[c]}
  BY <1>3 DEF Active
<1>6. u # cuser[c] => Active(u)' = Active(u)
  BY <1>1, <1>3, <1>4 DEF Active
<1>7. crun[c] \notin Active(u)
  BY <1>1 DEF Active
<1>8. /\ IsFiniteSet(Active(u) \cup {crun[c]})
      /\ Cardinality(Active(u) \cup {crun[c]}) = Cardinality(Active(u)) + 1
  BY <1>7, ActiveFinite, FS_AddElement
<1>9. Cardinality(Active(u)') <= Cardinality(Active(u) \cup {crun[c]})
  BY <1>5, <1>8, FS_Subset
<1> QED
  BY <1>6, <1>8, <1>9

NoNewRow == \A r \in Runs : status[r] = "none" => status'[r] = "none"

(* No other step adds to anybody's active runs. *)
LEMMA ActiveOther ==
  ASSUME TypeInv, RowInv, [Next]_vars,
         ~ \E c \in Clients, w \in Inline : EnqueueCommit(c, w),
         NEW u \in Users
  PROVE  Cardinality(Active(u)') <= Cardinality(Active(u))
<1>1. actor' = actor
  BY DEF Next, ClientStep, WorkerStep, LeaseStep, ProcessStep, table, vars,
     EnqueueBegin, EnqueueLock, EnqueueCheck, Poll, GiveUp, Claim, DrainEnds, LookupFails,
     StartExecution, Heartbeat, HeartbeatFails, ExecutionEnds, ExecutorPanics,
     WriteComplete, WriteFail, CleanupScratch, WorkerStops, LeaseExpires,
     ScratchAges, RemoveStaleScratch, LeakedHeartbeat, LeakedHeartbeatFails, ReclaimExpired,
     FailExhausted, DaemonCrash, ApiCrash, Shutdown, DaemonExit, DaemonStart
<1>2. NoNewRow
  <2> USE DEF TypeInv, TypeOK, NoNewRow
  <2>u. ASSUME UNCHANGED status PROVE NoNewRow
    BY <2>u
  <2>1. ASSUME NEW w \in Workers, NEW q \in Runs, Claim(w, q) PROVE NoNewRow
    BY <2>1 DEF Claim, Claimable
  <2>2. ASSUME NEW w \in Workers, NEW stored \in BOOLEAN, NEW res \in {"ok", "err"},
               WriteComplete(w, stored) \/ WriteFail(w, stored, res)
        PROVE NoNewRow
    <3>1. status[wrun[w]] # "none"
      BY <2>2 DEF WriteComplete, WriteFail, WorkerShape, RowInv, HeldRows
    <3> QED
      BY <2>2, <3>1 DEF WriteComplete, WriteFail
  <2>3. ASSUME ReclaimExpired \/ FailExhausted PROVE NoNewRow
    BY <2>3 DEF ReclaimExpired, FailExhausted, Reapable
  <2>4. ASSUME NEW c \in Clients, NEW v \in Users \cup {NoUser},
               \/ EnqueueBegin(c, v) \/ EnqueueLock(c) \/ EnqueueCheck(c)
               \/ Poll(c) \/ GiveUp(c)
        PROVE NoNewRow
    BY <2>4, <2>u DEF EnqueueBegin, EnqueueLock, EnqueueCheck, Poll, GiveUp, table
  <2>5. ASSUME NEW w \in Workers, NEW res \in {"ok", "err"}, NEW removed \in BOOLEAN,
               \/ DrainEnds(w) \/ LookupFails(w) \/ StartExecution(w) \/ Heartbeat(w)
               \/ HeartbeatFails(w) \/ ExecutionEnds(w, res) \/ ExecutorPanics(w)
               \/ CleanupScratch(w, removed) \/ WorkerStops(w)
        PROVE NoNewRow
    BY <2>5, <2>u DEF DrainEnds, LookupFails, StartExecution, Heartbeat, HeartbeatFails,
       ExecutionEnds, ExecutorPanics, CleanupScratch, WorkerStops, table
  <2>6. ASSUME NEW q \in Runs, NEW p \in Procs,
               \/ LeaseExpires(q) \/ ScratchAges(q) \/ RemoveStaleScratch(q)
               \/ LeakedHeartbeat(p, q) \/ LeakedHeartbeatFails(p, q)
        PROVE NoNewRow
    BY <2>6, <2>u DEF LeaseExpires, ScratchAges, RemoveStaleScratch, LeakedHeartbeat,
       LeakedHeartbeatFails, table
  <2>7. ASSUME ProcessStep \/ UNCHANGED vars PROVE NoNewRow
    BY <2>7, <2>u DEF ProcessStep, DaemonCrash, ApiCrash, Shutdown, DaemonExit,
       DaemonStart, table, vars
  <2> QED
    BY <2>1, <2>2, <2>3, <2>4, <2>5, <2>6, <2>7, FlagsAssumption
    DEF Next, ClientStep, WorkerStep, LeaseStep, Procs
<1>3. \A r \in Runs : status'[r] \in {"queued", "running"} => status[r] \in {"queued", "running"}
  BY <1>2, StatusMoves DEF StatusMove, NoNewRow, Terminal
<1>4. Active(u)' \subseteq Active(u)
  BY <1>1, <1>3 DEF Active
<1> QED
  BY <1>4, ActiveFinite, FS_Subset
(* Lock ownership is kept by every step. *)
LEMMA LockStep == TypeInv /\ LockHeld /\ [Next]_vars => LockHeld'
<1> SUFFICES ASSUME TypeInv, LockHeld, [Next]_vars PROVE LockHeld'
  OBVIOUS
<1> USE UsersAssumption DEF TypeInv, TypeOK, LockHeld
<1>u. ASSUME UNCHANGED client PROVE LockHeld'
  BY <1>u DEF client
<1>l. ASSUME NEW c \in Clients, Leave(c) PROVE LockHeld'
  <2>1. /\ cphase'[c] = "idle"
        /\ \A d \in Clients \ {c} : cphase'[d] = cphase[d] /\ cuser'[d] = cuser[d]
    BY <1>l DEF Leave
  <2>2. \A u \in Users : lock[u] # c => lock'[u] = lock[u]
    BY <1>l DEF Leave
  <2> QED
    BY <2>1, <2>2
<1>1. ASSUME NEW c \in Clients, NEW u \in Users \cup {NoUser}, EnqueueBegin(c, u)
      PROVE LockHeld'
  BY <1>1 DEF EnqueueBegin
<1>2. ASSUME NEW c \in Clients, EnqueueLock(c) PROVE LockHeld'
  BY <1>2 DEF EnqueueLock
<1>3. ASSUME NEW c \in Clients, EnqueueCheck(c) PROVE LockHeld'
  <2>1. CASE OverQuota(cuser[c])
    BY <1>3, <2>1, <1>l DEF EnqueueCheck
  <2>2. CASE ~OverQuota(cuser[c])
    <3>1. cphase[c] = "locked" /\ cphase' = [cphase EXCEPT ![c] = "admitted"]
          /\ UNCHANGED <<cuser, lock>>
      BY <1>3, <2>2 DEF EnqueueCheck
    <3> QED
      BY <3>1
  <2> QED
    BY <2>1, <2>2
<1>4. ASSUME NEW c \in Clients, NEW w \in Inline, EnqueueCommit(c, w) PROVE LockHeld'
  <2>1. /\ cphase'[c] = "polling" /\ UNCHANGED cuser
        /\ \A d \in Clients \ {c} : cphase'[d] = cphase[d]
    BY <1>4 DEF EnqueueCommit
  <2>2. \A u \in Users : lock[u] # c => lock'[u] = lock[u]
    BY <1>4 DEF EnqueueCommit
  <2> QED
    BY <2>1, <2>2
<1>5. ASSUME NEW c \in Clients, Poll(c) \/ GiveUp(c) PROVE LockHeld'
  BY <1>5, <1>l DEF Poll, GiveUp
<1>6. ASSUME NEW w \in Workers, WorkerStep(w) \/ ExecutorPanics(w) PROVE LockHeld'
  BY <1>6, <1>u DEF WorkerStep, Claim, DrainEnds, LookupFails, StartExecution, Heartbeat,
     HeartbeatFails, ExecutionEnds, ExecutorPanics, WriteComplete, WriteFail,
     CleanupScratch, WorkerStops
<1>7. ASSUME NEW r \in Runs, LeaseStep(r) PROVE LockHeld'
  BY <1>7, <1>u DEF LeaseStep, LeaseExpires, ScratchAges, RemoveStaleScratch, LeakedHeartbeat,
     LeakedHeartbeatFails
<1>8. ASSUME ReclaimExpired \/ FailExhausted PROVE LockHeld'
  BY <1>8, <1>u DEF ReclaimExpired, FailExhausted
<1>9. ASSUME ApiCrash PROVE LockHeld'
  BY <1>9 DEF ApiCrash
<1>10. ASSUME DaemonCrash \/ Shutdown \/ DaemonExit \/ DaemonStart PROVE LockHeld'
  BY <1>10, <1>u DEF DaemonCrash, Shutdown, DaemonExit, DaemonStart
<1>11. CASE UNCHANGED vars
  BY <1>11, <1>u DEF vars
<1> QED
  BY <1>1, <1>2, <1>3, <1>4, <1>5, <1>6, <1>7, <1>8, <1>9, <1>10, <1>11, FlagsAssumption
  DEF Next, ClientStep, ProcessStep

(* A client comes to be admitted by its own check alone, or without a user. *)
LEMMA Admission ==
  ASSUME TypeInv, [Next]_vars, NEW c \in Clients,
         cphase'[c] = "admitted", cuser'[c] \in Limited
  PROVE  /\ cuser'[c] = cuser[c]
         /\ \/ cphase[c] = "admitted"
            \/ /\ cphase[c] = "locked" /\ EnqueueCheck(c)
               /\ ~OverQuota(cuser[c])
<1> USE UsersAssumption DEF TypeInv, TypeOK
<1> DEFINE Goal == /\ cuser'[c] = cuser[c]
                   /\ \/ cphase[c] = "admitted"
                      \/ cphase[c] = "locked" /\ EnqueueCheck(c) /\ ~OverQuota(cuser[c])
<1>u. ASSUME UNCHANGED <<cphase, cuser>> PROVE Goal
  BY <1>u
<1>l. ASSUME NEW d \in Clients, Leave(d) PROVE Goal
  <2>1. c # d
    BY <1>l DEF Leave
  <2> QED
    BY <1>l, <2>1 DEF Leave
<1>1. ASSUME NEW d \in Clients, NEW u \in Users \cup {NoUser}, EnqueueBegin(d, u) PROVE Goal
  BY <1>1 DEF EnqueueBegin
<1>2. ASSUME NEW d \in Clients, EnqueueLock(d) PROVE Goal
  BY <1>2 DEF EnqueueLock
<1>3. ASSUME NEW d \in Clients, EnqueueCheck(d) PROVE Goal
  <2>1. CASE OverQuota(cuser[d])
    BY <1>3, <2>1, <1>l DEF EnqueueCheck
  <2>2. CASE ~OverQuota(cuser[d])
    <3>1. cphase[d] = "locked" /\ cphase' = [cphase EXCEPT ![d] = "admitted"]
          /\ UNCHANGED cuser
      BY <1>3, <2>2 DEF EnqueueCheck
    <3> QED
      BY <3>1, <2>2, <1>3
  <2> QED
    BY <2>1, <2>2
<1>4. ASSUME NEW d \in Clients, NEW w \in Inline, EnqueueCommit(d, w) PROVE Goal
  BY <1>4 DEF EnqueueCommit
<1>5. ASSUME NEW d \in Clients, Poll(d) \/ GiveUp(d) PROVE Goal
  BY <1>5, <1>l DEF Poll, GiveUp
<1>6. ASSUME NEW w \in Workers, WorkerStep(w) \/ ExecutorPanics(w) PROVE Goal
  BY <1>6, <1>u DEF WorkerStep, Claim, DrainEnds, LookupFails, StartExecution, Heartbeat,
     HeartbeatFails, ExecutionEnds, ExecutorPanics, WriteComplete, WriteFail,
     CleanupScratch, WorkerStops, client
<1>7. ASSUME NEW r \in Runs, LeaseStep(r) PROVE Goal
  BY <1>7, <1>u DEF LeaseStep, LeaseExpires, ScratchAges, RemoveStaleScratch, LeakedHeartbeat,
     LeakedHeartbeatFails, client
<1>8. ASSUME ReclaimExpired \/ FailExhausted PROVE Goal
  BY <1>8, <1>u DEF ReclaimExpired, FailExhausted, client
<1>9. ASSUME ApiCrash PROVE Goal
  BY <1>9 DEF ApiCrash
<1>10. ASSUME DaemonCrash \/ Shutdown \/ DaemonExit \/ DaemonStart PROVE Goal
  BY <1>10, <1>u DEF DaemonCrash, Shutdown, DaemonExit, DaemonStart, client
<1>11. CASE UNCHANGED vars
  BY <1>11, <1>u DEF vars, client
<1> QED
  BY <1>1, <1>2, <1>3, <1>4, <1>5, <1>6, <1>7, <1>8, <1>9, <1>10, <1>11, FlagsAssumption
  DEF Next, ClientStep, ProcessStep

(* Every step keeps the quota. *)
LEMMA QuotaStep == TypeInv /\ RowInv /\ QuotaInv /\ [Next]_vars => QuotaInv'
<1> SUFFICES ASSUME TypeInv, RowInv, QuotaInv, [Next]_vars PROVE QuotaInv'
  OBVIOUS
<1>1. LockHeld'
  BY LockStep DEF QuotaInv
<1>2. \A u \in Limited : Quota[u] \in Nat /\ u \in Users
  BY UsersAssumption
<1>3. ASSUME NEW u PROVE Cardinality(Active(u)) \in Nat /\ Cardinality(Active(u)') \in Nat
  BY ActiveFinite
<1>4. CASE \E c \in Clients, w \in Inline : EnqueueCommit(c, w)
  <2>1. PICK c \in Clients, w \in Inline : EnqueueCommit(c, w)
    BY <1>4
  <2>2. /\ cphase[c] = "admitted" /\ cphase'[c] = "polling" /\ UNCHANGED cuser
        /\ \A d \in Clients \ {c} : cphase'[d] = cphase[d]
    BY <2>1 DEF EnqueueCommit, TypeInv, TypeOK
  <2>3. ASSUME NEW u \in Limited PROVE Cardinality(Active(u)') <= Quota[u]
    <3>1. CASE u = cuser[c]
      <4>1. Cardinality(Active(u)) < Quota[u]
        BY <2>2, <3>1 DEF QuotaInv, RoomLeft
      <4>2. Cardinality(Active(u)') <= Cardinality(Active(u)) + 1
        BY <2>1, <3>1, <1>2, ActiveCommit
      <4> QED
        BY <4>1, <4>2, <1>2, <1>3
    <3>2. CASE u # cuser[c]
      <4>1. Active(u)' = Active(u)
        BY <2>1, <3>2, <1>2, ActiveCommit
      <4> QED
        BY <4>1 DEF QuotaInv, QuotaRespected
    <3> QED
      BY <3>1, <3>2
  <2>4. ASSUME NEW d \in Clients, NEW u \in Limited, cphase'[d] = "admitted", cuser'[d] = u
        PROVE Cardinality(Active(u)') < Quota[u]
    <3>1. d # c /\ cphase[d] = "admitted" /\ cuser[d] = u
      BY <2>2, <2>4
    <3>2. u \in Users /\ u # NoUser
      BY UsersAssumption
    <3>3. u # cuser[c]
      BY <3>1, <3>2, <2>2 DEF QuotaInv, LockHeld
    <3>4. Active(u)' = Active(u)
      BY <2>1, <3>2, <3>3, ActiveCommit
    <3> QED
      BY <3>1, <3>4 DEF QuotaInv, RoomLeft
  <2>5. RoomLeft'
    BY <2>4 DEF RoomLeft
  <2> QED
    BY <1>1, <2>3, <2>5 DEF QuotaInv, QuotaRespected
<1>5. CASE ~ \E c \in Clients, w \in Inline : EnqueueCommit(c, w)
  <2>1. ASSUME NEW u \in Users PROVE Cardinality(Active(u)') <= Cardinality(Active(u))
    BY <1>5, ActiveOther
  <2>2. ASSUME NEW u \in Limited PROVE Cardinality(Active(u)') <= Quota[u]
    <3>1. Cardinality(Active(u)) <= Quota[u]
      BY DEF QuotaInv, QuotaRespected
    <3> QED
      BY <3>1, <2>1, <1>2, <1>3
  <2>3. ASSUME NEW d \in Clients, NEW u \in Limited, cphase'[d] = "admitted", cuser'[d] = u
        PROVE Cardinality(Active(u)') < Quota[u]
    <3>1. /\ cuser[d] = u
          /\ cphase[d] = "admitted" \/ ~OverQuota(u)
      BY Admission, <2>3
    <3>2. Cardinality(Active(u)) < Quota[u]
      <4>1. CASE cphase[d] = "admitted"
        BY <4>1, <3>1 DEF QuotaInv, RoomLeft
      <4>2. CASE ~OverQuota(u)
        BY <4>2, <1>2, <1>3 DEF OverQuota
      <4> QED
        BY <4>1, <4>2, <3>1
    <3> QED
      BY <3>2, <2>1, <1>2, <1>3
  <2>4. RoomLeft'
    BY <2>3 DEF RoomLeft
  <2> QED
    BY <1>1, <2>2, <2>4 DEF QuotaInv, QuotaRespected
<1> QED
  BY <1>4, <1>5

(* The advisory lock makes check and insert one step for the user: the       *)
(* concurrent-run quota holds for any number of clients.                     *)
THEOREM QuotaSafe == Spec => []QuotaRespected
<1>1. Spec => [](TypeInv /\ RowInv /\ QuotaInv)
  BY TypeInit, TypeStep, RowInit, RowStep, QuotaInit, QuotaStep, PTL DEF Spec
<1>2. QuotaInv => QuotaRespected
  BY DEF QuotaInv
<1> QED
  BY <1>1, <1>2, PTL

-----------------------------------------------------------------------------
(* As long as its lease did not run out under its worker, a run has one      *)
(* worker; if stalls never happen, the queue implements RunLifecycle: for    *)
(* every number of workers, clients, users, runs and attempts, with crashes, *)
(* shutdowns, panics and lost writes.                                        *)

(* The row of a worker is running under a valid lease, or finished and       *)
(* waiting for the cleanup of its directory.  It is never queued, so that    *)
(* no second worker can claim it.                                            *)
HeldRunsRunning ==
  \A w \in Workers : wrun[w] # NoRun /\ wrun[w] \notin overrun =>
    \/ status[wrun[w]] = "running" /\ lease[wrun[w]] = "valid"
    \/ status[wrun[w]] \in Terminal /\ wphase[w] = "cleanup"

Held == HeldRunsRunning /\ ExclusiveExecution /\ ScratchLossExplained

(* A lease that runs out under a worker counts as a stall. *)
OverrunCounted == stalls = 0 => overrun = {}

HoldInv == Held /\ OverrunCounted

(* Nobody holds a run at first. *)
LEMMA HoldInit == Init => HoldInv
  BY DEF Init, HoldInv, Held, HeldRunsRunning, ExclusiveExecution, ScratchLossExplained,
     OverrunCounted

(* Only an expiring lease changes what is known of stalls. *)
LEMMA ExpiryOnly ==
  [Next]_vars => UNCHANGED <<stalls, overrun>> \/ \E r \in Runs : LeaseExpires(r)
  BY DEF Next, ClientStep, WorkerStep, LeaseStep, ProcessStep, vars, Stop, faults,
     EnqueueBegin, EnqueueLock, EnqueueCheck, EnqueueCommit, Poll, GiveUp, Claim, DrainEnds,
     LookupFails, StartExecution, Heartbeat, HeartbeatFails, ExecutionEnds,
     ExecutorPanics, WriteComplete, WriteFail, CleanupScratch, WorkerStops,
     ScratchAges, RemoveStaleScratch, LeakedHeartbeat, LeakedHeartbeatFails,
     ReclaimExpired, FailExhausted, DaemonCrash, ApiCrash, Shutdown, DaemonExit,
     DaemonStart

(* A lease runs out under nobody, or the run is one that it has run out      *)
(* under.                                                                    *)
LEMMA ExpiryKeeps ==
  ASSUME TypeInv, HoldInv, NEW r \in Runs, LeaseExpires(r)
  PROVE  HoldInv' /\ overrun \subseteq overrun'
<1> USE DEF TypeInv, TypeOK
<1>1. /\ overrun' = IF InHand(r) THEN overrun \cup {r} ELSE overrun
      /\ InHand(r) => stalls' = stalls + 1
      /\ ~InHand(r) => stalls' \in {stalls, stalls + 1}
      /\ UNCHANGED <<status, wrun, wphase, scratch, aged>>
      /\ \A q \in Runs \ {r} : lease'[q] = lease[q]
  BY DEF LeaseExpires, Attended, worker, dirs
<1>2. \A w \in Workers : wrun[w] # r \/ r \in overrun'
  BY <1>1 DEF InHand
<1>3. HeldRunsRunning'
  BY <1>1, <1>2 DEF HoldInv, Held, HeldRunsRunning
<1>4. ExclusiveExecution' /\ ScratchLossExplained'
  BY <1>1 DEF HoldInv, Held, ExclusiveExecution, ScratchLossExplained
<1>5. OverrunCounted'
  BY <1>1, SizesAssumption DEF HoldInv, OverrunCounted
<1> QED
  BY <1>1, <1>3, <1>4, <1>5 DEF HoldInv, Held

(* Any other step keeps the exclusive hold. *)
LEMMA HeldStep ==
  TypeInv /\ RowInv /\ Held /\ [Next]_vars /\ UNCHANGED overrun => Held'
<1> SUFFICES ASSUME TypeInv, RowInv, Held, [Next]_vars, UNCHANGED overrun PROVE Held'
  OBVIOUS
<1>0. NoRun \notin Runs
  BY NoRunAssumption DEF Runs
<1> USE <1>0 DEF TypeInv, TypeOK, WorkerShape, Held, HeldRunsRunning,
    ExclusiveExecution, ScratchLossExplained, Terminal
<1>u. ASSUME UNCHANGED <<status, lease, wrun, wphase, scratch, aged>> PROVE Held'
  BY <1>u
<1>r. ASSUME NEW w \in Workers, NEW ph \in {"off", "idle"}, Release(w, ph),
             UNCHANGED <<status, lease>>,
             \A v \in Workers \ {w} : wrun[v] \in scratch \cup aged =>
               wrun[v] \in scratch' \cup aged' \cup overrun
      PROVE Held'
  <2>1. /\ wrun'[w] = NoRun /\ wphase'[w] = ph
        /\ \A v \in Workers \ {w} : wrun'[v] = wrun[v] /\ wphase'[v] = wphase[v]
    BY <1>r DEF Release
  <2> QED
    BY <1>r, <2>1
<1>1. ASSUME NEW c \in Clients, NEW u \in Users \cup {NoUser},
             EnqueueBegin(c, u) \/ EnqueueLock(c) \/ EnqueueCheck(c) \/ Poll(c) \/ GiveUp(c)
      PROVE Held'
  BY <1>1, <1>u DEF EnqueueBegin, EnqueueLock, EnqueueCheck, Poll, GiveUp, table, worker, dirs
<1>3. ASSUME NEW w \in Workers, NEW r \in Runs, Claim(w, r) PROVE Held'
  <2>1. r \notin overrun => \A v \in Workers : wrun[v] # r
    BY <1>3 DEF Claim, Claimable
  <2>2. /\ status'[r] = "running" /\ lease'[r] = "valid"
        /\ \A q \in Runs \ {r} : status'[q] = status[q] /\ lease'[q] = lease[q]
        /\ wrun'[w] = r /\ wphase'[w] = "claimed"
        /\ \A v \in Workers \ {w} : wrun'[v] = wrun[v] /\ wphase'[v] = wphase[v]
        /\ UNCHANGED <<scratch, aged>>
    BY <1>3 DEF Claim, dirs
  <2> QED
    BY <2>1, <2>2
<1>4. ASSUME NEW w \in Workers,
             \/ DrainEnds(w) \/ LookupFails(w) \/ ExecutorPanics(w) \/ WorkerStops(w)
      PROVE Held'
  BY <1>4, <1>r DEF DrainEnds, LookupFails, ExecutorPanics, WorkerStops, AfterError, table, dirs
<1>5. ASSUME NEW w \in Workers, NEW removed \in BOOLEAN, CleanupScratch(w, removed)
      PROVE Held'
  <2>1. \A v \in Workers \ {w} : wrun[v] # wrun[w] \/ wrun[v] \in overrun
    BY <1>5 DEF CleanupScratch
  <2>2. \A v \in Workers \ {w} : wrun[v] \in scratch \cup aged =>
          wrun[v] \in scratch' \cup aged' \cup overrun
    BY <1>5, <2>1 DEF CleanupScratch
  <2>3. UNCHANGED <<status, lease>> /\ (Release(w, "idle") \/ Release(w, "off"))
    BY <1>5 DEF CleanupScratch, AfterError, table
  <2> QED
    BY <2>2, <2>3, <1>r
<1>6. ASSUME NEW w \in Workers, StartExecution(w) PROVE Held'
  BY <1>6 DEF StartExecution, table
<1>7. ASSUME NEW w \in Workers, Heartbeat(w) PROVE Held'
  BY <1>7 DEF Heartbeat, worker, dirs
<1>8. ASSUME NEW w \in Workers, HeartbeatFails(w) PROVE Held'
  BY <1>8, <1>u DEF HeartbeatFails, table, dirs
<1>9. ASSUME NEW w \in Workers, NEW res \in {"ok", "err"}, ExecutionEnds(w, res)
      PROVE Held'
  BY <1>9 DEF ExecutionEnds, table, dirs
<1>10. ASSUME NEW w \in Workers, NEW stored \in BOOLEAN, NEW res \in {"ok", "err"},
              WriteComplete(w, stored) \/ WriteFail(w, stored, res)
       PROVE Held'
  <2>1. /\ wrun[w] \in Runs
        /\ wrun[w] \notin overrun => status[wrun[w]] = "running" /\ lease[wrun[w]] = "valid"
    BY <1>10 DEF WriteComplete, WriteFail
  <2>2. \A v \in Workers \ {w} : wrun[v] # wrun[w] \/ wrun[v] \in overrun
    BY <2>1
  <2>3. /\ UNCHANGED <<lease, wrun, scratch, aged>>
        /\ wphase'[w] = "cleanup"
        /\ \A v \in Workers \ {w} : wphase'[v] = wphase[v]
    BY <1>10 DEF WriteComplete, WriteFail, dirs
  <2>4. /\ status'[wrun[w]] \in {status[wrun[w]], "completed", "failed"}
        /\ \A q \in Runs \ {wrun[w]} : status'[q] = status[q]
    BY <1>10, <2>1 DEF WriteComplete, WriteFail
  <2> QED
    BY <2>1, <2>2, <2>3, <2>4
<1>11. ASSUME NEW r \in Runs, LeaseExpires(r) PROVE Held'
  <2>1. \A w \in Workers : wrun[w] = r => r \in overrun
    BY <1>11 DEF LeaseExpires, InHand
  <2>2. /\ \A q \in Runs \ {r} : lease'[q] = lease[q]
        /\ UNCHANGED <<status, wrun, wphase, scratch, aged>>
    BY <1>11 DEF LeaseExpires, worker, dirs
  <2> QED
    BY <2>1, <2>2
<1>12. ASSUME NEW r \in Runs, ScratchAges(r) \/ RemoveStaleScratch(r) PROVE Held'
  <2>1. UNCHANGED <<status, lease, wrun, wphase>> /\ scratch \cup aged \subseteq scratch' \cup aged'
    BY <1>12 DEF ScratchAges, RemoveStaleScratch, table, worker
  <2> QED
    BY <2>1
<1>13. ASSUME NEW r \in Runs, NEW p \in Procs,
              LeakedHeartbeat(p, r) \/ LeakedHeartbeatFails(p, r)
       PROVE Held'
  BY <1>13, <1>u DEF LeakedHeartbeat, LeakedHeartbeatFails, table, worker, dirs
<1>14. ASSUME ReclaimExpired \/ FailExhausted PROVE Held'
  <2>1. \A r \in Runs : lease[r] # "expired" => status'[r] = status[r] /\ lease'[r] = lease[r]
    BY <1>14 DEF ReclaimExpired, FailExhausted, Reapable
  <2>2. \A r \in Runs : status[r] # "running" => status'[r] = status[r]
    BY <1>14 DEF ReclaimExpired, FailExhausted, Reapable
  <2>3. UNCHANGED <<wrun, wphase, scratch, aged>>
    BY <1>14 DEF ReclaimExpired, FailExhausted, worker, dirs
  <2> QED
    BY <2>1, <2>2, <2>3
<1>15. ASSUME NEW W \in {Daemon, Inline}, Kill(W), UNCHANGED <<status, lease, scratch, aged>>
       PROVE Held'
  <2>1. \A v \in Workers :
          \/ wrun'[v] = NoRun /\ wphase'[v] = "off"
          \/ wrun'[v] = wrun[v] /\ wphase'[v] = wphase[v]
    BY <1>15 DEF Kill
  <2> QED
    BY <1>15, <2>1
<1>16. ASSUME DaemonCrash \/ ApiCrash PROVE Held'
  BY <1>16, <1>15 DEF DaemonCrash, ApiCrash, table, dirs
<1>17. ASSUME Shutdown \/ DaemonExit PROVE Held'
  BY <1>17, <1>u DEF Shutdown, DaemonExit, table, worker, dirs
<1>18. ASSUME DaemonStart PROVE Held'
  BY <1>18 DEF DaemonStart, table, dirs
<1>19. CASE UNCHANGED vars
  BY <1>19, <1>u DEF vars, table, worker, dirs
<1>20. ASSUME NEW c \in Clients, NEW w \in Inline, EnqueueCommit(c, w) PROVE Held'
  <2>1. status[crun[c]] = "none" /\ crun[c] \in Runs
    BY <1>20 DEF RowInv, OpenTransactions, EnqueueCommit, Pending
  <2>2. \A v \in Workers : wrun[v] # crun[c]
    BY <2>1 DEF RowInv, HeldRows
  <2>3. /\ \A q \in Runs \ {crun[c]} : status'[q] = status[q]
        /\ UNCHANGED <<lease, wrun, scratch, aged>>
        /\ \A v \in Workers : v # w => wphase'[v] = wphase[v]
        /\ w \in Workers /\ wrun[w] = NoRun /\ wphase'[w] = "idle"
    BY <1>20 DEF EnqueueCommit, Workers, dirs
  <2> QED
    BY <2>2, <2>3
<1> QED
  BY SMTT(60), <1>1, <1>3, <1>4, <1>5, <1>6, <1>7, <1>8, <1>9, <1>10, <1>11, <1>12, <1>13,
     <1>14, <1>16, <1>17, <1>18, <1>19, <1>20, FlagsAssumption, SMTT(30)
  DEF Next, ClientStep, WorkerStep, LeaseStep, ProcessStep, Procs

(* Every step keeps the exclusive hold, and no run that its lease has run    *)
(* out under is forgotten.                                                   *)
LEMMA HoldStep ==
  TypeInv /\ RowInv /\ HoldInv /\ [Next]_vars => HoldInv' /\ overrun \subseteq overrun'
<1> SUFFICES ASSUME TypeInv, RowInv, HoldInv, [Next]_vars
             PROVE  HoldInv' /\ overrun \subseteq overrun'
  OBVIOUS
<1>1. CASE UNCHANGED <<stalls, overrun>>
  BY <1>1, HeldStep DEF HoldInv, OverrunCounted
<1>2. ASSUME NEW r \in Runs, LeaseExpires(r) PROVE HoldInv' /\ overrun \subseteq overrun'
  BY <1>2, ExpiryKeeps
<1> QED
  BY <1>1, <1>2, ExpiryOnly

Inv == TypeInv /\ RowInv /\ HoldInv

(* The invariant of the specification. *)
LEMMA Invariance == Spec => []Inv
<1>1. Init => Inv
  BY TypeInit, RowInit, HoldInit DEF Inv
<1>2. Inv /\ [Next]_vars => Inv'
  BY TypeStep, RowStep, HoldStep DEF Inv
<1> QED
  BY <1>1, <1>2, PTL DEF Spec

(* Lease, heartbeat and reaper together give a claimed run to one worker     *)
(* at a time, however workers die and other workers stall.                   *)
THEOREM ExclusiveSafe == Spec => []ExclusiveExecution
<1>1. Inv => ExclusiveExecution
  BY DEF Inv, HoldInv, Held
<1> QED
  BY <1>1, Invariance, PTL

(* An execution loses its scratch directory only to a tick that finds it two *)
(* hours old, or to another attempt, after the lease ran out under a worker. *)
THEOREM ScratchLosses == Spec => []ScratchLossExplained
<1>1. Inv => ScratchLossExplained
  BY DEF Inv, HoldInv, Held
<1> QED
  BY <1>1, Invariance, PTL

-----------------------------------------------------------------------------
(* Refinement.                                                              *)

(* The queue starts with no runs, as the lifecycle does. *)
LEMMA LifecycleInit == Init => Lifecycle!Init
  BY DEF Init, Lifecycle!Init

(* Before the first stall, each step of the queue is a step of the lifecycle *)
(* or leaves it alone.                                                      *)
LEMMA LifecycleStep ==
  Inv /\ stalls = 0 /\ [Next]_vars => [Lifecycle!Next]_(Lifecycle!vars)
<1> SUFFICES ASSUME Inv, stalls = 0, [Next]_vars
             PROVE  Lifecycle!Next \/ UNCHANGED <<status, attempt>>
  BY DEF Lifecycle!vars
<1> DEFINE Goal == Lifecycle!Next \/ UNCHANGED <<status, attempt>>
<1> USE DEF Inv, TypeInv, TypeOK
<1>1. ASSUME NEW c \in Clients, NEW w \in Inline, EnqueueCommit(c, w) PROVE Goal
  <2>1. status[crun[c]] = "none" /\ crun[c] \in Runs
    BY <1>1 DEF RowInv, OpenTransactions, EnqueueCommit, Pending
  <2>2. Lifecycle!Submit(crun[c])
    BY <1>1, <2>1 DEF EnqueueCommit, Lifecycle!Submit
  <2> QED
    BY <2>1, <2>2 DEF Lifecycle!Next
<1>2. ASSUME NEW w \in Workers, NEW r \in Runs, Claim(w, r) PROVE Goal
  <2>1. \A q \in Runs : status[q] = "queued" => \A v \in Workers : wrun[v] # q
    BY NoRunAssumption DEF HoldInv, OverrunCounted, Held, HeldRunsRunning, Terminal, Runs
  <2>2. \A q \in Runs : status[q] = "queued" => ~(q < r)
    BY <1>2, <2>1 DEF Claim, Claimable
  <2>3. \A q \in Runs : status[q] = "queued" => r <= q
    BY <2>2, SizesAssumption DEF Runs
  <2>4. Lifecycle!Start(r)
    BY <1>2, <2>3 DEF Claim, Claimable, Lifecycle!Start
  <2> QED
    BY <2>4 DEF Lifecycle!Next
<1>3. ASSUME NEW w \in Workers, NEW o \in Terminal, wrun[w] \in Runs,
             status[wrun[w]] = "running", UNCHANGED attempt,
             status' = [status EXCEPT ![wrun[w]] = o]
      PROVE Goal
  <2>1. Lifecycle!Finish({wrun[w]}, o)
    BY <1>3 DEF Lifecycle!Finish
  <2> QED
    BY <2>1, <1>3 DEF Lifecycle!Next, Lifecycle!Outcomes, Terminal
<1>4. ASSUME NEW w \in Workers, NEW stored \in BOOLEAN, NEW res \in {"ok", "err"},
             WriteComplete(w, stored) \/ WriteFail(w, stored, res)
      PROVE Goal
  <2>1. wphase[w] = "finishing" /\ UNCHANGED attempt
    BY <1>4 DEF WriteComplete, WriteFail
  <2>2. wrun[w] \in Runs /\ status[wrun[w]] = "running"
    BY <2>1 DEF WorkerShape, HoldInv, OverrunCounted, Held, HeldRunsRunning
  <2>3. \/ UNCHANGED status
        \/ \E o \in Terminal : status' = [status EXCEPT ![wrun[w]] = o]
    BY <1>4 DEF WriteComplete, WriteFail, Terminal
  <2> QED
    BY <2>1, <2>2, <2>3, <1>3
<1>5. ASSUME ReclaimExpired PROVE Goal
  <2> DEFINE S == {r \in Runs : Reapable(r) /\ attempt[r] < MaxAttempts}
  <2>1. Lifecycle!Retry(S)
    BY <1>5 DEF ReclaimExpired, Reapable, Lifecycle!Retry
  <2>2. S \in SUBSET Runs
    OBVIOUS
  <2> QED
    BY <2>1, <2>2 DEF Lifecycle!Next
<1>6. ASSUME FailExhausted PROVE Goal
  <2> DEFINE S == {r \in Runs : Reapable(r) /\ attempt[r] >= MaxAttempts}
  <2>1. Lifecycle!Finish(S, "failed")
    BY <1>6 DEF FailExhausted, Reapable, Lifecycle!Finish
  <2>2. S \in SUBSET Runs
    OBVIOUS
  <2> QED
    BY <2>1, <2>2 DEF Lifecycle!Next, Lifecycle!Outcomes
<1>7. ASSUME NEW c \in Clients, NEW u \in Users \cup {NoUser},
             EnqueueBegin(c, u) \/ EnqueueLock(c) \/ EnqueueCheck(c) \/ Poll(c) \/ GiveUp(c)
      PROVE Goal
  BY <1>7 DEF EnqueueBegin, EnqueueLock, EnqueueCheck, Poll, GiveUp, table
<1>8. ASSUME NEW w \in Workers, NEW res \in {"ok", "err"}, NEW removed \in BOOLEAN,
             \/ DrainEnds(w) \/ LookupFails(w) \/ StartExecution(w) \/ Heartbeat(w)
             \/ HeartbeatFails(w) \/ ExecutionEnds(w, res) \/ ExecutorPanics(w)
             \/ CleanupScratch(w, removed) \/ WorkerStops(w)
      PROVE Goal
  BY <1>8 DEF DrainEnds, LookupFails, StartExecution, Heartbeat, HeartbeatFails,
     ExecutionEnds, ExecutorPanics, CleanupScratch, WorkerStops, table
<1>9. ASSUME NEW q \in Runs, NEW p \in Procs,
             \/ LeaseExpires(q) \/ ScratchAges(q) \/ RemoveStaleScratch(q)
             \/ LeakedHeartbeat(p, q) \/ LeakedHeartbeatFails(p, q)
      PROVE Goal
  BY <1>9 DEF LeaseExpires, ScratchAges, RemoveStaleScratch, LeakedHeartbeat, LeakedHeartbeatFails, table
<1>10. ASSUME ProcessStep \/ UNCHANGED vars PROVE Goal
  BY <1>10 DEF ProcessStep, DaemonCrash, ApiCrash, Shutdown, DaemonExit, DaemonStart,
     table, vars
<1> QED
  BY <1>1, <1>2, <1>4, <1>5, <1>6, <1>7, <1>8, <1>9, <1>10, FlagsAssumption
  DEF Next, ClientStep, WorkerStep, LeaseStep, Procs

(* Without stalls the queue implements the lifecycle of a tool run: oldest   *)
(* first, bounded retries, one outcome that never changes.                   *)
THEOREM ImplementsLifecycle == ASSUME MaxStalls = 0 PROVE Spec => LifecycleSpec
<1>1. Spec => []Inv
  BY Invariance
<1>2. Inv => stalls = 0
  BY SizesAssumption DEF Inv, TypeInv, TypeOK
<1> QED
  BY <1>1, <1>2, LifecycleInit, LifecycleStep, PTL DEF Spec, LifecycleSpec, Lifecycle!Spec

-----------------------------------------------------------------------------
(* The answer of invoke().                                                  *)

(* A row that has its outcome keeps it: only its own worker would write it   *)
(* again, and that worker's lease has not run out.                           *)
LEMMA OutcomeKept ==
  ASSUME Inv, [Next]_vars, NEW r \in Runs \ overrun, status[r] \in Terminal
  PROVE  status'[r] = status[r]
<1> USE DEF Inv, TypeInv, TypeOK, Terminal
<1>u. ASSUME UNCHANGED status PROVE status'[r] = status[r]
  BY <1>u
<1>1. ASSUME NEW c \in Clients, NEW w \in Inline, EnqueueCommit(c, w)
      PROVE  status'[r] = status[r]
  <2>1. status[crun[c]] = "none"
    BY <1>1 DEF RowInv, OpenTransactions, EnqueueCommit, Pending
  <2> QED
    BY <1>1, <2>1 DEF EnqueueCommit
<1>2. ASSUME NEW w \in Workers, NEW q \in Runs, Claim(w, q) PROVE status'[r] = status[r]
  BY <1>2 DEF Claim, Claimable
<1>3. ASSUME NEW w \in Workers, NEW stored \in BOOLEAN, NEW res \in {"ok", "err"},
             WriteComplete(w, stored) \/ WriteFail(w, stored, res)
      PROVE  status'[r] = status[r]
  <2>1. wphase[w] = "finishing" /\ wrun[w] # NoRun
    BY <1>3 DEF WriteComplete, WriteFail, WorkerShape
  <2>2. wrun[w] # r
    BY <2>1 DEF HoldInv, Held, HeldRunsRunning
  <2> QED
    BY <1>3, <2>2 DEF WriteComplete, WriteFail
<1>4. ASSUME ReclaimExpired \/ FailExhausted PROVE status'[r] = status[r]
  BY <1>4 DEF ReclaimExpired, FailExhausted, Reapable
<1>5. \/ UNCHANGED status
      \/ \E c \in Clients, w \in Inline : EnqueueCommit(c, w)
      \/ \E w \in Workers, q \in Runs : Claim(w, q)
      \/ \E w \in Workers, stored \in BOOLEAN, res \in {"ok", "err"} :
           WriteComplete(w, stored) \/ WriteFail(w, stored, res)
      \/ ReclaimExpired \/ FailExhausted
  BY DEF Next, ClientStep, WorkerStep, LeaseStep, ProcessStep, table, vars,
     EnqueueBegin, EnqueueLock, EnqueueCheck, Poll, GiveUp, DrainEnds,
     LookupFails, StartExecution, Heartbeat, HeartbeatFails, ExecutionEnds,
     ExecutorPanics, CleanupScratch, WorkerStops, LeaseExpires, ScratchAges,
     RemoveStaleScratch, LeakedHeartbeat, LeakedHeartbeatFails,
     DaemonCrash, ApiCrash, Shutdown, DaemonExit, DaemonStart
<1> QED
  BY <1>u, <1>1, <1>2, <1>3, <1>4, <1>5

(* Only a poll that sees an outcome sets an answer. *)
LEMMA AnswerStep == Inv /\ AnswerMatchesRow /\ [Next]_vars => AnswerMatchesRow'
<1> SUFFICES ASSUME Inv, AnswerMatchesRow, [Next]_vars,
                    NEW r \in Runs, answer'[r] # "none", r \notin overrun'
             PROVE  status'[r] = answer'[r]
  BY DEF AnswerMatchesRow
<1>0. r \in Runs \ overrun
  BY HoldStep DEF Inv
<1> USE DEF Inv, TypeInv, TypeOK
<1>a. answer[r] # "none" => status[r] = answer[r] /\ status[r] \in Terminal
  BY <1>0 DEF AnswerMatchesRow, Terminal
<1>1. ASSUME UNCHANGED answer PROVE status'[r] = answer'[r]
  BY <1>0, <1>a, <1>1, OutcomeKept
<1>2. ASSUME NEW c \in Clients, Poll(c) PROVE status'[r] = answer'[r]
  <2>1. status' = status
    BY <1>2 DEF Poll, table
  <2> QED
    BY <1>2, <1>a, <2>1 DEF Poll
<1>3. UNCHANGED answer \/ \E c \in Clients : Poll(c)
  BY DEF Next, ClientStep, WorkerStep, LeaseStep, ProcessStep, client, vars,
     EnqueueBegin, EnqueueLock, EnqueueCheck, EnqueueCommit, GiveUp, Claim, DrainEnds,
     LookupFails, StartExecution, Heartbeat, HeartbeatFails, ExecutionEnds,
     ExecutorPanics, WriteComplete, WriteFail, CleanupScratch, WorkerStops,
     LeaseExpires, ScratchAges, RemoveStaleScratch, LeakedHeartbeat, LeakedHeartbeatFails,
     ReclaimExpired, FailExhausted, DaemonCrash, ApiCrash, Shutdown, DaemonExit,
     DaemonStart
<1> QED
  BY <1>1, <1>2, <1>3

(* What invoke() told its caller stays true of the row, unless the lease ran *)
(* out under one of its workers.                                             *)
THEOREM AnswerSafe == Spec => []AnswerMatchesRow
<1>1. Init => AnswerMatchesRow
  BY DEF Init, AnswerMatchesRow
<1>2. Spec => []Inv
  BY Invariance
<1> QED
  BY <1>1, <1>2, AnswerStep, PTL DEF Spec
-----------------------------------------------------------------------------
(***************************************************************************)
(* GhidraCache.                                                            *)
(***************************************************************************)

(* What a call can be at, what it can answer, and what it knows. *)
Stages   == {"idle", "locking", "checking", "importing", "script", "done"}
Answers  == {"none", "failed", "no_analysis", "killed", "renamed", "full", "partial"}
CallType == [project : Projects \cup {Nobody}, told : BOOLEAN, nda : BOOLEAN, dir : Dirs,
shares : BOOLEAN]

(* The types of the directories, of the calls, and of their constants. *)
DirTypes ==
  /\ marker \in [Dirs -> BOOLEAN] /\ data \in [Dirs -> {"none", "partial", "complete"}]
  /\ holder \in [Dirs -> Calls \cup {Nobody}] /\ spoiled \in SUBSET Dirs /\ nda \in [Projects -> BOOLEAN]
CallTypes ==
  /\ pc \in [Calls -> Stages] /\ call \in [Calls -> CallType] /\ result \in [Calls -> Answers]
  /\ importer \in [Calls -> BOOLEAN] /\ before \in [Calls -> SUBSET Calls] /\ raced \in SUBSET Calls
PlanTypes == tool \in [Calls -> {"analyze", "decompile", "rename"}] /\ external \in BOOLEAN

(* What a call has done at each stage. *)
Staged ==
  \A c \in Calls :
    /\ result[c] # "none" => pc[c] = "done"
    /\ importer[c] => pc[c] \in {"importing", "done"} /\ tool[c] = "analyze"
    /\ pc[c] = "importing" => tool[c] = "analyze"
    /\ pc[c] = "script" => tool[c] # "rename"
    /\ pc[c] \in {"idle", "locking"} => ~call[c].shares
    /\ call[c].shares => tool[c] # "analyze"
    /\ pc[c] = "idle" => before[c] = {}

(* The directory follows from what the call was told and from the flag then. *)
InItsDir ==
  \A c \in Calls : pc[c] # "idle" =>
    Dir(c) = CachePath(call[c].project, call[c].told => call[c].nda)

Basics == DirTypes /\ CallTypes /\ PlanTypes /\ Staged /\ InItsDir

(* The directories where the lock kept everybody from each other's work:     *)
(* what is partial there is being written, by an analysis that has the lock. *)
BeingWritten(d) == data[d] = "partial" => \E i \in Calls : importer[i] /\ Dir(i) = d
NoneOrphaned(d) == \A c \in Calls : Dir(c) = d /\ importer[c] => pc[c] = "importing"
AnalystHolds(d) ==
  \A c \in Calls : Dir(c) = d /\ tool[c] = "analyze" /\ pc[c] \in {"checking", "importing",
  "script"} =>
    holder[d] = c
ReaderShares(d) ==
  \A c \in Calls : Dir(c) = d /\ tool[c] # "analyze" /\ Locks(c) /\ pc[c] \in {"checking",
  "script"} =>
    call[c].shares
SharedAlone(d)  == \A c \in Calls : Dir(c) = d /\ call[c].shares /\ pc[c] # "done" => holder[d] = Nobody

Unspoiled(d) == BeingWritten(d) /\ NoneOrphaned(d) /\ AnalystHolds(d) /\ ReaderShares(d) /\ SharedAlone(d)

LocksHold == \A d \in Dirs \ spoiled : Unspoiled(d)

PartialInv == LocksHold /\ PartialExplained

(* The analyzer in the worker insists on the lock, so it clears no directory *)
(* where another has succeeded; re_executor clears none.                     *)
FullIsCached == \A a \in Calls : tool[a] = "analyze" /\ result[a] = "full" => Cached(Dir(a))
MarkerFirst  == \A d \in Dirs : data[d] # "none" => marker[d]

WorkerLocks ==
  ~external => \A c \in Calls : tool[c] = "analyze" =>
    /\ pc[c] \in {"checking", "importing", "script"} => holder[Dir(c)] = c
    /\ pc[c] = "importing" =>
         \A a \in Calls : tool[a] = "analyze" /\ result[a] = "full" => Dir(a) # Dir(c)

BeforeFull ==
  \A c \in Calls : \A a \in before[c] :
    tool[a] = "analyze" /\ result[a] = "full" /\ call[a].project = call[c].project

FoundInv == FullIsCached /\ MarkerFirst /\ WorkerLocks /\ BeforeFull /\ AnalyzedIsFound

(* The initial state is well typed, with no call begun. *)
LEMMA BasicsInit == GhidraInit => Basics
BY GhidraConstants DEF GhidraInit, Basics, DirTypes, CallTypes, CallType, PlanTypes, Staged,
  InItsDir,
  Dirs, NoCall, Stages, Answers

(* Having the lock with others is all that a call learns from locking.       *)
OnlyShares(c) ==
  \A a \in Calls :
    /\ call'[a].project = call[a].project /\ call'[a].told = call[a].told
    /\ call'[a].nda = call[a].nda /\ Dir(a)' = Dir(a)
    /\ a # c => call'[a].shares = call[a].shares

LEMMA LockKeeps ==
  ASSUME Basics, NEW c \in Calls, Lock(c)
  PROVE  call' \in [Calls -> CallType] /\ OnlyShares(c)
<1>1. CASE tool[c] = "analyze"
  BY <1>1 DEF Lock, OnlyShares, Dir, Basics, CallTypes
<1>2. CASE tool[c] # "analyze"
  <2>1. call' = [call EXCEPT ![c].shares = TRUE]
    BY <1>2 DEF Lock
  <2>2. call' \in [Calls -> CallType]
    BY <2>1 DEF Basics, CallTypes, CallType
  <2> QED  BY <2>1, <2>2, ZenonT(30) DEF OnlyShares, Dir, Basics, CallTypes, CallType
<1> QED  BY <1>1, <1>2

(* Every step keeps the types and the order of a call's stages. *)
LEMMA BasicsStep ==
  ASSUME Basics, [GhidraNext]_ghidraVars PROVE Basics'
<1> USE DEF Basics, DirTypes, CallTypes, PlanTypes, Staged, InItsDir, files, locals
<1>1. ASSUME NEW p \in Projects, SetNda(p) PROVE Basics'
  <2>1. DirTypes'
    BY <1>1 DEF SetNda, Dirs
  <2>2. CallTypes'
    BY <1>1 DEF SetNda, CallType, Stages, Answers, Dirs
  <2>3. PlanTypes'
    BY <1>1 DEF SetNda, Stages
  <2>4. Staged'
    BY <1>1 DEF SetNda, Stages
  <2>5. InItsDir'
    BY <1>1 DEF SetNda, CachePath, Dir
  <2> QED  BY <2>1, <2>2, <2>3, <2>4, <2>5
<1>2. ASSUME NEW c \in Calls, BeginCall(c) PROVE Basics'
  <2>1. DirTypes'
    BY <1>2 DEF BeginCall, Move, CachePath, BelievedNda, Locks, Dirs
  <2>2. CallTypes'
    BY <1>2 DEF BeginCall, Move, CachePath, BelievedNda, Locks, CallType, Stages, Answers, Dirs
  <2>3. PlanTypes'
    BY <1>2 DEF BeginCall, Move, CachePath, BelievedNda, Locks, Stages
  <2>4. Staged'
    BY <1>2 DEF BeginCall, Move, CachePath, BelievedNda, Locks, Stages
  <2>5. InItsDir'
    BY <1>2 DEF BeginCall, Move, CachePath, BelievedNda, Locks, CachePath, Dir
  <2> QED  BY <2>1, <2>2, <2>3, <2>4, <2>5
<1>3. ASSUME NEW c \in Calls, Lock(c) PROVE Basics'
  <2>0. call' \in [Calls -> CallType] /\ OnlyShares(c)
    BY <1>3, LockKeeps
  <2>1. DirTypes'
    BY <1>3 DEF Lock, Move, Dirs
  <2>2. CallTypes'
    BY <1>3, <2>0 DEF Lock, Move, Stages
  <2>3. PlanTypes'
    BY <1>3 DEF Lock, Move, Stages
  <2>4. Staged'
    BY <1>3 DEF Lock, Move, Stages
  <2>5. InItsDir'
    <3>1. \A a \in Calls : pc'[a] # "idle" => pc[a] # "idle"
      BY <1>3 DEF Lock, Move
    <3> QED  BY <2>0, <3>1 DEF OnlyShares, CachePath, Dir
  <2> QED  BY <2>1, <2>2, <2>3, <2>4, <2>5
<1>4. ASSUME NEW c \in Calls, LockFails(c) PROVE Basics'
  <2>1. DirTypes'
    BY <1>4 DEF LockFails, Move, Answer, Dir, Dirs, CallType
  <2>2. CallTypes'
    BY <1>4, SMTT(60) DEF LockFails, Move, Answer, CallType, Stages, Answers, Dirs
  <2>3. PlanTypes'
    BY <1>4 DEF LockFails, Move, Answer, Stages
  <2>4. Staged'
    BY <1>4 DEF LockFails, Move, Answer, Stages
  <2>5. InItsDir'
    BY <1>4 DEF LockFails, Move, Answer, CachePath, Dir
  <2> QED  BY <2>1, <2>2, <2>3, <2>4, <2>5
<1>5. ASSUME NEW c \in Calls, CheckAnalysis(c) PROVE Basics'
  <2>1. DirTypes'
    BY <1>5, ZenonT(30) DEF CheckAnalysis, Move, Dir, Dirs, CallType
  <2>2. CallTypes'
    BY <1>5 DEF CheckAnalysis, Move, CallType, Stages, Answers, Dirs
  <2>3. PlanTypes'
    BY <1>5 DEF CheckAnalysis, Move, Stages
  <2>4. Staged'
    BY <1>5 DEF CheckAnalysis, Move, Stages
  <2>5. InItsDir'
    BY <1>5 DEF CheckAnalysis, Move, CachePath, Dir
  <2> QED  BY <2>1, <2>2, <2>3, <2>4, <2>5
<1>6. ASSUME NEW c \in Calls, CheckDecompile(c) PROVE Basics'
  <2>1. DirTypes'
    BY <1>6, SMTT(30) DEF CheckDecompile, Move, Answer, Dirs
  <2>2. CallTypes'
    <3>1. pc' \in [Calls -> Stages] /\ result' \in [Calls -> Answers]
      BY <1>6 DEF CheckDecompile, Move, Answer, Stages, Answers
    <3>2. UNCHANGED <<call, importer, before, raced>>
      BY <1>6 DEF CheckDecompile
    <3> QED
      BY <3>1, <3>2
  <2>3. PlanTypes'
    BY <1>6 DEF CheckDecompile, Move, Answer, Stages
  <2>4. Staged'
    BY <1>6 DEF CheckDecompile, Move, Answer, Stages
  <2>5. InItsDir'
    BY <1>6 DEF CheckDecompile, Move, Answer, CachePath, Dir
  <2> QED  BY <2>1, <2>2, <2>3, <2>4, <2>5
<1>7. ASSUME NEW c \in Calls, Rename(c) PROVE Basics'
  <2>1. DirTypes'
    BY <1>7 DEF Rename, Move, Answer, Dirs
  <2>2. CallTypes'
    <3>1. PICK reply \in {"renamed", "failed", "no_analysis"} : Answer(c, reply)
      BY <1>7 DEF Rename
    <3> QED  BY <1>7, <3>1 DEF Rename, Answer, Move, Stages, Answers
  <2>3. PlanTypes'
    BY <1>7 DEF Rename, Move, Answer, Stages
  <2>4. Staged'
    BY <1>7 DEF Rename, Move, Answer, Stages
  <2>5. InItsDir'
    BY <1>7 DEF Rename, Move, Answer, CachePath, Dir
  <2> QED  BY <2>1, <2>2, <2>3, <2>4, <2>5
<1>8. ASSUME NEW c \in Calls, ImportWrites(c) PROVE Basics'
  <2>1. DirTypes'
    BY <1>8 DEF ImportWrites, Dirs
  <2>2. CallTypes'
    BY <1>8 DEF ImportWrites, CallType, Stages, Answers, Dirs
  <2>3. PlanTypes'
    BY <1>8 DEF ImportWrites, Stages
  <2>4. Staged'
    BY <1>8 DEF ImportWrites, Stages
  <2>5. InItsDir'
    BY <1>8 DEF ImportWrites, CachePath, Dir
  <2> QED  BY <2>1, <2>2, <2>3, <2>4, <2>5
<1>9. ASSUME NEW c \in Calls, ImportEnds(c) PROVE Basics'
  <2>1. DirTypes'
    BY <1>9 DEF ImportEnds, Move, Dirs
  <2>2. CallTypes'
    BY <1>9 DEF ImportEnds, Move, CallType, Stages, Answers, Dirs
  <2>3. PlanTypes'
    BY <1>9 DEF ImportEnds, Move, Stages
  <2>4. Staged'
    BY <1>9 DEF ImportEnds, Move, Stages
  <2>5. InItsDir'
    BY <1>9 DEF ImportEnds, Move, CachePath, Dir
  <2> QED  BY <2>1, <2>2, <2>3, <2>4, <2>5
<1>10. ASSUME NEW c \in Calls, ImportFails(c) PROVE Basics'
  <2>1. DirTypes'
    <3>1. Dir(c) \in Dirs
      BY DEF Dir, CallType
    <3>2. marker' \in [Dirs -> BOOLEAN] /\ data' \in [Dirs -> {"none", "partial", "complete"}]
      BY <1>10, <3>1 DEF ImportFails
    <3>3. holder' \in [Dirs -> Calls \cup {Nobody}]
      BY <1>10 DEF ImportFails, Unlock
    <3> QED  BY <1>10, <3>1, <3>2, <3>3 DEF ImportFails
  <2>2. CallTypes'
    BY <1>10 DEF ImportFails, Move, Answer, Stages, Answers
  <2>3. PlanTypes'
    BY <1>10 DEF ImportFails, Move, Answer, Unlock, Stages
  <2>4. Staged'
    BY <1>10 DEF ImportFails, Move, Answer, Unlock, Stages
  <2>5. InItsDir'
    BY <1>10 DEF ImportFails, Move, Answer, Unlock, CachePath, Dir
  <2> QED  BY <2>1, <2>2, <2>3, <2>4, <2>5
<1>11. ASSUME NEW c \in Calls, RunScript(c) PROVE Basics'
  <2>1. DirTypes'
    BY <1>11 DEF RunScript, Move, Answer, Unlock, Dirs
  <2>2. CallTypes'
    BY <1>11, SMTT(30) DEF RunScript, Move, Answer, Unlock, CallType, Stages, Answers, Dirs
  <2>3. PlanTypes'
    BY <1>11 DEF RunScript, Move, Answer, Unlock, Stages
  <2>4. Staged'
    BY <1>11 DEF RunScript, Move, Answer, Unlock, Stages
  <2>5. InItsDir'
    BY <1>11 DEF RunScript, Move, Answer, Unlock, CachePath, Dir
  <2> QED  BY <2>1, <2>2, <2>3, <2>4, <2>5
<1>12. ASSUME NEW c \in Calls, KillExecutor(c) PROVE Basics'
  <2>1. DirTypes'
    BY <1>12 DEF KillExecutor, Move, Answer, Unlock, Dir, Dirs, CallType
  <2>2. CallTypes'
    BY <1>12 DEF KillExecutor, Move, Answer, Unlock, CallType, Stages, Answers, Dirs
  <2>3. PlanTypes'
    BY <1>12 DEF KillExecutor, Move, Answer, Unlock, Stages
  <2>4. Staged'
    BY <1>12 DEF KillExecutor, Move, Answer, Unlock, Stages
  <2>5. InItsDir'
    BY <1>12 DEF KillExecutor, Move, Answer, Unlock, CachePath, Dir
  <2> QED  BY <2>1, <2>2, <2>3, <2>4, <2>5
<1>13. CASE UNCHANGED ghidraVars
  BY <1>13 DEF ghidraVars, Dirs, CallType, Stages, Answers, Dirs, Stages, Stages, CachePath, Dir
<1> QED
  BY <1>1, <1>2, <1>3, <1>4, <1>5, <1>6, <1>7, <1>8, <1>9, <1>10, <1>11, <1>12,
    <1>13 DEF GhidraNext

(* No step lets anybody in beside the analysis that has the lock of a        *)
(* directory nobody has spoiled.                                             *)
LEMMA PartialStep ==
  ASSUME Basics, Basics', PartialInv, [GhidraNext]_ghidraVars PROVE PartialInv'
<1> USE DEF Basics, DirTypes, CallTypes, CallType, PlanTypes, Staged, Unspoiled, files, locals
<1>1. ASSUME NEW p \in Projects, SetNda(p) PROVE PartialInv'
  <2>1. ASSUME NEW d \in Dirs, d \notin spoiled' PROVE Unspoiled(d)'
    <3>1. d \notin spoiled /\ Unspoiled(d)
      BY <1>1, <2>1 DEF SetNda, PartialInv, LocksHold
    <3>2. BeingWritten(d)'
      BY <1>1, <2>1, <3>1 DEF SetNda, BeingWritten, NoneOrphaned, Dir
    <3>3. NoneOrphaned(d)'
      BY <1>1, <2>1, <3>1 DEF SetNda, NoneOrphaned, Dir
    <3>4. AnalystHolds(d)'
      BY <1>1, <2>1, <3>1 DEF SetNda, AnalystHolds, Dir
    <3>5. ReaderShares(d)'
      BY <1>1, <2>1, <3>1 DEF SetNda, ReaderShares, Locks, Dir
    <3>6. SharedAlone(d)'
      BY <1>1, <2>1, <3>1 DEF SetNda, SharedAlone, Dir
    <3> QED  BY <3>2, <3>3, <3>4, <3>5, <3>6
  <2>2. PartialExplained'
    BY <1>1 DEF SetNda, PartialInv, PartialExplained, LocksHold, Dir
  <2> QED  BY <2>1, <2>2 DEF PartialInv, LocksHold
<1>2. ASSUME NEW c \in Calls, BeginCall(c) PROVE PartialInv'
  <2>1. ASSUME NEW d \in Dirs, d \notin spoiled' PROVE Unspoiled(d)'
    <3>1. d \notin spoiled /\ Unspoiled(d)
      BY <1>2, <2>1 DEF BeginCall, PartialInv, LocksHold
    <3>2. BeingWritten(d)'
      BY <1>2, <2>1, <3>1 DEF BeginCall, Move, CachePath, BelievedNda, Locks, BeingWritten,
        NoneOrphaned, Dir
    <3>3. NoneOrphaned(d)'
      BY <1>2, <2>1, <3>1 DEF BeginCall, Move, CachePath, BelievedNda, Locks, NoneOrphaned, Dir
    <3>4. AnalystHolds(d)'
      BY <1>2, <2>1, <3>1 DEF BeginCall, Move, CachePath, BelievedNda, Locks, AnalystHolds, Dir
    <3>5. ReaderShares(d)'
      BY <1>2, <2>1, <3>1 DEF BeginCall, Move, CachePath, BelievedNda, Locks, ReaderShares, Dir
    <3>6. SharedAlone(d)'
      BY <1>2, <2>1, <3>1 DEF BeginCall, Move, CachePath, BelievedNda, Locks, SharedAlone, Dir
    <3> QED  BY <3>2, <3>3, <3>4, <3>5, <3>6
  <2>2. PartialExplained'
    BY <1>2 DEF BeginCall, Move, CachePath, BelievedNda, Locks, PartialInv, PartialExplained,
      LocksHold, Dir
  <2> QED  BY <2>1, <2>2 DEF PartialInv, LocksHold
<1>3. ASSUME NEW c \in Calls, Lock(c) PROVE PartialInv'
  <2>0. OnlyShares(c)
    BY <1>3, LockKeeps
  <2>1. ASSUME NEW d \in Dirs, d \notin spoiled' PROVE Unspoiled(d)'
    <3>1. d \notin spoiled /\ Unspoiled(d)
      BY <1>3, <2>1 DEF Lock, PartialInv, LocksHold
    <3>2. BeingWritten(d)'
      BY <1>3, <2>1, <3>1 DEF Lock, Move, BeingWritten, NoneOrphaned, Dir
    <3>3. NoneOrphaned(d)'
      BY <1>3, <2>1, <3>1 DEF Lock, Move, NoneOrphaned, Dir
    <3>4. AnalystHolds(d)'
      <4>1. CASE tool[c] = "analyze"
        <5>1. holder' = [holder EXCEPT ![Dir(c)] = c] /\ call' = call /\ holder[Dir(c)] = Nobody
          BY <1>3, <4>1 DEF Lock
        <5>2. \A a \in Calls : a # c => pc'[a] = pc[a]
          BY <1>3 DEF Lock, Move
        <5> QED
          BY <1>3, <2>1, <3>1, <5>1, <5>2, GhidraConstants
          DEF Lock, AnalystHolds, Dir
      <4>2. CASE tool[c] # "analyze"
        <5>1. \A a \in Calls : a # c => pc'[a] = pc[a]
          BY <1>3 DEF Lock, Move
        <5> QED  BY <1>3, <2>0, <3>1, <4>2, <5>1 DEF Lock, OnlyShares, AnalystHolds
      <4> QED  BY <4>1, <4>2
    <3>5. ReaderShares(d)'
      BY <1>3, <2>1, <3>1 DEF Lock, Move, ReaderShares, Locks, Dir
    <3>6. SharedAlone(d)'
      <4>1. CASE tool[c] = "analyze"
        <5>1. \A a \in Calls : pc'[a] # "done" => pc[a] # "done"
          BY <1>3 DEF Lock, Move
        <5>2. holder' = [holder EXCEPT ![Dir(c)] = c] /\ call' = call
          BY <1>3, <4>1 DEF Lock
        <5> QED
          BY <1>3, <2>1, <3>1, <4>1, <5>1, <5>2 DEF Lock, SharedAlone, Dir
      <4>2. CASE tool[c] # "analyze"
        <5>1. \A a \in Calls : pc'[a] # "done" => pc[a] # "done"
          BY <1>3 DEF Lock, Move
        <5>2. holder' = holder /\ holder[Dir(c)] = Nobody
          BY <1>3, <4>2 DEF Lock
        <5>3. ASSUME NEW a \in Calls, Dir(a)' = d, call'[a].shares, pc'[a] # "done"
              PROVE  holder'[d] = Nobody
          <6>1. Dir(a) = d /\ (a # c => call[a].shares) /\ pc[a] # "done"
            BY <2>0, <5>1, <5>3 DEF OnlyShares
          <6>2. CASE a = c
            BY <5>2, <6>1, <6>2
          <6>3. CASE a # c
            BY <3>1, <5>2, <6>1, <6>3 DEF SharedAlone
          <6> QED  BY <6>2, <6>3
        <5> QED  BY <5>3 DEF SharedAlone
      <4> QED  BY <4>1, <4>2
    <3> QED  BY <3>2, <3>3, <3>4, <3>5, <3>6
  <2>2. PartialExplained'
    BY <1>3 DEF Lock, Move, PartialInv, PartialExplained, LocksHold, Dir
  <2> QED  BY <2>1, <2>2 DEF PartialInv, LocksHold
<1>4. ASSUME NEW c \in Calls, LockFails(c) PROVE PartialInv'
  <2>1. ASSUME NEW d \in Dirs, d \notin spoiled' PROVE Unspoiled(d)'
    <3>1. d \notin spoiled /\ Unspoiled(d)
      BY <1>4, <2>1 DEF LockFails, PartialInv, LocksHold
    <3>2. BeingWritten(d)'
      BY <1>4, <2>1, <3>1 DEF LockFails, Move, Answer, BeingWritten, NoneOrphaned, Dir
    <3>3. NoneOrphaned(d)'
      BY <1>4, <2>1, <3>1 DEF LockFails, Move, Answer, NoneOrphaned, Dir
    <3>4. AnalystHolds(d)'
      BY <1>4, <2>1, <3>1 DEF LockFails, Move, Answer, AnalystHolds, Dir
    <3>5. ReaderShares(d)'
      BY <1>4, <2>1, <3>1 DEF LockFails, Move, Answer, ReaderShares, Locks, Dir
    <3>6. SharedAlone(d)'
      BY <1>4, <2>1, <3>1 DEF LockFails, Move, Answer, SharedAlone, Dir
    <3> QED  BY <3>2, <3>3, <3>4, <3>5, <3>6
  <2>2. PartialExplained'
    BY <1>4 DEF LockFails, Move, Answer, PartialInv, PartialExplained, LocksHold, Dir
  <2> QED  BY <2>1, <2>2 DEF PartialInv, LocksHold
<1>5. ASSUME NEW c \in Calls, CheckAnalysis(c) PROVE PartialInv'
  <2>1. ASSUME NEW d \in Dirs, d \notin spoiled' PROVE Unspoiled(d)'
    <3>1. d \notin spoiled /\ Unspoiled(d)
      BY <1>5, <2>1 DEF CheckAnalysis, PartialInv, LocksHold
    <3>2. BeingWritten(d)'
      BY <1>5, <2>1, <3>1 DEF CheckAnalysis, Move, BeingWritten, NoneOrphaned, Dir
    <3>3. NoneOrphaned(d)'
      BY <1>5, <2>1, <3>1 DEF CheckAnalysis, Move, NoneOrphaned, Dir
    <3>4. AnalystHolds(d)'
      BY <1>5, <2>1, <3>1 DEF CheckAnalysis, Move, AnalystHolds, Dir
    <3>5. ReaderShares(d)'
      BY <1>5, <2>1, <3>1 DEF CheckAnalysis, Move, ReaderShares, Locks, Dir
    <3>6. SharedAlone(d)'
      BY <1>5, <2>1, <3>1 DEF CheckAnalysis, Move, SharedAlone, Dir
    <3> QED  BY <3>2, <3>3, <3>4, <3>5, <3>6
  <2>2. PartialExplained'
    BY <1>5 DEF CheckAnalysis, Move, PartialInv, PartialExplained, LocksHold, Dir
  <2> QED  BY <2>1, <2>2 DEF PartialInv, LocksHold
<1>6. ASSUME NEW c \in Calls, CheckDecompile(c) PROVE PartialInv'
  <2>1. ASSUME NEW d \in Dirs, d \notin spoiled' PROVE Unspoiled(d)'
    <3>1. d \notin spoiled /\ Unspoiled(d)
      BY <1>6, <2>1 DEF CheckDecompile, PartialInv, LocksHold
    <3>2. BeingWritten(d)'
      BY <1>6, <2>1, <3>1 DEF CheckDecompile, Move, Answer, BeingWritten, NoneOrphaned, Dir
    <3>3. NoneOrphaned(d)'
      BY <1>6, <2>1, <3>1 DEF CheckDecompile, Move, Answer, NoneOrphaned, Dir
    <3>4. AnalystHolds(d)'
      BY <1>6, <2>1, <3>1 DEF CheckDecompile, Move, Answer, AnalystHolds, Dir
    <3>5. ReaderShares(d)'
      BY <1>6, <2>1, <3>1 DEF CheckDecompile, Move, Answer, ReaderShares, Locks, Dir
    <3>6. SharedAlone(d)'
      BY <1>6, <2>1, <3>1 DEF CheckDecompile, Move, Answer, SharedAlone, Dir
    <3> QED  BY <3>2, <3>3, <3>4, <3>5, <3>6
  <2>2. PartialExplained'
    BY <1>6 DEF CheckDecompile, Move, Answer, PartialInv, PartialExplained, LocksHold, Dir
  <2> QED  BY <2>1, <2>2 DEF PartialInv, LocksHold
<1>7. ASSUME NEW c \in Calls, Rename(c) PROVE PartialInv'
  <2>1. ASSUME NEW d \in Dirs, d \notin spoiled' PROVE Unspoiled(d)'
    <3>1. d \notin spoiled /\ Unspoiled(d)
      BY <1>7, <2>1 DEF Rename, PartialInv, LocksHold
    <3>2. BeingWritten(d)'
      BY <1>7, <2>1, <3>1 DEF Rename, Move, Answer, BeingWritten, NoneOrphaned, Dir
    <3>3. NoneOrphaned(d)'
      BY <1>7, <2>1, <3>1 DEF Rename, Move, Answer, NoneOrphaned, Dir
    <3>4. AnalystHolds(d)'
      BY <1>7, <2>1, <3>1 DEF Rename, Move, Answer, AnalystHolds, Dir
    <3>5. ReaderShares(d)'
      BY <1>7, <2>1, <3>1 DEF Rename, Move, Answer, ReaderShares, Locks, Dir
    <3>6. SharedAlone(d)'
      BY <1>7, <2>1, <3>1 DEF Rename, Move, Answer, SharedAlone, Dir
    <3> QED  BY <3>2, <3>3, <3>4, <3>5, <3>6
  <2>2. PartialExplained'
    BY <1>7 DEF Rename, Move, Answer, PartialInv, PartialExplained, LocksHold, Dir
  <2> QED  BY <2>1, <2>2 DEF PartialInv, LocksHold
<1>8. ASSUME NEW c \in Calls, ImportWrites(c) PROVE PartialInv'
  <2>1. ASSUME NEW d \in Dirs, d \notin spoiled' PROVE Unspoiled(d)'
    <3>1. d \notin spoiled /\ Unspoiled(d)
      BY <1>8, <2>1 DEF ImportWrites, PartialInv, LocksHold
    <3>2. BeingWritten(d)'
      BY <1>8, <2>1, <3>1 DEF ImportWrites, BeingWritten, NoneOrphaned, Dir
    <3>3. NoneOrphaned(d)'
      BY <1>8, <2>1, <3>1 DEF ImportWrites, NoneOrphaned, Dir
    <3>4. AnalystHolds(d)'
      BY <1>8, <2>1, <3>1 DEF ImportWrites, AnalystHolds, Dir
    <3>5. ReaderShares(d)'
      BY <1>8, <2>1, <3>1 DEF ImportWrites, ReaderShares, Locks, Dir
    <3>6. SharedAlone(d)'
      BY <1>8, <2>1, <3>1 DEF ImportWrites, SharedAlone, Dir
    <3> QED  BY <3>2, <3>3, <3>4, <3>5, <3>6
  <2>2. PartialExplained'
    BY <1>8 DEF ImportWrites, PartialInv, PartialExplained, LocksHold, Dir
  <2> QED  BY <2>1, <2>2 DEF PartialInv, LocksHold
<1>9. ASSUME NEW c \in Calls, ImportEnds(c) PROVE PartialInv'
  <2>1. ASSUME NEW d \in Dirs, d \notin spoiled' PROVE Unspoiled(d)'
    <3>1. d \notin spoiled /\ Unspoiled(d)
      BY <1>9, <2>1 DEF ImportEnds, PartialInv, LocksHold
    <3>2. BeingWritten(d)'
      BY <1>9, <2>1, <3>1 DEF ImportEnds, Move, BeingWritten, NoneOrphaned, Dir
    <3>3. NoneOrphaned(d)'
      BY <1>9, <2>1, <3>1 DEF ImportEnds, Move, NoneOrphaned, Dir
    <3>4. AnalystHolds(d)'
      BY <1>9, <2>1, <3>1 DEF ImportEnds, Move, AnalystHolds, Dir
    <3>5. ReaderShares(d)'
      BY <1>9, <2>1, <3>1 DEF ImportEnds, Move, ReaderShares, Locks, Dir
    <3>6. SharedAlone(d)'
      BY <1>9, <2>1, <3>1 DEF ImportEnds, Move, SharedAlone, Dir
    <3> QED  BY <3>2, <3>3, <3>4, <3>5, <3>6
  <2>2. PartialExplained'
    BY <1>9 DEF ImportEnds, Move, PartialInv, PartialExplained, LocksHold, Dir
  <2> QED  BY <2>1, <2>2 DEF PartialInv, LocksHold
<1>10. ASSUME NEW c \in Calls, ImportFails(c) PROVE PartialInv'
  <2>1. ASSUME NEW d \in Dirs, d \notin spoiled' PROVE Unspoiled(d)'
    <3>1. d \notin spoiled /\ Unspoiled(d)
      BY <1>10, <2>1 DEF ImportFails, PartialInv, LocksHold
    <3>2. BeingWritten(d)'
      BY <1>10, <2>1, <3>1 DEF ImportFails, Move, Answer, Unlock, BeingWritten, NoneOrphaned, Dir
    <3>3. NoneOrphaned(d)'
      BY <1>10, <2>1, <3>1 DEF ImportFails, Move, Answer, Unlock, NoneOrphaned, Dir
    <3>4. AnalystHolds(d)'
      BY <1>10, <2>1, <3>1 DEF ImportFails, Move, Answer, Unlock, AnalystHolds, Dir
    <3>5. ReaderShares(d)'
      BY <1>10, <2>1, <3>1 DEF ImportFails, Move, Answer, Unlock, ReaderShares, Locks, Dir
    <3>6. SharedAlone(d)'
      BY <1>10, <2>1, <3>1 DEF ImportFails, Move, Answer, Unlock, SharedAlone, Dir
    <3> QED  BY <3>2, <3>3, <3>4, <3>5, <3>6
  <2>2. PartialExplained'
    BY <1>10 DEF ImportFails, Move, Answer, Unlock, PartialInv, PartialExplained, LocksHold, Dir
  <2> QED  BY <2>1, <2>2 DEF PartialInv, LocksHold
<1>11. ASSUME NEW c \in Calls, RunScript(c) PROVE PartialInv'
  <2>1. ASSUME NEW d \in Dirs, d \notin spoiled' PROVE Unspoiled(d)'
    <3>1. d \notin spoiled /\ Unspoiled(d)
      BY <1>11, <2>1 DEF RunScript, PartialInv, LocksHold
    <3>2. BeingWritten(d)'
      BY <1>11, <2>1, <3>1 DEF RunScript, Move, Answer, Unlock, BeingWritten, NoneOrphaned, Dir
    <3>3. NoneOrphaned(d)'
      BY <1>11, <2>1, <3>1 DEF RunScript, Move, Answer, Unlock, NoneOrphaned, Dir
    <3>4. AnalystHolds(d)'
      BY <1>11, <2>1, <3>1 DEF RunScript, Move, Answer, Unlock, AnalystHolds, Dir
    <3>5. ReaderShares(d)'
      BY <1>11, <2>1, <3>1 DEF RunScript, Move, Answer, Unlock, ReaderShares, Locks, Dir
    <3>6. SharedAlone(d)'
      BY <1>11, <2>1, <3>1 DEF RunScript, Move, Answer, Unlock, SharedAlone, Dir
    <3> QED  BY <3>2, <3>3, <3>4, <3>5, <3>6
  <2>2. PartialExplained'
    <3>1. \A a \in Calls : a # c => result'[a] = result[a]
      BY <1>11 DEF RunScript, Answer
    <3>2. ASSUME result'[c] = "partial", Dir(c) \notin spoiled
          PROVE  c \in raced' /\ external /\ tool[c] = "decompile"
      <4>1. data[Dir(c)] = "partial" /\ pc[c] = "script"
        BY <1>11, <3>2 DEF RunScript, Answer
      <4>2. Dir(c) \in Dirs /\ Unspoiled(Dir(c))
        BY <3>2 DEF PartialInv, LocksHold, Dir
      <4>3. PICK i \in Calls : importer[i] /\ Dir(i) = Dir(c)
        BY <4>1, <4>2 DEF BeingWritten
      <4>4. pc[i] = "importing" /\ tool[i] = "analyze"
        BY <4>2, <4>3 DEF NoneOrphaned
      <4>5. holder[Dir(c)] = i
        BY <4>2, <4>3, <4>4 DEF AnalystHolds
      <4>6. tool[c] # "analyze"
        BY <4>1, <4>2, <4>4, <4>5 DEF AnalystHolds
      <4>7. ~Locks(c)
        BY <4>1, <4>2, <4>5, <4>6, GhidraConstants, ZenonT(30) DEF ReaderShares, SharedAlone
      <4> QED  BY <1>11, <4>3, <4>7 DEF Locks, RunScript
    <3>3. raced \subseteq raced'
      BY <1>11 DEF RunScript
    <3> QED  BY <1>11, <3>1, <3>2, <3>3 DEF RunScript, PartialInv, PartialExplained, Dir
  <2> QED  BY <2>1, <2>2 DEF PartialInv, LocksHold
<1>12. ASSUME NEW c \in Calls, KillExecutor(c) PROVE PartialInv'
  <2>1. ASSUME NEW d \in Dirs, d \notin spoiled' PROVE Unspoiled(d)'
    <3>1. d \notin spoiled /\ Unspoiled(d)
      BY <1>12, <2>1 DEF KillExecutor, PartialInv, LocksHold
    <3>2. BeingWritten(d)'
      BY <1>12, <2>1, <3>1 DEF KillExecutor, Move, Answer, Unlock, BeingWritten, NoneOrphaned, Dir
    <3>3. NoneOrphaned(d)'
      BY <1>12, <2>1, <3>1 DEF KillExecutor, Move, Answer, Unlock, NoneOrphaned, Dir
    <3>4. AnalystHolds(d)'
      BY <1>12, <2>1, <3>1 DEF KillExecutor, Move, Answer, Unlock, AnalystHolds, Dir
    <3>5. ReaderShares(d)'
      BY <1>12, <2>1, <3>1 DEF KillExecutor, Move, Answer, Unlock, ReaderShares, Locks, Dir
    <3>6. SharedAlone(d)'
      BY <1>12, <2>1, <3>1 DEF KillExecutor, Move, Answer, Unlock, SharedAlone, Dir
    <3> QED  BY <3>2, <3>3, <3>4, <3>5, <3>6
  <2>2. PartialExplained'
    BY <1>12 DEF KillExecutor, Move, Answer, Unlock, PartialInv, PartialExplained, LocksHold, Dir
  <2> QED  BY <2>1, <2>2 DEF PartialInv, LocksHold
<1>13. CASE UNCHANGED ghidraVars
  BY <1>13 DEF ghidraVars, PartialInv, LocksHold, BeingWritten, NoneOrphaned, AnalystHolds,
    ReaderShares, SharedAlone, PartialExplained, Locks, Dir, Dirs
<1> QED
  BY <1>1, <1>2, <1>3, <1>4, <1>5, <1>6, <1>7, <1>8, <1>9, <1>10, <1>11, <1>12,
    <1>13 DEF GhidraNext

(* Every step keeps what is cached of analyses that have succeeded. *)
LEMMA FoundStep ==
  ASSUME Basics, Basics', FoundInv, [GhidraNext]_ghidraVars PROVE FoundInv'
<1> USE DEF Basics, DirTypes, CallTypes, CallType, PlanTypes, Staged, FoundInv, files, locals
<1>1. ASSUME NEW p \in Projects, SetNda(p) PROVE FoundInv'
  <2>1. FullIsCached'
    BY <1>1 DEF SetNda, FullIsCached, Cached, Dir
  <2>2. MarkerFirst'
    BY <1>1 DEF SetNda, MarkerFirst, Dir
  <2>3. WorkerLocks'
    BY <1>1 DEF SetNda, WorkerLocks, Dir, Cached, FullIsCached
  <2>4. BeforeFull'
    BY <1>1 DEF SetNda, BeforeFull
  <2>5. AnalyzedIsFound'
    BY <1>1 DEF SetNda, AnalyzedIsFound, Dir
  <2> QED  BY <2>1, <2>2, <2>3, <2>4, <2>5
<1>2. ASSUME NEW c \in Calls, BeginCall(c) PROVE FoundInv'
  <2>1. FullIsCached'
    BY <1>2 DEF BeginCall, Move, CachePath, BelievedNda, Locks, FullIsCached, Cached, Dir
  <2>2. MarkerFirst'
    BY <1>2 DEF BeginCall, Move, CachePath, BelievedNda, Locks, MarkerFirst, Dir
  <2>3. WorkerLocks'
    BY <1>2, GhidraConstants DEF BeginCall, Move, CachePath, BelievedNda, Locks, WorkerLocks,
      Dir, Cached, FullIsCached
  <2>4. BeforeFull'
    BY <1>2 DEF BeginCall, Move, CachePath, BelievedNda, Locks, BeforeFull
  <2>5. AnalyzedIsFound'
    BY <1>2 DEF BeginCall, Move, AnalyzedIsFound, BeforeFull, Dir
  <2> QED  BY <2>1, <2>2, <2>3, <2>4, <2>5
<1>3. ASSUME NEW c \in Calls, Lock(c) PROVE FoundInv'
  <2>0. OnlyShares(c)
    BY <1>3, LockKeeps
  <2>1. FullIsCached'
    BY <1>3 DEF Lock, Move, FullIsCached, Cached, Dir
  <2>2. MarkerFirst'
    BY <1>3 DEF Lock, Move, MarkerFirst, Dir
  <2>3. WorkerLocks'
    BY <1>3, GhidraConstants DEF Lock, Move, WorkerLocks, Dir, Locks, Cached, FullIsCached
  <2>4. BeforeFull'
    BY <1>3, <2>0 DEF Lock, OnlyShares, BeforeFull
  <2>5. AnalyzedIsFound'
    BY <1>3 DEF Lock, Move, AnalyzedIsFound, Dir
  <2> QED  BY <2>1, <2>2, <2>3, <2>4, <2>5
<1>4. ASSUME NEW c \in Calls, LockFails(c) PROVE FoundInv'
  <2>1. FullIsCached'
    BY <1>4 DEF LockFails, Move, Answer, FullIsCached, Cached, Dir
  <2>2. MarkerFirst'
    BY <1>4 DEF LockFails, Move, Answer, MarkerFirst, Dir
  <2>3. WorkerLocks'
    BY <1>4, GhidraConstants DEF LockFails, Move, Answer, WorkerLocks, Dir, Locks, Cached,
      FullIsCached
  <2>4. BeforeFull'
    BY <1>4 DEF LockFails, Move, Answer, BeforeFull
  <2>5. AnalyzedIsFound'
    BY <1>4 DEF LockFails, Move, Answer, AnalyzedIsFound, Dir
  <2> QED  BY <2>1, <2>2, <2>3, <2>4, <2>5
<1>5. ASSUME NEW c \in Calls, CheckAnalysis(c) PROVE FoundInv'
  <2>1. FullIsCached'
    BY <1>5, GhidraConstants DEF CheckAnalysis, Move, FullIsCached, Cached, Dir, WorkerLocks,
      MarkerFirst
  <2>2. MarkerFirst'
    BY <1>5 DEF CheckAnalysis, Move, MarkerFirst, Dir
  <2>3. WorkerLocks'
    BY <1>5 DEF CheckAnalysis, Move, WorkerLocks, Dir, Cached, FullIsCached
  <2>4. BeforeFull'
    BY <1>5 DEF CheckAnalysis, Move, BeforeFull
  <2>5. AnalyzedIsFound'
    BY <1>5 DEF CheckAnalysis, Move, AnalyzedIsFound, Dir
  <2> QED  BY <2>1, <2>2, <2>3, <2>4, <2>5
<1>6. ASSUME NEW c \in Calls, CheckDecompile(c) PROVE FoundInv'
  <2>1. FullIsCached'
    BY <1>6 DEF CheckDecompile, Move, Answer, FullIsCached, Cached, Dir
  <2>2. MarkerFirst'
    BY <1>6 DEF CheckDecompile, Move, Answer, MarkerFirst, Dir
  <2>3. WorkerLocks'
    BY <1>6 DEF CheckDecompile, Move, Answer, WorkerLocks, Dir, Cached, FullIsCached
  <2>4. BeforeFull'
    BY <1>6 DEF CheckDecompile, Move, Answer, BeforeFull
  <2>5. AnalyzedIsFound'
    BY <1>6, GhidraConstants DEF CheckDecompile, Move, Answer, AnalyzedIsFound, Dir, InItsDir,
      CachePath, Cached, FullIsCached, BeforeFull
  <2> QED  BY <2>1, <2>2, <2>3, <2>4, <2>5
<1>7. ASSUME NEW c \in Calls, Rename(c) PROVE FoundInv'
  <2>1. FullIsCached'
    BY <1>7 DEF Rename, Move, Answer, FullIsCached, Cached, Dir
  <2>2. MarkerFirst'
    BY <1>7 DEF Rename, Move, Answer, MarkerFirst, Dir
  <2>3. WorkerLocks'
    BY <1>7 DEF Rename, Move, Answer, WorkerLocks, Dir, Cached, FullIsCached
  <2>4. BeforeFull'
    BY <1>7 DEF Rename, Move, Answer, BeforeFull
  <2>5. AnalyzedIsFound'
    BY <1>7, GhidraConstants DEF Rename, Move, Answer, AnalyzedIsFound, Dir, InItsDir, CachePath,
      Cached, FullIsCached, BeforeFull
  <2> QED  BY <2>1, <2>2, <2>3, <2>4, <2>5
<1>8. ASSUME NEW c \in Calls, ImportWrites(c) PROVE FoundInv'
  <2>1. FullIsCached'
    BY <1>8, GhidraConstants DEF ImportWrites, FullIsCached, Cached, Dir, WorkerLocks, MarkerFirst
  <2>2. MarkerFirst'
    BY <1>8 DEF ImportWrites, MarkerFirst, Dir
  <2>3. WorkerLocks'
    BY <1>8 DEF ImportWrites, WorkerLocks, Dir, Cached, FullIsCached
  <2>4. BeforeFull'
    BY <1>8 DEF ImportWrites, BeforeFull
  <2>5. AnalyzedIsFound'
    BY <1>8 DEF ImportWrites, AnalyzedIsFound, Dir
  <2> QED  BY <2>1, <2>2, <2>3, <2>4, <2>5
<1>9. ASSUME NEW c \in Calls, ImportEnds(c) PROVE FoundInv'
  <2>1. FullIsCached'
    BY <1>9 DEF ImportEnds, Move, FullIsCached, Cached, Dir
  <2>2. MarkerFirst'
    BY <1>9 DEF ImportEnds, Move, MarkerFirst, Dir
  <2>3. WorkerLocks'
    BY <1>9 DEF ImportEnds, Move, WorkerLocks, Dir, Cached, FullIsCached
  <2>4. BeforeFull'
    BY <1>9 DEF ImportEnds, Move, BeforeFull
  <2>5. AnalyzedIsFound'
    BY <1>9 DEF ImportEnds, Move, AnalyzedIsFound, Dir
  <2> QED  BY <2>1, <2>2, <2>3, <2>4, <2>5
<1>10. ASSUME NEW c \in Calls, ImportFails(c) PROVE FoundInv'
  <2>1. FullIsCached'
    BY <1>10, GhidraConstants DEF ImportFails, Move, Answer, Unlock, FullIsCached, Cached, Dir,
      WorkerLocks, MarkerFirst
  <2>2. MarkerFirst'
    BY <1>10 DEF ImportFails, Move, Answer, Unlock, MarkerFirst, Dir
  <2>3. WorkerLocks'
    BY <1>10, GhidraConstants DEF ImportFails, Move, Answer, Unlock, WorkerLocks, Dir, Locks,
      Cached, FullIsCached
  <2>4. BeforeFull'
    BY <1>10 DEF ImportFails, Move, Answer, Unlock, BeforeFull
  <2>5. AnalyzedIsFound'
    BY <1>10 DEF ImportFails, Move, Answer, Unlock, AnalyzedIsFound, Dir
  <2> QED  BY <2>1, <2>2, <2>3, <2>4, <2>5
<1>11. ASSUME NEW c \in Calls, RunScript(c) PROVE FoundInv'
  <2>1. FullIsCached'
    BY <1>11 DEF RunScript, Move, Answer, FullIsCached, MarkerFirst, Cached, Dir
  <2>2. MarkerFirst'
    BY <1>11 DEF RunScript, Move, Answer, Unlock, MarkerFirst, Dir
  <2>3. WorkerLocks'
    BY <1>11, GhidraConstants DEF RunScript, Move, Answer, Unlock, WorkerLocks, Dir, Locks,
      Cached, FullIsCached
  <2>4. BeforeFull'
    BY <1>11 DEF RunScript, Move, Answer, Unlock, BeforeFull
  <2>5. AnalyzedIsFound'
    BY <1>11, GhidraConstants DEF RunScript, Move, Answer, Unlock, AnalyzedIsFound, Dir,
      InItsDir, CachePath, Cached, FullIsCached, BeforeFull
  <2> QED  BY <2>1, <2>2, <2>3, <2>4, <2>5
<1>12. ASSUME NEW c \in Calls, KillExecutor(c) PROVE FoundInv'
  <2>1. FullIsCached'
    BY <1>12 DEF KillExecutor, Move, Answer, Unlock, FullIsCached, Cached, Dir
  <2>2. MarkerFirst'
    BY <1>12 DEF KillExecutor, Move, Answer, Unlock, MarkerFirst, Dir
  <2>3. WorkerLocks'
    BY <1>12, GhidraConstants DEF KillExecutor, Move, Answer, Unlock, WorkerLocks, Dir, Locks,
      Cached, FullIsCached
  <2>4. BeforeFull'
    BY <1>12 DEF KillExecutor, Move, Answer, Unlock, BeforeFull
  <2>5. AnalyzedIsFound'
    BY <1>12 DEF KillExecutor, Move, Answer, Unlock, AnalyzedIsFound, Dir
  <2> QED  BY <2>1, <2>2, <2>3, <2>4, <2>5
<1>13. CASE UNCHANGED ghidraVars
  BY <1>13 DEF ghidraVars, FullIsCached, MarkerFirst, WorkerLocks, BeforeFull, AnalyzedIsFound,
    Cached, Dir
<1> QED
  BY <1>1, <1>2, <1>3, <1>4, <1>5, <1>6, <1>7, <1>8, <1>9, <1>10, <1>11, <1>12,
    <1>13 DEF GhidraNext

(* An analysis or decompilation succeeds on a binary only partly analyzed    *)
(* only where an import failed, an executor died or the lock was not had, or *)
(* beside an import when it is re_executor's decompiler.                     *)
THEOREM PartialIsExplained == GhidraSpec => []PartialExplained
<1>1. GhidraInit => Basics /\ PartialInv
  <2>1. GhidraInit => PartialInv
    BY DEF GhidraInit, PartialInv, LocksHold, Unspoiled, BeingWritten, NoneOrphaned,
      AnalystHolds, ReaderShares,
      SharedAlone, PartialExplained, NoCall
  <2> QED  BY <2>1, BasicsInit
<1>2. Basics /\ PartialInv /\ [GhidraNext]_ghidraVars => (Basics /\ PartialInv)'
  BY BasicsStep, PartialStep
<1>3. PartialInv => PartialExplained
  BY DEF PartialInv
<1> QED  BY <1>1, <1>2, <1>3, PTL DEF GhidraSpec

(* After an analysis in full, no call of that project that begins later is   *)
(* told to analyze first, unless what the two knew of the NDA flag differs.  *)
THEOREM AnalysesAreFound == GhidraSpec => []AnalyzedIsFound
<1>1. GhidraInit => Basics /\ FoundInv
  <2>1. GhidraInit => FoundInv
    BY DEF GhidraInit, FoundInv, FullIsCached, MarkerFirst, WorkerLocks, BeforeFull,
      AnalyzedIsFound
  <2> QED  BY <2>1, BasicsInit
<1>2. Basics /\ FoundInv /\ [GhidraNext]_ghidraVars => (Basics /\ FoundInv)'
  BY BasicsStep, FoundStep
<1>3. FoundInv => AnalyzedIsFound
  BY DEF FoundInv
<1> QED  BY <1>1, <1>2, <1>3, PTL DEF GhidraSpec

-----------------------------------------------------------------------------
(* OopExecutor: whose work an execution's result is. *)

(* The types that the argument needs. *)
OwnTypes ==
  /\ at \in [Executions -> {"idle", "ready", "writing", "waiting", "collecting", "fetching",
                            "parsing", "ingesting", "settling", "sweeping", "done", "dead"}]
  /\ program \in [Executions -> {"none", "setup", "running", "ok", "failed"}]
  /\ orphan \in [Executions -> BOOLEAN]
  /\ response \in [1..Response -> 0..MaxExecutions] /\ file \in 0..MaxExecutions
  /\ replied \in [Executions -> SUBSET Executions] /\ taken \in [Executions -> SUBSET Executions]
  /\ written \in [Executions -> Nat]

(* An execution begins only when every earlier one is superseded; a worker   *)
(* dies in the sight of the lease.                                           *)
OneByOne ==
  /\ \A d, e \in Executions : d < e /\ at[e] # "idle" => Superseded(d)
  /\ \A e \in Executions : at[e] = "dead" => e \in astray
  /\ \A e \in Executions : e \in astray => at[e] # "idle"

(* A program runs while its worker waits for it, or after it has died; what  *)
(* it leaves behind outside of a sandbox is remembered.                      *)
ProgramsAttended ==
  /\ \A e \in Executions :
       /\ program[e] \in {"setup", "running"} => at[e] \in {"writing", "waiting", "dead"}
       /\ program[e] = "setup" => at[e] # "writing"
  /\ \A e \in Executions : orphan[e] /\ Sandbox = "direct" => e \in forked

(* Whose work may lie in the scratch directory: that of an execution that is *)
(* not yet swept, or has gone astray.                                        *)
Unswept(d) == at[d] \notin {"idle", "done"} \/ d \in astray

InDirectory ==
  /\ \A i \in 1..Response : response[i] # NoExecution => Unswept(response[i])
  /\ file # NoExecution => Unswept(file) \/ file \in forked

(* Only oaie's responses are fetched from there. *)
FetchedFiles ==
  \A e \in Executions : at[e] = "fetching" => ~Piped

OwnInv == OwnTypes /\ OneByOne /\ ProgramsAttended /\ InDirectory /\ FetchedFiles /\ OwnWork
LEMMA OwnBegins == OopInit => OwnInv
  BY OopConstants DEF OopInit, OwnInv, OwnTypes, OneByOne, ProgramsAttended, InDirectory, FetchedFiles,
     OwnWork, Missing, NoExecution, Superseded, Executions

(* A step moves one execution only, which stays done or dead if it is, and   *)
(* what is remembered is not forgotten.                                      *)
OnlyMoves(e) ==
  /\ host' = host /\ lost \subseteq lost' /\ astray \subseteq astray' /\ forked \subseteq forked'
  /\ \A d \in Executions \ {e} :
       /\ at'[d] = at[d] /\ program'[d] = program[d] /\ orphan'[d] = orphan[d]
       /\ replied'[d] = replied[d] /\ taken'[d] = taken[d]
  /\ at[e] \in {"done", "dead"} => at'[e] = at[e]
  /\ at'[e] = "done" => at[e] = "done" \/ Sweep(e)
  /\ at'[e] = "dead" => at[e] = "dead" \/ e \in astray'
  /\ astray' \subseteq astray \cup {e}
  /\ e \in astray' \ astray => at'[e] # "idle"
  /\ at'[e] = "idle" => at[e] = "idle"
  /\ at[e] = "idle" => at'[e] = "idle" \/ Begin(e)

LEMMA StepMoves ==
  ASSUME OwnTypes, NEW e \in Executions,
         \/ Begin(e) \/ ExecutorStep(e) \/ ProgramStep(e)
         \/ HeartbeatLost(e) \/ WorkerDies(e) \/ WorkerStalls(e)
  PROVE  OnlyMoves(e)
<1> USE DEF OwnTypes, OnlyMoves, executor, child, directory, rest, Goto, Error
<1>1. CASE Begin(e)
  BY <1>1 DEF Begin
<1>2. CASE Spawn(e)
  BY <1>2 DEF Spawn
<1>3. CASE SpawnFails(e)
  BY <1>3 DEF SpawnFails
<1>4. CASE WriteStdin(e)
  BY <1>4 DEF WriteStdin
<1>5. CASE BrokenPipe(e)
  BY <1>5 DEF BrokenPipe
<1>6. CASE CloseStdin(e)
  BY <1>6 DEF CloseStdin
<1>7. CASE ReadStdout(e)
  BY <1>7 DEF ReadStdout
<1>8. CASE ProgramExited(e)
  BY <1>8 DEF ProgramExited
<1>9. CASE TimesOut(e)
  BY <1>9 DEF TimesOut, KillProgram, ClosePipes
<1>10. CASE Collect(e)
  BY <1>10 DEF Collect
<1>11. CASE Fetch(e)
  BY <1>11 DEF Fetch
<1>12. CASE ParseFails(e)
  BY <1>12 DEF ParseFails
<1>13. CASE Parse(e)
  BY <1>13 DEF Parse
<1>14. CASE Ingest(e)
  BY <1>14 DEF Ingest
<1>15. CASE Settle(e)
  BY <1>15 DEF Settle
<1>16. CASE Sweep(e)
  BY <1>16 DEF Sweep, Forget, Reap, ClosePipes
<1>17. CASE OaieStarts(e)
  BY <1>17 DEF OaieStarts
<1>18. CASE ReadsStdin(e)
  BY <1>18 DEF ReadsStdin
<1>19. CASE Writes(e)
  BY <1>19 DEF Writes
<1>20. CASE Produces(e)
  BY <1>20 DEF Produces
<1>21. CASE Forks(e)
  BY <1>21 DEF Forks
<1>22. CASE Exits(e)
  BY <1>22 DEF Exits
<1>23. CASE OrphanExits(e)
  BY <1>23 DEF OrphanExits
<1>24. CASE HeartbeatLost(e)
  BY <1>24 DEF HeartbeatLost, KillProgram, ClosePipes
<1>25. CASE WorkerDies(e)
  BY <1>25 DEF WorkerDies, Forget, Reap, ClosePipes, KillProgram
<1>26. CASE WorkerStalls(e)
  BY <1>26 DEF WorkerStalls
<1> QED
  BY <1>1, <1>2, <1>3, <1>4, <1>5, <1>6, <1>7, <1>8, <1>9, <1>10, <1>11,
     <1>12, <1>13, <1>14, <1>15, <1>16, <1>17, <1>18, <1>19, <1>20, <1>21,
     <1>22, <1>23, <1>24, <1>25, <1>26 DEF ExecutorStep, ProgramStep

LEMMA OwnTypesStep ==
  ASSUME OwnTypes, NEW e \in Executions,
         \/ Begin(e) \/ ExecutorStep(e) \/ ProgramStep(e)
         \/ HeartbeatLost(e) \/ WorkerDies(e) \/ WorkerStalls(e)
  PROVE  OwnTypes'
<1> USE OopConstants
    DEF OwnTypes, executor, child, directory, rest, Goto, Error, Executions, NoExecution, Missing
<1>1. CASE Begin(e)
  BY <1>1 DEF Begin
<1>2. CASE Spawn(e)
  BY <1>2 DEF Spawn
<1>3. CASE SpawnFails(e)
  BY <1>3 DEF SpawnFails
<1>4. CASE WriteStdin(e)
  BY <1>4 DEF WriteStdin
<1>5. CASE BrokenPipe(e)
  BY <1>5 DEF BrokenPipe
<1>6. CASE CloseStdin(e)
  BY <1>6 DEF CloseStdin
<1>7. CASE ReadStdout(e)
  BY <1>7 DEF ReadStdout
<1>8. CASE ProgramExited(e)
  BY <1>8 DEF ProgramExited
<1>9. CASE TimesOut(e)
  BY <1>9 DEF TimesOut, KillProgram, ClosePipes
<1>10. CASE Collect(e)
  BY <1>10 DEF Collect
<1>11. CASE Fetch(e)
  <2>1. {response[i] : i \in 1..Response} \ {NoExecution} \in SUBSET Executions
    OBVIOUS
  <2>2. replied' \in [Executions -> SUBSET Executions]
    BY <1>11, <2>1, Zenon DEF Fetch
  <2> QED
    BY <1>11, <2>2 DEF Fetch
<1>12. CASE ParseFails(e)
  BY <1>12 DEF ParseFails
<1>13. CASE Parse(e)
  BY <1>13 DEF Parse
<1>14. CASE Ingest(e)
  <2>1. file # NoExecution => {file} \in SUBSET Executions
    OBVIOUS
  <2>2. taken' \in [Executions -> SUBSET Executions]
    BY <1>14, <2>1, Zenon DEF Ingest
  <2> QED
    BY <1>14, <2>2 DEF Ingest
<1>15. CASE Settle(e)
  BY <1>15 DEF Settle
<1>16. CASE Sweep(e)
  BY <1>16 DEF Sweep, Forget, Reap, ClosePipes
<1>17. CASE OaieStarts(e)
  BY <1>17 DEF OaieStarts
<1>18. CASE ReadsStdin(e)
  BY <1>18 DEF ReadsStdin
<1>19. CASE Writes(e)
  <2>1. e \in 0..MaxExecutions
    OBVIOUS
  <2>2. response' \in [1..Response -> 0..MaxExecutions]
    BY <1>19, <2>1 DEF Writes
  <2>3. written' \in [Executions -> Nat]
    BY <1>19 DEF Writes
  <2> QED
    BY <1>19, <2>2, <2>3 DEF Writes
<1>20. CASE Produces(e)
  BY <1>20 DEF Produces
<1>21. CASE Forks(e)
  BY <1>21 DEF Forks
<1>22. CASE Exits(e)
  BY <1>22 DEF Exits
<1>23. CASE OrphanExits(e)
  BY <1>23 DEF OrphanExits
<1>24. CASE HeartbeatLost(e)
  BY <1>24 DEF HeartbeatLost, KillProgram, ClosePipes
<1>25. CASE WorkerDies(e)
  BY <1>25 DEF WorkerDies, Forget, Reap, ClosePipes, KillProgram
<1>26. CASE WorkerStalls(e)
  BY <1>26 DEF WorkerStalls
<1> QED
  BY <1>1, <1>2, <1>3, <1>4, <1>5, <1>6, <1>7, <1>8, <1>9, <1>10, <1>11,
     <1>12, <1>13, <1>14, <1>15, <1>16, <1>17, <1>18, <1>19, <1>20, <1>21,
     <1>22, <1>23, <1>24, <1>25, <1>26 DEF ExecutorStep, ProgramStep

(* An execution that is superseded stays so: none before one that has begun  *)
(* can hold up its claim again.                                              *)
LEMMA OneByOneStep ==
  ASSUME OwnInv, NEW e \in Executions,
         \/ Begin(e) \/ ExecutorStep(e) \/ ProgramStep(e)
         \/ HeartbeatLost(e) \/ WorkerDies(e) \/ WorkerStalls(e)
  PROVE  OneByOne'
<1>1. OnlyMoves(e) /\ OwnTypes
  BY StepMoves DEF OwnInv
<1>2. ASSUME NEW d \in Executions, Superseded(d) PROVE Superseded(d)'
  BY <1>1, <1>2 DEF OnlyMoves, Superseded
<1>3. ASSUME NEW d \in Executions, NEW f \in Executions, d < f, at'[f] # "idle"
      PROVE  Superseded(d)
  <2>1. CASE at[f] # "idle"
    BY <1>3, <2>1 DEF OwnInv, OneByOne
  <2>2. CASE at[f] = "idle"
    <3>1. f = e /\ Begin(e)
      BY <1>1, <1>3, <2>2 DEF OnlyMoves
    <3>2. f - 1 \in Executions /\ Superseded(f - 1) /\ (d = f - 1 \/ d < f - 1)
      BY <1>3, <3>1, OopConstants DEF Begin, Executions
    <3>3. at[f - 1] # "idle"
      BY <3>2 DEF Superseded, OwnInv, OneByOne
    <3> QED
      BY <3>2, <3>3 DEF OwnInv, OneByOne
  <2> QED
    BY <2>1, <2>2
<1>4. \A d \in Executions : at'[d] = "dead" => d \in astray'
  BY <1>1 DEF OnlyMoves, OwnInv, OneByOne
<1>5. \A d \in Executions : d \in astray' => at'[d] # "idle"
  BY <1>1 DEF OwnInv, OneByOne, OnlyMoves
<1> QED
  BY <1>2, <1>3, <1>4, <1>5 DEF OneByOne

(* Of the program of an execution: it stops before its worker goes on.       *)
LEMMA AttendedStep ==
  ASSUME OwnInv, NEW e \in Executions,
         \/ Begin(e) \/ ExecutorStep(e) \/ ProgramStep(e)
         \/ HeartbeatLost(e) \/ WorkerDies(e) \/ WorkerStalls(e)
  PROVE  ProgramsAttended' /\ FetchedFiles'
<1>1. OnlyMoves(e) /\ OwnTypes
  BY StepMoves DEF OwnInv
<1>2. Sandbox' = Sandbox /\ Piped' = Piped
  BY <1>1 DEF OnlyMoves, Sandbox, Piped
<1>3. \A d \in Executions \ {e} :
        /\ program'[d] \in {"setup", "running"} => at'[d] \in {"writing", "waiting", "dead"}
        /\ program'[d] = "setup" => at'[d] # "writing"
        /\ orphan'[d] /\ Sandbox' = "direct" => d \in forked'
        /\ at'[d] = "fetching" => ~Piped'
  BY <1>1, <1>2 DEF OnlyMoves, OwnInv, ProgramsAttended, FetchedFiles
<1>4. /\ program'[e] \in {"setup", "running"} => at'[e] \in {"writing", "waiting", "dead"}
      /\ program'[e] = "setup" => at'[e] # "writing"
      /\ orphan'[e] /\ Sandbox = "direct" => e \in forked'
      /\ at'[e] = "fetching" => ~Piped
  <2> USE DEF OwnInv, OwnTypes, ProgramsAttended, FetchedFiles, executor, child, directory, rest, Goto, Error
<2>1. CASE Begin(e)
  BY <2>1 DEF Begin
<2>2. CASE Spawn(e)
  BY <2>2 DEF Spawn
<2>3. CASE SpawnFails(e)
  BY <2>3 DEF SpawnFails
<2>4. CASE WriteStdin(e)
  BY <2>4 DEF WriteStdin
<2>5. CASE BrokenPipe(e)
  BY <2>5 DEF BrokenPipe, Hears
<2>6. CASE CloseStdin(e)
  BY <2>6 DEF CloseStdin
<2>7. CASE ReadStdout(e)
  BY <2>7 DEF ReadStdout
<2>8. CASE ProgramExited(e)
  BY <2>8 DEF ProgramExited
<2>9. CASE TimesOut(e)
  BY <2>9 DEF TimesOut, KillProgram, ClosePipes
<2>10. CASE Collect(e)
  BY <2>10 DEF Collect
<2>11. CASE Fetch(e)
  BY <2>11 DEF Fetch
<2>12. CASE ParseFails(e)
  BY <2>12 DEF ParseFails
<2>13. CASE Parse(e)
  BY <2>13 DEF Parse
<2>14. CASE Ingest(e)
  BY <2>14 DEF Ingest
<2>15. CASE Settle(e)
  BY <2>15 DEF Settle
<2>16. CASE Sweep(e)
  BY <2>16 DEF Sweep, Forget, Reap, ClosePipes
<2>17. CASE OaieStarts(e)
  BY <2>17 DEF OaieStarts
<2>18. CASE ReadsStdin(e)
  BY <2>18 DEF ReadsStdin
<2>19. CASE Writes(e)
  BY <2>19 DEF Writes
<2>20. CASE Produces(e)
  BY <2>20 DEF Produces
<2>21. CASE Forks(e)
  BY <2>21 DEF Forks
<2>22. CASE Exits(e)
  BY <2>22 DEF Exits
<2>23. CASE OrphanExits(e)
  BY <2>23 DEF OrphanExits
<2>24. CASE HeartbeatLost(e)
  BY <2>24 DEF HeartbeatLost, KillProgram, ClosePipes
<2>25. CASE WorkerDies(e)
  BY <2>25 DEF WorkerDies, Forget, Reap, ClosePipes, KillProgram
<2>26. CASE WorkerStalls(e)
  BY <2>26 DEF WorkerStalls
<2> QED
  BY <2>1, <2>2, <2>3, <2>4, <2>5, <2>6, <2>7, <2>8, <2>9, <2>10, <2>11,
     <2>12, <2>13, <2>14, <2>15, <2>16, <2>17, <2>18, <2>19, <2>20, <2>21,
     <2>22, <2>23, <2>24, <2>25, <2>26 DEF ExecutorStep, ProgramStep
<1> QED
  BY <1>2, <1>3, <1>4 DEF ProgramsAttended, FetchedFiles

(* Nothing lies in the directory but what executions have put there that are *)
(* not swept or have gone astray: the sweep of an execution empties it.      *)
LEMMA InDirectoryStep ==
  ASSUME OwnInv, NEW e \in Executions,
         \/ Begin(e) \/ ExecutorStep(e) \/ ProgramStep(e)
         \/ HeartbeatLost(e) \/ WorkerDies(e) \/ WorkerStalls(e)
  PROVE  InDirectory'
<1>1. OnlyMoves(e) /\ OwnTypes
  BY StepMoves DEF OwnInv
<1>2. CASE Sweep(e)
  BY <1>2 DEF Sweep, InDirectory, Missing
<1>3. CASE ~Sweep(e)
  <2>1. ASSUME NEW d \in Executions, Unswept(d) PROVE Unswept(d)'
    BY <1>1, <1>3, <2>1 DEF OnlyMoves, Unswept
  <2>2. forked \subseteq forked'
    BY <1>1 DEF OnlyMoves
  <2>3. CASE response' = response /\ file' = file
    BY <1>1, <2>1, <2>2, <2>3 DEF OwnTypes, OwnInv, InDirectory, Executions, NoExecution
  <2>4. CASE Writes(e)
    <3>1. Unswept(e)'
      BY <1>1, <2>4 DEF Writes, OwnInv, ProgramsAttended, Unswept, OneByOne, executor, rest
    <3>2. \A i \in 1..Response : response'[i] \in {response[i], e}
      BY <1>1, <2>4 DEF Writes, OwnTypes
    <3>3. ASSUME NEW i \in 1..Response, response'[i] # NoExecution PROVE Unswept(response[i])'
      <4>1. CASE response'[i] = e
        BY <3>1, <4>1 DEF Unswept
      <4>2. CASE response'[i] = response[i]
        <5>1. response[i] \in Executions /\ Unswept(response[i])
          BY <1>1, <3>3, <4>2, OopConstants
          DEF OwnTypes, OwnInv, InDirectory, NoExecution, Executions
        <5> QED
          BY <2>1, <4>2, <5>1 DEF Unswept
      <4> QED
        BY <3>2, <4>1, <4>2
    <3>4. file' # NoExecution => Unswept(file)' \/ file' \in forked'
      <4>1. file' = file
        BY <2>4 DEF Writes
      <4> QED
        BY <1>1, <2>1, <2>2, <4>1 DEF OwnTypes, OwnInv, InDirectory, Executions, NoExecution
    <3> QED
      BY <3>3, <3>4 DEF InDirectory
  <2>5. CASE Produces(e)
    <3>1. Unswept(e)' \/ e \in forked'
      BY <1>1, <2>5 DEF Produces, OwnInv, ProgramsAttended, Unswept, OneByOne, executor, rest
    <3>2. response' = response /\ file' = e
      BY <2>5 DEF Produces
    <3> QED
      BY <1>1, <2>1, <2>2, <3>1, <3>2 DEF OwnTypes, OwnInv, InDirectory, Executions, NoExecution
  <2>6. CASE Fetch(e) \/ OaieStarts(e)
    <3>1. response' = Missing /\ file' = file
      BY <2>6 DEF Fetch, OaieStarts
    <3> QED
      BY <1>1, <2>1, <2>2, <3>1 DEF OwnTypes, OwnInv, InDirectory, Executions, NoExecution, Missing
  <2> QED
    <3>1. \/ Sweep(e) \/ Writes(e) \/ Produces(e) \/ Fetch(e) \/ OaieStarts(e)
          \/ response' = response /\ file' = file
      BY DEF ExecutorStep, ProgramStep, Begin, Spawn, SpawnFails, WriteStdin, BrokenPipe,
         CloseStdin, ReadStdout, ProgramExited, TimesOut, Collect, ParseFails, Parse, Ingest,
         Settle, ReadsStdin, Forks, Exits, OrphanExits, HeartbeatLost, WorkerDies,
         WorkerStalls, directory
    <3> QED
      BY <1>3, <2>3, <2>4, <2>5, <2>6, <3>1
<1> QED
  BY <1>2, <1>3

(* What an execution finds there is its own, or somebody has gone astray:    *)
(* an earlier one is superseded, so it is swept, and a later one has begun   *)
(* only because this one is.                                                 *)
LEMMA FoundIsOwn ==
  ASSUME OwnInv, NEW e \in Executions, at[e] \in {"fetching", "ingesting"},
         NEW d \in Executions, Unswept(d)
  PROVE  d = e \/ {d, e} \cap astray # {}
<1>1. CASE d < e
  <2>1. Superseded(d)
    BY <1>1 DEF OwnInv, OneByOne
  <2> QED
    BY <2>1 DEF Superseded, Unswept, OwnInv, OneByOne
<1>2. CASE e < d
  <2>1. at[d] # "idle"
    BY DEF Unswept, OwnInv, OneByOne
  <2>2. Superseded(e)
    BY <1>2, <2>1 DEF OwnInv, OneByOne
  <2> QED
    BY <2>2 DEF Superseded
<1> QED
  BY <1>1, <1>2, OopConstants DEF Executions

LEMMA OwnWorkStep ==
  ASSUME OwnInv, NEW e \in Executions,
         \/ Begin(e) \/ ExecutorStep(e) \/ ProgramStep(e)
         \/ HeartbeatLost(e) \/ WorkerDies(e) \/ WorkerStalls(e)
  PROVE  OwnWork'
<1>1. OnlyMoves(e) /\ OwnTypes
  BY StepMoves DEF OwnInv
<1>2. Piped' = Piped /\ astray \subseteq astray' /\ forked \subseteq forked'
  BY <1>1 DEF OnlyMoves, Sandbox, Piped
<1>3. ASSUME NEW f \in Executions \ {e}
      PROVE  /\ \A d \in replied'[f] : d = f \/ (~Piped' /\ {d, f} \cap astray' # {})
             /\ \A d \in taken'[f] : d = f \/ {d, f} \cap astray' # {} \/ d \in forked'
  BY <1>1, <1>2 DEF OnlyMoves, OwnInv, OwnWork
<1>4. \A d \in replied'[e] : d = e \/ (~Piped /\ {d, e} \cap astray # {})
  <2>1. CASE Fetch(e) /\ replied' # replied
    <3>1. /\ at[e] = "fetching"
          /\ replied'[e] = {response[i] : i \in 1..Response} \ {NoExecution}
      BY <1>1, <2>1 DEF Fetch, OwnTypes
    <3>2. ASSUME NEW i \in 1..Response, response[i] # NoExecution
          PROVE  response[i] = e \/ (~Piped /\ {response[i], e} \cap astray # {})
      <4>1. response[i] \in Executions /\ Unswept(response[i])
        BY <1>1, <3>2, OopConstants DEF OwnTypes, OwnInv, InDirectory, NoExecution, Executions
      <4>2. ~Piped
        BY <3>1 DEF OwnInv, FetchedFiles
      <4> QED
        BY <3>1, <4>1, <4>2, FoundIsOwn
    <3> QED
      BY <3>1, <3>2
  <2>2. CASE Parse(e)
    BY <1>1, <2>2 DEF Parse, OwnTypes, OwnInv, OwnWork
  <2>3. CASE replied'[e] \in {replied[e], {}}
    BY <2>3 DEF OwnInv, OwnWork
  <2>4. \/ Fetch(e) \/ Parse(e) \/ replied'[e] \in {replied[e], {}}
    BY <1>1 DEF ExecutorStep, ProgramStep, Begin, Spawn, SpawnFails, WriteStdin, BrokenPipe,
       CloseStdin, ReadStdout, ProgramExited, TimesOut, Collect, ParseFails, Ingest,
       Settle, Sweep, OaieStarts, ReadsStdin, Writes, Produces, Forks, Exits, OrphanExits,
       HeartbeatLost, WorkerDies, WorkerStalls, executor, Forget, OwnTypes
  <2> QED
    BY <2>1, <2>2, <2>3, <2>4
<1>5. \A d \in taken'[e] : d = e \/ {d, e} \cap astray # {} \/ d \in forked
  <2>1. CASE Ingest(e) /\ taken' # taken
    <3>1. at[e] = "ingesting" /\ file # NoExecution /\ taken'[e] = {file}
      BY <1>1, <2>1 DEF Ingest, OwnTypes
    <3>2. file \in Executions /\ (Unswept(file) \/ file \in forked)
      BY <1>1, <3>1, OopConstants DEF OwnTypes, OwnInv, InDirectory, NoExecution, Executions
    <3> QED
      BY <3>1, <3>2, FoundIsOwn
  <2>2. CASE taken'[e] \in {taken[e], {}}
    BY <2>2 DEF OwnInv, OwnWork
  <2>3. \/ Ingest(e) \/ taken'[e] \in {taken[e], {}}
    BY <1>1 DEF ExecutorStep, ProgramStep, Begin, Spawn, SpawnFails, WriteStdin, BrokenPipe,
       CloseStdin, ReadStdout, ProgramExited, TimesOut, Collect, Fetch, ParseFails, Parse,
       Settle, Sweep, OaieStarts, ReadsStdin, Writes, Produces, Forks, Exits, OrphanExits,
       HeartbeatLost, WorkerDies, WorkerStalls, executor, Forget, OwnTypes
  <2> QED
    BY <2>1, <2>2, <2>3
<1> QED
  BY <1>2, <1>3, <1>4, <1>5 DEF OwnWork

(* What an execution answers, and the files it takes in, are its own         *)
(* program's work, except as OwnWork says: for every number of executions,   *)
(* every host, and any number of workers that die or stall and of results    *)
(* that are lost.                                                            *)
THEOREM ResultsAreOwn == OopSpec => []OwnWork
<1>1. OwnInv /\ [OopNext]_oopVars => OwnInv'
  <2>1. ASSUME OwnInv, UNCHANGED oopVars PROVE OwnInv'
    BY <2>1 DEF oopVars, executor, child, directory, rest, OwnInv, OwnTypes, OneByOne, ProgramsAttended,
       InDirectory, FetchedFiles, OwnWork, Superseded, Unswept, Sandbox, Piped
  <2>2. ASSUME OwnInv, NEW e \in Executions,
               \/ Begin(e) \/ ExecutorStep(e) \/ ProgramStep(e)
               \/ HeartbeatLost(e) \/ WorkerDies(e) \/ WorkerStalls(e)
        PROVE  OwnInv'
    <3>1. OwnTypes'
      BY <2>2, OwnTypesStep DEF OwnInv
    <3> QED
      BY <2>2, <3>1, OneByOneStep, AttendedStep, InDirectoryStep, OwnWorkStep DEF OwnInv
  <2>3. ASSUME OwnInv, TickSweeps PROVE OwnInv'
    <3>1. /\ UNCHANGED <<host, at, program, orphan, written, replied, taken, lost, astray, forked>>
          /\ dir' = FALSE /\ response' = Missing /\ file' = NoExecution
      BY <2>3 DEF TickSweeps, executor, child, rest
    <3>2. OwnTypes'
      BY <2>3, <3>1, OopConstants DEF OwnInv, OwnTypes, Missing, NoExecution
    <3>3. InDirectory'
      BY <3>1 DEF InDirectory, Missing
    <3>4. OneByOne' /\ ProgramsAttended' /\ FetchedFiles' /\ OwnWork'
      BY <2>3, <3>1 DEF OwnInv, OneByOne, ProgramsAttended, FetchedFiles, OwnWork,
         Superseded, Sandbox, Piped
    <3> QED
      BY <3>2, <3>3, <3>4 DEF OwnInv
  <2> QED
    BY <2>1, <2>2, <2>3 DEF OopNext
<1>2. OwnInv => OwnWork
  BY DEF OwnInv
<1> QED
  BY OwnBegins, <1>1, <1>2, PTL DEF OopSpec
=============================================================================
