--------------------------- MODULE RunLifecycle ---------------------------
(***************************************************************************)
(* What the job queue promises about one tool run, seen from outside: a    *)
(* submitted run is started in order of creation, may be retried while     *)
(* attempts are left, and gets exactly one outcome, which never changes.   *)
(* Nothing is said of workers, leases, heartbeats or processes: JobQueue   *)
(* is shown to implement this specification.                               *)
(***************************************************************************)
EXTENDS Naturals

CONSTANTS Runs,         \* tool_runs rows, numbered in order of created_at
          MaxAttempts   \* reaper.rs MAX_ATTEMPTS

VARIABLES status,       \* the column tool_runs.status
          attempt       \* the column tool_runs.attempt

vars == <<status, attempt>>

Outcomes == {"completed", "failed"}
Statuses == {"none", "queued", "running"} \cup Outcomes

Init == /\ status  = [r \in Runs |-> "none"]
        /\ attempt = [r \in Runs |-> 0]

(* A run is submitted once. *)
Submit(r) == /\ status[r] = "none"
             /\ status' = [status EXCEPT ![r] = "queued"]
             /\ UNCHANGED attempt

(* The oldest queued run is started, and the attempt is counted. *)
Start(r) == /\ status[r] = "queued"
            /\ \A q \in Runs : status[q] = "queued" => r <= q
            /\ status'  = [status EXCEPT ![r] = "running"]
            /\ attempt' = [attempt EXCEPT ![r] = @ + 1]

(* Runs whose attempt was lost and that have attempts left are queued again. *)
Retry(S) == /\ \A r \in S : status[r] = "running" /\ attempt[r] < MaxAttempts
            /\ status' = [r \in Runs |-> IF r \in S THEN "queued" ELSE status[r]]
            /\ UNCHANGED attempt

(* Running runs get their outcome: one by its own worker, or several at     *)
(* once when their attempts are used up.                                    *)
Finish(S, outcome) ==
  /\ \A r \in S : status[r] = "running"
  /\ status' = [r \in Runs |-> IF r \in S THEN outcome ELSE status[r]]
  /\ UNCHANGED attempt

Next == \/ \E r \in Runs : Submit(r) \/ Start(r)
        \/ \E S \in SUBSET Runs : Retry(S) \/ \E o \in Outcomes : Finish(S, o)

Spec == Init /\ [][Next]_vars
===========================================================================
