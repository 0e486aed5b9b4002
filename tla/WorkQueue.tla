---------------------------- MODULE WorkQueue ----------------------------
(***************************************************************************)
(* The protocol the queue tables of af-db share: url_ingest_queue,         *)
(* embed_queue and notification_queue.  A row is claimed by a conditional  *)
(* UPDATE, carries no owner and no lease; a row that has been 'processing' *)
(* for two minutes is set back by whichever tick looks next, whether or    *)
(* not the process that claimed it is still at work.                       *)
(*                                                                         *)
(* The modules that model the processors of these tables extend this one.  *)
(***************************************************************************)
EXTENDS Integers, FiniteSets

CONSTANTS
  Rows,         \* row ids, in the order of created_at
  MaxAttempts   \* max_attempts of every row (5 in the migrations)

ASSUME QueueConstants == Rows \subseteq Nat /\ MaxAttempts \in Nat \ {0}

VARIABLES
  status,     \* "absent": not enqueued yet
  attempts,   \* attempt_count
  stale,      \* 'processing' rows whose updated_at is two minutes old
  claims      \* successful claims since the row was enqueued or retried (history)

queue == <<status, attempts, stale, claims>>

Active == {"pending", "processing"}
Final  == {"completed", "failed", "cancelled"}

QueueTypeOK ==
  /\ status \in [Rows -> Active \cup Final \cup {"absent"}]
  /\ attempts \in [Rows -> 0..MaxAttempts]
  /\ stale \in SUBSET Rows
  /\ claims \in [Rows -> Nat]

QueueInit ==
  /\ status = [r \in Rows |-> "absent"]
  /\ attempts = [r \in Rows |-> 0]
  /\ stale = {}
  /\ claims = [r \in Rows |-> 0]

-----------------------------------------------------------------------------
Enqueue(r) ==
  /\ status[r] = "absent"
  /\ status' = [status EXCEPT ![r] = "pending"]
  /\ UNCHANGED <<attempts, stale, claims>>

(* list_pending: the oldest pending rows of a table, at most limit of them. *)
Oldest(S, limit) == {r \in S : Cardinality({q \in S : q < r}) < limit}
Pending(table, limit) == Oldest({r \in table : status[r] = "pending"}, limit)

Claim(r) ==
  /\ status[r] = "pending"
  /\ status' = [status EXCEPT ![r] = "processing"]
  /\ claims' = [claims EXCEPT ![r] = @ + 1]
  /\ UNCHANGED <<attempts, stale>>

(* The attempt is used up: back to pending, or failed for good. *)
SetBack(S) ==
  /\ attempts' = [r \in Rows |-> IF r \in S THEN attempts[r] + 1 ELSE attempts[r]]
  /\ status' = [r \in Rows |->
                  IF r \notin S THEN status[r]
                  ELSE IF attempts[r] + 1 >= MaxAttempts THEN "failed" ELSE "pending"]
  /\ stale' = stale \ S
  /\ UNCHANGED claims

(* complete, fail: nothing happens to a row that is not 'processing', but    *)
(* whoever claimed it last.                                                  *)
Complete(r) ==
  /\ status' = [status EXCEPT ![r] = IF @ = "processing" THEN "completed" ELSE @]
  /\ stale' = stale \ {r}
  /\ UNCHANGED <<attempts, claims>>

Fail(r) == SetBack({q \in {r} : status[q] = "processing"})

(* fail_permanent: no attempt is left. *)
FailPermanent(r) ==
  /\ status' = [status EXCEPT ![r] = IF @ = "processing" THEN "failed" ELSE @]
  /\ attempts' = [attempts EXCEPT ![r] = IF status[r] = "processing" THEN MaxAttempts ELSE @]
  /\ stale' = stale \ {r}
  /\ UNCHANGED claims

Cancel(r) ==
  /\ status[r] = "pending"
  /\ status' = [status EXCEPT ![r] = "cancelled"]
  /\ UNCHANGED <<attempts, stale, claims>>

Retry(r) ==
  /\ status[r] = "failed"
  /\ status' = [status EXCEPT ![r] = "pending"]
  /\ attempts' = [attempts EXCEPT ![r] = 0]
  /\ claims' = [claims EXCEPT ![r] = 0]
  /\ UNCHANGED stale

(* ON DELETE CASCADE: the rows go. *)
DeleteRows ==
  /\ status' = [r \in Rows |-> "absent"]
  /\ attempts' = [r \in Rows |-> 0]
  /\ stale' = {}
  /\ claims' = [r \in Rows |-> 0]

(* Mutants of RecoverStale: the attempt of the lost claim is not counted;    *)
(* a row of the last attempt is left alone.                                  *)
RecoverUncounted(table) ==
  /\ status' = [r \in Rows |-> IF r \in table \cap stale THEN "pending" ELSE status[r]]
  /\ stale' = stale \ table
  /\ UNCHANGED <<attempts, claims>>

RecoverNotLast(table) ==
  SetBack({r \in table \cap stale : attempts[r] + 1 < MaxAttempts})

RecoverStale(table) == SetBack(table \cap stale)

(* update_progress refreshes updated_at, whatever the status. *)
Refresh(r) ==
  /\ stale' = stale \ {r}
  /\ UNCHANGED <<status, attempts, claims>>

(* Two minutes pass after the last write to a row. *)
BecomesStale(r) ==
  /\ status[r] = "processing" /\ r \notin stale
  /\ stale' = stale \cup {r}
  /\ UNCHANGED <<status, attempts, claims>>

-----------------------------------------------------------------------------
(* A row is taken up at most max_attempts times between two retries by an    *)
(* administrator, although a row that was set back may still be worked on,   *)
(* failed or completed by the process it was taken from.                     *)
ClaimsBounded == \A r \in Rows : claims[r] <= MaxAttempts

(* A completed or cancelled row stays so, and a failed one is only ever      *)
(* revived by an administrator's retry, which gives it its attempts back.    *)
FinalKept ==
  \A r \in Rows :
    /\ status[r] \in {"completed", "cancelled"} => status'[r] = status[r]
    /\ status[r] = "failed" /\ status'[r] # "failed" =>
         status'[r] = "pending" /\ attempts'[r] = 0

FinalStays == [][FinalKept]_queue
=============================================================================
