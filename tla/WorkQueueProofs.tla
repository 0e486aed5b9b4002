------------------------- MODULE WorkQueueProofs -------------------------
(***************************************************************************)
(* What the operations of the queue tables preserve, for any rows and any  *)
(* number of attempts.  The proofs about their processors cite these.      *)
(***************************************************************************)
EXTENDS WorkQueue, TLAPS

(* A claim costs an attempt: while it is held, or has ended in success, it   *)
(* is the one claim not counted yet.  Only rows with attempts left can be    *)
(* claimed, and only rows under work are stale.                              *)
ClaimsCounted ==
  \A r \in Rows :
    /\ claims[r] <= attempts[r] + (IF status[r] \in {"processing", "completed"} THEN 1 ELSE 0)
    /\ status[r] \in Active \cup {"absent", "completed"} => attempts[r] < MaxAttempts
    /\ r \in stale => status[r] = "processing"

QueueInv == QueueTypeOK /\ ClaimsCounted

(* Every operation of a queue table. *)
QueueStep ==
  \/ \E r \in Rows :
       \/ Enqueue(r) \/ Claim(r) \/ Complete(r) \/ Fail(r) \/ FailPermanent(r)
       \/ Cancel(r) \/ Retry(r) \/ Refresh(r) \/ BecomesStale(r)
  \/ \E table \in SUBSET Rows : RecoverStale(table)
  \/ UNCHANGED queue

(* A queue without rows satisfies the invariant. *)
LEMMA QueueInitOK == QueueInit => QueueInv
  BY QueueConstants DEF QueueInit, QueueInv, QueueTypeOK, ClaimsCounted, Active, Final

(* An attempt that is used up leaves the counters in order. *)
LEMMA SetBackOK ==
  ASSUME QueueInv, NEW S \in SUBSET Rows, SetBack(S),
         \A r \in S : status[r] = "processing"
  PROVE  QueueInv'
<1> USE QueueConstants DEF QueueInv, QueueTypeOK, ClaimsCounted, Active, Final, SetBack
<1>1. ASSUME NEW r \in Rows
      PROVE  /\ attempts'[r] \in 0..MaxAttempts
             /\ status'[r] \in Active \cup Final \cup {"absent"}
  BY <1>1
<1>2. QueueTypeOK'
  BY <1>1
<1>3. ClaimsCounted'
  OBVIOUS
<1> QED
  BY <1>2, <1>3

(* No operation of the table breaks the count of claims and attempts. *)
LEMMA QueueStepOK ==
  ASSUME QueueInv, QueueStep
  PROVE  QueueInv'
<1> USE QueueConstants
<1>1. ASSUME NEW r \in Rows, Enqueue(r) PROVE QueueInv'
  BY <1>1 DEF QueueInv, QueueTypeOK, ClaimsCounted, Active, Final, Enqueue
<1>2. ASSUME NEW r \in Rows, Claim(r) PROVE QueueInv'
  BY <1>2 DEF QueueInv, QueueTypeOK, ClaimsCounted, Active, Final, Claim
<1>3. ASSUME NEW r \in Rows, Complete(r) PROVE QueueInv'
  BY <1>3 DEF QueueInv, QueueTypeOK, ClaimsCounted, Active, Final, Complete
<1>4. ASSUME NEW r \in Rows, Fail(r) PROVE QueueInv'
  BY <1>4, SetBackOK DEF Fail
<1>5. ASSUME NEW r \in Rows, FailPermanent(r) PROVE QueueInv'
  BY <1>5 DEF QueueInv, QueueTypeOK, ClaimsCounted, Active, Final, FailPermanent
<1>6. ASSUME NEW r \in Rows, Cancel(r) PROVE QueueInv'
  BY <1>6 DEF QueueInv, QueueTypeOK, ClaimsCounted, Active, Final, Cancel
<1>7. ASSUME NEW r \in Rows, Retry(r) PROVE QueueInv'
  BY <1>7 DEF QueueInv, QueueTypeOK, ClaimsCounted, Active, Final, Retry
<1>8. ASSUME NEW r \in Rows, Refresh(r) \/ BecomesStale(r) PROVE QueueInv'
  BY <1>8 DEF QueueInv, QueueTypeOK, ClaimsCounted, Active, Final, Refresh, BecomesStale
<1>9. ASSUME NEW table \in SUBSET Rows, RecoverStale(table) PROVE QueueInv'
  BY <1>9, SetBackOK DEF RecoverStale, QueueInv, ClaimsCounted, QueueTypeOK
<1>10. CASE UNCHANGED queue
  BY <1>10 DEF QueueInv, QueueTypeOK, ClaimsCounted, Active, Final, queue
<1> QED
  BY <1>1, <1>2, <1>3, <1>4, <1>5, <1>6, <1>7, <1>8, <1>9, <1>10 DEF QueueStep

(* The count bounds the claims. *)
LEMMA CountedIsBounded == QueueInv => ClaimsBounded
  BY QueueConstants DEF QueueInv, QueueTypeOK, ClaimsCounted, ClaimsBounded, Active, Final

(* No operation revives a row, but retry a failed one.  Set-back rows are    *)
(* 'processing', so a row that ended is never among them.                    *)
LEMMA QueueStepFinal ==
  ASSUME QueueInv, QueueStep
  PROVE  FinalKept
<1>1. ASSUME NEW r \in Rows,
             Enqueue(r) \/ Claim(r) \/ Cancel(r) \/ Retry(r) \/ Refresh(r) \/ BecomesStale(r)
      PROVE  FinalKept
  BY <1>1 DEF FinalKept, QueueInv, QueueTypeOK, Enqueue, Claim, Cancel, Retry,
     Refresh, BecomesStale
<1>2. ASSUME NEW r \in Rows, Complete(r) \/ FailPermanent(r) PROVE FinalKept
  BY <1>2 DEF FinalKept, QueueInv, QueueTypeOK, Complete, FailPermanent
<1>3. ASSUME NEW r \in Rows, Fail(r) PROVE FinalKept
  BY <1>3 DEF FinalKept, Fail, SetBack
<1>4. ASSUME NEW table \in SUBSET Rows, RecoverStale(table) PROVE FinalKept
  BY <1>4 DEF FinalKept, RecoverStale, SetBack, QueueInv, ClaimsCounted
<1>5. CASE UNCHANGED queue
  BY <1>5 DEF FinalKept, queue
<1> QED
  BY <1>1, <1>2, <1>3, <1>4, <1>5 DEF QueueStep
=============================================================================
