----------------------- MODULE IngestQueuesProofs -----------------------
(***************************************************************************)
(* Proofs about IngestQueues, for any ticks, rows, batches, attempts and   *)
(* bounds: a row is claimed at most MaxAttempts times between retries, the *)
(* recorded progress is backed by stored vectors, and a completed URL has  *)
(* handed its chunks on.                                                   *)
(***************************************************************************)
EXTENDS IngestQueues, WorkQueueProofs

(* What a tick holds at each step. *)
Placed ==
  \A t \in Ticks :
    /\ pc[t] \in {"fetch", "enqueue", "complete"} => item[t] \in UrlRows
    /\ pc[t] \in {"enqueue", "complete"} => doc[t] \in Docs
    /\ pc[t] \in {"start", "batch", "progress", "embedded"} => item[t] \in Docs
    /\ pc[t] \in {"batch", "progress"} => next[t] \in 1..Batches

(* The batches before the one a tick embeds next are stored, and so are those *)
(* its listing says are: vectors are never deleted, so a listing that is out  *)
(* of date only understates them.                                             *)
ResumableAt(t) ==
  /\ \A d \in Docs : 1..snapshot[t][d] \subseteq stored[d]
  /\ pc[t] \in {"batch", "progress"} => 1..(next[t] - 1) \subseteq stored[item[t]]
  /\ pc[t] = "progress" => next[t] \in stored[item[t]]
  /\ pc[t] = "embedded" => stored[item[t]] = 1..Batches

Resumable == \A t \in Ticks : ResumableAt(t)

(* The chunks artifact of a URL about to be completed was handed on. *)
HandedOn ==
  \A t \in Ticks :
    pc[t] = "complete" => doc[t] \in dropped \/ status[doc[t]] # "absent"

Typed == TypeOK /\ Placed
IInv  == Typed /\ ClaimsCounted /\ Resumable /\ EmbeddingsBacked /\ HandedOn /\ ResultQueued

(* The initial state satisfies the invariant. *)
LEMMA InitOK == Init => IInv
<1> SUFFICES ASSUME Init PROVE IInv
  OBVIOUS
<1> USE QueueConstants, IngestConstants
<1>1. QueueTypeOK /\ ClaimsCounted
  BY QueueInitOK DEF Init, QueueInv
<1>2. Typed
  BY <1>1 DEF Init, Typed, TypeOK, Placed
<1>3. Resumable /\ EmbeddingsBacked
  BY DEF Init, QueueInit, Resumable, ResumableAt, EmbeddingsBacked
<1>4. HandedOn /\ ResultQueued
  BY DEF Init, QueueInit, HandedOn, ResultQueued
<1> QED
  BY <1>1, <1>2, <1>3, <1>4 DEF IInv

(* The tables change only by the operations of WorkQueue. *)
LEMMA QueueOnly ==
  ASSUME Typed, [Next]_vars
  PROVE  QueueStep
<1> USE QueueConstants, IngestConstants
<1>1. ASSUME NEW t \in Ticks, RecoverUrls(t) PROVE QueueStep
  BY <1>1 DEF RecoverUrls, Goto, QueueStep, Typed, TypeOK, Placed, queue,
     documents, ticks, bounds
<1>2. ASSUME NEW t \in Ticks, ListUrls(t) PROVE QueueStep
  BY <1>2 DEF ListUrls, Goto, Pending, Oldest, QueueStep, Typed, TypeOK, Placed,
     queue, documents, ticks, bounds
<1>3. ASSUME NEW t \in Ticks, NEW r \in UrlRows, ClaimUrl(t, r) PROVE QueueStep
  BY <1>3 DEF ClaimUrl, Goto, Drop, QueueStep, Typed, TypeOK, Placed, queue,
     documents, ticks, bounds
<1>4. ASSUME NEW t \in Ticks, NEW r \in Rows, SkipRow(t, r) PROVE QueueStep
  BY <1>4 DEF SkipRow, Drop, QueueStep, Typed, TypeOK, Placed, queue, documents,
     ticks, bounds
<1>5. ASSUME NEW t \in Ticks, NEW d \in Docs, CreateArtifacts(t, d) PROVE QueueStep
  BY <1>5 DEF CreateArtifacts, Goto, Fresh, QueueStep, Typed, TypeOK, Placed,
     queue, documents, ticks, bounds
<1>6. ASSUME NEW t \in Ticks, UrlFails(t) PROVE QueueStep
  BY <1>6 DEF UrlFails, Release, Fault, Goto, QueueStep, Typed, TypeOK, Placed,
     queue, documents, ticks, bounds
<1>7. ASSUME NEW t \in Ticks, EnqueueEmbedding(t) PROVE QueueStep
  BY <1>7 DEF EnqueueEmbedding, Goto, QueueStep, Typed, TypeOK, Placed, queue,
     documents, ticks, bounds
<1>8. ASSUME NEW t \in Ticks, EnqueueErrs(t) PROVE QueueStep
  BY <1>8 DEF EnqueueErrs, Goto, Fault, QueueStep, Typed, TypeOK, Placed, queue,
     documents, ticks, bounds
<1>9. ASSUME NEW t \in Ticks, CompleteUrl(t) PROVE QueueStep
  BY <1>9 DEF CompleteUrl, Release, Goto, QueueStep, Typed, TypeOK, Placed, queue,
     documents, ticks, bounds
<1>10. ASSUME NEW t \in Ticks, RecoverEmbeds(t) PROVE QueueStep
  BY <1>10 DEF RecoverEmbeds, Goto, QueueStep, Typed, TypeOK, Placed, queue,
     documents, ticks, bounds
<1>11. ASSUME NEW t \in Ticks, ListEmbeds(t) PROVE QueueStep
  BY <1>11 DEF ListEmbeds, Goto, Pending, Oldest, QueueStep, Typed, TypeOK, Placed,
     queue, documents, ticks, bounds
<1>12. ASSUME NEW t \in Ticks, NEW d \in Docs, ClaimEmbed(t, d) PROVE QueueStep
  BY <1>12 DEF ClaimEmbed, Goto, Drop, QueueStep, Typed, TypeOK, Placed, queue,
     documents, ticks, bounds
<1>13. ASSUME NEW t \in Ticks, StartEmbedding(t) PROVE QueueStep
  BY <1>13 DEF StartEmbedding, Goto, QueueStep, Typed, TypeOK, Placed, queue,
     documents, ticks, bounds
<1>14. ASSUME NEW t \in Ticks, EmbedBatch(t) PROVE QueueStep
  BY <1>14 DEF EmbedBatch, Goto, QueueStep, Typed, TypeOK, Placed, queue,
     documents, ticks, bounds
<1>15. ASSUME NEW t \in Ticks, WriteProgress(t) PROVE QueueStep
  BY <1>15 DEF WriteProgress, Goto, QueueStep, Typed, TypeOK, Placed, queue,
     documents, ticks, bounds
<1>16. ASSUME NEW t \in Ticks, CompleteEmbed(t) PROVE QueueStep
  BY <1>16 DEF CompleteEmbed, Release, Goto, QueueStep, Typed, TypeOK, Placed,
     queue, documents, ticks, bounds
<1>17. ASSUME NEW t \in Ticks, EmbedFails(t) PROVE QueueStep
  BY <1>17 DEF EmbedFails, Release, Fault, Goto, QueueStep, Typed, TypeOK, Placed,
     queue, documents, ticks, bounds
<1>18. ASSUME NEW t \in Ticks, EndTick(t) PROVE QueueStep
  BY <1>18 DEF EndTick, QueueStep, Typed, TypeOK, Placed, queue, documents, ticks,
     bounds
<1>19. ASSUME NEW t \in Ticks, UrlPhaseErrs(t) PROVE QueueStep
  BY <1>19 DEF UrlPhaseErrs, Fault, QueueStep, Typed, TypeOK, Placed, queue,
     documents, ticks, bounds
<1>20. ASSUME NEW t \in Ticks, TickDies(t) PROVE QueueStep
  BY <1>20 DEF TickDies, Fault, QueueStep, Typed, TypeOK, Placed, queue, documents,
     ticks, bounds
<1>21. ASSUME NEW r \in UrlRows, NEW u \in Urls, SubmitUrl(r, u) PROVE QueueStep
  BY <1>21 DEF SubmitUrl, QueueStep, Typed, TypeOK, Placed, queue, documents,
     ticks, bounds
<1>22. ASSUME NEW d \in Docs, EnqueueFromTool(d) PROVE QueueStep
  BY <1>22 DEF EnqueueFromTool, Fresh, QueueStep, Typed, TypeOK, Placed, queue,
     documents, ticks, bounds
<1>23. ASSUME NEW r \in Rows, RetryRow(r) PROVE QueueStep
  BY <1>23 DEF RetryRow, QueueStep, Typed, TypeOK, Placed, queue, documents, ticks,
     bounds
<1>24. ASSUME NEW r \in Rows, CancelRow(r) PROVE QueueStep
  BY <1>24 DEF CancelRow, QueueStep, Typed, TypeOK, Placed, queue, documents,
     ticks, bounds
<1>25. ASSUME NEW r \in Rows, OrphanStale(r) PROVE QueueStep
  BY <1>25 DEF OrphanStale, QueueStep, Typed, TypeOK, Placed, queue, documents,
     ticks, bounds
<1>26. ASSUME NEW r \in Rows, HeldStale(r) PROVE QueueStep
  BY <1>26 DEF HeldStale, Fault, QueueStep, Typed, TypeOK, Placed, queue,
     documents, ticks, bounds
<1>27. CASE UNCHANGED vars
  BY <1>27 DEF vars, QueueStep
<1> QED
  BY <1>1, <1>2, <1>3, <1>4, <1>5, <1>6, <1>7, <1>8, <1>9, <1>10, <1>11, <1>12,
     <1>13, <1>14, <1>15, <1>16, <1>17, <1>18, <1>19, <1>20, <1>21, <1>22, <1>23,
     <1>24, <1>25, <1>26,
     <1>27 DEF Next, TickStep

(* Every step keeps the types, and what a tick holds. *)
LEMMA TypeStep ==
  ASSUME Typed, QueueTypeOK', [Next]_vars
  PROVE  Typed'
<1> USE QueueConstants, IngestConstants
<1>1. ASSUME NEW t \in Ticks, RecoverUrls(t) PROVE Typed'
  BY <1>1 DEF RecoverUrls, Goto, Typed, TypeOK, Placed, UrlSteps, EmbedSteps,
     queue, documents, ticks, bounds
<1>2. ASSUME NEW t \in Ticks, ListUrls(t) PROVE Typed'
  BY <1>2 DEF ListUrls, Goto, Pending, Oldest, Typed, TypeOK, Placed, UrlSteps,
     EmbedSteps, queue, documents, ticks, bounds
<1>3. ASSUME NEW t \in Ticks, NEW r \in UrlRows, ClaimUrl(t, r) PROVE Typed'
  BY <1>3 DEF ClaimUrl, Goto, Drop, Typed, TypeOK, Placed, UrlSteps, EmbedSteps,
     queue, documents, ticks, bounds
<1>4. ASSUME NEW t \in Ticks, NEW r \in Rows, SkipRow(t, r) PROVE Typed'
  BY <1>4 DEF SkipRow, Drop, Typed, TypeOK, Placed, UrlSteps, EmbedSteps, queue,
     documents, ticks, bounds
<1>5. ASSUME NEW t \in Ticks, NEW d \in Docs, CreateArtifacts(t, d) PROVE Typed'
  BY <1>5 DEF CreateArtifacts, Goto, Fresh, Typed, TypeOK, Placed, UrlSteps,
     EmbedSteps, queue, documents, ticks, bounds
<1>6. ASSUME NEW t \in Ticks, UrlFails(t) PROVE Typed'
  BY <1>6 DEF UrlFails, Release, Fault, Goto, Typed, TypeOK, Placed, UrlSteps,
     EmbedSteps, queue, documents, ticks, bounds
<1>7. ASSUME NEW t \in Ticks, EnqueueEmbedding(t) PROVE Typed'
  BY <1>7 DEF EnqueueEmbedding, Goto, Typed, TypeOK, Placed, UrlSteps, EmbedSteps,
     queue, documents, ticks, bounds
<1>8. ASSUME NEW t \in Ticks, EnqueueErrs(t) PROVE Typed'
  BY <1>8 DEF EnqueueErrs, Goto, Fault, Typed, TypeOK, Placed, UrlSteps,
     EmbedSteps, queue, documents, ticks, bounds
<1>9. ASSUME NEW t \in Ticks, CompleteUrl(t) PROVE Typed'
  BY <1>9 DEF CompleteUrl, Release, Goto, Typed, TypeOK, Placed, UrlSteps,
     EmbedSteps, queue, documents, ticks, bounds
<1>10. ASSUME NEW t \in Ticks, RecoverEmbeds(t) PROVE Typed'
  BY <1>10 DEF RecoverEmbeds, Goto, Typed, TypeOK, Placed, UrlSteps, EmbedSteps,
     queue, documents, ticks, bounds
<1>11. ASSUME NEW t \in Ticks, ListEmbeds(t) PROVE Typed'
  BY <1>11 DEF ListEmbeds, Goto, Pending, Oldest, Typed, TypeOK, Placed, UrlSteps,
     EmbedSteps, queue, documents, ticks, bounds
<1>12. ASSUME NEW t \in Ticks, NEW d \in Docs, ClaimEmbed(t, d) PROVE Typed'
  BY <1>12 DEF ClaimEmbed, Goto, Drop, Typed, TypeOK, Placed, UrlSteps, EmbedSteps,
     queue, documents, ticks, bounds
<1>13. ASSUME NEW t \in Ticks, StartEmbedding(t) PROVE Typed'
  BY <1>13 DEF StartEmbedding, Goto, Typed, TypeOK, Placed, UrlSteps, EmbedSteps,
     queue, documents, ticks, bounds
<1>14. ASSUME NEW t \in Ticks, EmbedBatch(t) PROVE Typed'
  BY <1>14 DEF EmbedBatch, Goto, Typed, TypeOK, Placed, UrlSteps, EmbedSteps,
     queue, documents, ticks, bounds
<1>15. ASSUME NEW t \in Ticks, WriteProgress(t) PROVE Typed'
  BY <1>15 DEF WriteProgress, Goto, Typed, TypeOK, Placed, UrlSteps, EmbedSteps,
     queue, documents, ticks, bounds
<1>16. ASSUME NEW t \in Ticks, CompleteEmbed(t) PROVE Typed'
  BY <1>16 DEF CompleteEmbed, Release, Goto, Typed, TypeOK, Placed, UrlSteps,
     EmbedSteps, queue, documents, ticks, bounds
<1>17. ASSUME NEW t \in Ticks, EmbedFails(t) PROVE Typed'
  BY <1>17 DEF EmbedFails, Release, Fault, Goto, Typed, TypeOK, Placed, UrlSteps,
     EmbedSteps, queue, documents, ticks, bounds
<1>18. ASSUME NEW t \in Ticks, EndTick(t) PROVE Typed'
  BY <1>18 DEF EndTick, Typed, TypeOK, Placed, UrlSteps, EmbedSteps, queue,
     documents, ticks, bounds
<1>19. ASSUME NEW t \in Ticks, UrlPhaseErrs(t) PROVE Typed'
  BY <1>19 DEF UrlPhaseErrs, Fault, Typed, TypeOK, Placed, UrlSteps, EmbedSteps,
     queue, documents, ticks, bounds
<1>20. ASSUME NEW t \in Ticks, TickDies(t) PROVE Typed'
  BY <1>20 DEF TickDies, Fault, Typed, TypeOK, Placed, UrlSteps, EmbedSteps, queue,
     documents, ticks, bounds
<1>21. ASSUME NEW r \in UrlRows, NEW u \in Urls, SubmitUrl(r, u) PROVE Typed'
  BY <1>21 DEF SubmitUrl, Typed, TypeOK, Placed, UrlSteps, EmbedSteps, queue,
     documents, ticks, bounds
<1>22. ASSUME NEW d \in Docs, EnqueueFromTool(d) PROVE Typed'
  BY <1>22 DEF EnqueueFromTool, Fresh, Typed, TypeOK, Placed, UrlSteps, EmbedSteps,
     queue, documents, ticks, bounds
<1>23. ASSUME NEW r \in Rows, RetryRow(r) PROVE Typed'
  BY <1>23 DEF RetryRow, Typed, TypeOK, Placed, UrlSteps, EmbedSteps, queue,
     documents, ticks, bounds
<1>24. ASSUME NEW r \in Rows, CancelRow(r) PROVE Typed'
  BY <1>24 DEF CancelRow, Typed, TypeOK, Placed, UrlSteps, EmbedSteps, queue,
     documents, ticks, bounds
<1>25. ASSUME NEW r \in Rows, OrphanStale(r) PROVE Typed'
  BY <1>25 DEF OrphanStale, Typed, TypeOK, Placed, UrlSteps, EmbedSteps, queue,
     documents, ticks, bounds
<1>26. ASSUME NEW r \in Rows, HeldStale(r) PROVE Typed'
  BY <1>26 DEF HeldStale, Fault, Typed, TypeOK, Placed, UrlSteps, EmbedSteps,
     queue, documents, ticks, bounds
<1>27. CASE UNCHANGED vars
  BY <1>27 DEF vars, documents, ticks, bounds, Typed, TypeOK, Placed
<1> QED
  BY <1>1, <1>2, <1>3, <1>4, <1>5, <1>6, <1>7, <1>8, <1>9, <1>10, <1>11, <1>12,
     <1>13, <1>14, <1>15, <1>16, <1>17, <1>18, <1>19, <1>20, <1>21, <1>22, <1>23,
     <1>24, <1>25, <1>26,
     <1>27 DEF Next, TickStep

(* Every step keeps progress backed by stored vectors. *)
LEMMA ResumeStep ==
  ASSUME Typed, Typed', Resumable, EmbeddingsBacked, [Next]_vars
  PROVE  Resumable' /\ EmbeddingsBacked'
<1> USE QueueConstants, IngestConstants
<1>1. ASSUME NEW t \in Ticks, RecoverUrls(t) PROVE Resumable' /\ EmbeddingsBacked'
  BY <1>1 DEF RecoverUrls, Goto, RecoverStale, SetBack, Typed, TypeOK, Placed,
     Resumable, ResumableAt, EmbeddingsBacked, queue, documents, ticks, bounds,
     QueueTypeOK
<1>2. ASSUME NEW t \in Ticks, ListUrls(t) PROVE Resumable' /\ EmbeddingsBacked'
  BY <1>2 DEF ListUrls, Goto, Pending, Oldest, Typed, TypeOK, Placed, Resumable,
     ResumableAt, EmbeddingsBacked, queue, documents, ticks, bounds, QueueTypeOK
<1>3. ASSUME NEW t \in Ticks, NEW r \in UrlRows, ClaimUrl(t, r) PROVE Resumable' /\ EmbeddingsBacked'
  BY <1>3 DEF ClaimUrl, Goto, Drop, Claim, Typed, TypeOK, Placed, Resumable,
     ResumableAt, EmbeddingsBacked, queue, documents, ticks, bounds, QueueTypeOK
<1>4. ASSUME NEW t \in Ticks, NEW r \in Rows, SkipRow(t, r) PROVE Resumable' /\ EmbeddingsBacked'
  BY <1>4 DEF SkipRow, Drop, Typed, TypeOK, Placed, Resumable, ResumableAt,
     EmbeddingsBacked, queue, documents, ticks, bounds, QueueTypeOK
<1>5. ASSUME NEW t \in Ticks, NEW d \in Docs, CreateArtifacts(t, d) PROVE Resumable' /\ EmbeddingsBacked'
  BY <1>5, SMTT(30) DEF CreateArtifacts, Goto, Fresh, Typed, TypeOK, Placed, Resumable,
     ResumableAt, EmbeddingsBacked, queue, documents, ticks, bounds, QueueTypeOK
<1>6. ASSUME NEW t \in Ticks, UrlFails(t) PROVE Resumable' /\ EmbeddingsBacked'
  <2>1. \A d \in Docs : status'[d] = "completed" => status[d] = "completed"
    BY <1>6 DEF UrlFails, Release, Fault, Goto, Typed, TypeOK, Placed, Resumable,
       ResumableAt, EmbeddingsBacked, queue, documents, ticks, bounds, QueueTypeOK,
       Fail, SetBack
  <2>2. Resumable'
    <3>1. ASSUME NEW q \in Ticks, q # t PROVE ResumableAt(q)'
      <4>1. /\ pc'[q] = pc[q] /\ next'[q] = next[q]
            /\ item'[q] = item[q] /\ snapshot'[q] = snapshot[q]
        BY <1>6, <3>1 DEF UrlFails, Release, Fault, Goto, Typed, TypeOK, ticks
      <4>2. \A d \in Docs : stored[d] \subseteq stored'[d] /\ stored'[d] \subseteq 1..Batches
        BY <1>6 DEF UrlFails, Release, Fault, Goto, Typed, TypeOK, documents
      <4>3. ResumableAt(q) /\ (pc[q] \in {"batch", "progress", "embedded"} => item[q] \in Docs)
        BY DEF Resumable, Typed, Placed
      <4> QED
        BY <4>1, <4>2, <4>3 DEF ResumableAt
    <3>2. ResumableAt(t)'
      BY <1>6 DEF UrlFails, Release, Fault, Goto, Typed, TypeOK, Placed, Resumable,
         ResumableAt, EmbeddingsBacked, queue, documents, ticks, bounds, QueueTypeOK
    <3> QED
      BY <3>1, <3>2 DEF Resumable
  <2>3. EmbeddingsBacked'
    BY <1>6, <2>1 DEF UrlFails, Release, Fault, Goto, Typed, TypeOK, Placed,
       Resumable, ResumableAt, EmbeddingsBacked, queue, documents, ticks, bounds,
       QueueTypeOK
  <2> QED
    BY <2>2, <2>3
<1>7. ASSUME NEW t \in Ticks, EnqueueEmbedding(t) PROVE Resumable' /\ EmbeddingsBacked'
  <2>1. \A d \in Docs : status'[d] = "completed" => status[d] = "completed"
    BY <1>7 DEF EnqueueEmbedding, Goto, Typed, TypeOK, Placed, Resumable,
       ResumableAt, EmbeddingsBacked, queue, documents, ticks, bounds, QueueTypeOK,
       Enqueue
  <2>2. Resumable'
    <3>1. ASSUME NEW q \in Ticks, q # t PROVE ResumableAt(q)'
      <4>1. /\ pc'[q] = pc[q] /\ next'[q] = next[q]
            /\ item'[q] = item[q] /\ snapshot'[q] = snapshot[q]
        BY <1>7, <3>1 DEF EnqueueEmbedding, Goto, Typed, TypeOK, ticks
      <4>2. \A d \in Docs : stored[d] \subseteq stored'[d] /\ stored'[d] \subseteq 1..Batches
        BY <1>7 DEF EnqueueEmbedding, Goto, Typed, TypeOK, documents
      <4>3. ResumableAt(q) /\ (pc[q] \in {"batch", "progress", "embedded"} => item[q] \in Docs)
        BY DEF Resumable, Typed, Placed
      <4> QED
        BY <4>1, <4>2, <4>3 DEF ResumableAt
    <3>2. ResumableAt(t)'
      BY <1>7 DEF EnqueueEmbedding, Goto, Typed, TypeOK, Placed, Resumable,
         ResumableAt, EmbeddingsBacked, queue, documents, ticks, bounds, QueueTypeOK
    <3> QED
      BY <3>1, <3>2 DEF Resumable
  <2>3. EmbeddingsBacked'
    BY <1>7, <2>1 DEF EnqueueEmbedding, Goto, Typed, TypeOK, Placed, Resumable,
       ResumableAt, EmbeddingsBacked, queue, documents, ticks, bounds, QueueTypeOK
  <2> QED
    BY <2>2, <2>3
<1>8. ASSUME NEW t \in Ticks, EnqueueErrs(t) PROVE Resumable' /\ EmbeddingsBacked'
  BY <1>8 DEF EnqueueErrs, Goto, Fault, Typed, TypeOK, Placed, Resumable,
     ResumableAt, EmbeddingsBacked, queue, documents, ticks, bounds, QueueTypeOK
<1>9. ASSUME NEW t \in Ticks, CompleteUrl(t) PROVE Resumable' /\ EmbeddingsBacked'
  <2>1. \A d \in Docs : status'[d] = "completed" => status[d] = "completed"
    BY <1>9 DEF CompleteUrl, Release, Goto, Typed, TypeOK, Placed, Resumable,
       ResumableAt, EmbeddingsBacked, queue, documents, ticks, bounds, QueueTypeOK,
       Complete
  <2>2. Resumable'
    <3>1. ASSUME NEW q \in Ticks, q # t PROVE ResumableAt(q)'
      <4>1. /\ pc'[q] = pc[q] /\ next'[q] = next[q]
            /\ item'[q] = item[q] /\ snapshot'[q] = snapshot[q]
        BY <1>9, <3>1 DEF CompleteUrl, Release, Goto, Typed, TypeOK, ticks
      <4>2. \A d \in Docs : stored[d] \subseteq stored'[d] /\ stored'[d] \subseteq 1..Batches
        BY <1>9 DEF CompleteUrl, Release, Goto, Typed, TypeOK, documents
      <4>3. ResumableAt(q) /\ (pc[q] \in {"batch", "progress", "embedded"} => item[q] \in Docs)
        BY DEF Resumable, Typed, Placed
      <4> QED
        BY <4>1, <4>2, <4>3 DEF ResumableAt
    <3>2. ResumableAt(t)'
      BY <1>9 DEF CompleteUrl, Release, Goto, Typed, TypeOK, Placed, Resumable,
         ResumableAt, EmbeddingsBacked, queue, documents, ticks, bounds, QueueTypeOK
    <3> QED
      BY <3>1, <3>2 DEF Resumable
  <2>3. EmbeddingsBacked'
    BY <1>9, <2>1 DEF CompleteUrl, Release, Goto, Typed, TypeOK, Placed, Resumable,
       ResumableAt, EmbeddingsBacked, queue, documents, ticks, bounds, QueueTypeOK
  <2> QED
    BY <2>2, <2>3
<1>10. ASSUME NEW t \in Ticks, RecoverEmbeds(t) PROVE Resumable' /\ EmbeddingsBacked'
  BY <1>10 DEF RecoverEmbeds, Goto, RecoverStale, SetBack, Typed, TypeOK, Placed,
     Resumable, ResumableAt, EmbeddingsBacked, queue, documents, ticks, bounds,
     QueueTypeOK
<1>11. ASSUME NEW t \in Ticks, ListEmbeds(t) PROVE Resumable' /\ EmbeddingsBacked'
  BY <1>11 DEF ListEmbeds, Goto, Pending, Oldest, Typed, TypeOK, Placed, Resumable,
     ResumableAt, EmbeddingsBacked, queue, documents, ticks, bounds, QueueTypeOK
<1>12. ASSUME NEW t \in Ticks, NEW d \in Docs, ClaimEmbed(t, d) PROVE Resumable' /\ EmbeddingsBacked'
  BY <1>12, SMTT(30) DEF ClaimEmbed, Goto, Drop, Claim, Typed, TypeOK, Placed, Resumable,
     ResumableAt, EmbeddingsBacked, queue, documents, ticks, bounds, QueueTypeOK
<1>13. ASSUME NEW t \in Ticks, StartEmbedding(t) PROVE Resumable' /\ EmbeddingsBacked'
  <2>1. UNCHANGED status
    BY <1>13 DEF StartEmbedding, Goto, Typed, TypeOK, Placed, Resumable,
       ResumableAt, EmbeddingsBacked, queue, documents, ticks, bounds, QueueTypeOK,
       Refresh
  <2>2. Resumable'
    <3>1. ASSUME NEW q \in Ticks, q # t PROVE ResumableAt(q)'
      <4>1. /\ pc'[q] = pc[q] /\ next'[q] = next[q]
            /\ item'[q] = item[q] /\ snapshot'[q] = snapshot[q]
        BY <1>13, <3>1 DEF StartEmbedding, Goto, Typed, TypeOK, ticks
      <4>2. \A d \in Docs : stored[d] \subseteq stored'[d] /\ stored'[d] \subseteq 1..Batches
        BY <1>13 DEF StartEmbedding, Goto, Typed, TypeOK, documents
      <4>3. ResumableAt(q) /\ (pc[q] \in {"batch", "progress", "embedded"} => item[q] \in Docs)
        BY DEF Resumable, Typed, Placed
      <4> QED
        BY <4>1, <4>2, <4>3 DEF ResumableAt
    <3>2. ResumableAt(t)'
      <4>1. ResumableAt(t) /\ item[t] \in Docs
        BY <1>13 DEF StartEmbedding, Goto, Resumable, Typed, Placed
      <4>2. /\ item'[t] = item[t] /\ snapshot' = snapshot /\ stored' = stored
            /\ next'[t] = snapshot[t][item[t]] + 1
            /\ pc'[t] = IF snapshot[t][item[t]] >= Batches THEN "embedded" ELSE "batch"
        BY <1>13 DEF StartEmbedding, Goto, Typed, TypeOK
      <4>3. snapshot[t][item[t]] \in 0..Batches /\ stored[item[t]] \subseteq 1..Batches
        BY <4>1 DEF Typed, TypeOK
      <4>4. 1..(next'[t] - 1) \subseteq stored'[item'[t]]
        BY <4>1, <4>2, <4>3 DEF ResumableAt
      <4>5. pc'[t] = "embedded" => stored'[item'[t]] = 1..Batches
        <5>1. pc'[t] = "embedded" => snapshot[t][item[t]] = Batches
          BY <4>2, <4>3, IngestConstants
        <5>2. 1..snapshot[t][item[t]] \subseteq stored[item[t]]
          BY <4>1 DEF ResumableAt
        <5> QED
          BY <4>2, <4>3, <5>1, <5>2
      <4> QED
        BY <4>1, <4>2, <4>4, <4>5 DEF ResumableAt
    <3> QED
      BY <3>1, <3>2 DEF Resumable
  <2>3. EmbeddingsBacked'
    <3>1. 1..snapshot[t][item[t]] \subseteq stored[item[t]] /\ item[t] \in Docs
      BY <1>13 DEF StartEmbedding, Goto, Resumable, ResumableAt, Typed, Placed
    <3>2. /\ stored' = stored
          /\ \A d \in Docs : embedded'[d] = IF d = item[t] THEN snapshot[t][item[t]] ELSE embedded[d]
      BY <1>13 DEF StartEmbedding, Goto, Typed, TypeOK
    <3> QED
      BY <2>1, <3>1, <3>2 DEF EmbeddingsBacked
  <2> QED
    BY <2>2, <2>3
<1>14. ASSUME NEW t \in Ticks, EmbedBatch(t) PROVE Resumable' /\ EmbeddingsBacked'
  <2>1. UNCHANGED status
    BY <1>14 DEF EmbedBatch, Goto, Typed, TypeOK, Placed, Resumable, ResumableAt,
       EmbeddingsBacked, queue, documents, ticks, bounds, QueueTypeOK
  <2>2. Resumable'
    <3>1. ASSUME NEW q \in Ticks, q # t PROVE ResumableAt(q)'
      <4>1. /\ pc'[q] = pc[q] /\ next'[q] = next[q]
            /\ item'[q] = item[q] /\ snapshot'[q] = snapshot[q]
        BY <1>14, <3>1 DEF EmbedBatch, Goto, Typed, TypeOK, ticks
      <4>2. \A d \in Docs : stored[d] \subseteq stored'[d] /\ stored'[d] \subseteq 1..Batches
        BY <1>14 DEF EmbedBatch, Goto, Typed, TypeOK, documents
      <4>3. ResumableAt(q) /\ (pc[q] \in {"batch", "progress", "embedded"} => item[q] \in Docs)
        BY DEF Resumable, Typed, Placed
      <4> QED
        BY <4>1, <4>2, <4>3 DEF ResumableAt
    <3>2. ResumableAt(t)'
      <4>1. ResumableAt(t) /\ item[t] \in Docs
        BY <1>14 DEF EmbedBatch, Goto, Resumable, Typed, Placed
      <4>2. /\ item'[t] = item[t] /\ snapshot' = snapshot /\ next' = next
            /\ pc[t] = "batch" /\ pc'[t] = "progress"
            /\ \A d \in Docs : stored'[d] = IF d = item[t] THEN stored[d] \cup {next[t]} ELSE stored[d]
        BY <1>14, <4>1, ZenonT(30) DEF EmbedBatch, Goto, Typed, TypeOK
      <4> QED
        BY <4>1, <4>2 DEF ResumableAt
    <3> QED
      BY <3>1, <3>2 DEF Resumable
  <2>3. EmbeddingsBacked'
    <3>1. item[t] \in Docs /\ next[t] \in 1..Batches
      BY <1>14 DEF EmbedBatch, Goto, Typed, Placed
    <3>2. /\ embedded' = embedded
          /\ \A d \in Docs : stored[d] \subseteq stored'[d] /\ stored'[d] \subseteq 1..Batches
      BY <1>14, <3>1 DEF EmbedBatch, Goto, Typed, TypeOK
    <3> QED
      BY <2>1, <3>2 DEF EmbeddingsBacked
  <2> QED
    BY <2>2, <2>3
<1>15. ASSUME NEW t \in Ticks, WriteProgress(t) PROVE Resumable' /\ EmbeddingsBacked'
  <2>1. UNCHANGED status
    BY <1>15 DEF WriteProgress, Goto, Typed, TypeOK, Placed, Resumable,
       ResumableAt, EmbeddingsBacked, queue, documents, ticks, bounds, QueueTypeOK,
       Refresh
  <2>2. Resumable'
    <3>1. ASSUME NEW q \in Ticks, q # t PROVE ResumableAt(q)'
      <4>1. /\ pc'[q] = pc[q] /\ next'[q] = next[q]
            /\ item'[q] = item[q] /\ snapshot'[q] = snapshot[q]
        BY <1>15, <3>1 DEF WriteProgress, Goto, Typed, TypeOK, ticks
      <4>2. \A d \in Docs : stored[d] \subseteq stored'[d] /\ stored'[d] \subseteq 1..Batches
        BY <1>15 DEF WriteProgress, Goto, Typed, TypeOK, documents
      <4>3. ResumableAt(q) /\ (pc[q] \in {"batch", "progress", "embedded"} => item[q] \in Docs)
        BY DEF Resumable, Typed, Placed
      <4> QED
        BY <4>1, <4>2, <4>3 DEF ResumableAt
    <3>2. ResumableAt(t)'
      <4>1. ResumableAt(t) /\ item[t] \in Docs
        BY <1>15 DEF WriteProgress, Goto, Resumable, Typed, Placed
      <4>2. /\ item'[t] = item[t] /\ snapshot' = snapshot /\ stored' = stored
            /\ next'[t] = next[t] + 1 /\ pc[t] = "progress"
            /\ pc'[t] = IF next[t] >= Batches THEN "embedded" ELSE "batch"
        BY <1>15 DEF WriteProgress, Goto, Typed, TypeOK
      <4>3. next[t] \in 1..Batches /\ stored[item[t]] \subseteq 1..Batches
        BY <1>15, <4>1 DEF WriteProgress, Goto, Typed, TypeOK, Placed
      <4>4. 1..next[t] \subseteq stored[item[t]]
        BY <4>1, <4>2, <4>3 DEF ResumableAt
      <4>5. 1..(next'[t] - 1) \subseteq stored'[item'[t]]
        BY <4>2, <4>3, <4>4
      <4>6. pc'[t] = "embedded" => stored'[item'[t]] = 1..Batches
        <5>1. pc'[t] = "embedded" => next[t] = Batches
          BY <4>2, <4>3, IngestConstants
        <5> QED
          BY <4>2, <4>3, <4>4, <5>1
      <4> QED
        BY <4>1, <4>2, <4>5, <4>6 DEF ResumableAt
    <3> QED
      BY <3>1, <3>2 DEF Resumable
  <2>3. EmbeddingsBacked'
    <3>1. /\ next[t] \in 1..Batches /\ item[t] \in Docs
          /\ 1..next[t] \subseteq stored[item[t]]
      BY <1>15 DEF WriteProgress, Goto, Resumable, ResumableAt, Typed, TypeOK,
         Placed
    <3>2. /\ stored' = stored
          /\ \A d \in Docs : embedded'[d] = IF d = item[t] THEN next[t] ELSE embedded[d]
      BY <1>15 DEF WriteProgress, Goto, Typed, TypeOK
    <3> QED
      BY <2>1, <3>1, <3>2 DEF EmbeddingsBacked
  <2> QED
    BY <2>2, <2>3
<1>16. ASSUME NEW t \in Ticks, CompleteEmbed(t) PROVE Resumable' /\ EmbeddingsBacked'
  BY <1>16, SMTT(30) DEF CompleteEmbed, Release, Goto, Complete, Typed, TypeOK, Placed,
     Resumable, ResumableAt, EmbeddingsBacked, queue, documents, ticks, bounds,
     QueueTypeOK
<1>17. ASSUME NEW t \in Ticks, EmbedFails(t) PROVE Resumable' /\ EmbeddingsBacked'
  BY <1>17, SMTT(30) DEF EmbedFails, Release, Fault, Goto, Fail, SetBack, Typed, TypeOK,
     Placed, Resumable, ResumableAt, EmbeddingsBacked, queue, documents, ticks,
     bounds, QueueTypeOK
<1>18. ASSUME NEW t \in Ticks, EndTick(t) PROVE Resumable' /\ EmbeddingsBacked'
  BY <1>18 DEF EndTick, Typed, TypeOK, Placed, Resumable, ResumableAt,
     EmbeddingsBacked, queue, documents, ticks, bounds, QueueTypeOK
<1>19. ASSUME NEW t \in Ticks, UrlPhaseErrs(t) PROVE Resumable' /\ EmbeddingsBacked'
  BY <1>19 DEF UrlPhaseErrs, Fault, Typed, TypeOK, Placed, Resumable, ResumableAt,
     EmbeddingsBacked, queue, documents, ticks, bounds, QueueTypeOK
<1>20. ASSUME NEW t \in Ticks, TickDies(t) PROVE Resumable' /\ EmbeddingsBacked'
  BY <1>20 DEF TickDies, Fault, Typed, TypeOK, Placed, Resumable, ResumableAt,
     EmbeddingsBacked, queue, documents, ticks, bounds, QueueTypeOK
<1>21. ASSUME NEW r \in UrlRows, NEW u \in Urls, SubmitUrl(r, u) PROVE Resumable' /\ EmbeddingsBacked'
  BY <1>21 DEF SubmitUrl, Enqueue, Typed, TypeOK, Placed, Resumable, ResumableAt,
     EmbeddingsBacked, queue, documents, ticks, bounds, QueueTypeOK
<1>22. ASSUME NEW d \in Docs, EnqueueFromTool(d) PROVE Resumable' /\ EmbeddingsBacked'
  BY <1>22 DEF EnqueueFromTool, Fresh, Enqueue, Typed, TypeOK, Placed, Resumable,
     ResumableAt, EmbeddingsBacked, queue, documents, ticks, bounds, QueueTypeOK
<1>23. ASSUME NEW r \in Rows, RetryRow(r) PROVE Resumable' /\ EmbeddingsBacked'
  BY <1>23 DEF RetryRow, Retry, Typed, TypeOK, Placed, Resumable, ResumableAt,
     EmbeddingsBacked, queue, documents, ticks, bounds, QueueTypeOK
<1>24. ASSUME NEW r \in Rows, CancelRow(r) PROVE Resumable' /\ EmbeddingsBacked'
  BY <1>24 DEF CancelRow, Cancel, Typed, TypeOK, Placed, Resumable, ResumableAt,
     EmbeddingsBacked, queue, documents, ticks, bounds, QueueTypeOK
<1>25. ASSUME NEW r \in Rows, OrphanStale(r) PROVE Resumable' /\ EmbeddingsBacked'
  BY <1>25 DEF OrphanStale, BecomesStale, Typed, TypeOK, Placed, Resumable,
     ResumableAt, EmbeddingsBacked, queue, documents, ticks, bounds, QueueTypeOK
<1>26. ASSUME NEW r \in Rows, HeldStale(r) PROVE Resumable' /\ EmbeddingsBacked'
  BY <1>26 DEF HeldStale, Fault, BecomesStale, Typed, TypeOK, Placed, Resumable,
     ResumableAt, EmbeddingsBacked, queue, documents, ticks, bounds, QueueTypeOK
<1>27. CASE UNCHANGED vars
  BY <1>27 DEF vars, queue, documents, ticks, Resumable, ResumableAt,
     EmbeddingsBacked
<1> QED
  BY <1>1, <1>2, <1>3, <1>4, <1>5, <1>6, <1>7, <1>8, <1>9, <1>10, <1>11, <1>12,
     <1>13, <1>14, <1>15, <1>16, <1>17, <1>18, <1>19, <1>20, <1>21, <1>22, <1>23,
     <1>24, <1>25, <1>26,
     <1>27 DEF Next, TickStep

(* Every step keeps completed URLs handed on. *)
LEMMA HandStep ==
  ASSUME Typed, Typed', HandedOn, ResultQueued, [Next]_vars
  PROVE  HandedOn' /\ ResultQueued'
<1> USE QueueConstants, IngestConstants
<1>1. ASSUME NEW t \in Ticks, RecoverUrls(t) PROVE HandedOn' /\ ResultQueued'
  BY <1>1 DEF RecoverUrls, Goto, RecoverStale, SetBack, Typed, TypeOK, Placed,
     HandedOn, ResultQueued, queue, documents, ticks, bounds, QueueTypeOK
<1>2. ASSUME NEW t \in Ticks, ListUrls(t) PROVE HandedOn' /\ ResultQueued'
  BY <1>2 DEF ListUrls, Goto, Pending, Oldest, Typed, TypeOK, Placed, HandedOn,
     ResultQueued, queue, documents, ticks, bounds, QueueTypeOK
<1>3. ASSUME NEW t \in Ticks, NEW r \in UrlRows, ClaimUrl(t, r) PROVE HandedOn' /\ ResultQueued'
  BY <1>3 DEF ClaimUrl, Goto, Drop, Claim, Typed, TypeOK, Placed, HandedOn,
     ResultQueued, queue, documents, ticks, bounds, QueueTypeOK
<1>4. ASSUME NEW t \in Ticks, NEW r \in Rows, SkipRow(t, r) PROVE HandedOn' /\ ResultQueued'
  BY <1>4 DEF SkipRow, Drop, Typed, TypeOK, Placed, HandedOn, ResultQueued, queue,
     documents, ticks, bounds, QueueTypeOK
<1>5. ASSUME NEW t \in Ticks, NEW d \in Docs, CreateArtifacts(t, d) PROVE HandedOn' /\ ResultQueued'
  BY <1>5 DEF CreateArtifacts, Goto, Fresh, Typed, TypeOK, Placed, HandedOn,
     ResultQueued, queue, documents, ticks, bounds, QueueTypeOK
<1>6. ASSUME NEW t \in Ticks, UrlFails(t) PROVE HandedOn' /\ ResultQueued'
  BY <1>6 DEF UrlFails, Release, Fault, Goto, Fail, SetBack, Typed, TypeOK, Placed,
     HandedOn, ResultQueued, queue, documents, ticks, bounds, QueueTypeOK
<1>7. ASSUME NEW t \in Ticks, EnqueueEmbedding(t) PROVE HandedOn' /\ ResultQueued'
  BY <1>7 DEF EnqueueEmbedding, Goto, Enqueue, Typed, TypeOK, Placed, HandedOn,
     ResultQueued, queue, documents, ticks, bounds, QueueTypeOK
<1>8. ASSUME NEW t \in Ticks, EnqueueErrs(t) PROVE HandedOn' /\ ResultQueued'
  BY <1>8 DEF EnqueueErrs, Goto, Fault, Typed, TypeOK, Placed, HandedOn,
     ResultQueued, queue, documents, ticks, bounds, QueueTypeOK
<1>9. ASSUME NEW t \in Ticks, CompleteUrl(t) PROVE HandedOn' /\ ResultQueued'
  BY <1>9 DEF CompleteUrl, Release, Goto, Complete, Typed, TypeOK, Placed,
     HandedOn, ResultQueued, queue, documents, ticks, bounds, QueueTypeOK
<1>10. ASSUME NEW t \in Ticks, RecoverEmbeds(t) PROVE HandedOn' /\ ResultQueued'
  BY <1>10 DEF RecoverEmbeds, Goto, RecoverStale, SetBack, Typed, TypeOK, Placed,
     HandedOn, ResultQueued, queue, documents, ticks, bounds, QueueTypeOK
<1>11. ASSUME NEW t \in Ticks, ListEmbeds(t) PROVE HandedOn' /\ ResultQueued'
  BY <1>11 DEF ListEmbeds, Goto, Pending, Oldest, Typed, TypeOK, Placed, HandedOn,
     ResultQueued, queue, documents, ticks, bounds, QueueTypeOK
<1>12. ASSUME NEW t \in Ticks, NEW d \in Docs, ClaimEmbed(t, d) PROVE HandedOn' /\ ResultQueued'
  BY <1>12 DEF ClaimEmbed, Goto, Drop, Claim, Typed, TypeOK, Placed, HandedOn,
     ResultQueued, queue, documents, ticks, bounds, QueueTypeOK
<1>13. ASSUME NEW t \in Ticks, StartEmbedding(t) PROVE HandedOn' /\ ResultQueued'
  BY <1>13 DEF StartEmbedding, Goto, Refresh, Typed, TypeOK, Placed, HandedOn,
     ResultQueued, queue, documents, ticks, bounds, QueueTypeOK
<1>14. ASSUME NEW t \in Ticks, EmbedBatch(t) PROVE HandedOn' /\ ResultQueued'
  BY <1>14 DEF EmbedBatch, Goto, Typed, TypeOK, Placed, HandedOn, ResultQueued,
     queue, documents, ticks, bounds, QueueTypeOK
<1>15. ASSUME NEW t \in Ticks, WriteProgress(t) PROVE HandedOn' /\ ResultQueued'
  BY <1>15 DEF WriteProgress, Goto, Refresh, Typed, TypeOK, Placed, HandedOn,
     ResultQueued, queue, documents, ticks, bounds, QueueTypeOK
<1>16. ASSUME NEW t \in Ticks, CompleteEmbed(t) PROVE HandedOn' /\ ResultQueued'
  BY <1>16 DEF CompleteEmbed, Release, Goto, Complete, Typed, TypeOK, Placed,
     HandedOn, ResultQueued, queue, documents, ticks, bounds, QueueTypeOK
<1>17. ASSUME NEW t \in Ticks, EmbedFails(t) PROVE HandedOn' /\ ResultQueued'
  BY <1>17 DEF EmbedFails, Release, Fault, Goto, Fail, SetBack, Typed, TypeOK,
     Placed, HandedOn, ResultQueued, queue, documents, ticks, bounds, QueueTypeOK
<1>18. ASSUME NEW t \in Ticks, EndTick(t) PROVE HandedOn' /\ ResultQueued'
  BY <1>18 DEF EndTick, Typed, TypeOK, Placed, HandedOn, ResultQueued, queue,
     documents, ticks, bounds, QueueTypeOK
<1>19. ASSUME NEW t \in Ticks, UrlPhaseErrs(t) PROVE HandedOn' /\ ResultQueued'
  BY <1>19 DEF UrlPhaseErrs, Fault, Typed, TypeOK, Placed, HandedOn, ResultQueued,
     queue, documents, ticks, bounds, QueueTypeOK
<1>20. ASSUME NEW t \in Ticks, TickDies(t) PROVE HandedOn' /\ ResultQueued'
  BY <1>20 DEF TickDies, Fault, Typed, TypeOK, Placed, HandedOn, ResultQueued,
     queue, documents, ticks, bounds, QueueTypeOK
<1>21. ASSUME NEW r \in UrlRows, NEW u \in Urls, SubmitUrl(r, u) PROVE HandedOn' /\ ResultQueued'
  BY <1>21 DEF SubmitUrl, Enqueue, Typed, TypeOK, Placed, HandedOn, ResultQueued,
     queue, documents, ticks, bounds, QueueTypeOK
<1>22. ASSUME NEW d \in Docs, EnqueueFromTool(d) PROVE HandedOn' /\ ResultQueued'
  BY <1>22 DEF EnqueueFromTool, Fresh, Enqueue, Typed, TypeOK, Placed, HandedOn,
     ResultQueued, queue, documents, ticks, bounds, QueueTypeOK
<1>23. ASSUME NEW r \in Rows, RetryRow(r) PROVE HandedOn' /\ ResultQueued'
  BY <1>23 DEF RetryRow, Retry, Typed, TypeOK, Placed, HandedOn, ResultQueued,
     queue, documents, ticks, bounds, QueueTypeOK
<1>24. ASSUME NEW r \in Rows, CancelRow(r) PROVE HandedOn' /\ ResultQueued'
  BY <1>24 DEF CancelRow, Cancel, Typed, TypeOK, Placed, HandedOn, ResultQueued,
     queue, documents, ticks, bounds, QueueTypeOK
<1>25. ASSUME NEW r \in Rows, OrphanStale(r) PROVE HandedOn' /\ ResultQueued'
  BY <1>25 DEF OrphanStale, BecomesStale, Typed, TypeOK, Placed, HandedOn,
     ResultQueued, queue, documents, ticks, bounds, QueueTypeOK
<1>26. ASSUME NEW r \in Rows, HeldStale(r) PROVE HandedOn' /\ ResultQueued'
  BY <1>26 DEF HeldStale, Fault, BecomesStale, Typed, TypeOK, Placed, HandedOn,
     ResultQueued, queue, documents, ticks, bounds, QueueTypeOK
<1>27. CASE UNCHANGED vars
  BY <1>27 DEF vars, queue, documents, ticks, HandedOn, ResultQueued
<1> QED
  BY <1>1, <1>2, <1>3, <1>4, <1>5, <1>6, <1>7, <1>8, <1>9, <1>10, <1>11, <1>12,
     <1>13, <1>14, <1>15, <1>16, <1>17, <1>18, <1>19, <1>20, <1>21, <1>22, <1>23,
     <1>24, <1>25, <1>26,
     <1>27 DEF Next, TickStep

(* The invariant is inductive. *)
LEMMA InvStep == IInv /\ [Next]_vars => IInv'
<1> SUFFICES ASSUME IInv, [Next]_vars PROVE IInv'
  OBVIOUS
<1>1. QueueTypeOK' /\ ClaimsCounted'
  BY QueueOnly, QueueStepOK DEF IInv, Typed, TypeOK, QueueInv
<1>2. Typed'
  BY <1>1, TypeStep DEF IInv
<1>3. Resumable' /\ EmbeddingsBacked'
  BY <1>2, ResumeStep DEF IInv
<1>4. HandedOn' /\ ResultQueued'
  BY <1>2, HandStep DEF IInv
<1> QED
  BY <1>1, <1>2, <1>3, <1>4 DEF IInv

(* The types of the tables and the ticks (af-db/src/embed_queue.rs,          *)
(* af-db/src/url_ingest.rs); attempt_count never passes max_attempts.        *)
THEOREM TypeCorrect == Spec => []TypeOK
<1>1. IInv => TypeOK
  BY DEF IInv, Typed
<1> QED
  BY InitOK, InvStep, <1>1, PTL DEF Spec

(* claim, fail and recover_stale together: between two retries a row is      *)
(* taken up at most max_attempts times.                                      *)
THEOREM ClaimsAreBounded == Spec => []ClaimsBounded
<1>1. IInv => ClaimsBounded
  BY CountedIsBounded DEF IInv, Typed, TypeOK, QueueInv
<1> QED
  BY InitOK, InvStep, <1>1, PTL DEF Spec

(* process_single_item: a tick that resumes skips nothing, and a completed   *)
(* document has all its vectors.                                             *)
THEOREM NothingSkipped == Spec => []EmbeddingsBacked
<1>1. IInv => EmbeddingsBacked
  BY DEF IInv
<1> QED
  BY InitOK, InvStep, <1>1, PTL DEF Spec

(* process_single_url: a completed URL's chunks artifact is in the embed     *)
(* queue unless its enqueue failed.                                          *)
THEOREM ResultsHandedOn == Spec => []ResultQueued
<1>1. IInv => ResultQueued
  BY DEF IInv
<1> QED
  BY InitOK, InvStep, <1>1, PTL DEF Spec

(* cancel, complete and fail guarded by the status: what has ended stays     *)
(* ended, whatever a process that lost its row still writes.                 *)
THEOREM EndedStaysEnded == Spec => FinalStays
<1>1. IInv /\ [Next]_vars => [FinalKept]_queue
  BY QueueOnly, QueueStepFinal DEF IInv, Typed, TypeOK, QueueInv
<1> QED
  BY InitOK, InvStep, <1>1, PTL DEF Spec, FinalStays
=============================================================================
