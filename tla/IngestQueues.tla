--------------------------- MODULE IngestQueues ---------------------------
(***************************************************************************)
(* URL ingestion and background embedding, the two work queues of `af      *)
(* tick` that feed each other.  A tick fetches pending URLs, stores the    *)
(* text and its chunks as artifacts and enqueues the chunks artifact; then *)
(* it embeds pending chunk artifacts in batches, recording its progress.   *)
(* cron starts ticks whether or not earlier ones have ended.               *)
(*                                                                         *)
(* A document is its chunks artifact; its chunks come in batches of        *)
(* BATCH_SIZE.  Fetching, conversion and the vectors are left out.         *)
(***************************************************************************)
EXTENDS WorkQueue

CONSTANTS
  Ticks,        \* `af tick` processes that may run at the same time
  Urls,         \* contents of the column url (one project)
  UrlRows,      \* rows of url_ingest_queue
  Docs,         \* rows of embed_queue: chunks artifacts
  None,
  Batches,      \* batches of a document's chunks
  UrlLimit,     \* BATCH_SIZE of process_url_queue (5)
  EmbedLimit,   \* rows a tick lists for embedding (10)
  MaxFaults,    \* bound: crashes, database errors, stalls of over two minutes
  MaxRetries    \* bound: retries by an administrator

ASSUME IngestConstants ==
  /\ Rows = UrlRows \cup Docs /\ UrlRows \cap Docs = {}
  /\ None \notin Rows \cup Urls
  /\ Batches \in Nat /\ MaxFaults \in Nat /\ MaxRetries \in Nat

VARIABLES
  url,          \* the column url of each URL row
  result,       \* its chunks_artifact_id, once completed
  embedded,     \* chunks_embedded of each embed row, in batches
  stored,       \* the batches of a document whose vectors are in the table
  made,         \* chunks artifacts created
  dropped,      \* chunks artifacts whose enqueue failed (history)
  pc, todo, item, doc, next,  \* each tick: its step, the listed rows left, the row
                \* and the chunks artifact it is at, the batch it embeds next
  snapshot,     \* chunks_embedded as listed by the tick
  faults, retries

documents == <<url, result, embedded, stored, made, dropped>>
ticks     == <<pc, todo, item, doc, next, snapshot>>
bounds    == <<faults, retries>>
vars      == <<queue, documents, ticks, bounds>>

UrlSteps   == {"listUrls", "urls", "fetch", "enqueue", "complete"}
EmbedSteps == {"listEmbeds", "embeds", "start", "batch", "progress", "embedded"}

(* The type invariant of the two queues and the ticks. *)
TypeOK ==
  /\ QueueTypeOK
  /\ url \in [UrlRows -> Urls \cup {None}] /\ result \in [UrlRows -> Docs \cup {None}]
  /\ embedded \in [Docs -> 0..Batches] /\ stored \in [Docs -> SUBSET (1..Batches)]
  /\ made \in SUBSET Docs /\ dropped \in SUBSET Docs
  /\ pc \in [Ticks -> UrlSteps \cup EmbedSteps \cup {"idle"}]
  /\ todo \in [Ticks -> SUBSET Rows]
  /\ item \in [Ticks -> Rows \cup {None}] /\ doc \in [Ticks -> Docs \cup {None}]
  /\ next \in [Ticks -> 1..(Batches + 1)]
  /\ snapshot \in [Ticks -> [Docs -> 0..Batches]]
  /\ faults \in 0..MaxFaults /\ retries \in 0..MaxRetries

Init ==
  /\ QueueInit
  /\ url = [r \in UrlRows |-> None] /\ result = [r \in UrlRows |-> None]
  /\ embedded = [d \in Docs |-> 0] /\ stored = [d \in Docs |-> {}]
  /\ made = {} /\ dropped = {}
  /\ pc = [t \in Ticks |-> "idle"] /\ todo = [t \in Ticks |-> {}]
  /\ item = [t \in Ticks |-> None] /\ doc = [t \in Ticks |-> None]
  /\ next = [t \in Ticks |-> 1]
  /\ snapshot = [t \in Ticks |-> [d \in Docs |-> 0]]
  /\ faults = 0 /\ retries = 0

Fault == faults < MaxFaults /\ faults' = faults + 1 /\ UNCHANGED retries

Goto(t, step) == pc' = [pc EXCEPT ![t] = step]

(* The listed row a tick takes up next; rows are listed oldest first. *)
IsNext(t, r) == r \in todo[t] /\ \A q \in todo[t] : r <= q
Drop(t, r)   == todo' = [todo EXCEPT ![t] = @ \ {r}]

(* Back to the loop over the listed rows. *)
Release(t, loop) ==
  /\ Goto(t, loop)
  /\ item' = [item EXCEPT ![t] = None] /\ doc' = [doc EXCEPT ![t] = None]
  /\ next' = [next EXCEPT ![t] = 1]
  /\ UNCHANGED <<todo, snapshot>>

-----------------------------------------------------------------------------
(* The API, the CLI and the tools.                                          *)

(* enqueue_urls: ON CONFLICT DO NOTHING on the index of active rows. *)
ActiveUrl(u) == \E r \in UrlRows : url[r] = u /\ status[r] \in Active \cup {"completed"}

SubmitUrl(r, u) ==
  /\ \A q \in UrlRows : q < r => status[q] # "absent"
  /\ ~ActiveUrl(u)
  /\ Enqueue(r)
  /\ url' = [url EXCEPT ![r] = u]
  /\ UNCHANGED <<result, embedded, stored, made, dropped, ticks, bounds>>

(* retry: the same index refuses it while the URL is active again. *)
RetryRow(r) ==
  /\ retries < MaxRetries /\ retries' = retries + 1 /\ UNCHANGED faults
  /\ r \in UrlRows => ~ActiveUrl(url[r])
  /\ Retry(r)
  /\ UNCHANGED <<documents, ticks>>

CancelRow(r) == Cancel(r) /\ UNCHANGED <<documents, ticks, bounds>>

(* The next chunks artifact. *)
Fresh(d) == d \in Docs \ made /\ \A e \in Docs \ made : d <= e

(* A doc.* tool has produced chunks.json. *)
EnqueueFromTool(d) ==
  /\ Fresh(d)
  /\ Enqueue(d)
  /\ made' = made \cup {d}
  /\ UNCHANGED <<url, result, embedded, stored, dropped, ticks, bounds>>

-----------------------------------------------------------------------------
(* process_url_queue and process_single_url.                                *)

RecoverUrls(t) ==
  /\ pc[t] = "idle"
  /\ RecoverStale(UrlRows)
  /\ Goto(t, "listUrls")
  /\ UNCHANGED <<documents, todo, item, doc, next, snapshot, bounds>>

ListUrls(t) ==
  /\ pc[t] = "listUrls"
  /\ todo' = [todo EXCEPT ![t] = Pending(UrlRows, UrlLimit)]
  /\ Goto(t, "urls")
  /\ UNCHANGED <<queue, documents, item, doc, next, snapshot, bounds>>

ClaimUrl(t, r) ==
  /\ pc[t] = "urls" /\ IsNext(t, r)
  /\ Claim(r)
  /\ Drop(t, r)
  /\ item' = [item EXCEPT ![t] = r]
  /\ Goto(t, "fetch")
  /\ UNCHANGED <<documents, doc, next, snapshot, bounds>>

(* claim returned false: another tick has the row, or it was cancelled. *)
SkipRow(t, r) ==
  /\ pc[t] \in {"urls", "embeds"} /\ IsNext(t, r)
  /\ status[r] # "pending"
  /\ Drop(t, r)
  /\ UNCHANGED <<queue, documents, pc, item, doc, next, snapshot, bounds>>

(* A mutant of CreateArtifacts: the document is not handed on. *)
CreateOnly(t, d) ==
  /\ pc[t] = "fetch" /\ Fresh(d)
  /\ made' = made \cup {d}
  /\ doc' = [doc EXCEPT ![t] = d]
  /\ Goto(t, "complete")
  /\ UNCHANGED <<queue, url, result, embedded, stored, dropped,
                 todo, item, next, snapshot, bounds>>

(* The page is fetched; its text and its chunks become artifacts. *)
CreateArtifacts(t, d) ==
  /\ pc[t] = "fetch" /\ Fresh(d)
  /\ made' = made \cup {d}
  /\ doc' = [doc EXCEPT ![t] = d]
  /\ Goto(t, "enqueue")
  /\ UNCHANGED <<queue, url, result, embedded, stored, dropped,
                 todo, item, next, snapshot, bounds>>

(* Fetching, conversion or storing fails, or complete does. *)
UrlFails(t) ==
  /\ \/ pc[t] = "fetch" /\ UNCHANGED bounds
     \/ pc[t] = "complete" /\ Fault
  /\ Fail(item[t])
  /\ Release(t, "urls")
  /\ UNCHANGED documents

EnqueueEmbedding(t) ==
  /\ pc[t] = "enqueue"
  /\ Enqueue(doc[t])
  /\ Goto(t, "complete")
  /\ UNCHANGED <<documents, todo, item, doc, next, snapshot, bounds>>

(* Non-fatal: the URL completes without its embeddings. *)
EnqueueErrs(t) ==
  /\ pc[t] = "enqueue" /\ Fault
  /\ dropped' = dropped \cup {doc[t]}
  /\ Goto(t, "complete")
  /\ UNCHANGED <<queue, url, result, embedded, stored, made,
                 todo, item, doc, next, snapshot>>

CompleteUrl(t) ==
  /\ pc[t] = "complete"
  /\ Complete(item[t])
  /\ result' = [result EXCEPT ![item[t]] =
                  IF status[item[t]] = "processing" THEN doc[t] ELSE @]
  /\ Release(t, "urls")
  /\ UNCHANGED <<url, embedded, stored, made, dropped, bounds>>

(* A database error ends process_url_queue; the tick goes on to embed. *)
UrlPhaseErrs(t) ==
  /\ pc[t] \in UrlSteps /\ Fault
  /\ pc' = [pc EXCEPT ![t] = "urls"] /\ todo' = [todo EXCEPT ![t] = {}]
  /\ item' = [item EXCEPT ![t] = None] /\ doc' = [doc EXCEPT ![t] = None]
  /\ UNCHANGED <<queue, documents, next, snapshot>>

-----------------------------------------------------------------------------
(* process_embed_queue and process_single_item.                             *)

RecoverEmbeds(t) ==
  /\ pc[t] = "urls" /\ todo[t] = {}
  /\ RecoverStale(Docs)
  /\ Goto(t, "listEmbeds")
  /\ UNCHANGED <<documents, todo, item, doc, next, snapshot, bounds>>

ListEmbeds(t) ==
  /\ pc[t] = "listEmbeds"
  /\ LET listed == Pending(Docs, EmbedLimit) IN
       /\ todo' = [todo EXCEPT ![t] = listed]
       /\ snapshot' = [snapshot EXCEPT ![t] =
                         [d \in Docs |-> IF d \in listed THEN embedded[d] ELSE 0]]
  /\ Goto(t, "embeds")
  /\ UNCHANGED <<queue, documents, item, doc, next, bounds>>

ClaimEmbed(t, d) ==
  /\ pc[t] = "embeds" /\ IsNext(t, d)
  /\ Claim(d)
  /\ Drop(t, d)
  /\ item' = [item EXCEPT ![t] = d]
  /\ Goto(t, "start")
  /\ UNCHANGED <<documents, doc, next, snapshot, bounds>>

(* The progress written back is the listed one, and so is the chunk the      *)
(* tick starts from, whatever another tick has embedded since.               *)
StartEmbedding(t) ==
  /\ pc[t] = "start"
  /\ LET from == snapshot[t][item[t]] IN
       /\ embedded' = [embedded EXCEPT ![item[t]] = from]
       /\ next' = [next EXCEPT ![t] = from + 1]
       /\ Goto(t, IF from >= Batches THEN "embedded" ELSE "batch")
  /\ Refresh(item[t])
  /\ UNCHANGED <<url, result, stored, made, dropped, todo, item, doc, snapshot, bounds>>

(* One transaction per batch. *)
EmbedBatch(t) ==
  /\ pc[t] = "batch"
  /\ stored' = [stored EXCEPT ![item[t]] = @ \cup {next[t]}]
  /\ Goto(t, "progress")
  /\ UNCHANGED <<queue, url, result, embedded, made, dropped,
                 todo, item, doc, next, snapshot, bounds>>

(* A mutant of WriteProgress: the counter runs one batch ahead. *)
WriteProgressAhead(t) ==
  /\ pc[t] = "progress"
  /\ embedded' = [embedded EXCEPT ![item[t]] = IF next[t] < Batches THEN next[t] + 1 ELSE Batches]
  /\ next' = [next EXCEPT ![t] = @ + 1]
  /\ Goto(t, IF next[t] >= Batches THEN "embedded" ELSE "batch")
  /\ Refresh(item[t])
  /\ UNCHANGED <<url, result, stored, made, dropped, todo, item, doc, snapshot, bounds>>

WriteProgress(t) ==
  /\ pc[t] = "progress"
  /\ embedded' = [embedded EXCEPT ![item[t]] = next[t]]
  /\ next' = [next EXCEPT ![t] = @ + 1]
  /\ Goto(t, IF next[t] >= Batches THEN "embedded" ELSE "batch")
  /\ Refresh(item[t])
  /\ UNCHANGED <<url, result, stored, made, dropped, todo, item, doc, snapshot, bounds>>

CompleteEmbed(t) ==
  /\ pc[t] = "embedded"
  /\ Complete(item[t])
  /\ Release(t, "embeds")
  /\ UNCHANGED <<documents, bounds>>

(* The artifact is gone or unreadable, the backend or the database fails. *)
EmbedFails(t) ==
  /\ \/ pc[t] \in {"start", "batch"} /\ UNCHANGED bounds
     \/ pc[t] = "progress" /\ Fault
  /\ Fail(item[t])
  /\ Release(t, "embeds")
  /\ UNCHANGED documents

EndTick(t) ==
  /\ pc[t] = "embeds" /\ todo[t] = {}
  /\ pc' = [pc EXCEPT ![t] = "idle"]
  /\ snapshot' = [snapshot EXCEPT ![t] = [d \in Docs |-> 0]]
  /\ UNCHANGED <<queue, documents, todo, item, doc, next, bounds>>

-----------------------------------------------------------------------------
(* The environment.                                                         *)

(* The process dies, or a database error ends process_embed_queue. *)
TickDies(t) ==
  /\ pc[t] # "idle" /\ Fault
  /\ pc' = [pc EXCEPT ![t] = "idle"] /\ todo' = [todo EXCEPT ![t] = {}]
  /\ item' = [item EXCEPT ![t] = None] /\ doc' = [doc EXCEPT ![t] = None]
  /\ next' = [next EXCEPT ![t] = 1]
  /\ snapshot' = [snapshot EXCEPT ![t] = [d \in Docs |-> 0]]
  /\ UNCHANGED <<queue, documents>>

Held(r) == \E t \in Ticks : item[t] = r

(* Two minutes pass: for a row nobody works on, and, as a fault, under the   *)
(* hands of a tick that waits for a slow page or a slow embedding backend.   *)
OrphanStale(r) ==
  /\ ~Held(r) /\ BecomesStale(r) /\ UNCHANGED <<documents, ticks, bounds>>
HeldStale(r) ==
  /\ Held(r) /\ Fault /\ BecomesStale(r) /\ UNCHANGED <<documents, ticks>>

TickStep(t) ==
  \/ RecoverUrls(t) \/ ListUrls(t)
  \/ \E r \in UrlRows : ClaimUrl(t, r)
  \/ \E r \in Rows : SkipRow(t, r)
  \/ \E d \in Docs : CreateArtifacts(t, d)
  \/ UrlFails(t) \/ EnqueueEmbedding(t) \/ EnqueueErrs(t) \/ CompleteUrl(t)
  \/ RecoverEmbeds(t) \/ ListEmbeds(t)
  \/ \E d \in Docs : ClaimEmbed(t, d)
  \/ StartEmbedding(t) \/ EmbedBatch(t) \/ WriteProgress(t)
  \/ CompleteEmbed(t) \/ EmbedFails(t) \/ EndTick(t)

Next ==
  \/ \E t \in Ticks : TickStep(t) \/ UrlPhaseErrs(t) \/ TickDies(t)
  \/ \E r \in UrlRows, u \in Urls : SubmitUrl(r, u)
  \/ \E d \in Docs : EnqueueFromTool(d)
  \/ \E r \in Rows : RetryRow(r) \/ CancelRow(r) \/ OrphanStale(r) \/ HeldStale(r)

Spec == Init /\ [][Next]_vars

(* Fairness: cron starts a tick every minute, a tick that runs goes on, and  *)
(* time passes.                                                              *)
FairSpec ==
  /\ Spec
  /\ \A t \in Ticks : WF_vars(TickStep(t))
  /\ \A r \in Rows : WF_vars(OrphanStale(r))

-----------------------------------------------------------------------------
(* Properties.                                                              *)

(* chunks_embedded never runs ahead of the vectors stored, so that a tick    *)
(* that resumes skips nothing, and a document is completed only when all its *)
(* chunks are stored: ticks that died between a batch and its progress,      *)
(* stale listings and ticks that lost their row included.                    *)
EmbeddingsBacked ==
  \A d \in Docs :
    /\ 1..embedded[d] \subseteq stored[d]
    /\ status[d] = "completed" => stored[d] = 1..Batches

(* A completed URL names a chunks artifact that was handed to the embed      *)
(* queue, unless that enqueue itself failed.                                 *)
ResultQueued ==
  \A r \in UrlRows :
    status[r] = "completed" =>
      /\ result[r] # None
      /\ result[r] \in dropped \/ status[result[r]] # "absent"

(* Every row is settled in the end: completed, failed or cancelled, whatever *)
(* dies or stalls on the way.                                                *)
EveryRowSettles ==
  \A r \in Rows : (status[r] \in Active) ~> (status[r] \in Final)
=============================================================================
