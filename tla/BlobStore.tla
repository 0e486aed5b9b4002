---------------------------- MODULE BlobStore ----------------------------
(***************************************************************************)
(* The content-addressed store of af-storage: uploads and tool outputs     *)
(* place a file under its hash, upsert the row of table blobs and create   *)
(* an artifact row that refers to it; uploads reserve bytes of the user's  *)
(* storage quota first.  `af tick`, started by cron every minute whether   *)
(* or not the last one has ended, collects blobs without artifacts.        *)
(*                                                                         *)
(* A blob is its hash.  Hashing, temporary files and the contents of       *)
(* directories are left out.                                               *)
(***************************************************************************)
EXTENDS Integers, FiniteSets, Functions

CONSTANTS
  Stores,       \* request handlers and tools that may store at the same time
  Collectors,   \* `af tick` processes that may run at the same time
  Hashes,       \* contents
  Size,         \* their sizes in bytes
  Users,        \* users that upload
  Limit,        \* max_storage_bytes of each user
  NoUser,       \* a tool output, the CLI, or a caller without a user id
  NoHash,
  MaxArtifacts, \* bound: stores ever begun
  MaxMishaps    \* bound: crashes and I/O or database errors

ASSUME BlobConstants ==
  /\ IsFiniteSet(Stores)
  /\ Size \in [Hashes -> Nat] /\ Limit \in [Users -> Nat]
  /\ NoUser \notin Users /\ NoHash \notin Hashes
  /\ MaxArtifacts \in Nat /\ MaxMishaps \in Nat

Ids == 1..MaxArtifacts
Owners == Users \cup {NoUser}

VARIABLES
  files,       \* hashes with a file under storage_root/data
  blobs,       \* the table blobs
  art, owner,  \* the table artifacts: hash (NoHash: no such row) and uploader
  billed,      \* bytes of the uploads a user has ever completed (history)
  used,        \* users.storage_bytes_used
  phase, content, id, by,  \* each store: its step, hash, artifact and user
  nextId,
  cand,        \* each tick's candidates not dealt with yet
  current,     \* the candidate whose file the tick has just removed
  unreserved,  \* users with a failed reservation taken for a granted one (history)
  mishaps,
  raced        \* hashes stored while they were candidates of a tick (history)

tables == <<files, blobs, art, owner>>
money  == <<billed, used, unreserved>>
store  == <<phase, content, id, by, nextId>>
ticks  == <<cand, current, raced>>
vars   == <<tables, money, store, ticks, mishaps>>

Phases == {"idle", "streamed", "reserved", "placed", "conflict", "stored"}

(* The type invariant of the store. *)
TypeOK ==
  /\ files \in SUBSET Hashes /\ blobs \in SUBSET Hashes
  /\ art \in [Ids -> Hashes \cup {NoHash}] /\ owner \in [Ids -> Owners]
  /\ billed \in [Users -> Nat] /\ used \in [Users -> Nat]
  /\ phase \in [Stores -> Phases] /\ content \in [Stores -> Hashes \cup {NoHash}]
  /\ id \in [Stores -> Nat] /\ by \in [Stores -> Owners]
  /\ nextId \in 1..(MaxArtifacts + 1)
  /\ cand \in [Collectors -> SUBSET Hashes] /\ current \in [Collectors -> Hashes \cup {NoHash}]
  /\ unreserved \in SUBSET Users /\ mishaps \in 0..MaxMishaps /\ raced \in SUBSET Hashes

Init ==
  /\ files = {} /\ blobs = {}
  /\ art = [a \in Ids |-> NoHash] /\ owner = [a \in Ids |-> NoUser]
  /\ billed = [u \in Users |-> 0] /\ used = [u \in Users |-> 0]
  /\ phase = [s \in Stores |-> "idle"] /\ content = [s \in Stores |-> NoHash]
  /\ id = [s \in Stores |-> 0] /\ by = [s \in Stores |-> NoUser]
  /\ nextId = 1
  /\ cand = [t \in Collectors |-> {}] /\ current = [t \in Collectors |-> NoHash]
  /\ unreserved = {} /\ mishaps = 0 /\ raced = {}

Fault == mishaps < MaxMishaps /\ mishaps' = mishaps + 1

(* A tick is going to remove the file of h; a store of h has placed the file *)
(* and its artifact does not exist yet.  raced records where both meet.      *)
Doomed(h) == \E t \in Collectors : h \in cand[t]
Storing(h) == \E s \in Stores : content[s] = h /\ phase[s] \in {"placed", "conflict", "stored"}

-----------------------------------------------------------------------------
(* Storing: routes/artifacts.rs upload, output_store.rs, artifact_store.rs.  *)

Bytes(s) == IF by[s] = NoUser THEN 0 ELSE Size[content[s]]

Goto(s, p) == phase' = [phase EXCEPT ![s] = p] /\ UNCHANGED <<content, id, by, nextId>>

Finish(s) ==
  /\ phase' = [phase EXCEPT ![s] = "idle"]
  /\ content' = [content EXCEPT ![s] = NoHash]
  /\ id' = [id EXCEPT ![s] = 0] /\ by' = [by EXCEPT ![s] = NoUser]
  /\ UNCHANGED nextId

(* release_storage: GREATEST(0, used - bytes) *)
Release(s) ==
  used' = [u \in Users |-> IF u # by[s] THEN used[u]
                           ELSE IF used[u] < Bytes(s) THEN 0 ELSE used[u] - Bytes(s)]

(* Mutant: an upload that fails keeps its reservation. *)
FailKeeping(s) == Finish(s) /\ UNCHANGED <<used, billed, unreserved>>

(* An error after the reservation gives the bytes back. *)
Fail(s) == Release(s) /\ Finish(s) /\ UNCHANGED <<billed, unreserved>>

(* The multipart body was streamed to a temporary file and hashed (it is     *)
(* within upload_max_bytes and the user's max_upload_bytes); a tool's output *)
(* or a CLI import has its data at hand.                                     *)
BeginStore(s, h, u) ==
  /\ phase[s] = "idle" /\ nextId \in Ids
  /\ phase' = [phase EXCEPT ![s] = IF u = NoUser THEN "reserved" ELSE "streamed"]
  /\ content' = [content EXCEPT ![s] = h]
  /\ id' = [id EXCEPT ![s] = nextId] /\ by' = [by EXCEPT ![s] = u]
  /\ nextId' = nextId + 1
  /\ UNCHANGED <<tables, money, ticks, mishaps>>

(* Mutant: the new bytes are not counted in the comparison. *)
FitsWithoutNew(s) == used[by[s]] <= Limit[by[s]]

Fits(s) == used[by[s]] + Bytes(s) <= Limit[by[s]]

(* reserve_storage_atomic: one UPDATE that checks and adds. *)
Reserve(s) ==
  /\ phase[s] = "streamed"
  /\ IF Fits(s)
     THEN used' = [used EXCEPT ![by[s]] = @ + Bytes(s)] /\ Goto(s, "reserved")
     ELSE Finish(s) /\ UNCHANGED used
  /\ UNCHANGED <<tables, billed, unreserved, ticks, mishaps>>

(* Its error is taken for success: unwrap_or(true). *)
ReserveErrs(s) ==
  /\ phase[s] = "streamed" /\ Fault
  /\ unreserved' = unreserved \cup {by[s]}
  /\ Goto(s, "reserved")
  /\ UNCHANGED <<tables, billed, used, ticks>>

(* Rename over data/xx/yy/hash; losing to another writer is as good.         *)
PlaceFile(s) ==
  /\ phase[s] = "reserved"
  /\ files' = files \cup {content[s]}
  /\ raced' = raced \cup {h \in {content[s]} : Doomed(h)}
  /\ Goto(s, "placed")
  /\ UNCHANGED <<blobs, art, owner, money, cand, current, mishaps>>

(* upsert_blob: INSERT ... ON CONFLICT DO NOTHING, *)
UpsertInsert(s) ==
  /\ phase[s] = "placed"
  /\ blobs' = blobs \cup {content[s]}
  /\ Goto(s, IF content[s] \in blobs THEN "conflict" ELSE "stored")
  /\ UNCHANGED <<files, art, owner, money, ticks, mishaps>>

(* then, after a conflict, a SELECT that fails if the row has gone again. *)
UpsertSelect(s) ==
  /\ phase[s] = "conflict"
  /\ IF content[s] \in blobs
     THEN Goto(s, "stored") /\ UNCHANGED money
     ELSE Fail(s)
  /\ UNCHANGED <<tables, ticks, mishaps>>

CommitArtifact(s) ==
  /\ art' = [art EXCEPT ![id[s]] = content[s]]
  /\ owner' = [owner EXCEPT ![id[s]] = by[s]]
  /\ billed' = [u \in Users |-> IF u = by[s] THEN billed[u] + Bytes(s) ELSE billed[u]]

(* create_artifact; artifacts.sha256 references blobs. *)
CreateArtifact(s) ==
  /\ phase[s] = "stored"
  /\ IF content[s] \in blobs
     THEN CommitArtifact(s) /\ Finish(s) /\ UNCHANGED <<used, unreserved>>
     ELSE Fail(s) /\ UNCHANGED <<art, owner>>
  /\ UNCHANGED <<files, blobs, ticks, mishaps>>

(* An I/O or database error on the way. *)
StoreErrs(s) ==
  /\ phase[s] \in {"reserved", "placed", "conflict", "stored"} /\ Fault
  /\ Fail(s)
  /\ UNCHANGED <<tables, ticks>>

(* begin_scoped or commit of the artifact's transaction fails: the handler   *)
(* returns through `?` without the release.  A commit that was applied but   *)
(* not acknowledged fails the same way.                                      *)
TransactionErrs(s) ==
  /\ phase[s] = "stored" /\ by[s] # NoUser /\ Fault
  /\ \/ UNCHANGED <<art, owner, billed>>
     \/ content[s] \in blobs /\ CommitArtifact(s)
  /\ Finish(s)
  /\ UNCHANGED <<files, blobs, used, unreserved, ticks>>

(* The API process dies in the middle of its requests. *)
ApiCrash ==
  /\ \E s \in Stores : phase[s] # "idle"
  /\ Fault
  /\ phase' = [s \in Stores |-> "idle"] /\ content' = [s \in Stores |-> NoHash]
  /\ id' = [s \in Stores |-> 0] /\ by' = [s \in Stores |-> NoUser]
  /\ UNCHANGED <<tables, money, nextId, ticks>>

(* DELETE of one artifact; the bytes stay on the user's account. *)
DeleteArtifact(a) ==
  /\ art[a] # NoHash
  /\ art' = [art EXCEPT ![a] = NoHash]
  /\ UNCHANGED <<files, blobs, owner, money, store, ticks, mishaps>>

(* DELETE of everything the tools of a project generated. *)
DeleteGenerated ==
  LET generated == {a \in Ids : art[a] # NoHash /\ owner[a] = NoUser} IN
  /\ generated # {}
  /\ art' = [a \in Ids |-> IF a \in generated THEN NoHash ELSE art[a]]
  /\ UNCHANGED <<files, blobs, owner, money, store, ticks, mishaps>>

-----------------------------------------------------------------------------
(* Blob garbage collection of `af tick` (commands/tick.rs).                  *)

Referenced(h) == \E a \in Ids : art[a] = h

(* Mutant: every blob is a candidate. *)
UnreferencedAll == blobs

(* find_unreferenced_blobs *)
Unreferenced == {h \in blobs : ~Referenced(h)}

Scan(t) ==
  /\ cand[t] = {} /\ Unreferenced # {}
  /\ cand' = [cand EXCEPT ![t] = Unreferenced]
  /\ raced' = raced \cup {h \in Unreferenced : Storing(h)}
  /\ UNCHANGED <<tables, money, store, current, mishaps>>

Done(t, h) ==
  /\ cand' = [cand EXCEPT ![t] = @ \ {h}]
  /\ current' = [current EXCEPT ![t] = NoHash]

(* Mutant: a file that is already gone is an error, and the row is skipped. *)
RemoveFileStrict(t, h) ==
  /\ h \in cand[t] /\ current[t] = NoHash
  /\ IF h \in files
     THEN current' = [current EXCEPT ![t] = h] /\ UNCHANGED cand
     ELSE Done(t, h)
  /\ files' = files \ {h}
  /\ UNCHANGED <<blobs, art, owner, money, store, raced, mishaps>>

(* Phase 1: the file goes, a missing one only draws a warning. *)
RemoveFile(t, h) ==
  /\ h \in cand[t] /\ current[t] = NoHash
  /\ files' = files \ {h}
  /\ current' = [current EXCEPT ![t] = h]
  /\ UNCHANGED <<blobs, art, owner, money, store, cand, raced, mishaps>>

RemoveFileErrs(t, h) ==
  /\ h \in cand[t] /\ current[t] = NoHash /\ Fault
  /\ Done(t, h)
  /\ UNCHANGED <<tables, money, store, raced>>

(* Phase 2: delete_blob_if_unreferenced. *)
RemoveRow(t) ==
  LET h == current[t] IN
  /\ h # NoHash
  /\ blobs' = IF Referenced(h) THEN blobs ELSE blobs \ {h}
  /\ Done(t, h)
  /\ UNCHANGED <<files, art, owner, money, store, raced, mishaps>>

RemoveRowErrs(t) ==
  /\ current[t] # NoHash /\ Fault
  /\ Done(t, current[t])
  /\ UNCHANGED <<tables, money, store, raced>>

TickCrash(t) ==
  /\ cand[t] # {} /\ Fault
  /\ cand' = [cand EXCEPT ![t] = {}] /\ current' = [current EXCEPT ![t] = NoHash]
  /\ UNCHANGED <<tables, money, store, raced>>

-----------------------------------------------------------------------------
StoreStep(s) ==
  \/ \E h \in Hashes, u \in Owners : BeginStore(s, h, u)
  \/ Reserve(s) \/ ReserveErrs(s) \/ PlaceFile(s)
  \/ UpsertInsert(s) \/ UpsertSelect(s)
  \/ CreateArtifact(s) \/ StoreErrs(s) \/ TransactionErrs(s)

CollectorStep(t) ==
  \/ Scan(t) \/ RemoveRow(t) \/ RemoveRowErrs(t) \/ TickCrash(t)
  \/ \E h \in Hashes : RemoveFile(t, h) \/ RemoveFileErrs(t, h)

Next ==
  \/ \E s \in Stores : StoreStep(s)
  \/ \E t \in Collectors : CollectorStep(t)
  \/ \E a \in Ids : DeleteArtifact(a)
  \/ DeleteGenerated \/ ApiCrash


Spec == Init /\ [][Next]_vars

(* Fairness: cron starts `af tick` every minute and it runs to its end. *)
Fairness ==
  \A t \in Collectors :
    /\ WF_vars(Scan(t)) /\ WF_vars(RemoveRow(t))
    /\ \A h \in Hashes : WF_vars(RemoveFile(t, h))

FairSpec == Spec /\ Fairness

-----------------------------------------------------------------------------
(* Properties.                                                              *)

(* An artifact can be downloaded, its row and its file are there, unless     *)
(* its content was stored while a tick had it as a candidate: two ticks that *)
(* overlap, crashes between the phases and late deletions alone lose nothing.*)
Readable(h) == h \in blobs /\ h \in files
LossOnlyByRace ==
  \A a \in Ids : art[a] # NoHash /\ art[a] \notin raced => Readable(art[a])

(* The bytes of a user's artifacts stay within max_storage_bytes, however    *)
(* many uploads of the user run at once and wherever they fail, as long as   *)
(* no failed reservation was taken for a granted one.                        *)
Stored(u) == SumFunction([a \in Ids |-> IF art[a] # NoHash /\ owner[a] = u THEN Size[art[a]] ELSE 0])
StoredWithinQuota == \A u \in Users \ unreserved : Stored(u) <= Limit[u]

(* storage_bytes_used is exactly what completed uploads and uploads in       *)
(* flight account for: every path that ends an upload without an artifact    *)
(* gives its bytes back, and none gives back twice.                          *)
InFlight(u) == SumFunction([s \in Stores |->
  IF by[s] = u /\ phase[s] \notin {"idle", "streamed"} THEN Size[content[s]] ELSE 0])
AccountingExact == mishaps = 0 => \A u \in Users : used[u] = billed[u] + InFlight(u)

(* A blob no artifact refers to is collected in the end, or referred to      *)
(* again, although a tick may die after it has removed the file.             *)
GarbageCollected == \A h \in Hashes : (h \in Unreferenced) ~> (h \notin Unreferenced)
=============================================================================
