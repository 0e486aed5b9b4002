--------------------------- MODULE ProjectsProofs ---------------------------
(***************************************************************************)
(* Proofs about what a project holds and what happens in it: the blobs and *)
(* artifacts of its users, its deletion, and its hooks, for any number of  *)
(* stores, collectors, users, contents, hooks and tick processes.          *)
(***************************************************************************)
EXTENDS BlobStore, Hooks, ProjectDeletion, SumProofs

(***************************************************************************)
(*                                BlobStore                                *)
(***************************************************************************)
(* A store has a content from its first step to its last, and what it        *)
(* charges to a user is a number of bytes.                                   *)
StoreShape ==
  \A s \in Stores : /\ phase[s] # "idle" => content[s] \in Hashes
                    /\ by[s] # NoUser => content[s] \in Hashes
                    /\ phase[s] = "streamed" => by[s] \in Users

TypeInv == TypeOK /\ StoreShape

(* The initial state is well typed. *)
LEMMA TypeInit == Init => TypeInv
<1> SUFFICES ASSUME Init PROVE TypeInv
  OBVIOUS
<1>1. files \in SUBSET Hashes /\ blobs \in SUBSET Hashes /\ raced \in SUBSET Hashes
  BY DEF Init
<1>2. nextId \in 1..(MaxArtifacts + 1) /\ mishaps \in 0..MaxMishaps /\ unreserved \in SUBSET Users
  BY BlobConstants DEF Init
<1>3. art \in [Ids -> Hashes \cup {NoHash}] /\ owner \in [Ids -> Owners]
  BY DEF Init, Owners
<1>4. billed \in [Users -> Nat] /\ used \in [Users -> Nat]
  BY DEF Init
<1>5. /\ phase \in [Stores -> Phases] /\ content \in [Stores -> Hashes \cup {NoHash}]
      /\ id \in [Stores -> Nat] /\ by \in [Stores -> Owners]
  BY DEF Init, Phases, Owners
<1>6. cand \in [Collectors -> SUBSET Hashes] /\ current \in [Collectors -> Hashes \cup {NoHash}]
  BY DEF Init
<1>7. StoreShape
  BY DEF Init, StoreShape
<1> QED
  BY <1>1, <1>2, <1>3, <1>4, <1>5, <1>6, <1>7 DEF TypeInv, TypeOK

(* release_storage never takes the account of a user below zero.             *)
LEMMA ReleaseType ==
  ASSUME TypeInv, NEW s \in Stores, Release(s)
  PROVE  used' \in [Users -> Nat]
<1>1. \A u \in Users : by[s] = u => Bytes(s) \in Nat
  BY BlobConstants DEF TypeInv, TypeOK, StoreShape, Bytes
<1>2. \A u \in Users : used[u] \in Nat
  BY DEF TypeInv, TypeOK
<1> DEFINE released(u) == IF u # by[s] THEN used[u]
                          ELSE IF used[u] < Bytes(s) THEN 0 ELSE used[u] - Bytes(s)
<1>3. \A u \in Users : released(u) \in Nat
  BY <1>1, <1>2
<1>4. used' = [u \in Users |-> released(u)]
  BY DEF Release
<1> HIDE DEF released
<1> QED
  BY <1>3, <1>4

(* Every step keeps the types and the shape of the stores. *)
LEMMA TypeStep == TypeInv /\ [Next]_vars => TypeInv'
<1> SUFFICES ASSUME TypeInv, [Next]_vars PROVE TypeInv'
  OBVIOUS
<1> USE BlobConstants
    DEF TypeInv, TypeOK, StoreShape, Phases, Owners, tables, money, store, ticks
<1>1. ASSUME NEW s \in Stores, NEW h \in Hashes, NEW u \in Owners, BeginStore(s, h, u)
      PROVE TypeInv'
  BY <1>1 DEF BeginStore, Ids
<1>2. ASSUME NEW s \in Stores, Reserve(s) PROVE TypeInv'
  <2>1. Fits(s) /\ by[s] \in Users => used' \in [Users -> Nat]
    BY <1>2 DEF Reserve, Fits, Bytes, Goto
  <2>2. used' \in [Users -> Nat]
    BY <1>2, <2>1 DEF Reserve
  <2> QED
    BY <1>2, <2>2, SMTT(20) DEF Reserve, Goto, Finish
<1>3. ASSUME NEW s \in Stores, ReserveErrs(s) \/ PlaceFile(s) \/ UpsertInsert(s)
      PROVE TypeInv'
  BY <1>3 DEF ReserveErrs, PlaceFile, UpsertInsert, Goto, Fault
<1>4. ASSUME NEW s \in Stores, UpsertSelect(s) PROVE TypeInv'
  BY <1>4, ReleaseType DEF UpsertSelect, Goto, Fail, Finish
<1>5. ASSUME NEW s \in Stores, phase[s] = "stored", CommitArtifact(s)
      PROVE /\ art' \in [Ids -> Hashes \cup {NoHash}]
            /\ owner' \in [Ids -> Owners] /\ billed' \in [Users -> Nat]
  <2>1. art' \in [Ids -> Hashes \cup {NoHash}] /\ owner' \in [Ids -> Owners]
    BY <1>5 DEF CommitArtifact
  <2>2. billed' \in [Users -> Nat]
    BY <1>5 DEF CommitArtifact, Bytes
  <2> QED
    BY <2>1, <2>2
<1>6. ASSUME NEW s \in Stores, CreateArtifact(s) PROVE TypeInv'
  BY <1>5, <1>6, ReleaseType DEF CreateArtifact, Fail, Finish
<1>7. ASSUME NEW s \in Stores, StoreErrs(s) PROVE TypeInv'
  BY <1>7, ReleaseType DEF StoreErrs, Fail, Finish, Fault
<1>8. ASSUME NEW s \in Stores, TransactionErrs(s) PROVE TypeInv'
  BY <1>5, <1>8 DEF TransactionErrs, Finish, Fault
<1>9. ASSUME ApiCrash PROVE TypeInv'
  BY <1>9 DEF ApiCrash, Fault
<1>10. ASSUME NEW a \in Ids, DeleteArtifact(a) PROVE TypeInv'
  BY <1>10 DEF DeleteArtifact
<1>11. ASSUME DeleteGenerated PROVE TypeInv'
  BY <1>11 DEF DeleteGenerated
<1>12. ASSUME NEW t \in Collectors, Scan(t) PROVE TypeInv'
  BY <1>12 DEF Scan, Unreferenced
<1>13. ASSUME NEW t \in Collectors, NEW h \in Hashes, RemoveFile(t, h) \/ RemoveFileErrs(t, h)
       PROVE TypeInv'
  BY <1>13 DEF RemoveFile, RemoveFileErrs, Done, Fault
<1>14. ASSUME NEW t \in Collectors, RemoveRow(t) \/ RemoveRowErrs(t) \/ TickCrash(t)
       PROVE TypeInv'
  BY <1>14 DEF RemoveRow, RemoveRowErrs, TickCrash, Done, Fault
<1>15. CASE UNCHANGED vars
  BY <1>15 DEF vars
<1> QED
  BY <1>1, <1>2, <1>3, <1>4, <1>6, <1>7, <1>8, <1>9, <1>10, <1>11, <1>12, <1>13, <1>14,
     <1>15 DEF Next, StoreStep, CollectorStep

(* Type correctness of the store: in particular storage_bytes_used never     *)
(* becomes negative, whatever reservations failed.                           *)
THEOREM TypeCorrect == Spec => []TypeOK
<1>1. Spec => []TypeInv
  BY TypeInit, TypeStep, PTL DEF Spec
<1>2. TypeInv => TypeOK
  BY DEF TypeInv
<1> QED
  BY <1>1, <1>2, PTL
-----------------------------------------------------------------------------
(* Data loss.  LossOnlyByRace is not inductive: it must also be known that   *)
(* no tick still has the content of an artifact as a candidate, and the same *)
(* of a store that has placed its file but not created its artifact.         *)

(* The steps between the rename and the artifact. *)
Placed(s) == phase[s] \in {"placed", "conflict", "stored"}
Safe(h) == h \in files /\ \A t \in Collectors : h \notin cand[t]

LossInv ==
  /\ \A a \in Ids : art[a] # NoHash => art[a] \in blobs
  /\ \A a \in Ids : art[a] # NoHash /\ art[a] \notin raced => Safe(art[a])
  /\ \A s \in Stores : Placed(s) /\ content[s] \notin raced => Safe(content[s])
  /\ \A t \in Collectors : current[t] # NoHash => current[t] \in cand[t]

(* Initially nothing is stored. *)
LEMMA LossInit == Init => LossInv
  BY DEF Init, LossInv, Placed

(* Every step keeps the invariant. *)
LEMMA LossStep == TypeInv /\ LossInv /\ [Next]_vars => LossInv'
<1> SUFFICES ASSUME TypeInv, LossInv, [Next]_vars PROVE LossInv'
  OBVIOUS
<1> USE BlobConstants DEF TypeInv, TypeOK, StoreShape, tables, money, store, ticks
<1>1. ASSUME NEW s \in Stores, NEW h \in Hashes, NEW u \in Owners, BeginStore(s, h, u)
      PROVE LossInv'
  BY <1>1 DEF BeginStore, LossInv, Placed, Safe
<1>2. ASSUME NEW s \in Stores, Reserve(s) \/ ReserveErrs(s) PROVE LossInv'
  BY <1>2 DEF Reserve, ReserveErrs, Goto, Finish, LossInv, Placed, Safe
<1>3. ASSUME NEW s \in Stores, PlaceFile(s) PROVE LossInv'
  <2>1. /\ files' = files \cup {content[s]}
        /\ raced' = raced \cup {h \in {content[s]} : Doomed(h)}
        /\ \A x \in Stores : Placed(x)' => x = s \/ Placed(x)
        /\ UNCHANGED <<blobs, art, cand, current, content>>
    BY <1>3 DEF PlaceFile, Goto, Placed
  <2>2. content[s] \notin raced' => Safe(content[s])'
    BY <2>1 DEF Safe, Doomed
  <2> QED
    BY <2>1, <2>2 DEF LossInv, Safe
<1>4. ASSUME NEW s \in Stores, UpsertInsert(s) PROVE LossInv'
  BY <1>4 DEF UpsertInsert, Goto, LossInv, Placed, Safe
<1>5. ASSUME NEW s \in Stores, UpsertSelect(s) PROVE LossInv'
  BY <1>5 DEF UpsertSelect, Goto, Fail, Finish, LossInv, Placed, Safe
<1>6. ASSUME NEW s \in Stores, phase[s] = "stored", content[s] \in blobs, CommitArtifact(s), Finish(s),
             UNCHANGED <<files, blobs, cand, current, raced>>
      PROVE LossInv'
  BY <1>6 DEF CommitArtifact, Finish, LossInv, Placed, Safe
<1>7. ASSUME NEW s \in Stores, CreateArtifact(s) PROVE LossInv'
  <2>1. CASE content[s] \in blobs
    BY <1>6, <1>7, <2>1 DEF CreateArtifact
  <2>2. CASE content[s] \notin blobs
    BY <1>7, <2>2 DEF CreateArtifact, Fail, Finish, LossInv, Placed, Safe
  <2> QED
    BY <2>1, <2>2
<1>8. ASSUME NEW s \in Stores, StoreErrs(s) PROVE LossInv'
  BY <1>8 DEF StoreErrs, Fail, Finish, LossInv, Placed, Safe
<1>9. ASSUME NEW s \in Stores, TransactionErrs(s) PROVE LossInv'
  <2>1. CASE UNCHANGED art
    BY <1>9, <2>1 DEF TransactionErrs, Finish, LossInv, Placed, Safe
  <2>2. CASE content[s] \in blobs /\ CommitArtifact(s)
    BY <1>6, <1>9, <2>2 DEF TransactionErrs
  <2> QED
    BY <1>9, <2>1, <2>2 DEF TransactionErrs
<1>10. ASSUME ApiCrash PROVE LossInv'
  BY <1>10 DEF ApiCrash, LossInv, Placed, Safe
<1>11. ASSUME NEW a \in Ids, DeleteArtifact(a) PROVE LossInv'
  BY <1>11 DEF DeleteArtifact, LossInv, Placed, Safe
<1>12. ASSUME DeleteGenerated PROVE LossInv'
  BY <1>12 DEF DeleteGenerated, LossInv, Placed, Safe
<1>13. ASSUME NEW t \in Collectors, Scan(t) PROVE LossInv'
  <2>1. /\ cand' = [cand EXCEPT ![t] = Unreferenced]
        /\ raced' = raced \cup {h \in Unreferenced : Storing(h)}
        /\ current[t] = NoHash
        /\ UNCHANGED <<files, blobs, art, current, phase, content>>
    BY <1>13 DEF Scan, LossInv
  <2>2. \A a \in Ids : art[a] \notin Unreferenced
    BY DEF Unreferenced, Referenced
  <2>3. \A s \in Stores : Placed(s) /\ content[s] \in Unreferenced => content[s] \in raced'
    BY <2>1 DEF Storing, Placed
  <2> QED
    BY <2>1, <2>2, <2>3 DEF LossInv, Placed, Safe
<1>14. ASSUME NEW t \in Collectors, NEW h \in Hashes, RemoveFile(t, h) PROVE LossInv'
  BY <1>14 DEF RemoveFile, LossInv, Placed, Safe
<1>15. ASSUME NEW t \in Collectors, NEW h \in Hashes, RemoveFileErrs(t, h) PROVE LossInv'
  BY <1>15 DEF RemoveFileErrs, Done, LossInv, Placed, Safe
<1>16. ASSUME NEW t \in Collectors, RemoveRow(t) PROVE LossInv'
  BY <1>16 DEF RemoveRow, Done, Referenced, LossInv, Placed, Safe
<1>17. ASSUME NEW t \in Collectors, RemoveRowErrs(t) \/ TickCrash(t) PROVE LossInv'
  BY <1>17 DEF RemoveRowErrs, TickCrash, Done, LossInv, Placed, Safe
<1>18. CASE UNCHANGED vars
  BY <1>18 DEF vars, LossInv, Placed, Safe
<1> QED
  BY <1>1, <1>2, <1>3, <1>4, <1>5, <1>7, <1>8, <1>9, <1>10, <1>11, <1>12, <1>13, <1>14,
     <1>15, <1>16, <1>17, <1>18 DEF Next, StoreStep, CollectorStep

(* A content whose store never met a tick that had it as a candidate is      *)
(* readable through every artifact that refers to it: overlapping ticks,     *)
(* crashes between the phases of a tick, failed stores and late deletions    *)
(* alone lose no data.                                                       *)
THEOREM LossNeedsRace == Spec => []LossOnlyByRace
<1>1. Init => TypeInv /\ LossInv
  BY TypeInit, LossInit
<1>2. (TypeInv /\ LossInv) /\ [Next]_vars => (TypeInv /\ LossInv)'
  BY TypeStep, LossStep
<1>3. TypeInv /\ LossInv => LossOnlyByRace
  BY DEF LossInv, LossOnlyByRace, Readable, Safe
<1> QED
  BY <1>1, <1>2, <1>3, PTL DEF Spec

-----------------------------------------------------------------------------
(* The quota.  What a user may store is bounded by what has been reserved:   *)
(* every artifact was paid for, and no two stores use the same artifact row. *)
OwnIds ==
  /\ \A s \in Stores : phase[s] # "idle" => id[s] \in Ids /\ id[s] < nextId /\ art[id[s]] = NoHash
  /\ \A r \in Stores, s \in Stores :
       phase[r] # "idle" /\ phase[s] # "idle" /\ id[r] = id[s] => r = s
  /\ \A a \in Ids : a >= nextId => art[a] = NoHash

(* The bytes of u in each artifact, and in each store that has reserved.     *)
Holdings(u)   == [a \in Ids |-> IF art[a] # NoHash /\ owner[a] = u THEN Size[art[a]] ELSE 0]
Flying(u) == [s \in Stores |->
  IF by[s] = u /\ phase[s] \notin {"idle", "streamed"} THEN Size[content[s]] ELSE 0]

(* No store has begun. *)
LEMMA OwnIdsInit == Init => OwnIds
  BY BlobConstants DEF Init, OwnIds, Ids

(* The artifact ids of stores stay their own. *)
LEMMA OwnIdsStep == TypeInv /\ OwnIds /\ [Next]_vars => OwnIds'
<1> SUFFICES ASSUME TypeInv, OwnIds, [Next]_vars PROVE OwnIds'
  OBVIOUS
<1> USE BlobConstants DEF TypeInv, TypeOK, tables, money, store, ticks, Ids
<1>1. ASSUME NEW s \in Stores, NEW h \in Hashes, NEW u \in Owners, BeginStore(s, h, u)
      PROVE OwnIds'
  BY <1>1 DEF BeginStore, OwnIds
<1>2. ASSUME NEW s \in Stores, Goto(s, "reserved") \/ Goto(s, "placed") \/ Goto(s,
       "conflict") \/ Goto(s, "stored"),
             phase[s] # "idle", UNCHANGED art PROVE OwnIds'
  <2>1. \A r \in Stores : phase'[r] # "idle" => phase[r] # "idle"
    BY <1>2 DEF Goto
  <2> QED  BY <1>2, <2>1 DEF Goto, OwnIds
<1>3. ASSUME NEW s \in Stores, Finish(s), UNCHANGED art PROVE OwnIds'
  BY <1>3 DEF Finish, OwnIds
<1>4. ASSUME NEW s \in Stores, Finish(s), CommitArtifact(s), phase[s] = "stored" PROVE OwnIds'
  BY <1>4 DEF Finish, CommitArtifact, OwnIds
<1>5. ASSUME NEW s \in Stores, StoreStep(s) PROVE OwnIds'
  BY <1>1, <1>2, <1>3, <1>4, <1>5
  DEF StoreStep, Reserve, ReserveErrs, PlaceFile, UpsertInsert, UpsertSelect, CreateArtifact,
  StoreErrs,
      TransactionErrs, Fail
<1>6. ASSUME ApiCrash PROVE OwnIds'
  BY <1>6 DEF ApiCrash, OwnIds
<1>7. ASSUME NEW a \in Ids, DeleteArtifact(a) PROVE OwnIds'
  BY <1>7 DEF DeleteArtifact, OwnIds
<1>8. ASSUME DeleteGenerated PROVE OwnIds'
  BY <1>8 DEF DeleteGenerated, OwnIds
<1>9. ASSUME NEW t \in Collectors, CollectorStep(t) PROVE OwnIds'
  BY <1>9 DEF CollectorStep, Scan, RemoveRow, RemoveRowErrs, TickCrash, RemoveFile, RemoveFileErrs,
  OwnIds
<1>10. CASE UNCHANGED vars
  BY <1>10 DEF vars, OwnIds
<1> QED  BY <1>5, <1>6, <1>7, <1>8, <1>9, <1>10 DEF Next

(* The ids are bounded. *)
LEMMA IdsFinite == IsFiniteSet(Ids)
  BY FS_Interval, BlobConstants DEF Ids

(* The two sums of the model as sums of those functions. *)
SumsTyped ==
  \A u \in Users :
    /\ Holdings(u) \in [Ids -> Nat] /\ Flying(u) \in [Stores -> Nat]
    /\ Stored(u) = SumFunction(Holdings(u)) /\ Stored(u) \in Nat
    /\ InFlight(u) = SumFunction(Flying(u)) /\ InFlight(u) \in Nat

(* In a well-typed state they are natural numbers, *)
LEMMA SumTypes == TypeInv => SumsTyped
<1> SUFFICES ASSUME TypeInv PROVE SumsTyped
  OBVIOUS
<1>1. ASSUME NEW u \in Users PROVE Holdings(u) \in [Ids -> Nat]
  BY BlobConstants DEF Holdings, TypeInv, TypeOK
<1>2. ASSUME NEW u \in Users PROVE Flying(u) \in [Stores -> Nat]
  BY BlobConstants DEF Flying, TypeInv, TypeOK, StoreShape
<1>3. IsFiniteSet(Ids) /\ IsFiniteSet(Stores)
  BY BlobConstants, IdsFinite
<1>4. ASSUME NEW u \in Users
      PROVE  Stored(u) = SumFunction(Holdings(u)) /\ InFlight(u) = SumFunction(Flying(u))
  BY DEF Stored, InFlight, Holdings, Flying
<1> QED  BY <1>1, <1>2, <1>3, <1>4, SumType DEF SumsTyped

(* and in the next one, too. *)
LEMMA SumTypesNext == TypeInv' => SumsTyped'
  BY SumTypes, PTL

(* What s has reserved of the quota of u. *)
Share(s, u) == IF by[s] = u THEN Size[content[s]] ELSE 0

(* A step that leaves the entries of u alone leaves what is in flight alone. *)
LEMMA FlightSame ==
  ASSUME NEW u \in Users, Flying(u)' = Flying(u) PROVE InFlight(u)' = InFlight(u)
  BY DEF Flying, InFlight

(* A step that changes one store's entry changes the sum by as much. *)
LEMMA FlightChanges ==
  ASSUME TypeInv, TypeInv', NEW u \in Users, NEW s \in Stores,
         \A r \in Stores \ {s} : Flying(u)'[r] = Flying(u)[r]
  PROVE  InFlight(u)' = InFlight(u) + Flying(u)'[s] - Flying(u)[s]
<1>1. SumsTyped /\ SumsTyped'
  BY SumTypes, SumTypesNext
<1> DEFINE f == Flying(u)
           g == Flying(u)'
<1> HIDE DEF f, g
<1>2. f \in [Stores -> Nat] /\ g \in [Stores -> Nat] /\ \A r \in Stores \ {s} : g[r] = f[r]
  BY <1>1 DEF f, g, SumsTyped
<1>3. SumFunction(g) = SumFunction(f) + g[s] - f[s]
  BY <1>2, SumChange, BlobConstants
<1> QED  BY <1>1, <1>3 DEF f, g, SumsTyped

(* The same of artifacts. *)
LEMMA KeptChanges ==
  ASSUME TypeInv, TypeInv', NEW u \in Users, NEW b \in Ids,
         \A a \in Ids \ {b} : Holdings(u)'[a] = Holdings(u)[a]
  PROVE  Stored(u)' = Stored(u) + Holdings(u)'[b] - Holdings(u)[b]
<1>1. SumsTyped /\ SumsTyped'
  BY SumTypes, SumTypesNext
<1> DEFINE f == Holdings(u)
           g == Holdings(u)'
<1> HIDE DEF f, g
<1>2. f \in [Ids -> Nat] /\ g \in [Ids -> Nat] /\ \A a \in Ids \ {b} : g[a] = f[a]
  BY <1>1 DEF f, g, SumsTyped
<1>3. SumFunction(g) = SumFunction(f) + g[b] - f[b]
  BY <1>2, SumChange, IdsFinite
<1> QED  BY <1>1, <1>3 DEF f, g, SumsTyped

(* Deleting artifacts adds nothing to anybody. *)
LEMMA KeptShrinks ==
  ASSUME TypeInv, TypeInv', NEW u \in Users, \A a \in Ids : Holdings(u)'[a] <= Holdings(u)[a]
  PROVE  Stored(u)' <= Stored(u)
<1>1. SumsTyped /\ SumsTyped'
  BY SumTypes, SumTypesNext
<1> DEFINE f == Holdings(u)
           g == Holdings(u)'
<1> HIDE DEF f, g
<1>2. f \in [Ids -> Nat] /\ g \in [Ids -> Nat] /\ \A a \in Ids : g[a] <= f[a]
  BY <1>1 DEF f, g, SumsTyped
<1>3. SumFunction(g) <= SumFunction(f)
  BY <1>2, SumGrows, IdsFinite
<1> QED  BY <1>1, <1>3 DEF f, g, SumsTyped

(* The steps of a store as the sums see them: the end of one that has        *)
(* reserved,                                                                 *)
LEMMA FinishFrees ==
  ASSUME TypeInv, TypeInv', NEW u \in Users, NEW s \in Stores, Finish(s),
         phase[s] \notin {"idle", "streamed"}
  PROVE  InFlight(u)' = InFlight(u) - Share(s, u)
<1>1. \A r \in Stores \ {s} : Flying(u)'[r] = Flying(u)[r]
  BY DEF Finish, Flying, TypeInv, TypeOK
<1>2. Flying(u)'[s] = 0 /\ Flying(u)[s] = Share(s, u)
  BY DEF Finish, Flying, Share, TypeInv, TypeOK
<1>3. InFlight(u)' = InFlight(u) + 0 - Share(s, u)
  BY <1>1, <1>2, FlightChanges
<1>4. InFlight(u) \in Nat
  BY SumTypes DEF SumsTyped
<1>5. Share(s, u) \in Nat
  BY BlobConstants DEF Share, TypeInv, TypeOK, StoreShape
<1> QED  BY <1>3, <1>4, <1>5

(* the end of one that was refused, *)
LEMMA RefusedSame ==
  ASSUME TypeInv, NEW u \in Users, NEW s \in Stores, Finish(s), phase[s] = "streamed"
  PROVE  InFlight(u)' = InFlight(u)
  BY FlightSame DEF Finish, Flying, TypeInv, TypeOK

(* a step on the way, *)
LEMMA GotoSame ==
  ASSUME TypeInv, NEW u \in Users, NEW s \in Stores, NEW p \in {"reserved", "placed", "conflict",
         "stored"},
         Goto(s, p), phase[s] \notin {"idle", "streamed"} \/ by[s] # u
  PROVE  InFlight(u)' = InFlight(u)
  BY FlightSame DEF Goto, Flying, TypeInv, TypeOK

(* the reservation, *)
LEMMA ReserveAdds ==
  ASSUME TypeInv, TypeInv', NEW u \in Users, NEW s \in Stores, Goto(s, "reserved"),
         phase[s] = "streamed"
  PROVE  InFlight(u)' = InFlight(u) + Share(s, u)
<1>1. \A r \in Stores \ {s} : Flying(u)'[r] = Flying(u)[r]
  BY DEF Goto, Flying, TypeInv, TypeOK
<1>2. Flying(u)'[s] = Share(s, u) /\ Flying(u)[s] = 0
  BY DEF Goto, Flying, Share, TypeInv, TypeOK
<1>3. InFlight(u)' = InFlight(u) + Share(s, u) - 0
  BY <1>1, <1>2, FlightChanges
<1>4. InFlight(u) \in Nat
  BY SumTypes DEF SumsTyped
<1>5. Share(s, u) \in Nat
  BY BlobConstants DEF Share, TypeInv, TypeOK, StoreShape
<1> QED  BY <1>3, <1>4, <1>5

(* and the artifact. *)
LEMMA CommitAdds ==
  ASSUME TypeInv, TypeInv', OwnIds, NEW u \in Users, NEW s \in Stores, CommitArtifact(s), phase[s] # "idle"
  PROVE  Stored(u)' = Stored(u) + Share(s, u) /\ billed'[u] = billed[u] + Share(s, u)
<1>0. id[s] \in Ids /\ art[id[s]] = NoHash /\ content[s] \in Hashes /\ by[s] \in Owners
  BY DEF OwnIds, TypeInv, TypeOK, StoreShape
<1>1. \A a \in Ids \ {id[s]} : Holdings(u)'[a] = Holdings(u)[a]
  BY DEF CommitArtifact, Holdings, TypeInv, TypeOK
<1>2. Holdings(u)'[id[s]] = Share(s, u) /\ Holdings(u)[id[s]] = 0
  BY <1>0, BlobConstants DEF CommitArtifact, Holdings, Share, TypeInv, TypeOK
<1>3. Stored(u)' = Stored(u) + Share(s, u) - 0
  BY <1>0, <1>1, <1>2, KeptChanges
<1>4. Stored(u) \in Nat /\ billed[u] \in Nat
  BY SumTypes DEF SumsTyped, TypeInv, TypeOK
<1>5. Share(s, u) \in Nat
  BY BlobConstants DEF Share, TypeInv, TypeOK, StoreShape
<1>6. billed'[u] = billed[u] + Share(s, u)
  BY <1>4, BlobConstants DEF CommitArtifact, Share, Bytes, Owners
<1> QED  BY <1>3, <1>4, <1>5, <1>6

(* The account of u: within the limit, covering what is stored and in        *)
(* flight, and exact as long as nothing has failed.                          *)
Balanced(u) ==
  /\ used[u] <= Limit[u]
  /\ u \notin unreserved => Stored(u) + InFlight(u) <= used[u]
  /\ mishaps = 0 => used[u] = billed[u] + InFlight(u)

MoneyInv == OwnIds /\ \A u \in Users : Balanced(u)

(* All of these are natural numbers. *)
LEMMA Numbers ==
  ASSUME TypeInv, TypeInv', NEW u \in Users
  PROVE  /\ used[u] \in Nat /\ billed[u] \in Nat /\ Stored(u) \in Nat /\ InFlight(u) \in Nat
         /\ used'[u] \in Nat /\ billed'[u] \in Nat /\ Stored(u)' \in Nat /\ InFlight(u)' \in Nat
         /\ Limit[u] \in Nat /\ mishaps \in Nat /\ mishaps' \in Nat
<1>1. SumsTyped /\ SumsTyped'
  BY SumTypes, SumTypesNext
<1> QED  BY <1>1, BlobConstants DEF SumsTyped, TypeInv, TypeOK

(* A step that touches no account and adds to no sum. *)
LEMMA AccountsStay ==
  ASSUME TypeInv, TypeInv', NEW u \in Users, Balanced(u), UNCHANGED <<used, billed>>,
         unreserved \subseteq unreserved',
         \/ InFlight(u)' = InFlight(u) \/ u \in unreserved'
         \/ InFlight(u)' + Stored(u)' <= InFlight(u) + Stored(u),
         InFlight(u)' = InFlight(u) \/ mishaps' # 0,
         \/ Stored(u)' <= Stored(u) \/ u \in unreserved'
         \/ InFlight(u)' + Stored(u)' <= InFlight(u) + Stored(u),
         mishaps' = 0 => mishaps = 0
  PROVE  Balanced(u)'
<1> DEFINE i == InFlight(u)   k == Stored(u)   j == InFlight(u)'   l == Stored(u)'   m == used[u]
<1>1. i \in Nat /\ k \in Nat /\ j \in Nat /\ l \in Nat /\ m \in Nat
  BY Numbers
<1>2. (j = i /\ l <= k) \/ u \in unreserved' \/ j + l <= i + k
  OBVIOUS
<1>3. u \notin unreserved => k + i <= m
  BY DEF Balanced
<1> HIDE DEF i, j, k, l, m
<1>4. u \notin unreserved' => l + j <= m
  BY <1>1, <1>2, <1>3
<1>5. u \notin unreserved' => Stored(u)' + InFlight(u)' <= used'[u]
  BY <1>4 DEF l, j, m
<1>6. mishaps' = 0 => used'[u] = billed'[u] + InFlight(u)'
  BY DEF Balanced
<1> QED  BY <1>5, <1>6 DEF Balanced

(* A store that fails gives back what it has reserved.                       *)
LEMMA FailStep ==
  ASSUME TypeInv, TypeInv', NEW u \in Users, Balanced(u), NEW s \in Stores, Fail(s),
         phase[s] \notin {"idle", "streamed"}, UNCHANGED <<art, owner>>, mishaps' = 0 => mishaps = 0
  PROVE  Balanced(u)'
<1> DEFINE i == InFlight(u)   k == Stored(u)   m == used[u]   b == billed[u]   c == Share(s,
u)   n == used'[u]
<1>1. i \in Nat /\ k \in Nat /\ m \in Nat /\ b \in Nat /\ c \in Nat /\ n \in Nat /\ Limit[u] \in Nat
  BY Numbers, BlobConstants DEF Share, TypeInv, TypeOK, StoreShape
<1>2. InFlight(u)' = i - c /\ InFlight(u)' \in Nat
  BY FinishFrees, Numbers DEF Fail
<1>3. Stored(u)' = k
  BY DEF Stored
<1>4. n = IF m < c THEN 0 ELSE m - c
  <2>1. CASE by[s] = u
    BY <2>1, BlobConstants DEF Fail, Release, Share, Bytes
  <2>2. CASE by[s] # u
    BY <1>1, <2>2 DEF Fail, Release, Share
  <2> QED  BY <2>1, <2>2
<1>5. /\ m <= Limit[u]
      /\ u \notin unreserved => k + i <= m
      /\ mishaps = 0 => m = b + i
  BY DEF Balanced
<1>6. unreserved' = unreserved /\ billed'[u] = b
  BY DEF Fail
<1> HIDE DEF i, k, m, b, c, n
<1>7. n <= Limit[u] /\ (u \notin unreserved => k + (i - c) <= n) /\ (mishaps = 0 => n = b + (i - c))
  <2>1. i - c \in Nat
    BY <1>2
  <2> QED  BY <1>1, <1>4, <1>5, <2>1
<1>8. used'[u] = n
  BY DEF n
<1> QED  BY <1>2, <1>3, <1>6, <1>7, <1>8 DEF Balanced

(* A reservation is granted only within the limit.                           *)
LEMMA GrantStep ==
  ASSUME TypeInv, TypeInv', NEW u \in Users, Balanced(u), NEW s \in Stores,
         phase[s] = "streamed", Fits(s),
         used' = [used EXCEPT ![by[s]] = @ + Bytes(s)], Goto(s, "reserved"),
         UNCHANGED <<art, owner, billed, unreserved, mishaps>>
  PROVE  Balanced(u)'
<1> DEFINE i == InFlight(u)   k == Stored(u)   m == used[u]   b == billed[u]   c == Share(s, u)
<1>1. i \in Nat /\ k \in Nat /\ m \in Nat /\ b \in Nat /\ c \in Nat /\ Limit[u] \in Nat
  BY Numbers, BlobConstants DEF Share, TypeInv, TypeOK, StoreShape
<1>2. InFlight(u)' = i + c /\ Stored(u)' = k
  BY ReserveAdds DEF Stored
<1>3. used'[u] = m + c /\ m + c <= Limit[u]
  <2>1. CASE by[s] = u
    BY <2>1, BlobConstants DEF Fits, Bytes, Share, TypeInv, TypeOK
  <2>2. CASE by[s] # u
    BY <1>1, <2>2 DEF Share, Balanced, TypeInv, TypeOK
  <2> QED  BY <2>1, <2>2
<1>4. (u \notin unreserved => k + i <= m) /\ (mishaps = 0 => m = b + i)
  BY DEF Balanced
<1> HIDE DEF i, k, m, b, c
<1>5. (u \notin unreserved => k + (i + c) <= m + c) /\ (mishaps = 0 => m + c = b + (i + c))
  BY <1>1, <1>4
<1> QED  BY <1>2, <1>3, <1>5 DEF Balanced, b

(* An artifact takes over what its store has reserved. *)
LEMMA CommitStep ==
  ASSUME TypeInv, TypeInv', OwnIds, NEW u \in Users, Balanced(u), NEW s \in Stores,
         phase[s] = "stored",
         CommitArtifact(s), Finish(s), UNCHANGED <<used, unreserved>>, mishaps' = 0 => mishaps = 0
  PROVE  Balanced(u)'
<1> DEFINE i == InFlight(u)   k == Stored(u)   m == used[u]   b == billed[u]   c == Share(s, u)
<1>1. i \in Nat /\ k \in Nat /\ m \in Nat /\ b \in Nat /\ c \in Nat
  BY Numbers, BlobConstants DEF Share, TypeInv, TypeOK, StoreShape
<1>2. InFlight(u)' = i - c /\ Stored(u)' = k + c /\ billed'[u] = b + c
  BY FinishFrees, CommitAdds
<1>3. (u \notin unreserved => k + i <= m) /\ (mishaps = 0 => m = b + i)
  BY DEF Balanced
<1> HIDE DEF i, k, m, b, c
<1>4. (u \notin unreserved => (k + c) + (i - c) <= m) /\ (mishaps = 0 => m = (b + c) + (i - c))
  BY <1>1, <1>3
<1> QED  BY <1>2, <1>4 DEF Balanced, m

(* Every step of a store keeps every user's account in balance, *)
LEMMA StoreStepBalanced ==
  ASSUME TypeInv, TypeInv', OwnIds, NEW u \in Users, Balanced(u), NEW s \in Stores, StoreStep(s)
  PROVE  Balanced(u)'
<1>0. mishaps \in Nat /\ Stored(u) \in Nat /\ (Fault => mishaps' # 0 /\ (mishaps' = 0 => mishaps = 0))
  BY Numbers, BlobConstants DEF Fault, TypeInv, TypeOK
<1>1. UNCHANGED <<art, owner>> => Stored(u)' = Stored(u)
  BY DEF Stored
<1>2. ASSUME NEW h \in Hashes, NEW v \in Owners, BeginStore(s, h, v) PROVE Balanced(u)'
  <2>1. Flying(u)' = Flying(u)
    BY <1>2, BlobConstants DEF BeginStore, Flying, TypeInv, TypeOK
  <2>2. InFlight(u)' = InFlight(u)
    BY <2>1, FlightSame
  <2> QED  BY <1>0, <1>1, <1>2, <2>2, AccountsStay DEF BeginStore, tables, money
<1>3. ASSUME Reserve(s) PROVE Balanced(u)'
  <2>1. CASE Fits(s)
    BY <1>3, <2>1, GrantStep DEF Reserve, tables, ticks
  <2>2. CASE ~Fits(s)
    <3>1. InFlight(u)' = InFlight(u)
      BY <1>3, <2>2, RefusedSame DEF Reserve
    <3> QED  BY <1>0, <1>1, <1>3, <2>2, <3>1, AccountsStay DEF Reserve, tables
  <2> QED  BY <2>1, <2>2
<1>4. ASSUME ReserveErrs(s) PROVE Balanced(u)'
  <2>1. InFlight(u)' = InFlight(u) \/ u \in unreserved'
    BY <1>4, GotoSame DEF ReserveErrs
  <2> QED  BY <1>0, <1>1, <1>4, <2>1, AccountsStay DEF ReserveErrs, tables
<1>5. ASSUME NEW p \in {"placed", "conflict", "stored"}, Goto(s, p), phase[s] \notin {"idle",
       "streamed"},
             UNCHANGED <<art, owner, money, mishaps>>
      PROVE  Balanced(u)'
  <2>1. InFlight(u)' = InFlight(u)
    BY <1>5, GotoSame
  <2> QED  BY <1>0, <1>1, <1>5, <2>1, AccountsStay DEF money
<1>6. ASSUME PlaceFile(s) \/ UpsertInsert(s) PROVE Balanced(u)'
  BY <1>5, <1>6 DEF PlaceFile, UpsertInsert
<1>7. ASSUME UpsertSelect(s) PROVE Balanced(u)'
  BY <1>5, <1>7, FailStep DEF UpsertSelect, tables
<1>8. ASSUME CreateArtifact(s) PROVE Balanced(u)'
  BY <1>8, CommitStep, FailStep DEF CreateArtifact
<1>9. ASSUME StoreErrs(s) PROVE Balanced(u)'
  BY <1>0, <1>9, FailStep DEF StoreErrs, tables
<1>10. ASSUME TransactionErrs(s) PROVE Balanced(u)'
  <2>1. CASE CommitArtifact(s)
    BY <1>0, <1>10, <2>1, CommitStep DEF TransactionErrs
  <2>2. CASE UNCHANGED <<art, owner, billed>>
    <3>1. InFlight(u)' = InFlight(u) - Share(s, u)
      BY <1>10, FinishFrees DEF TransactionErrs
    <3>2. Share(s, u) \in Nat
      BY BlobConstants DEF Share, TypeInv, TypeOK, StoreShape
    <3>3. InFlight(u)' + Stored(u)' <= InFlight(u) + Stored(u)
      BY <1>1, <2>2, <3>1, <3>2, Numbers
    <3> QED  BY <1>0, <1>10, <2>2, <3>3, AccountsStay DEF TransactionErrs
  <2> QED  BY <1>10, <2>1, <2>2 DEF TransactionErrs
<1> QED
  BY <1>2, <1>3, <1>4, <1>6, <1>7, <1>8, <1>9, <1>10 DEF StoreStep

(* and so does every other step. *)
LEMMA MoneyStep ==
  ASSUME TypeInv, TypeInv', MoneyInv, [Next]_vars PROVE MoneyInv'
<1> SUFFICES ASSUME NEW u \in Users PROVE Balanced(u)'
  BY OwnIdsStep DEF MoneyInv
<1>0. OwnIds /\ Balanced(u)
  BY DEF MoneyInv
<1>1. ASSUME NEW s \in Stores, StoreStep(s) PROVE Balanced(u)'
  BY <1>0, <1>1, StoreStepBalanced
<1>2. ASSUME UNCHANGED <<money, store, mishaps>>, Stored(u)' <= Stored(u) PROVE Balanced(u)'
  <2>1. InFlight(u)' = InFlight(u)
    BY <1>2 DEF InFlight, store
  <2> QED  BY <1>0, <1>2, <2>1, AccountsStay DEF money
<1>3. ASSUME NEW t \in Collectors, CollectorStep(t) PROVE Balanced(u)'
  <2>1. UNCHANGED <<art, owner, money, store>> /\ (mishaps' = 0 => mishaps = 0)
    BY <1>3, BlobConstants
    DEF CollectorStep, Scan, RemoveRow, RemoveRowErrs, TickCrash, RemoveFile, RemoveFileErrs, Fault,
    tables,
        TypeInv, TypeOK
  <2>2. InFlight(u)' = InFlight(u) /\ Stored(u)' = Stored(u) /\ Stored(u) \in Nat
    BY <2>1, Numbers DEF InFlight, Stored, store
  <2> QED  BY <1>0, <2>1, <2>2, AccountsStay DEF money
<1>4. ASSUME NEW a \in Ids, DeleteArtifact(a) PROVE Balanced(u)'
  <2>1. \A b \in Ids : Holdings(u)'[b] <= Holdings(u)[b]
    <3>1. Holdings(u) \in [Ids -> Nat]
      BY SumTypes DEF SumsTyped
    <3>2. \A b \in Ids : Holdings(u)'[b] \in {0, Holdings(u)[b]}
      BY <1>4 DEF DeleteArtifact, Holdings, TypeInv, TypeOK
    <3> QED  BY <3>1, <3>2
  <2> QED  BY <1>2, <1>4, <2>1, KeptShrinks DEF DeleteArtifact
<1>5. ASSUME DeleteGenerated PROVE Balanced(u)'
  <2>1. \A b \in Ids : Holdings(u)'[b] <= Holdings(u)[b]
    <3>1. Holdings(u) \in [Ids -> Nat]
      BY SumTypes DEF SumsTyped
    <3>2. \A b \in Ids : Holdings(u)'[b] \in {0, Holdings(u)[b]}
      BY <1>5 DEF DeleteGenerated, Holdings, TypeInv, TypeOK
    <3> QED  BY <3>1, <3>2
  <2> QED  BY <1>2, <1>5, <2>1, KeptShrinks DEF DeleteGenerated
<1>6. ASSUME ApiCrash PROVE Balanced(u)'
  <2>1. Flying(u)' = [s \in Stores |-> 0]
    BY <1>6 DEF ApiCrash, Flying
  <2>2. InFlight(u)' = 0
    <3>1. InFlight(u)' = SumFunction(Flying(u)')
      BY SumTypesNext DEF SumsTyped
    <3>2. SumFunction([s \in Stores |-> 0]) = 0
      BY SumOfZeros, BlobConstants
    <3> QED  BY <2>1, <3>1, <3>2
  <2>3. Stored(u)' = Stored(u)
    BY <1>6 DEF ApiCrash, Stored, tables
  <2>4. InFlight(u)' + Stored(u)' <= InFlight(u) + Stored(u)
    BY <2>2, <2>3, Numbers
  <2>5. mishaps' # 0 /\ Stored(u) \in Nat
    BY <1>6, Numbers DEF ApiCrash, Fault
  <2> QED  BY <1>0, <1>6, <2>3, <2>4, <2>5, AccountsStay DEF ApiCrash, money
<1>7. CASE UNCHANGED vars
  <2>1. Stored(u)' = Stored(u) /\ Stored(u) \in Nat
    BY <1>7, Numbers DEF vars, tables, Stored
  <2> QED  BY <1>2, <1>7, <2>1 DEF vars
<1> QED
  BY <1>1, <1>3, <1>4, <1>5, <1>6, <1>7 DEF Next

(* Nobody owes anything to begin with. *)
LEMMA MoneyInit == Init => MoneyInv
<1> SUFFICES ASSUME Init, NEW u \in Users PROVE Balanced(u)
  BY OwnIdsInit DEF MoneyInv
<1>1. SumsTyped
  BY TypeInit, SumTypes
<1>2. Holdings(u) = [a \in Ids |-> 0] /\ Flying(u) = [s \in Stores |-> 0]
  BY DEF Init, Holdings, Flying
<1>3. Stored(u) = 0 /\ InFlight(u) = 0
  <2>1. SumFunction([a \in Ids |-> 0]) = 0
    BY SumOfZeros, IdsFinite
  <2>2. SumFunction([s \in Stores |-> 0]) = 0
    BY SumOfZeros, BlobConstants
  <2> QED  BY <1>1, <1>2, <2>1, <2>2 DEF SumsTyped
<1> QED  BY <1>3, BlobConstants DEF Balanced, Init

(* However many uploads run at once and wherever they fail, what is stored   *)
(* of a user is within the limit, unless a failed reservation was taken for  *)
(* a granted one.                                                            *)
THEOREM StorageIsBounded == Spec => []StoredWithinQuota
<1>1. Init => TypeInv /\ MoneyInv
  BY TypeInit, MoneyInit
<1>2. (TypeInv /\ MoneyInv) /\ [Next]_vars => (TypeInv /\ MoneyInv)'
  BY TypeStep, MoneyStep
<1>3. TypeInv /\ MoneyInv => StoredWithinQuota
  <2> SUFFICES ASSUME TypeInv, MoneyInv, NEW u \in Users \ unreserved PROVE Stored(u) <= Limit[u]
    BY DEF StoredWithinQuota
  <2>1. Stored(u) \in Nat /\ InFlight(u) \in Nat /\ used[u] \in Nat /\ Limit[u] \in Nat
    BY SumTypes, BlobConstants DEF SumsTyped, TypeInv, TypeOK
  <2> QED  BY <2>1 DEF MoneyInv, Balanced
<1> QED  BY <1>1, <1>2, <1>3, PTL DEF Spec

(* As long as nothing has failed, the account of a user is exactly what was  *)
(* uploaded and what is on its way.                                          *)
THEOREM AccountsAreExact == Spec => []AccountingExact
<1>1. Init => TypeInv /\ MoneyInv
  BY TypeInit, MoneyInit
<1>2. (TypeInv /\ MoneyInv) /\ [Next]_vars => (TypeInv /\ MoneyInv)'
  BY TypeStep, MoneyStep
<1>3. TypeInv /\ MoneyInv => AccountingExact
  BY DEF MoneyInv, Balanced, AccountingExact
<1> QED  BY <1>1, <1>2, <1>3, PTL DEF Spec

(***************************************************************************)
(*                            ProjectDeletion                              *)
(***************************************************************************)
(* The thirteen statements, in their order. *)
LEMMA StatementList ==
  /\ DOMAIN Statements = 1..13 /\ Len(Statements) = 13
  /\ Statements[1] = DeleteFrom({"evidence"}, TRUE)
  /\ Statements[2] = DeleteFrom({"messages"}, TRUE)
  /\ Statements[3] = DeleteFrom({"thread_log"}, TRUE)
  /\ Statements[4] = DeleteFrom({"scheduled"}, TRUE)
  /\ Statements[5] = DeleteFrom({"threads"}, TRUE)
  /\ Statements[6] = DeleteFrom({"run_artifacts"}, TRUE)
  /\ Statements[7] = DeleteFrom({"run_events"}, TRUE)
  /\ Statements[8] = DeleteFrom({"tool_runs"}, TRUE)
  /\ Statements[9] = DeleteFrom({"artifacts"}, TRUE)
  /\ Statements[10] = DeleteFrom({"members"}, TRUE)
  /\ Statements[11] = DeleteFrom({"hooks"}, FALSE)
  /\ Statements[12] = DeleteFrom({"thread_log", "project_log"}, FALSE)
  /\ Statements[13] = DeleteFrom({"projects"}, TRUE)
<1> DEFINE a == DeleteFrom({"evidence"}, TRUE)
           b == DeleteFrom({"messages"}, TRUE)
           c == DeleteFrom({"thread_log"}, TRUE)
           d == DeleteFrom({"scheduled"}, TRUE)
           e == DeleteFrom({"threads"}, TRUE)
           f == DeleteFrom({"run_artifacts"}, TRUE)
           g == DeleteFrom({"run_events"}, TRUE)
           h == DeleteFrom({"tool_runs"}, TRUE)
           i == DeleteFrom({"artifacts"}, TRUE)
           j == DeleteFrom({"members"}, TRUE)
           k == DeleteFrom({"hooks"}, FALSE)
           l == DeleteFrom({"thread_log", "project_log"}, FALSE)
           m == DeleteFrom({"projects"}, TRUE)
<1>0. Statements = <<a, b, c, d, e>> \o <<f, g, h>> \o <<i, j, k, l, m>>
  BY DEF Statements, ThreadStatements, RunStatements
<1> HIDE DEF a, b, c, d, e, f, g, h, i, j, k, l, m
<1>n. DOMAIN Statements = 1..13 /\ Len(Statements) = 13
  BY <1>0
<1>1. Statements[1] = a
  BY <1>0
<1>2. Statements[2] = b
  BY <1>0
<1>3. Statements[3] = c
  BY <1>0
<1>4. Statements[4] = d
  BY <1>0
<1>5. Statements[5] = e
  BY <1>0
<1>6. Statements[6] = f
  BY <1>0
<1>7. Statements[7] = g
  BY <1>0
<1>8. Statements[8] = h
  BY <1>0
<1>9. Statements[9] = i
  BY <1>0
<1>10. Statements[10] = j
  BY <1>0
<1>11. Statements[11] = k
  BY <1>0
<1>12. Statements[12] = l
  BY <1>0
<1>13. Statements[13] = m
  BY <1>0
<1> QED
  BY <1>n, <1>1, <1>2, <1>3, <1>4, <1>5, <1>6, <1>7, <1>8, <1>9, <1>10, <1>11, <1>12, <1>13
  DEF a, b, c, d, e, f, g, h, i, j, k, l, m

-----------------------------------------------------------------------------
(* Deleting a project.  rows, gone and late hold what they should; outside   *)
(* of a transaction nothing is deleted or locked.                            *)
Kept ==
  /\ rows \subseteq Tables /\ gone \subseteq rows /\ late \subseteq gone
  /\ seat \in {"admin", "owner", "user"} /\ role \in [{"own", "all"} -> Roles]
  /\ step \in 0..14
  /\ step = 0 => gone = {} /\ late = {}
  /\ answer # "none" => step = 0

(* Foreign keys hold, in what is committed and in what the transaction sees. *)
KeysHold ==
  /\ \A t \in rows : References[t] \subseteq rows
  /\ \A t \in Found : References[t] \subseteq Found

(* Row-level security hides nothing from owners and administrators. *)
OwnersInv ==
  seat # "user" =>
    /\ step = 14 => "projects" \notin Found
    /\ answer = "deleted" => rows = {}

(* As long as nobody interferes, the transaction has deleted all that its    *)
(* statements name, until it has deleted the membership by which it sees.    *)
FullView == seat # "user" \/ role["own"] # "none" \/ (role["all"] # "none" /\ ~narrow)

AloneInv ==
  step > 0 /\ ~disturbed =>
    /\ late = {} /\ FullView
    /\ Visible => \A i \in 1..(step - 1) : Statements[i].tables \cap rows \subseteq gone
    /\ ~Visible => step > 10

DeletionInv == Kept /\ KeysHold /\ OwnersInv /\ AloneInv /\ FailuresExplained

(* A request finds no transaction under way. *)
LEMMA DeletionStarts == DeletionInit => DeletionInv
<1> SUFFICES ASSUME DeletionInit PROVE DeletionInv
  OBVIOUS
<1> USE DeletionConstants DEF DeletionInit
<1>1. Kept
  BY DEF Kept, Roles
<1>2. KeysHold
  BY DEF KeysHold, Found
<1>3. OwnersInv /\ AloneInv /\ FailuresExplained
  BY DEF OwnersInv, AloneInv, FailuresExplained
<1> QED
  BY <1>1, <1>2, <1>3 DEF DeletionInv

(* A project's row is what every other row needs in the end. *)
LEMMA AllNeedProjects ==
  ASSUME NEW F \in SUBSET Tables, \A t \in F : References[t] \subseteq F, "projects" \notin F
  PROVE  F = {}
<1> USE DEF Tables, References
<1>1. "threads" \notin F /\ "tool_runs" \notin F /\ "artifacts" \notin F /\ "members" \notin F
      /\ "hooks" \notin F /\ "project_log" \notin F
  OBVIOUS
<1>2. "messages" \notin F /\ "thread_log" \notin F /\ "scheduled" \notin F /\ "memory" \notin F
      /\ "run_artifacts" \notin F /\ "run_events" \notin F
  BY <1>1
<1>3. "evidence" \notin F
  BY <1>2
<1> QED
  BY <1>1, <1>2, <1>3

(* What a statement does to what the transaction sees. *)
LEMMA Executed ==
  ASSUME Kept, KeysHold, Execute
  PROVE  Found' = Found \ Hit /\ KeysHold' /\ Hit \subseteq Found
<1>1. Hit \subseteq Found
  BY DEF Hit
<1>2. Found' = Found \ Hit
  BY <1>1 DEF Execute, Found, Kept
<1>3. KeysHold'
  BY <1>1, <1>2 DEF KeysHold, Execute, Orphans
<1> QED
  BY <1>1, <1>2, <1>3

(* Left alone, the order of the statements offends no foreign key but that   *)
(* of a thread's memory.                                                     *)
LEMMA NoOrphans ==
  ASSUME Kept, AloneInv, step \in DOMAIN Statements, ~disturbed, "memory" \notin rows
  PROVE  ~Orphans
<1> SUFFICES ASSUME NEW t \in Found \ Hit, References[t] \cap Hit # {} PROVE FALSE
  BY DEF Orphans
<1>1. step \in 1..13 /\ late = {} /\ t \in rows \ gone /\ t # "memory" /\ t \in Tables
  BY StatementList DEF AloneInv, Found, Kept
<1>2. Hit \subseteq Statements[step].tables /\ Statements[step].tables \cap Found \subseteq rows
  BY DEF Hit, Found, Kept
<1>3. CASE Visible
  <2>1. t \notin Statements[step].tables
    BY <1>3 DEF Hit
  <2>2. \A i \in 1..(step - 1) : t \notin Statements[i].tables
    BY <1>1, <1>3 DEF AloneInv
  <2> QED
    BY <1>1, <1>2, <2>1, <2>2, StatementList DEF DeleteFrom, Tables, References
<1>4. CASE ~Visible
  <2>1. step \in 11..13
    BY <1>1, <1>4 DEF AloneInv
  <2>2. step = 13 => Hit = {}
    BY <1>4, StatementList DEF Hit, DeleteFrom
  <2> QED
    BY <1>1, <1>2, <2>1, <2>2, StatementList DEF DeleteFrom, Tables, References
<1> QED
  BY <1>3, <1>4

(* Every step of the transaction and of the other sessions keeps it. *)
LEMMA DeletionStep ==
  ASSUME DeletionInv, [DeletionNext]_deletionVars
  PROVE  DeletionInv'
<1> USE DEF DeletionInv
<1>1. CASE Ask
  <2>1. Kept' /\ KeysHold'
    BY <1>1 DEF Ask, Kept, KeysHold, Found
  <2>2. OwnersInv' /\ FailuresExplained'
    BY <1>1 DEF Ask, OwnersInv, FailuresExplained, Found
  <2>3. AloneInv'
    BY <1>1 DEF Ask, AloneInv, Kept, Visible, FullView
  <2> QED
    BY <2>1, <2>2, <2>3
<1>2. CASE Execute
  <2>1. KeysHold' /\ Found' = Found \ Hit /\ Hit \subseteq Found
    BY <1>2, Executed
  <2>2. Kept' /\ step' = step + 1 /\ step \in 1..13
    BY <1>2, <2>1, StatementList DEF Execute, Kept, Found
  <2>3. OwnersInv'
    BY <1>2, <2>1, <2>2, StatementList DEF Execute, OwnersInv, Hit, Visible, DeleteFrom, Kept
  <2>4. FailuresExplained'
    BY <1>2 DEF Execute, FailuresExplained
  <2>5. AloneInv'
    <3> SUFFICES ASSUME ~disturbed PROVE AloneInv'
      BY <1>2 DEF AloneInv, Execute
    <3>1. late' = {} /\ FullView' /\ rows' = rows /\ gone' = gone \cup Hit
      BY <1>2, <2>2 DEF AloneInv, Execute, FullView
    <3>2. Visible' => Visible
      BY <1>2 DEF Visible, Execute
    <3>3. ASSUME Visible, NEW i \in 1..step PROVE Statements[i].tables \cap rows \subseteq gone'
      BY <2>2, <3>1, <3>3 DEF AloneInv, Hit, Found
    <3>4. ASSUME ~Visible', Visible PROVE step = 10
      <4>1. "members" \notin gone /\ "members" \in Hit
        BY <1>2, <3>4 DEF Visible, Execute
      <4> QED
        BY <2>2, <4>1, StatementList DEF Hit, DeleteFrom
    <3> QED
      BY <2>2, <3>1, <3>2, <3>3, <3>4 DEF AloneInv
  <2> QED
    BY <2>1, <2>2, <2>3, <2>4, <2>5
<1>3. CASE Violates
  <2>1. Kept' /\ KeysHold' /\ AloneInv'
    BY <1>3 DEF Violates, Rollback, Kept, KeysHold, Found, AloneInv
  <2>2. OwnersInv'
    BY <1>3 DEF Violates, Rollback, OwnersInv
  <2>3. FailuresExplained'
    BY <1>3, NoOrphans DEF Violates, Rollback, FailuresExplained
  <2> QED
    BY <2>1, <2>2, <2>3
<1>4. CASE Commit
  <2>1. step = 14 /\ step' = 0 /\ rows' = Found /\ Found' = Found
    BY <1>4, StatementList DEF Commit, Found
  <2>2. Found \subseteq Tables
    BY DEF Kept, Found
  <2>3. Kept' /\ KeysHold' /\ AloneInv'
    BY <1>4, <2>1, <2>2 DEF Commit, Kept, KeysHold, AloneInv, Roles
  <2>4. OwnersInv'
    BY <1>4, <2>1, <2>2, AllNeedProjects DEF Commit, OwnersInv, KeysHold
  <2>5. FailuresExplained'
    BY <1>4 DEF Commit, FailuresExplained
  <2> QED
    BY <2>3, <2>4, <2>5
<1>5. CASE Disconnect
  BY <1>5 DEF Disconnect, Rollback, Kept, KeysHold, Found, AloneInv, OwnersInv, FailuresExplained
<1>6. CASE SetRole
  <2>1. /\ seat = "user" /\ rows' = rows \cup {"members"} /\ role' \in [{"own", "all"} -> Roles]
        /\ UNCHANGED <<seat, narrow, step, gone, late, answer>>
        /\ "projects" \in Found /\ "members" \notin gone
    BY <1>6 DEF SetRole, Kept
  <2>2. Found' = Found \cup {"members"} /\ "members" \in Tables /\ References["members"] = {"projects"}
        /\ "projects" \in rows
    BY <2>1 DEF Found, Kept, Tables, References
  <2>3. Kept' /\ KeysHold' /\ OwnersInv'
    BY <2>1, <2>2 DEF Kept, KeysHold, OwnersInv
  <2>4. AloneInv' /\ FailuresExplained'
    BY <1>6, <2>1 DEF SetRole, Disturb, AloneInv, FailuresExplained, Kept
  <2> QED
    BY <2>3, <2>4
<1>7. CASE Migrate
  BY <1>7 DEF Migrate, Disturb, Kept, KeysHold, Found, AloneInv, OwnersInv, FailuresExplained
<1>8. ASSUME NEW t \in Tables, Insert(t) PROVE DeletionInv'
  <2>1. t # "projects" /\ t \notin Found /\ References[t] \subseteq Found /\ Found' = Found \cup {t}
    BY <1>8 DEF Insert, Found, Kept
  <2>2. /\ UNCHANGED <<seat, role, narrow, step, gone, answer>>
        /\ rows \subseteq rows' /\ rows' \subseteq rows \cup {t} /\ late' \subseteq late \cup {t}
        /\ late' # late => t \in gone /\ rows' = rows
    BY <1>8 DEF Insert
  <2>3. Kept'
    BY <2>2 DEF Kept
  <2>4. KeysHold'
    BY <2>1, <2>2 DEF KeysHold, Kept, Found
  <2>5. References[t] # {}
    BY <2>1 DEF Tables, References
  <2>6. OwnersInv'
    BY <2>1, <2>2, <2>5 DEF OwnersInv, Kept, Found
  <2>7. AloneInv' /\ FailuresExplained'
    BY <1>8, <2>2 DEF Insert, Disturb, AloneInv, FailuresExplained, Kept
  <2> QED
    BY <2>3, <2>4, <2>6, <2>7
<1>9. CASE UNCHANGED deletionVars
  BY <1>9 DEF deletionVars, Kept, KeysHold, Found, AloneInv, Visible, FullView, OwnersInv, FailuresExplained
<1> QED
  BY <1>1, <1>2, <1>3, <1>4, <1>5, <1>6, <1>7, <1>8, <1>9 DEF DeletionNext

(* However many other sessions write or change roles meanwhile: a deletion   *)
(* that the database refuses meets the memory of a thread, or what another   *)
(* session wrote.                                                            *)
THEOREM FailuresAreExplained == DeletionSpec => []FailuresExplained
<1>1. DeletionInv /\ [DeletionNext]_deletionVars => DeletionInv'
  BY DeletionStep
<1>2. DeletionInv => FailuresExplained
  BY DEF DeletionInv
<1> QED
  BY <1>1, <1>2, DeletionStarts, PTL DEF DeletionSpec

(* When an owner or an administrator is told that the project is deleted, no *)
(* table holds a row of it, and none will.                                   *)
THEOREM OwnersLeaveNothing == DeletionSpec => []OwnersDeleteAll
<1>1. DeletionInv /\ [DeletionNext]_deletionVars => DeletionInv'
  BY DeletionStep
<1>2. DeletionInv => OwnersDeleteAll
  BY DEF DeletionInv, OwnersInv, OwnersDeleteAll
<1> QED
  BY <1>1, <1>2, DeletionStarts, PTL DEF DeletionSpec

(***************************************************************************)
(*                                 Hooks                                   *)
(***************************************************************************)
USE HookConstants DEF Never

(* What the argument needs of the types. *)
Typed ==
  /\ row \in [HookIds -> Hook] /\ now \in Nat
  /\ due \in [Ticks -> SUBSET Listed]
  /\ fired \subseteq [hook : HookIds, gen : Nat, at : Nat, interval : Intervals]

(* A row remembers its latest firing: none is newer in number or in time. *)
FiringsRemembered ==
  /\ \A h \in HookIds : row[h].last <= now
  /\ \A f \in fired : /\ f.gen <= row[f.hook].gen
                      /\ row[f.hook].last # Never
                      /\ f.at <= row[f.hook].last

(* A listed row is an old version of the table's, or is due still. *)
EntryHolds(e) ==
  /\ e.gen <= row[e.hook].gen
  /\ e.gen = row[e.hook].gen =>
       row[e.hook].last = Never \/ now - row[e.hook].last >= e.interval

ListsHold == \A t \in Ticks : \A e \in due[t] : EntryHolds(e)

SpacedInv == Typed /\ FiringsRemembered /\ ListsHold /\ FiresSpaced

-----------------------------------------------------------------------------
(* Nothing is listed or fired at first. *)
LEMMA SpacedInit == HooksInit => SpacedInv
<1> SUFFICES ASSUME HooksInit PROVE SpacedInv
  OBVIOUS
<1> USE DEF HooksInit
<1>1. row \in [HookIds -> Hook]
  BY DEF Hook
<1>2. \A h \in HookIds : row[h].last = -1
  OBVIOUS
<1> QED
  BY <1>1, <1>2 DEF SpacedInv, Typed, FiringsRemembered, ListsHold, FiresSpaced

(* A step after which rows are as numbered and as dated as before, no list   *)
(* is longer and nothing has fired.                                          *)
LEMMA QuietStep ==
  ASSUME SpacedInv, row' \in [HookIds -> Hook], now' \in Nat, now <= now',
         \A h \in HookIds : row'[h].last = row[h].last /\ row'[h].gen = row[h].gen,
         due' \in [Ticks -> SUBSET Listed],
         \A t \in Ticks : due'[t] \subseteq due[t],
         fired' = fired
  PROVE  SpacedInv'
<1> USE DEF SpacedInv, Typed
<1>1. Typed'
  OBVIOUS
<1>2. FiringsRemembered'
  <2>1. \A h \in HookIds : row[h].last \in Int
    BY DEF Hook
  <2> QED
    BY <2>1 DEF FiringsRemembered
<1>3. ListsHold'
  <2> SUFFICES ASSUME NEW t \in Ticks, NEW e \in due'[t] PROVE EntryHolds(e)'
    BY DEF ListsHold
  <2>1. e \in due[t] /\ e \in Listed
    OBVIOUS
  <2>2. EntryHolds(e) /\ e.hook \in HookIds /\ e.interval \in Nat
    BY <2>1 DEF ListsHold, Listed
  <2>3. row[e.hook].last \in Int
    BY <2>2 DEF Hook
  <2> QED
    BY <2>2, <2>3 DEF EntryHolds
<1>4. FiresSpaced'
  BY DEF FiresSpaced
<1> QED
  BY <1>1, <1>2, <1>3, <1>4

(* The numbers in a row. *)
LEMMA RowTypes ==
  ASSUME Typed, NEW h \in HookIds
  PROVE  row[h].last \in Int /\ row[h].interval \in Nat /\ row[h].gen \in Nat
<1>1. row[h] \in Hook
  BY DEF Typed
<1>2. /\ row[h].interval \in Intervals /\ row[h].gen \in Nat
      /\ row[h].last \in Nat \cup {Never}
  BY <1>1 DEF Hook
<1>3. row[h].last \in Int
  BY <1>2
<1>4. row[h].interval \in Nat
  BY <1>2
<1> QED
  BY <1>2, <1>3, <1>4

(* What is listed is due. *)
LEMMA ListStep ==
  ASSUME SpacedInv, NEW t \in Ticks, ListDue(t)
  PROVE  SpacedInv'
<1> USE DEF SpacedInv, Typed, ListDue, table, bounds
<1>1. Typed'
  <2>1. due'[t] \subseteq Listed
    BY DEF Hook, Listed
  <2> QED
    BY <2>1
<1>2. ListsHold'
  <2> SUFFICES ASSUME NEW s \in Ticks, NEW e \in due'[s] PROVE EntryHolds(e)'
    BY DEF ListsHold
  <2>1. CASE s # t
    BY <2>1 DEF ListsHold, EntryHolds
  <2>2. CASE s = t
    <3>1. PICK h \in HookIds : IsDue(h) /\ e = [hook |-> h, gen |-> row[h].gen,
                                                interval |-> row[h].interval]
      BY <2>2
    <3>2. row[h].last \in Int /\ row[h].interval \in Nat /\ row[h].gen \in Nat
      BY RowTypes
    <3>3. row[h].last = Never \/ now - row[h].last >= row[h].interval
      BY <3>1, <3>2 DEF IsDue
    <3> QED
      BY <3>1, <3>2, <3>3 DEF EntryHolds
  <2> QED
    BY <2>1, <2>2
<1>3. FiringsRemembered' /\ FiresSpaced'
  BY DEF FiringsRemembered, FiresSpaced
<1> QED
  BY <1>1, <1>2, <1>3

(* The claimed entry is due still, and its number is spent for every list. *)
LEMMA ClaimStep ==
  ASSUME SpacedInv, NEW t \in Ticks, Claim(t)
  PROVE  SpacedInv'
<1> USE DEF SpacedInv, Typed
<1>1. PICK e \in due[t] :
        /\ Claimable(e)
        /\ row' = [row EXCEPT ![e.hook].last = now, ![e.hook].gen = @ + 1]
        /\ due' = [due EXCEPT ![t] = @ \ {e}]
        /\ fired' = fired \cup {[hook |-> e.hook, gen |-> row[e.hook].gen + 1,
                                 at |-> now, interval |-> e.interval]}
  BY DEF Claim
<1> DEFINE h == e.hook
           f == [hook |-> h, gen |-> row[h].gen + 1, at |-> now, interval |-> e.interval]
<1>2. /\ e \in Listed /\ h \in HookIds /\ e.interval \in Intervals /\ e.interval \in Nat
      /\ EntryHolds(e) /\ e.gen = row[h].gen /\ now' = now
  BY <1>1 DEF ListsHold, Listed, Claimable, Claim
<1>3. \A i \in HookIds : row[i].last \in Int /\ row[i].gen \in Nat
  BY DEF Hook
<1>4. row'[h].last = now /\ row'[h].gen = row[h].gen + 1
  BY <1>1, <1>2 DEF Hook
<1>5. \A i \in HookIds \ {h} : row'[i] = row[i]
  BY <1>1
<1>6. row' \in [HookIds -> Hook]
  BY <1>1, <1>2, <1>3 DEF Hook
<1>7. Typed'
  <2>1. f \in [hook : HookIds, gen : Nat, at : Nat, interval : Intervals]
    BY <1>2, <1>3
  <2> QED
    BY <2>1, <1>1, <1>2, <1>6
<1>8. FiringsRemembered'
  <2>1. ASSUME NEW i \in HookIds PROVE row'[i].last <= now
    BY <1>3, <1>4, <1>5 DEF FiringsRemembered
  <2>2. ASSUME NEW g \in fired
        PROVE  g.gen <= row'[g.hook].gen /\ row'[g.hook].last # Never /\ g.at <= row'[g.hook].last
    <3>1. /\ g.hook \in HookIds /\ g.gen \in Nat /\ g.at \in Nat
          /\ g.gen <= row[g.hook].gen /\ row[g.hook].last # Never /\ g.at <= row[g.hook].last
          /\ row[g.hook].last <= now
      BY DEF FiringsRemembered
    <3> QED
      BY <3>1, <1>3, <1>4, <1>5
  <2>3. f.gen <= row'[f.hook].gen /\ row'[f.hook].last # Never /\ f.at <= row'[f.hook].last
    BY <1>2, <1>3, <1>4
  <2> QED
    BY <1>1, <1>2, <2>1, <2>2, <2>3 DEF FiringsRemembered
<1>9. ListsHold'
  <2> SUFFICES ASSUME NEW s \in Ticks, NEW d \in due'[s] PROVE EntryHolds(d)'
    BY DEF ListsHold
  <2>1. d \in due[s] /\ d \in Listed
    BY <1>1
  <2>2. d.hook \in HookIds /\ d.gen \in Nat /\ EntryHolds(d)
    BY <2>1 DEF Listed, ListsHold
  <2>3. CASE d.hook = h
    BY <2>2, <2>3, <1>3, <1>4 DEF EntryHolds
  <2>4. CASE d.hook # h
    BY <2>2, <2>4, <1>2, <1>5 DEF EntryHolds
  <2> QED
    BY <2>3, <2>4
<1>10. ASSUME NEW g \in fired, g.hook = h
       PROVE  g.gen < f.gen /\ f.at - g.at >= f.interval
  <2>1. /\ g.gen \in Nat /\ g.at \in Nat
        /\ g.gen <= row[h].gen /\ row[h].last # Never /\ g.at <= row[h].last
    BY <1>10 DEF FiringsRemembered
  <2>2. now - row[h].last >= e.interval
    BY <1>2, <2>1 DEF EntryHolds
  <2> QED
    BY <1>2, <1>3, <2>1, <2>2
<1>11. FiresSpaced'
  <2> SUFFICES ASSUME NEW a \in fired', NEW b \in fired', a.hook = b.hook, a # b
               PROVE  a.gen # b.gen /\ (a.gen < b.gen => b.at - a.at >= b.interval)
    BY DEF FiresSpaced
  <2>0. f.gen \in Nat /\ \A g \in fired : g.gen \in Nat
    BY <1>2, <1>3
  <2>1. CASE a \in fired /\ b \in fired
    BY <2>1 DEF FiresSpaced
  <2>2. CASE a = f /\ b \in fired
    <3> HIDE DEF f
    <3>1. b.gen < f.gen
      BY <2>2, <1>10 DEF f
    <3> QED
      BY <2>0, <2>2, <3>1
  <2>3. CASE b = f /\ a \in fired
    <3>1. a.gen < f.gen /\ f.at - a.at >= f.interval
      BY <2>3, <1>10
    <3> HIDE DEF f
    <3> QED
      BY <2>0, <2>3, <3>1
  <2> QED
    BY <1>1, <2>1, <2>2, <2>3
<1> QED
  BY <1>7, <1>8, <1>9, <1>11

-----------------------------------------------------------------------------
(* Every step keeps the invariant. *)
LEMMA SpacedStep == SpacedInv /\ [HooksNext]_hooksVars => SpacedInv'
<1> SUFFICES ASSUME SpacedInv, [HooksNext]_hooksVars PROVE SpacedInv'
  OBVIOUS
<1> USE DEF SpacedInv, Typed, table, bounds, tick
<1>1. CASE Clock
  <2>1. now' = now + 1 /\ UNCHANGED <<row, due, fired>>
    BY <1>1 DEF Clock
  <2>2. now <= now'
    BY <2>1
  <2> QED
    BY <2>1, <2>2, QuietStep
<1>2. ASSUME NEW h \in HookIds, Create(h) \/ Update(h) \/ Delete(h) PROVE SpacedInv'
  <2>1. UNCHANGED <<now, due, fired>>
    BY <1>2 DEF Create, Update, Delete
  <2>2. row' \in [HookIds -> Hook]
    <3>0. row[h] \in Hook
      OBVIOUS
    <3>1. CASE Create(h) \/ Delete(h)
      <4>1. PICK b \in BOOLEAN : row' = [row EXCEPT ![h] = [row[h] EXCEPT !.present = b]]
        BY <3>1 DEF Create, Delete
      <4>2. [row[h] EXCEPT !.present = b] \in Hook
        BY <3>0 DEF Hook
      <4> QED
        BY <4>1, <4>2
    <3>2. CASE Update(h)
      <4>1. PICK b \in BOOLEAN, i \in Intervals :
              row' = [row EXCEPT ![h] = [row[h] EXCEPT !.enabled = b, !.interval = i]]
        BY <3>2, ZenonT(30) DEF Update
      <4>2. [row[h] EXCEPT !.enabled = b, !.interval = i] \in Hook
        BY <3>0 DEF Hook
      <4> QED
        BY <4>1, <4>2
    <3> QED
      BY <1>2, <3>1, <3>2
  <2>3. \A i \in HookIds : row'[i].last = row[i].last /\ row'[i].gen = row[i].gen
    <3> SUFFICES ASSUME NEW i \in HookIds
                 PROVE  row'[i].last = row[i].last /\ row'[i].gen = row[i].gen
      OBVIOUS
    <3>0. row[i] \in Hook /\ row[h] \in Hook
      OBVIOUS
    <3>1. CASE i # h
      BY <1>2, <3>1 DEF Create, Update, Delete
    <3>2. CASE i = h
      <4>1. CASE Create(h) \/ Delete(h)
        <5>1. PICK b \in BOOLEAN : row' = [row EXCEPT ![h] = [row[h] EXCEPT !.present = b]]
          BY <4>1 DEF Create, Delete
        <5>2. row'[h] = [row[h] EXCEPT !.present = b]
          BY <5>1
        <5> QED
          BY <5>2, <3>0, <3>2 DEF Hook
      <4>2. CASE Update(h)
        <5>1. PICK b \in BOOLEAN, c \in Intervals :
                row' = [row EXCEPT ![h] = [row[h] EXCEPT !.enabled = b, !.interval = c]]
          BY <4>2, ZenonT(30) DEF Update
        <5>2. row'[h] = [row[h] EXCEPT !.enabled = b, !.interval = c]
          BY <5>1
        <5> QED
          BY <5>2, <3>0, <3>2 DEF Hook
      <4> QED
        BY <1>2, <4>1, <4>2
    <3> QED
      BY <3>1, <3>2
  <2> QED
    BY <2>1, <2>2, <2>3, QuietStep
<1>3. ASSUME NEW t \in Ticks, LoseClaim(t) \/ Spawn(t) \/ ListDone(t) \/ Killed(t)
      PROVE SpacedInv'
  <2>1. UNCHANGED <<row, now, fired>>
    BY <1>3 DEF LoseClaim, Spawn, ListDone, Killed
  <2>2. due' \in [Ticks -> SUBSET Listed] /\ \A s \in Ticks : due'[s] \subseteq due[s]
    BY <1>3 DEF LoseClaim, Spawn, ListDone, Killed
  <2> QED
    BY <2>1, <2>2, QuietStep
<1>4. CASE Upload \/ UNCHANGED hooksVars
  <2>1. UNCHANGED <<row, now, due, fired>>
    BY <1>4 DEF Upload, hooksVars
  <2> QED
    BY <2>1, QuietStep
<1>5. ASSUME NEW t \in Ticks, ListDue(t) PROVE SpacedInv'
  BY <1>5, ListStep
<1>6. ASSUME NEW t \in Ticks, Claim(t) PROVE SpacedInv'
  BY <1>6, ClaimStep
<1> QED
  BY <1>1, <1>2, <1>3, <1>4, <1>5, <1>6 DEF HooksNext, TickStep

(* Two claims of a hook are at least the interval apart that the later one   *)
(* was listed with, although claims are decided by tick_generation alone and *)
(* the hook may be edited between listing and claim.                         *)
THEOREM OncePerInterval == HooksSpec => []FiresSpaced
<1>1. HooksInit => SpacedInv
  BY SpacedInit
<1>2. SpacedInv /\ [HooksNext]_hooksVars => SpacedInv'
  BY SpacedStep
<1>3. SpacedInv => FiresSpaced
  BY DEF SpacedInv
<1> QED
  BY <1>1, <1>2, <1>3, PTL DEF HooksSpec
=============================================================================
