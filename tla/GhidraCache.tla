----------------------------- MODULE GhidraCache -----------------------------
(***************************************************************************)
(* The cache of Ghidra projects for one binary.  ghidra.analyze imports    *)
(* the binary into a directory and lists its functions, ghidra.decompile   *)
(* reads the directory, ghidra.rename wants it to be there.  Analyses lock *)
(* the directory; what is cached is judged by two entries of it that       *)
(* analyzeHeadless makes before it has finished.  The directory depends on *)
(* the project's NDA flag, which a hook of the daemon's workers looks up;  *)
(* without it, in an inline worker or after a failed lookup, every project *)
(* is taken for one under NDA.                                             *)
(*                                                                         *)
(* The executor of a call may be killed: its lock goes, analyzeHeadless    *)
(* may stay and go on writing.                                             *)
(***************************************************************************)
EXTENDS Naturals, FiniteSets

CONSTANTS
  Projects,
  Calls,          \* tool runs
  ToolPlans,      \* the tool of each call
  Common,         \* the directory of projects not under NDA
  MaxFlips,       \* bound: changes of an NDA flag
  MaxKills        \* bound: executors killed, locks and imports that fail

Nobody == "nobody"

ASSUME GhidraConstants ==
  /\ Common \notin Projects /\ Nobody \notin Calls
  /\ ToolPlans \subseteq [Calls -> {"analyze", "decompile", "rename"}]
  /\ MaxFlips \in Nat /\ MaxKills \in Nat

Dirs == Projects \cup {Common}

VARIABLES
  tool,           \* of each call
  external,       \* analyze and decompile are run by re_executor, not in the worker
  nda,            \* projects.nda
  marker,         \* analysis.gpr exists
  data,           \* analysis.rep/idata: "none", "partial", "complete"
  holder,         \* of the exclusive lock
  pc,             \* "idle", "locking", "checking", "importing", "script", "done"
  call,           \* [project, told, nda, dir, shares] of a call that has begun; told:
                  \* the hook gave the flag, shares: it has the lock with others
  result,         \* "none", "failed", "no_analysis", "killed", "renamed",
                  \* "full" or "partial": what the script found
  importer,       \* the analyzeHeadless -import of a call is running
  flips, kills,
  \* History:
  spoiled,        \* directories where an import failed or lost its executor, or
                  \* that somebody used without the lock
  raced,          \* decompilations that ran beside an import
  before          \* analyses of its project that had succeeded when a call began

files  == <<marker, data>>
locals == <<pc, call, result>>
ghidraVars == <<tool, external, nda, files, holder, locals, importer, flips, kills, spoiled, raced, before>>

NoCall == [project |-> Nobody, told |-> FALSE, nda |-> TRUE, dir |-> Common, shares |-> FALSE]

GhidraInit ==
  /\ tool \in ToolPlans /\ external \in BOOLEAN /\ nda \in [Projects -> BOOLEAN]
  /\ marker = [d \in Dirs |-> FALSE] /\ data = [d \in Dirs |-> "none"]
  /\ holder = [d \in Dirs |-> Nobody]
  /\ pc = [c \in Calls |-> "idle"] /\ call = [c \in Calls |-> NoCall]
  /\ result = [c \in Calls |-> "none"] /\ importer = [c \in Calls |-> FALSE]
  /\ flips = 0 /\ kills = 0
  /\ spoiled = {} /\ raced = {} /\ before = [c \in Calls |-> {}]

Move(c, where) == pc' = [pc EXCEPT ![c] = where]

Answer(c, what) == Move(c, "done") /\ result' = [result EXCEPT ![c] = what]

Unlock(c) == holder' = [d \in Dirs |-> IF holder[d] = c THEN Nobody ELSE holder[d]]

BelievedNda(p, told) == told => nda[p]

CachePath(p, isNda) == IF isNda THEN p ELSE Common

Dir(c) == call[c].dir

(* The decompiler of re_executor does not lock. *)
Locks(c) == tool[c] # "decompile" \/ ~external

BeginCall(c) ==
  /\ pc[c] = "idle"
  /\ \E p \in Projects, told \in BOOLEAN :
       /\ call' = [call EXCEPT ![c] = [project |-> p, told |-> told, nda |-> nda[p],
                                       dir |-> CachePath(p, BelievedNda(p, told)), shares |-> FALSE]]
       /\ before' = [before EXCEPT ![c] = {a \in Calls :
            tool[a] = "analyze" /\ result[a] = "full" /\ call[a].project = p}]
  /\ Move(c, IF Locks(c) THEN "locking" ELSE "checking")
  /\ UNCHANGED <<tool, external, nda, files, holder, result, importer, flips, kills, spoiled, raced>>

(* A mutant of Lock: what else holds the lock does not matter. *)
LockRegardless(c) ==
  /\ pc[c] = "locking" /\ Move(c, "checking")
  /\ UNCHANGED <<tool, external, nda, files, holder, call, result, importer, flips, kills, spoiled, raced, before>>

(* Renames and decompilations share the lock: they wait for analyses, and an *)
(* analysis waits until those that have it have ended.                       *)
Lock(c) ==
  /\ pc[c] = "locking" /\ holder[Dir(c)] = Nobody
  /\ \A r \in Calls : tool[c] = "analyze" /\ call[r].shares /\ Dir(r) = Dir(c) => pc[r] = "done"
  /\ IF tool[c] = "analyze"
     THEN holder' = [holder EXCEPT ![Dir(c)] = c] /\ UNCHANGED call
     ELSE call' = [call EXCEPT ![c].shares = TRUE] /\ UNCHANGED holder
  /\ Move(c, "checking")
  /\ UNCHANGED <<tool, external, nda, files, result, importer, flips, kills, spoiled, raced, before>>

(* Only the analyzer in the worker insists on the lock. *)
LockFails(c) ==
  /\ pc[c] = "locking" /\ kills < MaxKills /\ kills' = kills + 1
  /\ IF tool[c] = "analyze" /\ ~external
     THEN Answer(c, "failed") /\ UNCHANGED spoiled
     ELSE Move(c, "checking") /\ UNCHANGED result /\ spoiled' = spoiled \cup {Dir(c)}
  /\ UNCHANGED <<tool, external, nda, files, holder, call, importer, flips, raced, before>>

-----------------------------------------------------------------------------
(* ghidra.analyze *)

(* A mutant of Cached: a marker of no bytes does not count, and Ghidra writes  *)
(* no others.                                                                *)
NeverCached(d) == FALSE

Cached(d) == marker[d] /\ data[d] # "none"

(* What is incomplete, by that criterion, is removed and analyzed anew. *)
CheckAnalysis(c) ==
  /\ pc[c] = "checking" /\ tool[c] = "analyze"
  /\ IF Cached(Dir(c))
     THEN Move(c, "script") /\ UNCHANGED <<files, importer>>
     ELSE /\ IF marker[Dir(c)]
             THEN marker' = [marker EXCEPT ![Dir(c)] = FALSE] /\ data' = [data EXCEPT ![Dir(c)] = "none"]
             ELSE UNCHANGED files
          /\ importer' = [importer EXCEPT ![c] = TRUE] /\ Move(c, "importing")
  /\ UNCHANGED <<tool, external, nda, holder, call, result, flips, kills, spoiled, raced, before>>

(* analyzeHeadless makes the project first, and saves the program last. *)
ImportWrites(c) ==
  /\ importer[c] /\ data[Dir(c)] = "none"
  /\ IF marker[Dir(c)]
     THEN data' = [data EXCEPT ![Dir(c)] = "partial"] /\ UNCHANGED marker
     ELSE marker' = [marker EXCEPT ![Dir(c)] = TRUE] /\ UNCHANGED data
  /\ UNCHANGED <<tool, external, nda, holder, locals, importer, flips, kills, spoiled, raced, before>>

ImportEnds(c) ==
  /\ importer[c] /\ data[Dir(c)] # "none"
  /\ data' = [data EXCEPT ![Dir(c)] = "complete"]
  /\ importer' = [importer EXCEPT ![c] = FALSE]
  /\ IF pc[c] = "importing" THEN Move(c, "script") ELSE UNCHANGED pc
  /\ UNCHANGED <<tool, external, nda, marker, holder, call, result, flips, kills, spoiled, raced, before>>

(* The analyzer in the worker cleans up; re_executor leaves what there is. *)
ImportFails(c) ==
  /\ importer[c] /\ kills < MaxKills /\ kills' = kills + 1
  /\ importer' = [importer EXCEPT ![c] = FALSE]
  /\ spoiled' = spoiled \cup {Dir(c)}
  /\ IF pc[c] = "importing" /\ ~external
     THEN marker' = [marker EXCEPT ![Dir(c)] = FALSE] /\ data' = [data EXCEPT ![Dir(c)] = "none"]
     ELSE UNCHANGED files
  /\ IF pc[c] = "importing" THEN Answer(c, "failed") /\ Unlock(c) ELSE UNCHANGED <<pc, result, holder>>
  /\ UNCHANGED <<tool, external, nda, call, flips, raced, before>>

-----------------------------------------------------------------------------
(* ghidra.decompile and ghidra.rename *)

CheckDecompile(c) ==
  /\ pc[c] = "checking" /\ tool[c] = "decompile"
  /\ IF Cached(Dir(c)) THEN Move(c, "script") /\ UNCHANGED result ELSE Answer(c, "no_analysis")
  /\ UNCHANGED <<tool, external, nda, files, holder, call, importer, flips, kills, spoiled, raced, before>>

(* The names go to the database, where a later decompilation's hook reads them. *)
Rename(c) ==
  /\ pc[c] = "checking" /\ tool[c] = "rename"
  /\ \/ Cached(Dir(c)) /\ \E reply \in {"renamed", "failed"} : Answer(c, reply)
     \/ ~Cached(Dir(c)) /\ Answer(c, "no_analysis")
  /\ UNCHANGED <<tool, external, nda, files, holder, call, importer, flips, kills, spoiled, raced, before>>

(* The script reads what there is; analyzeHeadless reports success also when *)
(* it finds no program, and may fail for reasons of its own.                 *)
RunScript(c) ==
  /\ pc[c] = "script"
  /\ \/ data[Dir(c)] = "complete" /\ Answer(c, "full")
     \/ data[Dir(c)] = "partial" /\ Answer(c, "partial")
     \/ Answer(c, "failed")
  /\ Unlock(c)
  /\ raced' = IF \E i \in Calls : importer[i] /\ Dir(i) = Dir(c) /\ tool[c] = "decompile"
              THEN raced \cup {c} ELSE raced
  /\ UNCHANGED <<tool, external, nda, files, call, importer, flips, kills, spoiled, before>>

-----------------------------------------------------------------------------
(* The timeout of the run, or the death of its worker.  *)
KillExecutor(c) ==
  /\ pc[c] \notin {"idle", "done"} /\ kills < MaxKills /\ kills' = kills + 1
  /\ Answer(c, "killed") /\ Unlock(c)
  /\ \E survives \in BOOLEAN : importer' = [importer EXCEPT ![c] = @ /\ survives]
  /\ spoiled' = IF importer[c] THEN spoiled \cup {Dir(c)} ELSE spoiled
  /\ UNCHANGED <<tool, external, nda, files, call, flips, raced, before>>

SetNda(p) ==
  /\ flips < MaxFlips /\ flips' = flips + 1
  /\ nda' = [nda EXCEPT ![p] = ~@]
  /\ UNCHANGED <<tool, external, files, holder, locals, importer, kills, spoiled, raced, before>>

GhidraNext ==
  \/ \E p \in Projects : SetNda(p)
  \/ \E c \in Calls :
       \/ BeginCall(c) \/ Lock(c) \/ LockFails(c) \/ CheckAnalysis(c) \/ CheckDecompile(c) \/ Rename(c)
       \/ ImportWrites(c) \/ ImportEnds(c) \/ ImportFails(c) \/ RunScript(c) \/ KillExecutor(c)

GhidraSpec == GhidraInit /\ [][GhidraNext]_ghidraVars

-----------------------------------------------------------------------------
(* An analysis or decompilation that succeeds on a binary only partly        *)
(* analyzed has the failure of an import in that directory to blame, the     *)
(* death of its executor, or a lock that could not be had: the lock keeps    *)
(* analyses from each other's work.                                          *)
(* Only decompilations of re_executor, which take no lock, can meet an       *)
(* import that is under way.                                                 *)
PartialExplained ==
  \A c \in Calls : result[c] = "partial" =>
    Dir(c) \in spoiled \/ (c \in raced /\ external /\ tool[c] = "decompile")

(* Once a binary has been analyzed in full for a project, no call there is   *)
(* told to analyze it first, unless only one of the two knew the NDA flag or *)
(* the flag has changed.                                                     *)
AnalyzedIsFound ==
  \A c \in Calls, a \in Calls : result[c] = "no_analysis" /\ a \in before[c] =>
    \/ call[a].told # call[c].told
    \/ call[c].told /\ call[a].nda # call[c].nda
=============================================================================
