----------------------------- MODULE MCProjects -----------------------------
(***************************************************************************)
(* Instances of Hooks, ProjectDeletion and ThreadRetention for TLC.  They  *)
(* share no state, so a behaviour is one of one of the three; the other    *)
(* two keep a fixed initial state.                                         *)
(***************************************************************************)
EXTENDS Hooks, ProjectDeletion, ThreadRetention

CONSTANTS h, k, t, u, a, b, c, d, p, q

TickHook   == [event |-> "tick", interval |-> 1]
UploadHook == [event |-> "artifact_uploaded", interval |-> 1]
OneOfEachOrUploads == {[i \in HookIds |-> IF i = h THEN TickHook ELSE UploadHook],
                       [i \in HookIds |-> UploadHook]}

WithAndWithoutMemory == {Tables, Tables \ {"memory"}, {"projects", "members", "threads", "artifacts"}}

TwoProjects  == [i \in Threads |-> IF i = d THEN q ELSE p]
ChainAndStar == {[i \in Threads |-> CASE i = b -> a [] i = c -> b [] OTHER -> NoThread],
                 [i \in Threads |-> IF i \in {b, c} THEN a ELSE NoThread]}

VARIABLE part

projectsVars == <<part, hooksVars, deletionVars, retentionVars>>

ProjectsInit ==
  /\ part \in {"hooks", "deletion", "retention"}
  /\ HooksInit /\ DeletionInit /\ RetentionInit
  /\ part # "hooks" => row[h].event = "tick"
  /\ part # "deletion" => (rows = Tables /\ seat = "admin")
  /\ part # "retention" => parent[c] = a

HooksStep     == part = "hooks" /\ HooksNext /\ UNCHANGED <<part, deletionVars, retentionVars>>
DeletesNext   == part = "deletion" /\ DeletionNext /\ UNCHANGED <<part, hooksVars, retentionVars>>
RetentionStep == part = "retention" /\ RetentionNext /\ UNCHANGED <<part, hooksVars, deletionVars>>

(* cron keeps starting ticks. *)
ProjectsSpec ==
  /\ ProjectsInit /\ [][HooksStep \/ DeletesNext \/ RetentionStep]_projectsVars
  /\ \A i \in Ticks : WF_projectsVars(part = "hooks" /\ TickStep(i) /\ UNCHANGED <<part, deletionVars, retentionVars>>)
  /\ WF_projectsVars(part = "retention" /\ Purge /\ UNCHANGED <<part, hooksVars, deletionVars>>)
=============================================================================
