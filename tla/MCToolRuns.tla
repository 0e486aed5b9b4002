----------------------------- MODULE MCToolRuns -----------------------------
(***************************************************************************)
(* Instances of JobQueue and GhidraCache for TLC: the queue of tool runs,  *)
(* and the cache of analyses that some of them share.  The two share no    *)
(* state, so a behaviour is one of one of them; the other keeps a fixed    *)
(* initial state.                                                          *)
(***************************************************************************)
EXTENDS MCJobQueue, GhidraCache

CONSTANTS g1, g2, g3, home

TwoAnalysesAndAnother ==
  {[i \in Calls |-> IF i = g3 THEN other ELSE "analyze"] : other \in {"decompile", "rename"}}

VARIABLE part

toolRunsVars == <<part, vars, ghidraVars>>

ToolRunsInit ==
  /\ part \in {"queue", "ghidra"}
  /\ Init /\ GhidraInit
  /\ part = "queue" => (external /\ tool[g3] = "rename" /\ \A i \in Projects : nda[i])

QueueStep  == part = "queue" /\ Next /\ UNCHANGED <<part, ghidraVars>>
GhidraStep == part = "ghidra" /\ GhidraNext /\ UNCHANGED <<part, vars>>

ToolRunsSpec == ToolRunsInit /\ [][QueueStep \/ GhidraStep]_toolRunsVars
=============================================================================
