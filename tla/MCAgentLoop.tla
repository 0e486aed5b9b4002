--------------------------- MODULE MCAgentLoop ----------------------------
(* Instances of AgentLoop for TLC. *)
EXTENDS AgentLoop

CONSTANTS a, b

Cast(m, n) == [r \in Runs |-> IF r = a THEN m ELSE n]

(* Two agents share the thread. *)
Together ==
  [mode |-> Cast("cloud", "local"), budget |-> 1, retries |-> 0, batch |-> 1, queue |-> 0, faults |-> 0]

(* One agent, whose user queues a message; more calls, and failures. *)
Alone(m, n) ==
  [mode |-> Cast(m, n), budget |-> 2, retries |-> 1, batch |-> 2, queue |-> 1, faults |-> 1]

Cwc == [Alone("cwc", "absent") EXCEPT !.batch = 1, !.faults = 0]

All == {Together, Alone("cloud", "absent"), Alone("absent", "local"), Cwc}

(* The second of two agents finds the memory of the first. *)
Second == {[Together EXCEPT !.mode = Cast("cloud", "cloud")]}
=============================================================================
