--------------------------- MODULE MCOopExecutor ---------------------------
(* Instances of OopExecutor for TLC. *)
EXTENDS OopExecutor

Host(profile, oaie, bwrap) ==
  [profile |-> profile, oaie |-> oaie, bwrap |-> bwrap, unsandboxed |-> FALSE]

(* A trusted tool, the three sandboxes, and none. *)
AllSandboxes ==
  {Host("Trusted", FALSE, FALSE), Host("NoNetReadOnly", TRUE, TRUE), Host("NoNetReadOnly", FALSE, TRUE),
   Host("PrivateLoopback", FALSE, TRUE), Host("NoNetReadOnly", FALSE, FALSE)}
=============================================================================
