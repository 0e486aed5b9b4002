-------------------------- MODULE MCIngestQueues --------------------------
(* Instances of IngestQueues for TLC. *)
EXTENDS IngestQueues, TLC

CONSTANTS t1, t2, u1, u2
=============================================================================
