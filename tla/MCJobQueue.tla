---------------------------- MODULE MCJobQueue ----------------------------
(* Instances of JobQueue for TLC. *)
EXTENDS JobQueue, TLC

CONSTANTS c1, c2, d1, d2, i1, i2, u1, u2

QuotaOfOne == [u \in Limited |-> 1]
ClientSymmetry == Permutations(Clients)
===========================================================================
