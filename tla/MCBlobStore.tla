---------------------------- MODULE MCBlobStore ----------------------------
(* Instances of BlobStore for TLC. *)
EXTENDS BlobStore, TLC

CONSTANTS s1, s2, t1, t2, h1, h2, u1

SmallAndLarge == [h \in Hashes |-> IF h = h1 THEN 1 ELSE 2]
LimitOfTwo == [u \in Users |-> 2]
=============================================================================
