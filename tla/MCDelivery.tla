---------------------------- MODULE MCDelivery ----------------------------
(* Instances of Delivery for TLC. *)
EXTENDS Delivery, TLC

CONSTANTS t1, t2, l1
=============================================================================
