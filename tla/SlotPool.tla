----------------------------- MODULE SlotPool -----------------------------
(***************************************************************************)
(* What ActiveStreamTracker (af-api/src/lib.rs) promises one user: at most *)
(* Slots requests stream at a time, a request is turned away only while    *)
(* all slots are taken, and every slot comes back.                         *)
(***************************************************************************)
EXTENDS Naturals, FiniteSets

CONSTANTS Holders, Slots

VARIABLES
  taken,     \* the requests that hold a slot
  turned     \* the requests that were turned away

pool == <<taken, turned>>

Init == taken = {} /\ turned = {}

Take(h) ==
  /\ h \notin taken \cup turned
  /\ Cardinality(taken) < Slots
  /\ taken' = taken \cup {h}
  /\ UNCHANGED turned

TurnAway(h) ==
  /\ h \notin taken \cup turned
  /\ Cardinality(taken) >= Slots
  /\ turned' = turned \cup {h}
  /\ UNCHANGED taken

(* A server that dies gives back all of its slots at once. *)
Give(S) ==
  /\ S # {} /\ S \subseteq taken
  /\ taken' = taken \ S
  /\ UNCHANGED turned

Next ==
  \/ \E h \in Holders : Take(h) \/ TurnAway(h)
  \/ \E S \in SUBSET Holders : Give(S)

SafeSpec == Init /\ [][Next]_pool

(* Every slot that is taken is given back. *)
SlotsReturn == \A h \in Holders : (h \in taken) ~> (h \notin taken)

Spec == SafeSpec /\ SlotsReturn
=============================================================================
