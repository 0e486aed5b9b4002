------------------------------- MODULE Hooks -------------------------------
(***************************************************************************)
(* Project hooks.  cron starts `af tick` every minute; each process lists  *)
(* the tick hooks that are due, claims them one by one with a compare-and- *)
(* swap on tick_generation, and spawns an execution for each claim.  It    *)
(* waits for its executions, which have no timeout, but cron does not wait *)
(* for it: processes overlap.  Meanwhile users edit hooks through the API, *)
(* and uploads fire the hooks of the other event.                          *)
(***************************************************************************)
EXTENDS Integers, FiniteSets, Sequences

CONSTANTS
  HookIds,
  Ticks,          \* processes that can be listing and claiming at a time
  Intervals,      \* tick_interval_minutes
  Plans,          \* the event and first interval of each hook that is created
  MaxPerEvent,    \* MAX_HOOKS_PER_EVENT
  MaxTime,        \* bound: minutes
  MaxEdits,       \* bound: updates of a hook
  MaxUploads,     \* bound: uploads
  MaxFaults       \* bound: processes killed, statements that fail

ASSUME HookConstants ==
  /\ Intervals \subseteq Nat \ {0}
  /\ Plans \subseteq [HookIds -> [event : {"tick", "artifact_uploaded"}, interval : Intervals]]
  /\ MaxTime \in Nat /\ MaxPerEvent \in Nat
  /\ MaxEdits \in Nat /\ MaxUploads \in Nat /\ MaxFaults \in Nat

Never == -1       \* last_tick_at IS NULL

VARIABLES
  order,          \* hooks by created_at
  row,            \* project_hooks
  now,
  pc,             \* of a tick process: "idle", "firing", "claimed"
  due,            \* rows it has listed and not dealt with: [hook, gen, interval]
  claim,          \* the one it has claimed
  started,        \* executions: <<hook, the event's number>>
  edits, uploads, faults,
  fired           \* history of claims: [hook, gen, at, interval]

table  == <<order, row>>
tick   == <<pc, due, claim>>
bounds == <<edits, uploads, faults>>
hooksVars   == <<table, now, tick, started, bounds, fired>>

Hook   == [event : {"tick", "artifact_uploaded"}, present : BOOLEAN, enabled : BOOLEAN,
           interval : Intervals, last : Nat \cup {Never}, gen : Nat]
Listed == [hook : HookIds, gen : Nat, interval : Intervals]
NoClaim == [hook |-> "none"]

HooksInit ==
  /\ order = <<>>
  /\ \E plan \in Plans :
       row = [h \in HookIds |-> [event |-> plan[h].event, present |-> FALSE, enabled |-> TRUE,
                                interval |-> plan[h].interval, last |-> Never, gen |-> 0]]
  /\ now = 0
  /\ pc = [t \in Ticks |-> "idle"] /\ due = [t \in Ticks |-> {}]
  /\ claim = [t \in Ticks |-> NoClaim]
  /\ started = {} /\ edits = 0 /\ uploads = 0 /\ faults = 0 /\ fired = {}

Clock ==
  /\ now < MaxTime /\ now' = now + 1
  /\ UNCHANGED <<table, tick, started, bounds, fired>>

-----------------------------------------------------------------------------
(* The API. *)

Created(h) == \E i \in DOMAIN order : order[i] = h

(* Event and interval were chosen by HooksInit; an id is never used again. *)
Create(h) ==
  /\ ~Created(h)
  /\ order' = Append(order, h)
  /\ row' = [row EXCEPT ![h].present = TRUE]
  /\ UNCHANGED <<now, tick, started, bounds, fired>>

Update(h) ==
  /\ row[h].present /\ edits < MaxEdits /\ edits' = edits + 1
  /\ \E on \in BOOLEAN, i \in Intervals :
       row' = [row EXCEPT ![h].enabled = on, ![h].interval = i]
  /\ UNCHANGED <<order, now, tick, started, uploads, faults, fired>>

Delete(h) ==
  /\ row[h].present /\ edits < MaxEdits /\ edits' = edits + 1
  /\ row' = [row EXCEPT ![h].present = FALSE]
  /\ UNCHANGED <<order, now, tick, started, uploads, faults, fired>>

(* Enabled hooks of the project, oldest first, up to the limit. *)
Upload ==
  LET hooks == SelectSeq(order, LAMBDA h :
                 row[h].present /\ row[h].enabled /\ row[h].event = "artifact_uploaded")
      first == {hooks[i] : i \in {i \in DOMAIN hooks : i <= MaxPerEvent}}
  IN
  /\ first # {} /\ uploads < MaxUploads /\ uploads' = uploads + 1
  /\ started' = started \cup {<<h, uploads'>> : h \in first}
  /\ UNCHANGED <<table, now, tick, edits, faults, fired>>

-----------------------------------------------------------------------------
(* A tick process. *)

(* A mutant of IsDue: last_tick_at IS NULL is not provided for. *)
HasFiredAndIsDue(h) ==
  /\ row[h].present /\ row[h].event = "tick" /\ row[h].enabled
  /\ row[h].last # Never /\ row[h].last + row[h].interval <= now

IsDue(h) ==
  /\ row[h].present /\ row[h].event = "tick" /\ row[h].enabled
  /\ row[h].last = Never \/ row[h].last + row[h].interval <= now

ListDue(t) ==
  /\ pc[t] = "idle" /\ \E h \in HookIds : IsDue(h)
  /\ due' = [due EXCEPT ![t] =
       {[hook |-> h, gen |-> row[h].gen, interval |-> row[h].interval] :
          h \in {h \in HookIds : IsDue(h)}}]
  /\ pc' = [pc EXCEPT ![t] = "firing"]
  /\ UNCHANGED <<table, now, claim, started, bounds, fired>>

(* A mutant of Claimable: the generation is not compared. *)
StillThere(entry) == row[entry.hook].present

(* Neither enabled nor the interval is looked at again. *)
Claimable(entry) == row[entry.hook].present /\ row[entry.hook].gen = entry.gen

Claim(t) ==
  /\ pc[t] = "firing"
  /\ \E entry \in due[t] :
       /\ Claimable(entry)
       /\ row' = [row EXCEPT ![entry.hook].last = now, ![entry.hook].gen = @ + 1]
       /\ due' = [due EXCEPT ![t] = @ \ {entry}]
       /\ claim' = [claim EXCEPT ![t] = entry]
       /\ fired' = fired \cup {[hook |-> entry.hook, gen |-> row[entry.hook].gen + 1,
                                at |-> now, interval |-> entry.interval]}
  /\ pc' = [pc EXCEPT ![t] = "claimed"]
  /\ UNCHANGED <<order, now, started, bounds>>

(* Another process was faster, the hook is gone, or the statement fails. *)
LoseClaim(t) ==
  /\ pc[t] = "firing"
  /\ \E entry \in due[t] :
       /\ \/ ~Claimable(entry) /\ UNCHANGED faults
          \/ faults < MaxFaults /\ faults' = faults + 1
       /\ due' = [due EXCEPT ![t] = @ \ {entry}]
  /\ UNCHANGED <<table, now, pc, claim, started, edits, uploads, fired>>

Spawn(t) ==
  /\ pc[t] = "claimed"
  /\ started' = started \cup {<<claim[t].hook, claim[t].gen + 1>>}
  /\ pc' = [pc EXCEPT ![t] = "firing"] /\ claim' = [claim EXCEPT ![t] = NoClaim]
  /\ UNCHANGED <<table, now, due, bounds, fired>>

(* It waits for its executions from here on, which nothing else waits for. *)
ListDone(t) ==
  /\ pc[t] = "firing" /\ due[t] = {}
  /\ pc' = [pc EXCEPT ![t] = "idle"]
  /\ UNCHANGED <<table, now, due, claim, started, bounds, fired>>

Killed(t) ==
  /\ pc[t] # "idle" /\ faults < MaxFaults /\ faults' = faults + 1
  /\ pc' = [pc EXCEPT ![t] = "idle"] /\ due' = [due EXCEPT ![t] = {}]
  /\ claim' = [claim EXCEPT ![t] = NoClaim]
  /\ UNCHANGED <<table, now, started, edits, uploads, fired>>

-----------------------------------------------------------------------------
TickStep(t) == ListDue(t) \/ Claim(t) \/ LoseClaim(t) \/ Spawn(t) \/ ListDone(t)

HooksNext ==
  \/ Clock \/ Upload
  \/ \E h \in HookIds : Create(h) \/ Update(h) \/ Delete(h)
  \/ \E t \in Ticks : TickStep(t) \/ Killed(t)

HooksSpec == HooksInit /\ [][HooksNext]_hooksVars

(* cron keeps starting processes and they go on; executions may hang. *)
FairHooksSpec == HooksSpec /\ \A t \in Ticks : WF_hooksVars(TickStep(t))
-----------------------------------------------------------------------------
HooksTypeOK ==
  /\ order \in Seq(HookIds)
  /\ row \in [HookIds -> Hook] /\ now \in Nat
  /\ pc \in [Ticks -> {"idle", "firing", "claimed"}]
  /\ due \in [Ticks -> SUBSET Listed] /\ claim \in [Ticks -> Listed \cup {NoClaim}]
  /\ fired \subseteq [hook : HookIds, gen : Nat, at : Nat, interval : Intervals]

(* Overlapping processes fire a tick hook once per interval: two claims of a *)
(* hook are at least as far apart as the interval the later one was listed   *)
(* with, whatever was edited, deleted or killed in between.                  *)
FiresSpaced ==
  \A f, g \in fired : f.hook = g.hook /\ f # g =>
    /\ f.gen # g.gen
    /\ f.gen < g.gen => g.at - f.at >= g.interval

(* A hook whose interval has passed, or that never fired, is claimed unless  *)
(* it is disabled or deleted, though executions hang and processes are       *)
(* killed.                                                                   *)
Overdue(h) ==
  /\ row[h].present /\ row[h].enabled /\ row[h].event = "tick"
  /\ row[h].last = Never \/ now - row[h].last >= row[h].interval

DueHooksFire == \A h \in HookIds : Overdue(h) ~> ~Overdue(h)
=============================================================================
