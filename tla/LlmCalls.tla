----------------------------- MODULE LlmCalls -----------------------------
(***************************************************************************)
(* The requests of one user that run agents, and make LLM calls one after  *)
(* the other.  A request that streams takes a slot of the server's stream  *)
(* tracker, a synchronous one does not.  A call first reserves Estimate    *)
(* tokens in today's row of usage_daily; what the provider reports is      *)
(* posted afterwards (synchronous) or chunk by chunk (streaming).          *)
(*                                                                         *)
(* A request ends when its loop does, by an error, or because the timeout  *)
(* around it drops the future wherever it stands.  Nothing is written for  *)
(* a dropped future; the slot's guard is dropped with it.                  *)
(***************************************************************************)
EXTENDS Integers, FiniteSets

CONSTANTS
  Sessions,     \* requests of the user
  NoSession,
  Streaming,    \* those that use send_message_streaming
  Estimate,     \* max_output, the tokens reserved for a call
  Reports,      \* usage a provider may report: <<prompt, completion>>
  Excess,       \* the most a report can exceed its reservation by
  Limit,        \* max_llm_tokens_per_day
  MaxStreams,   \* max_per_user of the tracker
  MaxCalls,     \* bound: LLM calls of a session
  MaxChunks,    \* bound: Usage chunks of a streamed call (Anthropic 2, Vertex more)
  MaxNights,    \* bound: midnights
  MaxFaults     \* bound: database errors, panics and crashes of the server

ASSUME CallConstants ==
  /\ IsFiniteSet(Sessions) /\ NoSession \notin Sessions
  /\ Streaming \subseteq Sessions
  /\ Estimate \in Nat /\ Excess \in Nat /\ Limit \in Nat /\ MaxStreams \in Nat
  /\ MaxCalls \in Nat /\ MaxChunks \in Nat /\ MaxNights \in Nat /\ MaxFaults \in Nat
  /\ Reports \subseteq Nat \X Nat
  /\ \A u \in Reports : u[2] <= Excess /\ u[1] + u[2] - Estimate <= Excess

VARIABLES
  phase,        \* of a session: "idle", "running" between calls, "opening" or
                \* "calling", "ended", "refused"
  lock,         \* the session inside acquire(), which holds the map's mutex
  active,       \* the user's counter in the tracker
  calls,        \* LLM calls a session has begun
  chunks,       \* Usage chunks of its current call
  open,         \* there is a row of usage_daily for today
  prompt,       \* its llm_prompt_tokens
  completion,   \* its llm_completion_tokens
  reserved,     \* sessions whose reservation stands in today's row
  nights, faults,
  \* History of the day, in prompt tokens:
  spent,        \* what reports added
  lost,         \* reservations that nobody will ever release
  freed,        \* what was released without a reservation of today
  loose         \* the most that reports without a reservation may have added

slots  == <<phase, lock, active>>
row    == <<open, prompt, completion>>
ledger == <<reserved, spent, lost, freed, loose>>
bounds == <<calls, chunks, nights, faults>>
vars   == <<slots, row, ledger, bounds>>

InFlight == {"running", "opening", "calling"}

TypeOK ==
  /\ phase \in [Sessions -> InFlight \cup {"idle", "ended", "refused"}]
  /\ lock \in Sessions \cup {NoSession}
  /\ active \in Nat
  /\ calls \in [Sessions -> 0..MaxCalls] /\ chunks \in [Sessions -> 0..MaxChunks]
  /\ open \in BOOLEAN /\ prompt \in Nat /\ completion \in Nat
  /\ reserved \in SUBSET Sessions
  /\ nights \in 0..MaxNights /\ faults \in 0..MaxFaults
  /\ spent \in Nat /\ lost \in Nat /\ freed \in Nat /\ loose \in Nat

Init ==
  /\ phase = [s \in Sessions |-> "idle"] /\ lock = NoSession /\ active = 0
  /\ calls = [s \in Sessions |-> 0] /\ chunks = [s \in Sessions |-> 0]
  /\ open = FALSE /\ prompt = 0 /\ completion = 0
  /\ reserved = {} /\ nights = 0 /\ faults = 0
  /\ spent = 0 /\ lost = 0 /\ freed = 0 /\ loose = 0

-----------------------------------------------------------------------------
(* The stream tracker. *)

(* acquire(): the counter is read and incremented under the map's mutex; the *)
(* guards of other requests decrement it meanwhile.                          *)
AcquireRead(s) ==
  /\ s \in Streaming /\ phase[s] = "idle" /\ lock = NoSession /\ active < MaxStreams
  /\ lock' = s
  /\ UNCHANGED <<phase, active, row, ledger, bounds>>

AcquireRefuse(s) ==
  /\ s \in Streaming /\ phase[s] = "idle" /\ lock = NoSession /\ active >= MaxStreams
  /\ phase' = [phase EXCEPT ![s] = "refused"]
  /\ UNCHANGED <<lock, active, row, ledger, bounds>>

AcquireAdd(s) ==
  /\ lock = s
  /\ lock' = NoSession
  /\ active' = active + 1
  /\ phase' = [phase EXCEPT ![s] = "running"]
  /\ UNCHANGED <<row, ledger, bounds>>

(* POST /messages/sync has no slot. *)
StartSync(s) ==
  /\ s \notin Streaming /\ phase[s] = "idle"
  /\ phase' = [phase EXCEPT ![s] = "running"]
  /\ UNCHANGED <<lock, active, row, ledger, bounds>>

(* The request ends and drops its StreamGuard, if it has one. *)
Leave(s) ==
  /\ phase' = [phase EXCEPT ![s] = "ended"]
  /\ active' = IF s \in Streaming THEN active - 1 ELSE active
  /\ UNCHANGED lock

Goto(s, p) ==
  /\ phase' = [phase EXCEPT ![s] = p]
  /\ UNCHANGED <<lock, active>>

-----------------------------------------------------------------------------
(* The row of usage_daily. *)
NonNegative(n) == IF n > 0 THEN n ELSE 0

(* adjust_llm_tokens: GREATEST(0, prompt + delta), no row for today no effect. *)
Adjust(s, u) ==
  IF open
  THEN /\ prompt' = NonNegative(prompt + u[1] - Estimate)
       /\ completion' = completion + u[2]
       /\ spent' = spent + u[1]
       /\ reserved' = reserved \ {s}
       /\ IF s \in reserved THEN UNCHANGED <<freed, loose>>
                            ELSE freed' = freed + Estimate /\ loose' = loose + Excess
       /\ UNCHANGED <<open, lost>>
  ELSE UNCHANGED <<row, ledger>>

(* The call goes on or ends without releasing its reservation. *)
Forget(s) ==
  /\ reserved' = reserved \ {s}
  /\ lost' = IF s \in reserved THEN lost + Estimate ELSE lost
  /\ UNCHANGED <<row, spent, freed, loose>>

(* Errors of adjust_llm_tokens are ignored by every caller. *)
Post(s, u) ==
  \/ Adjust(s, u) /\ UNCHANGED faults
  \/ faults < MaxFaults /\ faults' = faults + 1 /\ Forget(s)

NoUsage == <<0, 0>>

-----------------------------------------------------------------------------
(* reserve_llm_tokens: the row is inserted if there is none for today ...    *)
OpenRow(s) ==
  /\ phase[s] = "running" /\ calls[s] < MaxCalls
  /\ Goto(s, "opening")
  /\ calls' = [calls EXCEPT ![s] = @ + 1]
  /\ open' = TRUE
  /\ UNCHANGED <<prompt, completion, ledger, chunks, nights, faults>>

(* A mutant of HasRoom: the estimate is not added before the comparison. *)
HasRoomSoFar == open /\ prompt + completion <= Limit

HasRoom == open /\ prompt + completion + Estimate <= Limit

(* ... and the reservation is a conditional UPDATE of it. *)
Reserve(s) ==
  /\ phase[s] = "opening" /\ HasRoom
  /\ Goto(s, "calling")
  /\ prompt' = prompt + Estimate
  /\ reserved' = reserved \cup {s}
  /\ chunks' = [chunks EXCEPT ![s] = 0]
  /\ UNCHANGED <<open, completion, spent, lost, freed, loose, calls, nights, faults>>

OverQuota(s) ==
  /\ phase[s] = "opening" /\ ~HasRoom
  /\ Leave(s)
  /\ UNCHANGED <<row, ledger, bounds>>

(* unwrap_or(true): a database error lets the call pass without reservation. *)
ReserveFails(s) ==
  /\ phase[s] = "opening" /\ faults < MaxFaults
  /\ faults' = faults + 1
  /\ Goto(s, "calling")
  /\ chunks' = [chunks EXCEPT ![s] = 0]
  /\ UNCHANGED <<row, ledger, calls, nights>>

(* backend.complete returned; a response without usage posts none. *)
CompleteReturns(s) ==
  /\ s \notin Streaming /\ phase[s] = "calling"
  /\ \E u \in Reports \cup {NoUsage} : Post(s, u)
  /\ Goto(s, "running")
  /\ UNCHANGED <<calls, chunks, nights>>

(* A mutant of CompleteFails: the error is returned without an adjustment. *)
CompleteFailsUnadjusted(s) ==
  /\ s \notin Streaming /\ phase[s] = "calling"
  /\ Leave(s)
  /\ UNCHANGED <<row, ledger, bounds>>

CompleteFails(s) ==
  /\ s \notin Streaming /\ phase[s] = "calling"
  /\ Post(s, NoUsage)
  /\ Leave(s)
  /\ UNCHANGED <<calls, chunks, nights>>

(* Every Usage chunk of a stream is posted with the whole estimate released. *)
UsageChunk(s) ==
  /\ s \in Streaming /\ phase[s] = "calling" /\ chunks[s] < MaxChunks
  /\ chunks' = [chunks EXCEPT ![s] = @ + 1]
  /\ \E u \in Reports : Post(s, u)
  /\ UNCHANGED <<slots, calls, nights>>

(* A stream that ends well is not adjusted again, with or without usage. *)
StreamEnds(s) ==
  /\ s \in Streaming /\ phase[s] = "calling"
  /\ Forget(s)
  /\ Goto(s, "running")
  /\ UNCHANGED bounds

StreamFails(s) ==
  /\ s \in Streaming /\ phase[s] = "calling"
  /\ Post(s, NoUsage)
  /\ Leave(s)
  /\ UNCHANGED <<calls, chunks, nights>>

(* A mutant of StreamPanics: the panic takes the guard with it. *)
StreamPanicsHolding(s) ==
  /\ s \in Streaming /\ phase[s] = "calling" /\ faults < MaxFaults
  /\ faults' = faults + 1
  /\ Forget(s)
  /\ phase' = [phase EXCEPT ![s] = "ended"]
  /\ UNCHANGED <<lock, active, calls, chunks, nights>>

(* The producer task panics: an error, returned before any adjustment. *)
StreamPanics(s) ==
  /\ s \in Streaming /\ phase[s] = "calling" /\ faults < MaxFaults
  /\ faults' = faults + 1
  /\ Forget(s)
  /\ Leave(s)
  /\ UNCHANGED <<calls, chunks, nights>>

(* The loop ends: a final answer, a budget, or an error before the next call. *)
Finish(s) ==
  /\ phase[s] = "running"
  /\ Leave(s)
  /\ UNCHANGED <<row, ledger, bounds>>

(* tokio::time::timeout drops the future at whatever await it stands. *)
TimesOut(s) ==
  /\ phase[s] \in InFlight
  /\ Forget(s)
  /\ Leave(s)
  /\ UNCHANGED bounds

(* The server dies: its counters and tasks are gone, the rows stay. *)
Crash ==
  /\ faults < MaxFaults
  /\ faults' = faults + 1
  /\ phase' = [s \in Sessions |-> IF phase[s] \in InFlight \/ lock = s
                                  THEN "ended" ELSE phase[s]]
  /\ lock' = NoSession
  /\ active' = 0
  /\ lost' = lost + Estimate * Cardinality(reserved)
  /\ reserved' = {}
  /\ UNCHANGED <<row, spent, freed, loose, calls, chunks, nights>>

(* CURRENT_DATE changes: a new day has no row, and no reservations. *)
Midnight ==
  /\ nights < MaxNights
  /\ nights' = nights + 1
  /\ open' = FALSE /\ prompt' = 0 /\ completion' = 0
  /\ reserved' = {}
  /\ spent' = 0 /\ lost' = 0 /\ freed' = 0 /\ loose' = 0
  /\ UNCHANGED <<slots, calls, chunks, faults>>

SessionStep(s) ==
  \/ AcquireRead(s) \/ AcquireRefuse(s) \/ AcquireAdd(s) \/ StartSync(s)
  \/ OpenRow(s) \/ Reserve(s) \/ OverQuota(s) \/ ReserveFails(s)
  \/ CompleteReturns(s) \/ CompleteFails(s)
  \/ UsageChunk(s) \/ StreamEnds(s) \/ StreamFails(s) \/ StreamPanics(s)
  \/ Finish(s) \/ TimesOut(s)

Next == (\E s \in Sessions : SessionStep(s)) \/ Crash \/ Midnight

Spec == Init /\ [][Next]_vars

(* The timeouts are timers of the server; acquire() has no await once it     *)
(* holds the mutex.  Providers and the database owe nothing.                 *)
FairSpec ==
  Spec /\ \A s \in Sessions : WF_vars(AcquireAdd(s)) /\ WF_vars(TimesOut(s))

-----------------------------------------------------------------------------
(* Properties.                                                              *)

Held == Estimate * Cardinality(reserved)

(* user_quotas.rs:281-332 with runtime.rs: however calls end and in whatever *)
(* order they post, today's prompt count is what was reported, plus what     *)
(* calls in flight and abandoned calls reserved, minus at most what was      *)
(* released without a reservation (repeated chunks, yesterday's calls,       *)
(* calls that passed on a database error).  A reservation stands only as     *)
(* long as its call.                                                         *)
LedgerExplained ==
  /\ \A s \in reserved : phase[s] = "calling"
  /\ prompt <= spent + Held + lost
  /\ spent + Held + lost - freed <= prompt
  /\ reserved # {} => open

(* The reservation bounds by how much a day's count can pass the quota: by   *)
(* one report of each session, and by reports that had no reservation.       *)
OverrunBounded ==
  prompt + completion <= Limit + Excess * Cardinality(Sessions) + loose

(* The requests that hold a guard, and those that acquire() turned away. *)
Taken  == {s \in Streaming : phase[s] \in InFlight}
Turned == {s \in Streaming : phase[s] = "refused"}

(* Guards are dropped on every way out of a request, so the atomic counter   *)
(* behaves as a pool of slots: nobody is turned away while one is free, and  *)
(* each slot comes back.                                                     *)
Pool == INSTANCE SlotPool WITH
  Holders <- Streaming, Slots <- MaxStreams, taken <- Taken, turned <- Turned
SlotsAsPool == Pool!Spec
=============================================================================
