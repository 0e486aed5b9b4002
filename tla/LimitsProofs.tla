---------------------------- MODULE LimitsProofs ----------------------------
(***************************************************************************)
(* Proofs about LlmCalls and Gateways, for any users, requests, quotas and *)
(* rates.  LlmCalls: what the day's row overstates is explained by the     *)
(* calls in flight, an overrun by the sessions whose reservations were     *)
(* lost, and the stream tracker is a pool of slots.  Gateways: the shared  *)
(* limiters keep the pace of their rates, calls reach only what the rules  *)
(* allow, and answers are explained.                                       *)
(***************************************************************************)
EXTENDS LlmCalls, Gateways, FiniteSetTheorems, TLAPS

(***************************************************************************)
(*                               LlmCalls                                  *)
(***************************************************************************)
Debt == Excess * Cardinality(reserved)

(* The part of TypeOK and of the properties that is about the day's row.     *)
DayOK ==
  /\ open \in BOOLEAN /\ prompt \in Nat /\ completion \in Nat
  /\ spent \in Nat /\ lost \in Nat /\ freed \in Nat /\ loose \in Nat
  /\ reserved \in SUBSET Sessions
  /\ reserved # {} => open
  /\ prompt <= spent + Held + lost
  /\ spent + Held + lost - freed <= prompt
  /\ prompt + completion + Debt <= Limit + Excess * Cardinality(Sessions) + loose

ReservedCalling == \A s \in reserved : phase[s] = "calling"

(* The counter counts the guards, and a slot found free stays free while the *)
(* mutex is held.                                                            *)
SlotsOK ==
  /\ active = Cardinality(Taken)
  /\ lock # NoSession => lock \in Streaming /\ phase[lock] = "idle" /\ active < MaxStreams

LlmInv == TypeOK /\ DayOK /\ ReservedCalling /\ SlotsOK

-----------------------------------------------------------------------------
(* Multiplication by a constant, as the ledger uses it.                      *)
LEMMA Multiples ==
  ASSUME NEW e \in Nat, NEW n \in Nat
  PROVE  /\ e * n \in Nat
         /\ e * (n + 1) = e * n + e
         /\ n > 0 => e * (n - 1) = e * n - e /\ e <= e * n
         /\ \A k \in 0..n : e * k <= e * n
  OBVIOUS

(* Reservations are finitely many; one more or one less moves Held by one    *)
(* estimate and Debt by one excess.                                          *)
LEMMA Counting ==
  ASSUME reserved \in SUBSET Sessions, NEW s
  PROVE  /\ Held \in Nat /\ Debt \in Nat
         /\ Debt <= Excess * Cardinality(Sessions)
         /\ Excess * Cardinality(Sessions) \in Nat
         /\ s \in reserved =>
              /\ Estimate * Cardinality(reserved \ {s}) = Held - Estimate
              /\ Excess * Cardinality(reserved \ {s}) = Debt - Excess
              /\ Estimate <= Held /\ Excess <= Debt
         /\ s \notin reserved => reserved \ {s} = reserved
         /\ s \in Sessions \ reserved =>
              /\ Estimate * Cardinality(reserved \cup {s}) = Held + Estimate
              /\ Excess * Cardinality(reserved \cup {s}) <= Excess * Cardinality(Sessions)
<1>1. IsFiniteSet(reserved) /\ Cardinality(reserved) <= Cardinality(Sessions)
  BY FS_Subset, CallConstants
<1>2. Cardinality(reserved) \in Nat /\ Cardinality(Sessions) \in Nat
  BY <1>1, FS_CardinalityType, CallConstants
<1>3. Held \in Nat /\ Debt \in Nat /\ Excess * Cardinality(Sessions) \in Nat
      /\ Debt <= Excess * Cardinality(Sessions)
  BY <1>1, <1>2, Multiples, CallConstants DEF Held, Debt
<1>4. ASSUME s \in reserved
      PROVE  /\ Estimate * Cardinality(reserved \ {s}) = Held - Estimate
             /\ Excess * Cardinality(reserved \ {s}) = Debt - Excess
             /\ Estimate <= Held /\ Excess <= Debt
  <2>1. Cardinality(reserved \ {s}) = Cardinality(reserved) - 1
    BY <1>1, <1>4, FS_RemoveElement
  <2>2. Cardinality(reserved) > 0
    BY <1>1, <1>2, <1>4, FS_EmptySet
  <2> QED
    BY <2>1, <2>2, <1>2, Multiples, CallConstants DEF Held, Debt
<1>5. ASSUME s \in Sessions \ reserved
      PROVE  /\ Estimate * Cardinality(reserved \cup {s}) = Held + Estimate
             /\ Excess * Cardinality(reserved \cup {s}) <= Excess * Cardinality(Sessions)
  <2>1. Cardinality(reserved \cup {s}) = Cardinality(reserved) + 1
    BY <1>1, <1>5, FS_AddElement
  <2>2. reserved \cup {s} \in SUBSET Sessions
    BY <1>5
  <2>3. Cardinality(reserved \cup {s}) <= Cardinality(Sessions)
    BY <2>2, FS_Subset, CallConstants
  <2>4. Estimate * Cardinality(reserved \cup {s}) = Held + Estimate
    BY <2>1, <1>2, Multiples, CallConstants DEF Held
  <2>5. Cardinality(reserved \cup {s}) \in 0..Cardinality(Sessions)
    BY <2>1, <2>3, <1>2
  <2> QED
    BY <2>4, <2>5, <1>2, Multiples, CallConstants
<1>6. s \notin reserved => reserved \ {s} = reserved
  OBVIOUS
<1> QED
  BY <1>3, <1>4, <1>5, <1>6

-----------------------------------------------------------------------------
(* Effects on the day's row. *)

(* A step that leaves row and history alone. *)
LEMMA DaySame == DayOK /\ UNCHANGED <<row, ledger>> => DayOK'
<1> SUFFICES ASSUME DayOK, UNCHANGED <<row, ledger>> PROVE DayOK'
  OBVIOUS
<1>1. UNCHANGED <<open, prompt, completion, reserved, spent, lost, freed, loose>>
  BY DEF row, ledger
<1>2. Held' = Held /\ Debt' = Debt
  BY <1>1 DEF Held, Debt
<1> QED
  BY <1>1, <1>2 DEF DayOK

(* Posting a report, or a release, keeps the books. *)
LEMMA AdjustKeeps ==
  ASSUME DayOK, NEW s \in Sessions, NEW u \in Reports \cup {NoUsage}, Adjust(s, u)
  PROVE  DayOK' /\ reserved' = reserved \ {s}
<1>0. /\ u[1] \in Nat /\ u[2] \in Nat
      /\ u[2] <= Excess /\ u[1] + u[2] - Estimate <= Excess
      /\ Estimate \in Nat /\ Excess \in Nat /\ Limit \in Nat
  BY CallConstants DEF NoUsage
<1>1. CASE ~open
  <2>1. reserved = {} /\ UNCHANGED <<row, ledger>>
    BY <1>1 DEF Adjust, DayOK
  <2> QED
    BY <2>1, DaySame DEF ledger
<1>2. CASE open
  <2>1. /\ prompt' = NonNegative(prompt + u[1] - Estimate)
        /\ completion' = completion + u[2]
        /\ spent' = spent + u[1]
        /\ reserved' = reserved \ {s}
        /\ lost' = lost /\ open' = open
        /\ s \in reserved => freed' = freed /\ loose' = loose
        /\ s \notin reserved => freed' = freed + Estimate /\ loose' = loose + Excess
    BY <1>2 DEF Adjust
  <2>2. /\ prompt' \in Nat /\ prompt' >= prompt + u[1] - Estimate
        /\ prompt' = prompt + u[1] - Estimate \/ prompt' = 0
    BY <2>1, <1>0 DEF DayOK, NonNegative
  <2>3. Held' = Estimate * Cardinality(reserved \ {s}) /\ Debt' = Excess * Cardinality(reserved \ {s})
    BY <2>1 DEF Held, Debt
  <2>4. s \in reserved => Held' = Held - Estimate /\ Debt' = Debt - Excess
    BY <2>3, Counting DEF DayOK
  <2>5. s \notin reserved => Held' = Held /\ Debt' = Debt
    BY <2>3, Counting DEF DayOK, Held, Debt
  <2>6. /\ Held \in Nat /\ Debt \in Nat /\ Excess * Cardinality(Sessions) \in Nat
        /\ s \in reserved => Estimate <= Held /\ Excess <= Debt
    BY Counting DEF DayOK
  <2> DEFINE B == Excess * Cardinality(Sessions)
  <2>7. B \in Nat /\ B' = B
    BY <2>6
  <2> HIDE DEF B
  <2>8. prompt' <= spent' + Held' + lost'
    BY <2>1, <2>2, <2>4, <2>5, <2>6, <1>0 DEF DayOK
  <2>9. spent' + Held' + lost' - freed' <= prompt'
    BY <2>1, <2>2, <2>4, <2>5, <2>6, <1>0 DEF DayOK
  <2>10. prompt + completion + Debt <= Limit + B + loose
    BY DEF DayOK, B
  <2>11. prompt' + completion' + Debt' <= Limit + B + loose'
    BY <2>1, <2>2, <2>4, <2>5, <2>6, <2>7, <2>10, <1>0 DEF DayOK
  <2>12. /\ completion' \in Nat /\ spent' \in Nat /\ lost' \in Nat /\ freed' \in Nat
         /\ loose' \in Nat /\ open' \in BOOLEAN /\ reserved' \in SUBSET Sessions
         /\ reserved' # {} => open'
    BY <2>1, <1>0, <1>2 DEF DayOK
  <2> QED
    BY <2>1, <2>2, <2>8, <2>9, <2>11, <2>12 DEF DayOK, B
<1> QED
  BY <1>1, <1>2

(* An abandoned reservation moves from the calls in flight to the lost ones. *)
LEMMA ForgetKeeps ==
  ASSUME DayOK, NEW s \in Sessions, Forget(s)
  PROVE  DayOK' /\ reserved' = reserved \ {s}
<1>0. Estimate \in Nat /\ Excess \in Nat /\ Limit \in Nat
  BY CallConstants
<1>1. /\ reserved' = reserved \ {s}
      /\ UNCHANGED <<open, prompt, completion, spent, freed, loose>>
      /\ s \in reserved => lost' = lost + Estimate
      /\ s \notin reserved => lost' = lost
  BY DEF Forget, row
<1>2. Held' = Estimate * Cardinality(reserved \ {s}) /\ Debt' = Excess * Cardinality(reserved \ {s})
  BY <1>1 DEF Held, Debt
<1>3. s \in reserved => Held' = Held - Estimate /\ Debt' = Debt - Excess
  BY <1>2, Counting DEF DayOK
<1>4. s \notin reserved => Held' = Held /\ Debt' = Debt
  BY <1>2, Counting DEF DayOK, Held, Debt
<1>5. /\ Held \in Nat /\ Debt \in Nat /\ Excess * Cardinality(Sessions) \in Nat
      /\ s \in reserved => Estimate <= Held /\ Excess <= Debt
  BY Counting DEF DayOK
<1> DEFINE B == Excess * Cardinality(Sessions)
<1>6. B \in Nat /\ prompt + completion + Debt <= Limit + B + loose
  BY <1>5 DEF DayOK
<1> HIDE DEF B
<1>7. prompt' + completion' + Debt' <= Limit + B + loose'
  BY <1>0, <1>1, <1>3, <1>4, <1>5, <1>6 DEF DayOK
<1>8. /\ prompt' <= spent' + Held' + lost'
      /\ spent' + Held' + lost' - freed' <= prompt'
  BY <1>0, <1>1, <1>3, <1>4, <1>5 DEF DayOK
<1>9. /\ lost' \in Nat /\ reserved' \in SUBSET Sessions
      /\ reserved' # {} => open'
  BY <1>0, <1>1 DEF DayOK
<1> QED
  BY <1>1, <1>7, <1>8, <1>9 DEF DayOK, B

(* Posting keeps the books whether or not the statement succeeds. *)
LEMMA PostKeeps ==
  ASSUME DayOK, NEW s \in Sessions, NEW u \in Reports \cup {NoUsage}, Post(s, u)
  PROVE  DayOK' /\ reserved' = reserved \ {s}
  BY AdjustKeeps, ForgetKeeps DEF Post

(* Calls that hold the reservation of the day are not those that ended. *)
LEMMA DroppedCalls ==
  ASSUME ReservedCalling, NEW s \in Sessions, reserved' = reserved \ {s},
         \A t \in Sessions \ {s} : phase'[t] = phase[t], reserved \in SUBSET Sessions
  PROVE  ReservedCalling'
  BY DEF ReservedCalling

-----------------------------------------------------------------------------
(* The stream tracker. *)

(* How the set of slot holders follows the phases. *)
LEMMA TakenSteps ==
  ASSUME phase \in [Sessions -> InFlight \cup {"idle", "ended", "refused"}],
         NEW s \in Sessions, NEW p,
         phase' = [phase EXCEPT ![s] = p]
  PROVE  /\ s \in Streaming /\ p \in InFlight => Taken' = Taken \cup {s}
         /\ s \in Streaming /\ p \notin InFlight => Taken' = Taken \ {s}
         /\ s \notin Streaming => Taken' = Taken
         /\ s \in Streaming /\ phase[s] \in InFlight /\ p \in InFlight => Taken' = Taken
         /\ s \in Streaming /\ phase[s] \notin InFlight /\ p \notin InFlight => Taken' = Taken
  BY CallConstants DEF Taken

(* There are finitely many of them. *)
LEMMA TakenFinite ==
  /\ IsFiniteSet(Taken) /\ Cardinality(Taken) \in Nat
  /\ Taken \in SUBSET Streaming
<1>1. Taken \in SUBSET Sessions
  BY CallConstants DEF Taken
<1> QED
  BY <1>1, FS_Subset, FS_CardinalityType, CallConstants DEF Taken

(* A step of a request that keeps its slot. *)
LEMMA GotoKeeps ==
  ASSUME TypeOK, SlotsOK, NEW s \in Sessions, phase[s] \in InFlight,
         NEW p \in InFlight, Goto(s, p)
  PROVE  SlotsOK'
<1>1. Taken' = Taken
  BY TakenSteps DEF TypeOK, Goto
<1>2. lock # NoSession => lock # s
  BY DEF SlotsOK, InFlight
<1>3. lock # NoSession => phase'[lock] = phase[lock]
  BY <1>2, CallConstants DEF Goto, TypeOK, SlotsOK
<1> QED
  BY <1>1, <1>3 DEF SlotsOK, Goto

(* A request that ends returns its slot, and only a slot it had. *)
LEMMA LeaveKeeps ==
  ASSUME TypeOK, SlotsOK, NEW s \in Sessions, phase[s] \in InFlight, Leave(s)
  PROVE  SlotsOK' /\ active' \in Nat
<1>1. lock # NoSession => lock # s
  BY DEF SlotsOK, InFlight
<1>2. lock # NoSession => phase'[lock] = phase[lock]
  BY <1>1, CallConstants DEF Leave, TypeOK, SlotsOK
<1>3. CASE s \notin Streaming
  <2>1. Taken' = Taken
    BY <1>3, TakenSteps DEF TypeOK, Leave
  <2> QED
    BY <1>2, <1>3, <2>1 DEF SlotsOK, Leave, TypeOK
<1>4. CASE s \in Streaming
  <2>1. Taken' = Taken \ {s} /\ s \in Taken
    BY <1>4, TakenSteps DEF TypeOK, Leave, Taken, InFlight
  <2>2. Cardinality(Taken') = Cardinality(Taken) - 1
    BY <2>1, TakenFinite, FS_RemoveElement
  <2>3. Cardinality(Taken) > 0
    BY <2>1, TakenFinite, FS_EmptySet
  <2>4. active' = active - 1 /\ active = Cardinality(Taken) /\ MaxStreams \in Nat
    BY <1>4, CallConstants DEF SlotsOK, Leave
  <2>5. active' \in Nat /\ active' = Cardinality(Taken')
    BY <2>2, <2>3, <2>4, TakenFinite
  <2>6. lock # NoSession => active' < MaxStreams
    BY <2>4, TakenFinite DEF SlotsOK
  <2> QED
    BY <1>2, <2>5, <2>6 DEF SlotsOK, Leave
<1> QED
  BY <1>3, <1>4

-----------------------------------------------------------------------------
(* Steps of a request. *)

(* A step of a request keeps the books and the slots. *)
LEMMA SessionKeeps ==
  ASSUME LlmInv, NEW s \in Sessions, SessionStep(s)
  PROVE  DayOK' /\ ReservedCalling' /\ SlotsOK' /\ active' \in Nat
<1> USE DEF LlmInv
<1>0. reserved \in SUBSET Sessions /\ phase \in [Sessions -> InFlight \cup {"idle", "ended", "refused"}]
  BY DEF TypeOK
<1>l. \A p : Goto(s, p) \/ Leave(s) => \A t \in Sessions \ {s} : phase'[t] = phase[t]
  BY <1>0 DEF Goto, Leave
<1>u. s \notin reserved \/ phase[s] = "calling"
  BY DEF ReservedCalling
<1>1. CASE AcquireRead(s)
  BY <1>1, DaySame DEF AcquireRead, SlotsOK, Taken, ReservedCalling, ledger, TypeOK
<1>2. CASE AcquireRefuse(s)
  <2>1. Taken' = Taken
    BY <1>2, <1>0, TakenSteps DEF AcquireRefuse, InFlight
  <2> QED
    BY <1>2, <1>u, <1>0, <2>1, DaySame DEF AcquireRefuse, SlotsOK, ReservedCalling, ledger, TypeOK
<1>3. CASE AcquireAdd(s)
  <2>1. s # NoSession /\ s \in Streaming /\ phase[s] = "idle"
    BY <1>3, CallConstants DEF AcquireAdd, SlotsOK
  <2>2. Taken' = Taken \cup {s} /\ s \notin Taken
    BY <2>1, <1>3, <1>0, TakenSteps DEF AcquireAdd, InFlight, Taken
  <2>3. Cardinality(Taken') = Cardinality(Taken) + 1
    BY <2>2, TakenFinite, FS_AddElement
  <2>4. SlotsOK' /\ active' \in Nat
    BY <1>3, <2>3 DEF AcquireAdd, SlotsOK, TypeOK
  <2> QED
    BY <1>3, <1>u, <1>0, <2>1, <2>4, DaySame DEF AcquireAdd, ReservedCalling, ledger
<1>4. CASE StartSync(s)
  <2>1. Taken' = Taken
    BY <1>4, <1>0, TakenSteps DEF StartSync
  <2>2. SlotsOK'
    BY <1>4, <1>0, <2>1 DEF StartSync, SlotsOK
  <2> QED
    BY <1>4, <1>u, <1>0, <2>2, DaySame DEF StartSync, ReservedCalling, ledger, TypeOK
<1>5. CASE OpenRow(s)
  <2>1. SlotsOK' /\ active' \in Nat
    BY <1>5, GotoKeeps DEF OpenRow, InFlight, Goto, TypeOK
  <2>2. UNCHANGED <<prompt, completion, ledger>> /\ open'
    BY <1>5 DEF OpenRow
  <2>3. DayOK'
    BY <2>2 DEF DayOK, ledger, Held, Debt
  <2> QED
    BY <1>5, <1>u, <1>l, <2>1, <2>2, <2>3 DEF OpenRow, ReservedCalling, ledger, TypeOK
<1>6. CASE Reserve(s)
  <2>1. SlotsOK' /\ active' \in Nat
    BY <1>6, GotoKeeps DEF Reserve, InFlight, Goto, TypeOK
  <2>2. s \notin reserved
    BY <1>6, <1>u DEF Reserve
  <2>3. /\ open /\ prompt + completion + Estimate <= Limit
        /\ prompt' = prompt + Estimate /\ reserved' = reserved \cup {s}
        /\ UNCHANGED <<open, completion, spent, lost, freed, loose>>
    BY <1>6 DEF Reserve, HasRoom
  <2>4. Held' = Held + Estimate /\ Debt' <= Excess * Cardinality(Sessions)
    BY <2>2, <2>3, <1>0, Counting DEF Held, Debt
  <2>5. Held \in Nat /\ Excess * Cardinality(Sessions) \in Nat
    BY <1>0, Counting
  <2>6. Debt' \in Nat
    <3>1. IsFiniteSet(reserved')
      BY <2>3, <1>0, FS_Subset, CallConstants
    <3> QED
      BY <3>1, FS_CardinalityType, CallConstants DEF Debt
  <2> DEFINE B == Excess * Cardinality(Sessions)
  <2>7. B \in Nat /\ Debt' <= B
    BY <2>4, <2>5
  <2> HIDE DEF B
  <2>8. prompt' + completion' + Debt' <= Limit + B + loose'
    <3>1. prompt' + completion' <= Limit
      BY <2>3, CallConstants DEF DayOK
    <3>2. prompt' \in Nat /\ completion' \in Nat /\ loose' \in Nat /\ Limit \in Nat
      BY <2>3, CallConstants DEF DayOK
    <3>3. \A p, n, d, l, m, b \in Nat : p + n <= m /\ d <= b => p + n + d <= m + b + l
      OBVIOUS
    <3> QED
      BY <3>1, <3>2, <3>3, <2>6, <2>7
  <2>9. /\ prompt' \in Nat
        /\ prompt' <= spent' + Held' + lost'
        /\ spent' + Held' + lost' - freed' <= prompt'
    BY <2>3, <2>4, <2>5, CallConstants DEF DayOK
  <2>10. DayOK'
    BY <2>3, <2>8, <2>9 DEF DayOK, B
  <2> QED
    BY <1>6, <1>0, <1>l, <2>1, <2>3, <2>10 DEF Reserve, Goto, ReservedCalling
<1>7. CASE OverQuota(s) \/ Finish(s)
  <2>1. SlotsOK' /\ active' \in Nat
    BY <1>7, LeaveKeeps DEF OverQuota, Finish, InFlight
  <2> QED
    BY <1>7, <1>u, <1>l, <2>1, DaySame DEF OverQuota, Finish, ReservedCalling, ledger, TypeOK
<1>8. CASE ReserveFails(s)
  <2>1. SlotsOK' /\ active' \in Nat
    BY <1>8, GotoKeeps DEF ReserveFails, InFlight, Goto, TypeOK
  <2> QED
    BY <1>8, <1>0, <1>l, <2>1, DaySame DEF ReserveFails, Goto, ReservedCalling, ledger
<1>9. CASE CompleteReturns(s)
  <2>1. SlotsOK' /\ active' \in Nat
    BY <1>9, GotoKeeps DEF CompleteReturns, InFlight, Goto, TypeOK
  <2>2. DayOK' /\ reserved' = reserved \ {s}
    BY <1>9, PostKeeps DEF CompleteReturns
  <2> QED
    BY <1>9, <1>0, <1>l, <2>1, <2>2, DroppedCalls DEF CompleteReturns
<1>10. CASE CompleteFails(s) \/ StreamFails(s)
  <2>1. SlotsOK' /\ active' \in Nat
    BY <1>10, LeaveKeeps DEF CompleteFails, StreamFails, InFlight
  <2>2. DayOK' /\ reserved' = reserved \ {s}
    BY <1>10, PostKeeps DEF CompleteFails, StreamFails
  <2> QED
    BY <1>10, <1>0, <1>l, <2>1, <2>2, DroppedCalls DEF CompleteFails, StreamFails
<1>11. CASE UsageChunk(s)
  <2>1. DayOK' /\ reserved' = reserved \ {s}
    BY <1>11, PostKeeps DEF UsageChunk
  <2> QED
    BY <1>11, <1>0, <2>1, DroppedCalls DEF UsageChunk, slots, SlotsOK, Taken, TypeOK
<1>12. CASE StreamEnds(s)
  <2>1. SlotsOK' /\ active' \in Nat
    BY <1>12, GotoKeeps DEF StreamEnds, InFlight, Goto, TypeOK
  <2> QED
    BY <1>12, <1>0, <1>l, <2>1, ForgetKeeps, DroppedCalls DEF StreamEnds
<1>13. CASE StreamPanics(s) \/ TimesOut(s)
  <2>1. SlotsOK' /\ active' \in Nat
    BY <1>13, LeaveKeeps DEF StreamPanics, TimesOut, InFlight
  <2> QED
    BY <1>13, <1>0, <1>l, <2>1, ForgetKeeps, DroppedCalls DEF StreamPanics, TimesOut
<1> QED
  BY <1>1, <1>2, <1>3, <1>4, <1>5, <1>6, <1>7, <1>8, <1>9, <1>10, <1>11, <1>12, <1>13
     DEF SessionStep

(* The death of the server loses the reservations, and frees every slot. *)
LEMMA CrashKeeps ==
  ASSUME LlmInv, Crash
  PROVE  DayOK' /\ ReservedCalling' /\ SlotsOK' /\ active' \in Nat
<1> USE DEF LlmInv
<1>1. reserved' = {} /\ active' = 0 /\ lock' = NoSession /\ lost' = lost + Held
  BY DEF Crash, Held
<1>2. UNCHANGED <<open, prompt, completion, spent, freed, loose>>
  BY DEF Crash, row
<1>3. Cardinality({}) = 0
  BY FS_EmptySet
<1>z. Estimate * 0 = 0 /\ Excess * 0 = 0
  BY CallConstants
<1>h. Held \in Nat /\ Debt \in Nat
  BY Counting DEF TypeOK
<1>4. Held' = 0 /\ Debt' = 0 /\ Held \in Nat /\ Debt \in Nat
  BY <1>1, <1>3, <1>z, <1>h DEF Held, Debt
<1>5. Excess * Cardinality(Sessions) \in Nat
  BY Counting DEF TypeOK
<1> DEFINE B == Excess * Cardinality(Sessions)
<1>6. B \in Nat /\ prompt + completion + Debt <= Limit + B + loose
  BY <1>5 DEF DayOK
<1> HIDE DEF B
<1>7. prompt' + completion' + Debt' <= Limit + B + loose'
  BY <1>2, <1>4, <1>6, CallConstants DEF DayOK
<1>8. DayOK'
  BY <1>1, <1>2, <1>4, <1>7 DEF DayOK, B
<1>9. Taken' = {}
  <2>1. ASSUME NEW t \in Sessions PROVE phase'[t] \notin InFlight
    BY <2>1 DEF Crash, InFlight, TypeOK
  <2> QED
    BY <2>1, CallConstants DEF Taken
<1> QED
  BY <1>1, <1>3, <1>8, <1>9 DEF ReservedCalling, SlotsOK

(* A new day starts with empty books. *)
LEMMA MidnightKeeps ==
  ASSUME LlmInv, Midnight
  PROVE  DayOK' /\ ReservedCalling' /\ SlotsOK' /\ active' \in Nat
<1>1. /\ prompt' = 0 /\ completion' = 0 /\ reserved' = {} /\ spent' = 0 /\ lost' = 0
      /\ freed' = 0 /\ loose' = 0 /\ open' = FALSE
      /\ UNCHANGED <<phase, lock, active>>
  BY DEF Midnight, slots
<1>2. Held' = 0 /\ Debt' = 0
  BY <1>1, FS_EmptySet, CallConstants DEF Held, Debt
<1>3. Excess * Cardinality(Sessions) \in Nat
  BY Counting DEF LlmInv, TypeOK
<1> DEFINE B == Excess * Cardinality(Sessions)
<1>4. B \in Nat
  BY <1>3
<1> HIDE DEF B
<1>5. prompt' + completion' + Debt' <= Limit + B + loose'
  BY <1>1, <1>2, <1>4, CallConstants
<1>a. /\ prompt' \in Nat /\ completion' \in Nat /\ spent' \in Nat /\ lost' \in Nat
      /\ freed' \in Nat /\ loose' \in Nat /\ open' \in BOOLEAN
      /\ reserved' \in SUBSET Sessions /\ (reserved' # {} => open')
  BY <1>1
<1>b. prompt' <= spent' + Held' + lost' /\ spent' + Held' + lost' - freed' <= prompt'
  BY <1>1, <1>2
<1>6. DayOK'
  BY <1>a, <1>b, <1>5 DEF DayOK, B
<1>7. Taken' = Taken
  BY <1>1 DEF Taken
<1>8. SlotsOK'
  BY <1>1, <1>7 DEF SlotsOK, LlmInv
<1>9. ReservedCalling' /\ active' \in Nat
  BY <1>1 DEF ReservedCalling, LlmInv, TypeOK
<1> QED
  BY <1>6, <1>8, <1>9

(* The types of what a step writes beside the row and the slots. *)
LEMMA BoundsStep ==
  ASSUME LlmInv, [Next]_vars
  PROVE  /\ phase' \in [Sessions -> InFlight \cup {"idle", "ended", "refused"}]
         /\ lock' \in Sessions \cup {NoSession}
         /\ calls' \in [Sessions -> 0..MaxCalls] /\ chunks' \in [Sessions -> 0..MaxChunks]
         /\ nights' \in 0..MaxNights /\ faults' \in 0..MaxFaults
<1> USE CallConstants DEF LlmInv, TypeOK, InFlight
<1>1. ASSUME NEW s \in Sessions, NEW p \in InFlight, Goto(s, p)
      PROVE  phase' \in [Sessions -> InFlight \cup {"idle", "ended", "refused"}] /\ lock' = lock
  BY <1>1 DEF Goto
<1>2. ASSUME NEW s \in Sessions, Leave(s)
      PROVE  phase' \in [Sessions -> InFlight \cup {"idle", "ended", "refused"}] /\ lock' = lock
  BY <1>2 DEF Leave
<1>3. ASSUME NEW s \in Sessions, NEW u, Post(s, u)
      PROVE  faults' \in 0..MaxFaults
  BY <1>3 DEF Post
<1>4. ASSUME NEW s \in Sessions,
             AcquireRead(s) \/ AcquireRefuse(s) \/ AcquireAdd(s) \/ StartSync(s)
      PROVE  /\ phase' \in [Sessions -> InFlight \cup {"idle", "ended", "refused"}]
             /\ lock' \in Sessions \cup {NoSession} /\ UNCHANGED <<calls, chunks, nights, faults>>
  BY <1>4 DEF AcquireRead, AcquireRefuse, AcquireAdd, StartSync, bounds
<1>5. ASSUME NEW s \in Sessions, OpenRow(s) \/ Reserve(s) \/ ReserveFails(s)
      PROVE  /\ calls' \in [Sessions -> 0..MaxCalls] /\ chunks' \in [Sessions -> 0..MaxChunks]
             /\ nights' = nights /\ faults' \in 0..MaxFaults
  BY <1>5 DEF OpenRow, Reserve, ReserveFails
<1>6. ASSUME NEW s \in Sessions, UsageChunk(s)
      PROVE  /\ chunks' \in [Sessions -> 0..MaxChunks] /\ faults' \in 0..MaxFaults
             /\ UNCHANGED <<phase, lock, calls, nights>>
  BY <1>6, <1>3 DEF UsageChunk, slots
<1>7. ASSUME NEW s \in Sessions,
             CompleteReturns(s) \/ CompleteFails(s) \/ StreamFails(s) \/ StreamPanics(s)
      PROVE  faults' \in 0..MaxFaults /\ UNCHANGED <<calls, chunks, nights>>
  BY <1>7, <1>3 DEF CompleteReturns, CompleteFails, StreamFails, StreamPanics
<1>8. ASSUME NEW s \in Sessions,
             OverQuota(s) \/ StreamEnds(s) \/ Finish(s) \/ TimesOut(s)
      PROVE  UNCHANGED <<calls, chunks, nights, faults>>
  BY <1>8 DEF OverQuota, StreamEnds, Finish, TimesOut, bounds
<1>9. ASSUME NEW s \in Sessions, SessionStep(s)
      PROVE  /\ AcquireRead(s) \/ AcquireRefuse(s) \/ AcquireAdd(s) \/ StartSync(s)
                \/ UsageChunk(s) \/ Leave(s) \/ \E p \in InFlight : Goto(s, p)
  BY <1>9 DEF SessionStep, OpenRow, Reserve, OverQuota, ReserveFails, CompleteReturns,
     CompleteFails, StreamEnds, StreamFails, StreamPanics, Finish, TimesOut
<1>10. ASSUME NEW s \in Sessions, SessionStep(s)
       PROVE  /\ phase' \in [Sessions -> InFlight \cup {"idle", "ended", "refused"}]
              /\ lock' \in Sessions \cup {NoSession}
  BY <1>1, <1>2, <1>4, <1>6, <1>9, <1>10
<1>11. ASSUME NEW s \in Sessions, SessionStep(s)
       PROVE  /\ calls' \in [Sessions -> 0..MaxCalls] /\ chunks' \in [Sessions -> 0..MaxChunks]
              /\ nights' \in 0..MaxNights /\ faults' \in 0..MaxFaults
  BY <1>4, <1>5, <1>6, <1>7, <1>8, <1>11 DEF SessionStep
<1>12. CASE Crash
  BY <1>12 DEF Crash
<1>13. CASE Midnight
  BY <1>13 DEF Midnight, slots
<1>14. CASE UNCHANGED vars
  BY <1>14 DEF vars, slots, bounds
<1> QED
  BY <1>10, <1>11, <1>12, <1>13, <1>14 DEF Next

(* LlmInv is inductive. *)
THEOREM LlmInvariant == Spec => []LlmInv
<1>1. Init => LlmInv
  <2> SUFFICES ASSUME Init PROVE LlmInv
    OBVIOUS
  <2>1. Taken = {}
    BY CallConstants DEF Init, Taken, InFlight
  <2>2. Cardinality({}) = 0
    BY FS_EmptySet
  <2>3. TypeOK
    <3>1. 0 \in 0..MaxCalls /\ 0 \in 0..MaxChunks /\ 0 \in 0..MaxNights /\ 0 \in 0..MaxFaults
      BY CallConstants
    <3> QED
      BY <3>1 DEF Init, TypeOK
  <2>4. Held = 0 /\ Debt = 0 /\ Excess * Cardinality(Sessions) \in Nat
    <3>1. Estimate * 0 = 0 /\ Excess * 0 = 0
      BY CallConstants
    <3>2. Excess * Cardinality(Sessions) \in Nat
      BY <2>3, Counting DEF TypeOK
    <3> QED
      BY <2>2, <3>1, <3>2 DEF Held, Debt, Init
  <2>5. DayOK
    <3> DEFINE B == Excess * Cardinality(Sessions)
    <3>1. B \in Nat
      BY <2>4
    <3> HIDE DEF B
    <3>2. prompt + completion + Debt <= Limit + B + loose
      BY <2>4, <3>1, CallConstants DEF Init
    <3>3. prompt <= spent + Held + lost /\ spent + Held + lost - freed <= prompt
      BY <2>4 DEF Init
    <3> QED
      BY <3>2, <3>3 DEF DayOK, B, Init
  <2> QED
    BY <2>1, <2>2, <2>3, <2>5 DEF LlmInv, ReservedCalling, SlotsOK, Init
<1>2. LlmInv /\ [Next]_vars => LlmInv'
  <2> SUFFICES ASSUME LlmInv, [Next]_vars PROVE LlmInv'
    OBVIOUS
  <2>1. CASE UNCHANGED vars
    <3>1. UNCHANGED <<row, ledger>> /\ UNCHANGED <<phase, lock, active, reserved>>
      BY <2>1 DEF vars, slots, ledger
    <3>2. DayOK' /\ Taken' = Taken
      BY <3>1, DaySame DEF LlmInv, Taken
    <3>3. TypeOK'
      BY <3>1, <3>2, BoundsStep DEF LlmInv, TypeOK, DayOK
    <3> QED
      BY <3>1, <3>2, <3>3 DEF LlmInv, ReservedCalling, SlotsOK
  <2>2. DayOK' /\ ReservedCalling' /\ SlotsOK' /\ active' \in Nat
    BY <2>1, SessionKeeps, CrashKeeps, MidnightKeeps DEF Next, LlmInv, TypeOK
  <2>3. TypeOK'
    BY <2>2, BoundsStep DEF TypeOK, DayOK
  <2> QED
    BY <2>2, <2>3 DEF LlmInv
<1> QED
  BY <1>1, <1>2, PTL DEF Spec

(* user_quotas.rs:281-332: the books of a day explain its prompt count,      *)
(* whatever calls end how, and nothing is reserved by a call that is over.   *)
THEOREM LedgerHolds == Spec => []LedgerExplained
<1>1. LlmInv => LedgerExplained
  BY DEF LlmInv, DayOK, ReservedCalling, LedgerExplained
<1> QED
  BY <1>1, LlmInvariant, PTL

(* user_quotas.rs:301: the conditional UPDATE bounds how far concurrent      *)
(* calls can pass the quota.                                                 *)
THEOREM OverrunHolds == Spec => []OverrunBounded
<1>1. LlmInv => OverrunBounded
  <2> SUFFICES ASSUME LlmInv PROVE OverrunBounded
    OBVIOUS
  <2>1. Debt \in Nat /\ Excess * Cardinality(Sessions) \in Nat
    BY Counting DEF LlmInv, TypeOK
  <2> QED
    BY <2>1, CallConstants DEF LlmInv, DayOK, OverrunBounded
<1> QED
  BY <1>1, LlmInvariant, PTL

-----------------------------------------------------------------------------
(* The tracker is a pool of slots. *)

(* The instance brings its own copy of FiniteSets. *)
LEMMA SameCardinality == \A S : Pool!Cardinality(S) = Cardinality(S)
  BY DEF Pool!Cardinality, Cardinality

(* The pool's variables, as the instance defines them.                       *)
LEMMA PoolState ==
  /\ Pool!Init <=> Taken = {} /\ Turned = {}
  /\ \A h : Pool!Take(h) <=>
       /\ h \notin Taken \cup Turned /\ Cardinality(Taken) < MaxStreams
       /\ Taken' = Taken \cup {h} /\ Turned' = Turned
  /\ \A h : Pool!TurnAway(h) <=>
       /\ h \notin Taken \cup Turned /\ Cardinality(Taken) >= MaxStreams
       /\ Turned' = Turned \cup {h} /\ Taken' = Taken
  /\ \A S : Pool!Give(S) <=> S # {} /\ S \subseteq Taken /\ Taken' = Taken \ S /\ Turned' = Turned
  /\ UNCHANGED Pool!pool <=> Taken' = Taken /\ Turned' = Turned
<1>1. Pool!Init <=> Taken = {} /\ Turned = {}
  BY DEF Pool!Init
<1>2. \A h : Pool!Take(h) <=>
        /\ h \notin Taken \cup Turned /\ Cardinality(Taken) < MaxStreams
        /\ Taken' = Taken \cup {h} /\ Turned' = Turned
  BY SameCardinality DEF Pool!Take
<1>3. \A h : Pool!TurnAway(h) <=>
        /\ h \notin Taken \cup Turned /\ Cardinality(Taken) >= MaxStreams
        /\ Turned' = Turned \cup {h} /\ Taken' = Taken
  BY SameCardinality DEF Pool!TurnAway
<1>4. \A S : Pool!Give(S) <=>
        S # {} /\ S \subseteq Taken /\ Taken' = Taken \ S /\ Turned' = Turned
  BY DEF Pool!Give
<1>5. UNCHANGED Pool!pool <=> Taken' = Taken /\ Turned' = Turned
  BY DEF Pool!pool
<1> QED
  BY <1>1, <1>2, <1>3, <1>4, <1>5

(* A step of a request takes, refuses or gives a slot, or none of these. *)
LEMMA SessionOnPool ==
  ASSUME LlmInv, NEW s \in Sessions, SessionStep(s)
  PROVE  \/ \E h \in Streaming : Pool!Take(h) \/ Pool!TurnAway(h)
         \/ \E S \in SUBSET Streaming : Pool!Give(S)
         \/ UNCHANGED Pool!pool
<1>0. phase \in [Sessions -> InFlight \cup {"idle", "ended", "refused"}] /\ Streaming \subseteq Sessions
  BY CallConstants DEF LlmInv, TypeOK
<1>1. ASSUME NEW p \in InFlight, Goto(s, p), phase[s] \in InFlight
      PROVE  UNCHANGED Pool!pool
  <2>1. Taken' = Taken
    BY <1>0, <1>1, TakenSteps DEF Goto
  <2>2. Turned' = Turned
    BY <1>0, <1>1 DEF Turned, Goto, InFlight
  <2> QED
    BY <2>1, <2>2, PoolState
<1>2. ASSUME Leave(s), phase[s] \in InFlight
      PROVE  (Pool!Give({s}) /\ s \in Streaming) \/ UNCHANGED Pool!pool
  <2>1. Turned' = Turned
    BY <1>0, <1>2 DEF Turned, Leave, InFlight
  <2>2. s \notin Streaming => Taken' = Taken
    BY <1>0, <1>2, TakenSteps DEF Leave
  <2>3. s \in Streaming => Taken' = Taken \ {s} /\ s \in Taken
    BY <1>0, <1>2, TakenSteps DEF Leave, Taken, InFlight
  <2> QED
    BY <2>1, <2>2, <2>3, PoolState
<1>3. CASE AcquireRead(s) \/ UsageChunk(s)
  <2>1. UNCHANGED phase
    BY <1>3 DEF AcquireRead, UsageChunk, slots
  <2> QED
    BY <2>1, PoolState DEF Taken, Turned
<1>4. CASE AcquireRefuse(s)
  <2>1. s \in Streaming /\ s \notin Taken \cup Turned /\ Cardinality(Taken) >= MaxStreams
    BY <1>4 DEF AcquireRefuse, Taken, Turned, InFlight, LlmInv, SlotsOK
  <2>2. Taken' = Taken
    BY <1>4, <1>0, TakenSteps DEF AcquireRefuse, InFlight
  <2>3. Turned' = Turned \cup {s}
    BY <1>4, <1>0 DEF AcquireRefuse, Turned
  <2> QED
    BY <2>1, <2>2, <2>3, PoolState
<1>5. CASE AcquireAdd(s)
  <2>1. s # NoSession /\ s \in Streaming /\ phase[s] = "idle" /\ Cardinality(Taken) < MaxStreams
    BY <1>5, CallConstants DEF AcquireAdd, LlmInv, SlotsOK
  <2>2. Taken' = Taken \cup {s} /\ s \notin Taken \cup Turned
    BY <2>1, <1>5, <1>0, TakenSteps DEF AcquireAdd, InFlight, Taken, Turned
  <2>3. Turned' = Turned
    BY <2>1, <1>5, <1>0 DEF AcquireAdd, Turned
  <2> QED
    BY <2>1, <2>2, <2>3, PoolState
<1>6. CASE StartSync(s)
  <2>1. Taken' = Taken
    BY <1>6, <1>0, TakenSteps DEF StartSync
  <2>2. Turned' = Turned
    BY <1>6, <1>0 DEF StartSync, Turned
  <2> QED
    BY <2>1, <2>2, PoolState
<1>7. CASE OpenRow(s) \/ Reserve(s) \/ ReserveFails(s) \/ CompleteReturns(s) \/ StreamEnds(s)
  <2>1. phase[s] \in InFlight /\ \E p \in InFlight : Goto(s, p)
    BY <1>7 DEF OpenRow, Reserve, ReserveFails, CompleteReturns, StreamEnds, InFlight
  <2> QED
    BY <2>1, <1>1
<1>8. CASE OverQuota(s) \/ Finish(s) \/ CompleteFails(s) \/ StreamFails(s) \/ StreamPanics(s)
            \/ TimesOut(s)
  <2>1. phase[s] \in InFlight /\ Leave(s)
    BY <1>8 DEF OverQuota, Finish, CompleteFails, StreamFails, StreamPanics, TimesOut, InFlight
  <2> QED
    BY <2>1, <1>2
<1> QED
  BY <1>3, <1>4, <1>5, <1>6, <1>7, <1>8 DEF SessionStep

(* af-api/src/lib.rs:51-75: the mutex around reading and adding, and the     *)
(* guard that every way out drops, make the counter a pool of slots.         *)
THEOREM TrackerIsPool == Spec => Pool!SafeSpec
<1>1. Init => Pool!Init
  <2>1. Init => Taken = {} /\ Turned = {}
    BY CallConstants DEF Init, Taken, Turned, InFlight
  <2> QED
    BY <2>1, PoolState
<1>2. LlmInv /\ [Next]_vars => [Pool!Next]_(Pool!pool)
  <2> SUFFICES ASSUME LlmInv, [Next]_vars PROVE Pool!Next \/ UNCHANGED Pool!pool
    OBVIOUS
  <2>1. CASE \E s \in Sessions : SessionStep(s)
    BY <2>1, SessionOnPool DEF Pool!Next
  <2>2. CASE Crash
    <3>1. Turned' = Turned /\ Taken' = {}
      <4>1. /\ \A t \in Streaming : phase'[t] \notin InFlight
            /\ \A t \in Streaming : phase'[t] = "refused" <=> phase[t] = "refused"
        BY <2>2, CallConstants DEF Crash, InFlight, LlmInv, SlotsOK
      <4> QED
        BY <4>1 DEF Taken, Turned
    <3>2. Taken \in SUBSET Streaming
      BY DEF Taken
    <3>3. Taken # {} => Pool!Give(Taken)
      <4>1. Taken \ Taken = {} /\ Taken \subseteq Taken
        OBVIOUS
      <4> QED
        BY <3>1, <4>1, PoolState
    <3>4. Taken = {} => UNCHANGED Pool!pool
      BY <3>1, PoolState
    <3> QED
      BY <3>2, <3>3, <3>4 DEF Pool!Next
  <2>3. CASE Midnight \/ UNCHANGED vars
    <3>1. UNCHANGED phase
      BY <2>3 DEF Midnight, vars, slots
    <3> QED
      BY <3>1, PoolState DEF Taken, Turned
  <2> QED
    BY <2>1, <2>2, <2>3 DEF Next
<1> QED
  BY <1>1, <1>2, LlmInvariant, PTL DEF Spec, Pool!SafeSpec

(***************************************************************************)
(*                               Gateways                                  *)
(***************************************************************************)
(* The smaller of two numbers. *)
LEMMA MinOfTwo ==
  ASSUME NEW m \in Int, NEW n \in Int PROVE Min({m, n}) = IF m <= n THEN m ELSE n
<1> DEFINE k == IF m <= n THEN m ELSE n
<1>1. k \in {m, n} /\ \A y \in {m, n} : k <= y
  OBVIOUS
<1>2. \A x \in {m, n} : (\A y \in {m, n} : x <= y) => x = k
  OBVIOUS
<1> HIDE DEF k
<1>3. Min({m, n}) = k
  BY <1>1, <1>2 DEF Min
<1> QED
  BY <1>3 DEF k

(* The larger of two numbers. *)
LEMMA MaxOfTwo ==
  ASSUME NEW m \in Int, NEW n \in Int PROVE Max({m, n}) = IF m >= n THEN m ELSE n
<1> DEFINE k == IF m >= n THEN m ELSE n
<1>1. k \in {m, n} /\ \A y \in {m, n} : k >= y
  OBVIOUS
<1>2. \A x \in {m, n} : (\A y \in {m, n} : x >= y) => x = k
  OBVIOUS
<1> HIDE DEF k
<1>3. Max({m, n}) = k
  BY <1>1, <1>2 DEF Max
<1> QED
  BY <1>3 DEF k

(* What a bucket can have: *)
Buckets(rpm) == [tokens : 0..Capacity(rpm), since : 0..(PerToken(rpm) - 1)]

(* time that its missing tokens, and its interval, take at most. *)
Owed(rpm, b) == (Capacity(rpm) - b.tokens) * PerToken(rpm) + (PerToken(rpm) - 1 - b.since)
Most(rpm)    == Capacity(rpm) * PerToken(rpm) + (PerToken(rpm) - 1)


(* Rates whose intervals are not shorter than a unit of time. *)
Rates == {rpm \in Nat : Capacity(rpm) <= Minute}

(* An interval is at least a unit of time, and all of them fit into a minute. *)
LEMMA RateFacts ==
  ASSUME NEW rpm \in Rates
  PROVE  /\ Capacity(rpm) \in Nat \ {0} /\ PerToken(rpm) \in Nat \ {0}
         /\ Capacity(rpm) * PerToken(rpm) <= Minute /\ Capacity(rpm) * PerToken(rpm) \in Nat
<1> DEFINE f == Capacity(rpm)
<1>1. f = IF rpm >= 1 THEN rpm ELSE 1
  BY MaxOfTwo DEF Capacity, Rates
<1>2. f \in Nat \ {0} /\ f <= Minute
  BY <1>1 DEF Rates
<1>3. PerToken(rpm) = Minute \div f
  BY DEF PerToken
<1> HIDE DEF f
<1>4. Minute \div f \in Nat \ {0} /\ f * (Minute \div f) <= Minute
  BY <1>2, RateLimitConstants, Z3
<1>5. f * (Minute \div f) \in Nat
  BY <1>2, <1>4
<1> QED
  BY <1>2, <1>3, <1>4, <1>5 DEF f

(* The two rates are such. *)
LEMMA RpmsAreRates == GlobalRpm \in Rates /\ UserRpm \in Rates /\ \A l : Rpm(l) \in Rates
  BY GatewayConstants DEF Rates, Rpm

(* What is owed is less than a full bucket and one more. *)
LEMMA OwedBounds ==
  ASSUME NEW rpm \in Rates, NEW b \in Buckets(rpm)
  PROVE  /\ Owed(rpm, b) \in Nat /\ Most(rpm) \in Nat /\ Owed(rpm, b) <= Most(rpm)
         /\ Most(rpm) < (Capacity(rpm) + 1) * PerToken(rpm)
         /\ PerToken(rpm) <= Most(rpm) + 1
<1> DEFINE f == Capacity(rpm)
           i == PerToken(rpm)
           t == b.tokens
           s == b.since
<1>1. f \in Nat \ {0} /\ i \in Nat \ {0} /\ t \in 0..f /\ s \in 0..(i - 1) /\ f * i \in Nat
  BY RateFacts DEF Buckets
<1>2. Owed(rpm, b) = (f - t) * i + (i - 1 - s) /\ Most(rpm) = f * i + (i - 1)
  BY DEF Owed, Most
<1> HIDE DEF f, i, t, s
<1>3. (f - t) * i = f * i - t * i /\ t * i \in Nat /\ (f + 1) * i = f * i + i /\ (f - t) * i \in Nat
  BY <1>1
<1> QED
  BY <1>1, <1>2, <1>3 DEF f, i

(* A new bucket owes less than an interval. *)
LEMMA FullOwes ==
  ASSUME NEW rpm \in Rates
  PROVE  /\ FullBucket(rpm) \in Buckets(rpm)
         /\ Owed(rpm, FullBucket(rpm)) = PerToken(rpm) - 1
<1>1. Capacity(rpm) \in Nat \ {0} /\ PerToken(rpm) \in Nat \ {0}
  BY RateFacts
<1> QED
  BY <1>1 DEF FullBucket, Buckets, Owed

(* A token that is spent owes an interval more. *)
LEMMA SpentOwes ==
  ASSUME NEW rpm \in Rates, NEW b \in Buckets(rpm), b.tokens > 0
  PROVE  /\ Spent(b) \in Buckets(rpm)
         /\ Owed(rpm, Spent(b)) = Owed(rpm, b) + PerToken(rpm)
<1> DEFINE f == Capacity(rpm)
           i == PerToken(rpm)
           t == b.tokens
           s == b.since
<1>1. f \in Nat \ {0} /\ i \in Nat \ {0} /\ t \in 1..f /\ s \in 0..(i - 1)
  BY RateFacts DEF Buckets
<1>2. Spent(b) \in Buckets(rpm) /\ Spent(b).tokens = t - 1 /\ Spent(b).since = s
  BY <1>1 DEF Spent, Buckets
<1>3. /\ Owed(rpm, b) = (f - t) * i + (i - 1 - s)
      /\ Owed(rpm, Spent(b)) = (f - (t - 1)) * i + (i - 1 - s)
  BY <1>2 DEF Owed
<1> HIDE DEF f, i, t, s
<1>4. (f - (t - 1)) * i = (f - t) * i + i /\ (f - t) * i \in Int
  BY <1>1
<1> QED
  BY <1>1, <1>2, <1>3, <1>4 DEF i

(* A unit of time makes a bucket older, or completes its interval; it pays   *)
(* for one unit at most.                                                     *)
LEMMA AgedOwes ==
  ASSUME NEW rpm \in Rates, NEW b \in Buckets(rpm)
  PROVE  /\ Aged(b, rpm) \in Buckets(rpm)
         /\ Owed(rpm, b) - 1 <= Owed(rpm, Aged(b, rpm))
<1> DEFINE f == Capacity(rpm)
           i == PerToken(rpm)
           t == b.tokens
           s == b.since
           later == s + 1
           c == Aged(b, rpm)
<1>1. f \in Nat \ {0} /\ i \in Nat \ {0} /\ t \in 0..f /\ s \in 0..(i - 1) /\ later \in 1..i
  BY RateFacts DEF Buckets
<1>2. c = [tokens |-> Min({f, t + (later \div i)}), since |-> later % i]
  BY DEF Aged, Refilled, Buckets
<1>3. Owed(rpm, b) = (f - t) * i + (i - 1 - s) /\ Owed(rpm, c) = (f - c.tokens) * i + (i - 1 - c.since)
  BY DEF Owed
<1>4. Buckets(rpm) = [tokens : 0..f, since : 0..(i - 1)]
  BY DEF Buckets
<1> HIDE DEF f, i, t, s, c
<1>5. CASE later < i
  <2>1. later \div i = 0 /\ later % i = later
    BY <1>1, <1>5, Z3
  <2>2. Min({f, t + 0}) = t
    BY <1>1, MinOfTwo
  <2>5. c = [tokens |-> t, since |-> later]
    BY <1>2, <2>1, <2>2
  <2>3. c.tokens = t /\ c.since = s + 1 /\ c \in Buckets(rpm)
    BY <1>1, <1>4, <1>5, <2>5
  <2>4. (f - t) * i \in Int
    BY <1>1
  <2> QED
    BY <1>1, <1>3, <2>3, <2>4 DEF c
<1>6. CASE later = i
  <2>1. later \div i = 1 /\ later % i = 0
    BY <1>1, <1>6, Z3
  <2>2. Min({f, t + 1}) = IF t = f THEN f ELSE t + 1
    BY <1>1, MinOfTwo
  <2>3. c = [tokens |-> IF t = f THEN f ELSE t + 1, since |-> 0]
    BY <1>2, <2>1, <2>2
  <2>4. c \in Buckets(rpm) /\ c.since = 0 /\ (c.tokens = t + 1 \/ (t = f /\ c.tokens = f))
    BY <1>1, <1>4, <2>3
  <2>5. s = i - 1
    BY <1>1, <1>6
  <2>6. CASE c.tokens = t + 1
    <3>1. (f - t) * i = (f - (t + 1)) * i + i /\ (f - t) * i \in Int
      BY <1>1
    <3> QED
      BY <1>1, <1>3, <2>4, <2>5, <2>6, <3>1 DEF c
  <2>7. CASE t = f /\ c.tokens = f
    <3>1. (f - f) * i = 0
      BY <1>1
    <3> QED
      BY <1>1, <1>3, <2>4, <2>5, <2>7, <3>1 DEF c
  <2> QED
    BY <2>4, <2>6, <2>7
<1> QED
  BY <1>1, <1>5, <1>6
AllKinds == {"fetch", "search", "report", "send", "reply", "read"}

(* What a request of each kind may still have ahead of it: before its rules  *)
(* are checked, after that, and, for pages, after their names are resolved.  *)
Resolved == {<<"global", "call", "put">>, <<"call", "put">>, <<"put">>}

Unchecked(k) ==
  CASE k = "fetch" -> {<<"enter", "user", "rules", "cache", "resolve", "global", "call", "put">>,
                       <<"user", "rules", "cache", "resolve", "global", "call", "put">>,
                       <<"rules", "cache", "resolve", "global", "call", "put">>}
    [] k = "send"  -> {<<"global", "enter", "user", "rules", "credentials", "call">>,
                       <<"enter", "user", "rules", "credentials", "call">>,
                       <<"user", "rules", "credentials", "call">>,
                       <<"global", "rules", "credentials", "call">>,
                       <<"rules", "credentials", "call">>}
    [] k = "reply" -> {<<"global", "enter", "user", "credentials", "parent", "rules", "call">>,
                       <<"enter", "user", "credentials", "parent", "rules", "call">>,
                       <<"user", "credentials", "parent", "rules", "call">>,
                       <<"global", "credentials", "parent", "rules", "call">>,
                       <<"credentials", "parent", "rules", "call">>,
                       <<"parent", "rules", "call">>, <<"rules", "call">>}
    [] OTHER       -> {}

Checked(k) ==
  CASE k = "fetch"  -> Resolved \cup {<<"cache", "resolve", "global", "call", "put">>,
                                      <<"resolve", "global", "call", "put">>}
    [] k = "search" -> {<<"enter", "user", "global", "call">>, <<"user", "global", "call">>,
                        <<"global", "call">>, <<"call">>}
    [] k = "report" -> {<<"enter", "user", "cache", "global", "call", "put">>,
                        <<"user", "cache", "global", "call", "put">>,
                        <<"cache", "global", "call", "put">>, <<"global", "call", "put">>,
                        <<"call", "put">>, <<"put">>}
    [] k = "send"   -> {<<"credentials", "call">>, <<"call">>}
    [] k = "reply"  -> {<<"call">>}
    [] k = "read"   -> {<<"credentials", "call">>, <<"call">>}

Ahead(k) == Unchecked(k) \cup Checked(k) \cup (IF k \in {"fetch", "report"} THEN {<<"answer">>} ELSE {})

(* A route begins there, *)
LEMMA RouteBegins ==
  ASSUME NEW k \in AllKinds, NEW known \in BOOLEAN
  PROVE  /\ Route(k, known) \in Ahead(k) /\ Route(k, known) \notin Resolved
         /\ k \in {"fetch", "send", "reply"} => Route(k, known) \in Unchecked(k)
BY DEF AllKinds, Route, Ahead, Unchecked, Checked, Resolved

(* What follows the first of a few stages. *)
LEMMA Tails ==
  /\ \A t, s1 : t = <<s1>> => Tail(t) = <<>>
  /\ \A t, s1, s2 : t = <<s1, s2>> => Tail(t) = <<s2>> /\ Tail(t) # <<>>
  /\ \A t, s1, s2, s3 : t = <<s1, s2, s3>> => Tail(t) = <<s2, s3>> /\ Tail(t) # <<>>
  /\ \A t, s1, s2, s3, s4 : t = <<s1, s2, s3, s4>> => Tail(t) = <<s2, s3, s4>> /\ Tail(t) # <<>>
  /\ \A t, s1, s2, s3, s4, s5 : t = <<s1, s2, s3, s4, s5>> => Tail(t) = <<s2, s3, s4, s5>> /\ Tail(t) # <<>>
  /\ \A t, s1, s2, s3, s4, s5, s6 : t = <<s1, s2, s3, s4, s5, s6>> => Tail(t) = <<s2, s3, s4, s5, s6>> /\ Tail(t) # <<>>
  /\ \A t, s1, s2, s3, s4, s5, s6, s7 : t = <<s1, s2, s3, s4, s5, s6, s7>> => Tail(t) = <<s2, s3, s4, s5, s6, s7>> /\ Tail(t) # <<>>
  /\ \A t, s1, s2, s3, s4, s5, s6, s7, s8 : t = <<s1, s2, s3, s4, s5, s6, s7, s8>> => Tail(t) = <<s2, s3, s4, s5, s6, s7, s8>> /\ Tail(t) # <<>>
<1>1. \A t, s1 : t = <<s1>> => Tail(t) = <<>>
  OBVIOUS
<1>2. \A t, s1, s2 : t = <<s1, s2>> => Tail(t) = <<s2>> /\ Tail(t) # <<>>
  OBVIOUS
<1>3. \A t, s1, s2, s3 : t = <<s1, s2, s3>> => Tail(t) = <<s2, s3>> /\ Tail(t) # <<>>
  OBVIOUS
<1>4. \A t, s1, s2, s3, s4 : t = <<s1, s2, s3, s4>> => Tail(t) = <<s2, s3, s4>> /\ Tail(t) # <<>>
  OBVIOUS
<1>5. \A t, s1, s2, s3, s4, s5 : t = <<s1, s2, s3, s4, s5>> => Tail(t) = <<s2, s3, s4, s5>> /\ Tail(t) # <<>>
  OBVIOUS
<1>6. \A t, s1, s2, s3, s4, s5, s6 : t = <<s1, s2, s3, s4, s5, s6>> => Tail(t) = <<s2, s3, s4, s5, s6>> /\ Tail(t) # <<>>
  OBVIOUS
<1>7. \A t, s1, s2, s3, s4, s5, s6, s7 : t = <<s1, s2, s3, s4, s5, s6, s7>> => Tail(t) = <<s2, s3, s4, s5, s6, s7>> /\ Tail(t) # <<>>
  OBVIOUS
<1>8. \A t, s1, s2, s3, s4, s5, s6, s7, s8 : t = <<s1, s2, s3, s4, s5, s6, s7, s8>> => Tail(t) = <<s2, s3, s4, s5, s6, s7, s8>> /\ Tail(t) # <<>>
  OBVIOUS
<1> QED
  BY <1>1, <1>2, <1>3, <1>4, <1>5, <1>6, <1>7, <1>8

(* and goes on there. *)
LEMMA StagesFollow ==
  ASSUME NEW k \in AllKinds, NEW t \in Ahead(k), Tail(t) # <<>>
  PROVE  /\ Tail(t) \in Ahead(k)
         /\ Tail(t) \in Checked(k) => t \in Checked(k) \/ Head(t) = "rules"
         /\ (Tail(t) \in Resolved /\ k = "fetch") => (t \in Resolved \/ Head(t) = "resolve")
<1>1. CASE k = "fetch"
  <2>1. Tail(t) \in Ahead(k)
    <3>1. CASE t \in Unchecked(k)
      <4>1. \/ t = <<"enter", "user", "rules", "cache", "resolve", "global", "call", "put">>
            \/ t = <<"user", "rules", "cache", "resolve", "global", "call", "put">>
            \/ t = <<"rules", "cache", "resolve", "global", "call", "put">>
        BY <1>1, <3>1 DEF Unchecked
      <4>2. \/ Tail(t) = <<"user", "rules", "cache", "resolve", "global", "call", "put">>
            \/ Tail(t) = <<"rules", "cache", "resolve", "global", "call", "put">>
            \/ Tail(t) = <<"cache", "resolve", "global", "call", "put">>
        BY <4>1, Tails, SMTT(60)
      <4>3. \/ Tail(t) \in Unchecked(k)
            \/ Tail(t) \in Checked(k)
        BY <1>1, <4>2, ZenonT(30) DEF Unchecked, Checked
      <4> QED
        BY <4>3, ZenonT(30) DEF Ahead
    <3>2. CASE t \in Checked(k)
      BY <1>1, <3>2, Tails, SMTT(60) DEF Ahead, Unchecked, Checked, Resolved
    <3>3. CASE t = <<"answer">>
      BY <1>1, <3>3, Tails, SMTT(60) DEF Ahead, Unchecked, Checked, Resolved
    <3> QED
      BY <1>1, <3>1, <3>2, <3>3 DEF Ahead
  <2>2. Tail(t) \in Checked(k) => t \in Checked(k) \/ Head(t) = "rules"
    BY <1>1, Tails, SMTT(60) DEF Ahead, Unchecked, Checked, Resolved
  <2>3. Tail(t) \in Resolved => t \in Resolved \/ Head(t) = "resolve"
    BY <1>1, Tails, SMTT(60) DEF Ahead, Unchecked, Checked, Resolved
  <2> QED
    BY <2>1, <2>2, <2>3
<1>2. CASE k = "search"
  BY <1>2, Tails, SMTT(90) DEF Ahead, Unchecked, Checked, Resolved
<1>3. CASE k = "report"
  BY <1>3, Tails, SMTT(90) DEF Ahead, Unchecked, Checked, Resolved
<1>4. CASE k = "send"
  BY <1>4, Tails, SMTT(90) DEF Ahead, Unchecked, Checked, Resolved
<1>5. CASE k = "reply"
  BY <1>5, Tails, SMTT(90) DEF Ahead, Unchecked, Checked, Resolved
<1>6. CASE k = "read"
  BY <1>6, Tails, SMTT(90) DEF Ahead, Unchecked, Checked, Resolved
<1> QED
  BY <1>1, <1>2, <1>3, <1>4, <1>5, <1>6 DEF AllKinds

(* A call comes after the check of rules, and for a page after its addresses. *)
LEMMA StageFacts ==
  ASSUME NEW k \in AllKinds, NEW t \in Ahead(k)
  PROVE  /\ t # <<>>
         /\ Head(t) = "call" => t \in Checked(k) /\ (k = "fetch" => t \in Resolved)
         /\ Head(t) = "parent" => Tail(t) \in Unchecked(k)
         /\ Head(t) \in {"cache", "put"} => k \in {"fetch", "report"}
<1>1. CASE k = "fetch"
  BY <1>1, SMTT(90) DEF Ahead, Unchecked, Checked, Resolved
<1>2. CASE k = "search"
  BY <1>2 DEF Ahead, Unchecked, Checked, Resolved
<1>3. CASE k = "report"
  BY <1>3 DEF Ahead, Unchecked, Checked, Resolved
<1>4. CASE k = "send"
  BY <1>4, SMTT(90) DEF Ahead, Unchecked, Checked, Resolved
<1>5. CASE k = "reply"
  BY <1>5, Tails, SMTT(90) DEF Ahead, Unchecked, Checked, Resolved
<1>6. CASE k = "read"
  BY <1>6, SMTT(90) DEF Ahead, Unchecked, Checked, Resolved
<1> QED
  BY <1>1, <1>2, <1>3, <1>4, <1>5, <1>6 DEF AllKinds

(* Of two or more stages one is left. *)
LEMMA LongTails ==
  /\ \A t, s1, s2 : t = <<s1, s2>> => Tail(t) # <<>>
  /\ \A t, s1, s2, s3 : t = <<s1, s2, s3>> => Tail(t) # <<>>
  /\ \A t, s1, s2, s3, s4 : t = <<s1, s2, s3, s4>> => Tail(t) # <<>>
  /\ \A t, s1, s2, s3, s4, s5 : t = <<s1, s2, s3, s4, s5>> => Tail(t) # <<>>
  /\ \A t, s1, s2, s3, s4, s5, s6 : t = <<s1, s2, s3, s4, s5, s6>> => Tail(t) # <<>>
  /\ \A t, s1, s2, s3, s4, s5, s6, s7 : t = <<s1, s2, s3, s4, s5, s6, s7>> => Tail(t) # <<>>
  /\ \A t, s1, s2, s3, s4, s5, s6, s7, s8 : t = <<s1, s2, s3, s4, s5, s6, s7, s8>> => Tail(t) # <<>>
  BY Tails

(* Only the last of them have nothing after them. *)
LEMMA MoreStages ==
  ASSUME NEW k \in AllKinds, NEW t \in Ahead(k), Head(t) \notin {"call", "put", "answer"}
  PROVE  Tail(t) # <<>>
<1>1. CASE k = "fetch"
  BY <1>1, LongTails, SMTT(60) DEF Ahead, Unchecked, Checked, Resolved
<1>2. CASE k = "search"
  BY <1>2, LongTails, SMTT(60) DEF Ahead, Unchecked, Checked, Resolved
<1>3. CASE k = "report"
  BY <1>3, LongTails, SMTT(60) DEF Ahead, Unchecked, Checked, Resolved
<1>4. CASE k = "send"
  BY <1>4, LongTails, SMTT(60) DEF Ahead, Unchecked, Checked, Resolved
<1>5. CASE k = "reply"
  BY <1>5, LongTails, SMTT(60) DEF Ahead, Unchecked, Checked, Resolved
<1>6. CASE k = "read"
  BY <1>6, LongTails, SMTT(60) DEF Ahead, Unchecked, Checked, Resolved
<1> QED
  BY <1>1, <1>2, <1>3, <1>4, <1>5, <1>6 DEF AllKinds

(* Rules are checked before anything is resolved. *)
LEMMA ResolvedLater == \A t \in Resolved : Head(t) \notin {"rules", "resolve"}
BY DEF Resolved

(* What comes before the check of rules does not come after it. *)
LEMMA UncheckedFirst == \A k \in {"fetch", "send", "reply"} : Unchecked(k) \cap Checked(k) = {}
<1>1. Unchecked("fetch") \cap Checked("fetch") = {}
  BY DEF Unchecked, Checked, Resolved
<1>2. Unchecked("send") \cap Checked("send") = {}
  BY DEF Unchecked, Checked
<1>3. Unchecked("reply") \cap Checked("reply") = {}
  BY DEF Unchecked, Checked
<1> QED
  BY <1>1, <1>2, <1>3

(* Only a reply reads a parent. *)
LEMMA OnlyReplies ==
  ASSUME NEW k \in AllKinds, NEW t \in Ahead(k), Head(t) = "parent"
  PROVE  k = "reply"
<1>1. CASE k = "fetch"
  BY <1>1 DEF Ahead, Unchecked, Checked, Resolved
<1>2. CASE k = "search"
  BY <1>2 DEF Ahead, Unchecked, Checked, Resolved
<1>3. CASE k = "report"
  BY <1>3 DEF Ahead, Unchecked, Checked, Resolved
<1>4. CASE k = "send"
  BY <1>4 DEF Ahead, Unchecked, Checked, Resolved
<1>5. CASE k = "reply"
  BY <1>5 DEF Ahead, Unchecked, Checked, Resolved
<1>6. CASE k = "read"
  BY <1>6 DEF Ahead, Unchecked, Checked, Resolved
<1> QED
  BY <1>1, <1>2, <1>3, <1>4, <1>5, <1>6 DEF AllKinds

(* A cached answer is near the end of a route. *)
LEMMA AnswerAhead ==
  ASSUME NEW k \in {"fetch", "report"}
  PROVE  <<"answer">> \in Ahead(k) /\ <<"answer">> \notin Checked(k) \cup Resolved
BY DEF Ahead, Unchecked, Checked, Resolved

-----------------------------------------------------------------------------
Fields == {"owner", "kind", "asked", "rules", "target", "addresses", "hops", "limiter",
           "left", "sleep", "answer"}

AllowedBy(rules, pages) == \A p \in pages : ~Blocked(p, {}, rules)

(* What may be cached, or answered: of which kind and for which page.        *)
RowOf(kind, page, held) ==
  /\ DOMAIN held = {"kind", "asked", "page", "rules", "age"}
  /\ held.kind = kind /\ held.asked = page /\ held.age \in Nat
  /\ AllowedBy(held.rules, held.page)

(* A request that is served: its targets have been vetted as far as it has   *)
(* come.                                                                     *)
Vetted(svc, t, q) ==
  /\ q.kind \in Kinds[svc] /\ q.asked \in Pages /\ t \in Ahead(q.kind)
  /\ q.kind \in {"search", "report", "read"} => q.target = {}
  /\ t \in Checked(q.kind) => AllowedBy(q.rules, q.target)
  /\ q.kind = "fetch" /\ t \in Resolved => \A p \in q.target : Valid(p, q.addresses, q.rules)

(* What is answered is explained. *)
Answered(q) ==
  q.answer # Nothing =>
    RowOf(q.kind, q.asked, q.answer) /\ (q.answer.age = 0 \/ q.answer.age < CacheTtl)

Sound(svc, s, t, q) ==
  /\ DOMAIN q = Fields /\ q.hops \in 0..MaxRedirects
  /\ IF s = "served" THEN Vetted(svc, t, q) /\ Answered(q) ELSE t = <<>> /\ q.answer = Nothing

AllSound ==
  /\ service \in Services
  /\ DOMAIN state = Requests /\ DOMAIN todo = Requests /\ DOMAIN request = Requests
  /\ \A r \in Requests : Sound(service, state[r], todo[r], request[r])

CacheSound ==
  /\ DOMAIN cache = Pages
  /\ \A p \in Pages : cache[p] # Nothing =>
       \E kind \in Kinds[service] \cap {"fetch", "report"} : RowOf(kind, p, cache[p])

VetInv == AllSound /\ CacheSound

(* The kinds of all services. *)
LEMMA KindsKnown == \A svc \in Services : Kinds[svc] \subseteq AllKinds
  BY DEF Services, Kinds, AllKinds

(* The code's limit on redirects. *)
LEMMA MaxRedirectsNat == MaxRedirects \in Nat
  BY GatewayConstants

(* What the locals say of pages and answers is the same. *)
SameTask(q, l) ==
  /\ DOMAIN l = Fields /\ l.kind = q.kind /\ l.asked = q.asked
  /\ l.rules = q.rules /\ l.target = q.target /\ l.addresses = q.addresses
  /\ l.hops = q.hops /\ l.answer = q.answer

(* Other locals do not matter. *)
LEMMA SameIsSound ==
  ASSUME NEW svc, NEW s, NEW t, NEW q, NEW l, Sound(svc, s, t, q), SameTask(q, l)
  PROVE  Sound(svc, s, t, l)
  BY DEF Sound, Vetted, Answered, SameTask

(* A stage that vets nothing. *)
LEMMA PassIsSound ==
  ASSUME NEW svc \in Services, NEW t, NEW q, NEW l, Sound(svc, "served", t, q), SameTask(q, l),
         Tail(t) # <<>>, Head(t) \notin {"rules", "resolve"}
  PROVE  Sound(svc, "served", Tail(t), l)
<1>1. q.kind \in AllKinds /\ t \in Ahead(q.kind)
  BY KindsKnown DEF Sound, Vetted
<1>2. /\ Tail(t) \in Ahead(q.kind)
      /\ Tail(t) \in Checked(q.kind) => t \in Checked(q.kind)
      /\ q.kind = "fetch" /\ Tail(t) \in Resolved => t \in Resolved
  BY <1>1, StagesFollow
<1>3. Vetted(svc, Tail(t), q)
  BY <1>2 DEF Sound, Vetted
<1> QED
  BY <1>3, SameIsSound DEF Sound

(* On with locals that are fine leaves the others alone. *)
LEMMA ContinueSound ==
  ASSUME AllSound, NEW r \in Requests, NEW stages, NEW locals, Continue(r, stages, locals),
         Sound(service, state[r], stages, locals), UNCHANGED service
  PROVE  AllSound'
<1> DEFINE l == [locals EXCEPT !.left = Timeout(Head(stages)), !.sleep = 0]
<1>1. SameTask(locals, l)
  BY DEF SameTask, Sound, Fields
<1>2. Sound(service, state[r], stages, l)
  BY <1>1, SameIsSound
<1>3. /\ todo'[r] = stages /\ request'[r] = l
      /\ \A q \in Requests \ {r} : todo'[q] = todo[q] /\ request'[q] = request[q]
      /\ state' = state /\ service' = service
      /\ DOMAIN todo' = Requests /\ DOMAIN request' = Requests
  BY DEF Continue, AllSound
<1> HIDE DEF l
<1>4. \A q \in Requests : Sound(service', state'[q], todo'[q], request'[q])
  BY <1>2, <1>3 DEF AllSound
<1> QED
  BY <1>3, <1>4 DEF AllSound

(* Its end leaves nothing to be vetted. *)
LEMMA EndSound ==
  ASSUME AllSound, NEW r \in Requests, End(r), UNCHANGED service
  PROVE  AllSound'
<1>1. Sound(service, "done", <<>>, NoLocals)
  BY GatewayConstants DEF Sound, NoLocals, Locals, Fields
<1>2. /\ todo'[r] = <<>> /\ request'[r] = NoLocals /\ state'[r] = "done"
      /\ \A q \in Requests \ {r} : todo'[q] = todo[q] /\ request'[q] = request[q] /\ state'[q] = state[q]
      /\ DOMAIN state' = Requests /\ service' = service
      /\ DOMAIN todo' = Requests /\ DOMAIN request' = Requests
  BY DEF End, AllSound
<1>3. \A q \in Requests : Sound(service', state'[q], todo'[q], request'[q])
  BY <1>1, <1>2 DEF AllSound
<1> QED
  BY <1>2, <1>3 DEF AllSound

(* Where a request is. *)
LEMMA AtStage ==
  ASSUME AllSound, NEW r \in Requests, NEW stage, At(r, stage)
  PROVE  /\ state[r] = "served" /\ Head(todo[r]) = stage /\ Vetted(service, todo[r], request[r])
         /\ Answered(request[r]) /\ DOMAIN request[r] = Fields /\ request[r].hops \in 0..MaxRedirects
         /\ request[r].kind \in AllKinds /\ todo[r] \in Ahead(request[r].kind)
  BY KindsKnown DEF AllSound, Sound, At, Vetted

(* On, without a look at pages. *)
LEMMA PlainPass ==
  ASSUME AllSound, NEW r \in Requests, NEW stage, At(r, stage),
         stage \notin {"rules", "resolve", "call", "put", "answer"},
         NEW locals, SameTask(request[r], locals), Pass(r, locals), UNCHANGED service
  PROVE  AllSound'
<1>1. Tail(todo[r]) # <<>>
  BY AtStage, MoreStages
<1>2. Sound(service, state[r], Tail(todo[r]), locals)
  BY <1>1, AtStage, PassIsSound DEF AllSound
<1> QED
  BY <1>2, ContinueSound DEF Pass

(* Limiters and timers are such other locals. *)
LEMMA SameLocals ==
  ASSUME AllSound, NEW r \in Requests, NEW value
  PROVE  /\ SameTask(request[r], request[r])
         /\ SameTask(request[r], [request[r] EXCEPT !.limiter = value])
         /\ SameTask(request[r], [request[r] EXCEPT !.sleep = value])
  BY DEF AllSound, Sound, SameTask, Fields

(* A request begins with nothing vetted but what it asks for itself.         *)
LEMMA StartSound == ASSUME AllSound, NEW r \in Requests, Start(r) PROVE AllSound'
<1>1. PICK ask \in Asks[r] :
        /\ ask.kind \in Kinds[service]
        /\ todo' = [todo EXCEPT ![r] = Route(ask.kind, ask.owner # NoUser)]
        /\ request' = [request EXCEPT ![r] =
             [Locals(ask.owner, ask.kind, ask.page) EXCEPT
                !.left = Timeout(Head(Route(ask.kind, ask.owner # NoUser)))]]
  BY DEF Start
<1> DEFINE l == [Locals(ask.owner, ask.kind, ask.page) EXCEPT
                   !.left = Timeout(Head(Route(ask.kind, ask.owner # NoUser)))]
           t == Route(ask.kind, ask.owner # NoUser)
<1>2. /\ ask.page \in Pages /\ ask.kind \in AllKinds
  <2>1. Asks[r] \subseteq [owner : Users \cup {NoUser}, kind : STRING, page : Pages]
    BY GatewayConstants
  <2>2. ask.page \in Pages
    BY <2>1
  <2> QED
    BY <1>1, <2>2, KindsKnown DEF AllSound
<1>3. /\ DOMAIN l = Fields /\ l.kind = ask.kind /\ l.asked = ask.page /\ l.hops = 0
      /\ l.answer = Nothing
      /\ ask.kind \in {"search", "report", "read"} => l.target = {}
      /\ ask.kind = "reply" => l.target = {}
  BY DEF Locals, Fields
<1>4. /\ t \in Ahead(ask.kind) /\ t \notin Resolved
      /\ ask.kind \in {"fetch", "send", "reply"} => t \in Unchecked(ask.kind)
  BY <1>2, RouteBegins
<1>5. state' = [state EXCEPT ![r] = "served"] /\ service' = service
  BY DEF Start, project
<1> HIDE DEF l, t
<1>6. Vetted(service, t, l)
  <2>1. t \in Checked(ask.kind) => ask.kind \in {"search", "report", "read"}
    BY <1>2, <1>4, UncheckedFirst DEF AllKinds
  <2> QED
    BY <1>1, <1>2, <1>3, <1>4, <2>1 DEF Vetted, AllowedBy
<1>7. Sound(service, "served", t, l)
  BY <1>3, <1>6, GatewayConstants DEF Sound, Answered
<1>8. todo' = [todo EXCEPT ![r] = t] /\ request' = [request EXCEPT ![r] = l]
  BY <1>1 DEF l, t
<1> QED
  BY <1>5, <1>7, <1>8 DEF AllSound

(* The rules are those of now, for all targets. *)
LEMMA RulesSound == ASSUME AllSound, NEW r \in Requests, CheckRules(r) PROVE AllSound'
<1>0. At(r, "rules") /\ UNCHANGED service
  BY DEF CheckRules, project
<1>1. CASE End(r)
  BY <1>0, <1>1, EndSound
<1> DEFINE l == [request[r] EXCEPT !.rules = CurrentRules]
<1>2. CASE Pass(r, l) /\ ~\E p \in request[r].target : Blocked(p, {}, CurrentRules)
  <2>1. AllowedBy(l.rules, l.target)
    BY <1>0, <1>2, AtStage DEF AllowedBy, Fields
  <2>2. /\ DOMAIN l = Fields /\ l.kind = request[r].kind /\ l.asked = request[r].asked
        /\ l.target = request[r].target /\ l.hops = request[r].hops /\ l.answer = request[r].answer
    BY <1>0, AtStage DEF Fields
  <2> HIDE DEF l
  <2>3. Tail(todo[r]) # <<>>
    BY <1>0, AtStage, MoreStages
  <2>4. /\ Tail(todo[r]) \in Ahead(request[r].kind)
        /\ request[r].kind = "fetch" => Tail(todo[r]) \notin Resolved
    BY <1>0, <2>3, AtStage, StagesFollow, ResolvedLater
  <2>5. Sound(service, state[r], Tail(todo[r]), l)
    BY <1>0, <2>1, <2>2, <2>4, AtStage DEF Sound, Vetted, Answered
  <2> QED
    BY <1>0, <1>2, <2>5, ContinueSound DEF Pass
<1> QED
  BY <1>1, <1>2 DEF CheckRules

(* Addresses are looked at before they are used. *)
LEMMA ResolveSound == ASSUME AllSound, NEW r \in Requests, Resolve(r) PROVE AllSound'
<1>0. At(r, "resolve") /\ UNCHANGED service
  BY DEF Resolve, project
<1>1. PICK addresses \in SUBSET Addresses :
        /\ \A p \in request[r].target : Valid(p, addresses, request[r].rules)
        /\ Pass(r, [request[r] EXCEPT !.addresses = addresses])
  BY DEF Resolve
<1> DEFINE l == [request[r] EXCEPT !.addresses = addresses]
<1>2. /\ DOMAIN l = Fields /\ l.kind = request[r].kind /\ l.asked = request[r].asked
      /\ l.target = request[r].target /\ l.hops = request[r].hops /\ l.answer = request[r].answer
      /\ l.rules = request[r].rules /\ l.addresses = addresses
  BY <1>0, AtStage DEF Fields
<1>3. Pass(r, l)
  BY <1>1
<1> HIDE DEF l
<1>4. Tail(todo[r]) # <<>>
  BY <1>0, AtStage, MoreStages
<1>5. /\ Tail(todo[r]) \in Ahead(request[r].kind)
      /\ Tail(todo[r]) \in Checked(request[r].kind) => todo[r] \in Checked(request[r].kind)
  BY <1>0, <1>4, AtStage, StagesFollow
<1>6. Sound(service, state[r], Tail(todo[r]), l)
  BY <1>0, <1>1, <1>2, <1>5, AtStage DEF Sound, Vetted, Answered
<1> QED
  BY <1>0, <1>3, <1>6, ContinueSound DEF Pass

(* The recipients of a reply are known before its rules are checked.         *)
LEMMA ParentSound == ASSUME AllSound, NEW r \in Requests, ReadParent(r) PROVE AllSound'
<1>0. At(r, "parent") /\ UNCHANGED service
  BY DEF ReadParent, project
<1>1. PICK to : Pass(r, [request[r] EXCEPT !.target = to])
  BY DEF ReadParent
<1> DEFINE l == [request[r] EXCEPT !.target = to]
<1>2. /\ DOMAIN l = Fields /\ l.kind = request[r].kind /\ l.asked = request[r].asked
      /\ l.hops = request[r].hops /\ l.answer = request[r].answer
  BY <1>0, AtStage DEF Fields
<1>3. Pass(r, l)
  BY <1>1
<1> HIDE DEF l
<1>4. Tail(todo[r]) # <<>>
  BY <1>0, AtStage, MoreStages
<1>5. /\ Tail(todo[r]) \in Ahead(request[r].kind) /\ Tail(todo[r]) \notin Checked(request[r].kind)
      /\ request[r].kind = "reply"
  BY <1>0, <1>4, AtStage, StagesFollow, StageFacts, UncheckedFirst, OnlyReplies
<1>6. Sound(service, state[r], Tail(todo[r]), l)
  BY <1>0, <1>2, <1>5, AtStage DEF Sound, Vetted, Answered
<1> QED
  BY <1>0, <1>3, <1>6, ContinueSound DEF Pass

(* Where a redirect leads, and its addresses, are looked at before the next  *)
(* call.                                                                     *)
LEMMA RedirectSound == ASSUME AllSound, NEW r \in Requests, Redirect(r) PROVE AllSound'
<1>0. /\ At(r, "call") /\ request[r].kind = "fetch" /\ request[r].hops < MaxRedirects
      /\ state' = state /\ todo' = todo /\ service' = service
  BY DEF Redirect, project
<1>1. PICK p \in Pages, addresses \in SUBSET Addresses :
        /\ ~Blocked(p, {}, request[r].rules) /\ Valid(p, addresses, request[r].rules)
        /\ request' = [request EXCEPT ![r].target = {p}, ![r].addresses = addresses,
                                      ![r].hops = @ + 1]
  BY DEF Redirect
<1> DEFINE l == [request[r] EXCEPT !.target = {p}, !.addresses = addresses, !.hops = @ + 1]
<1>2. request' = [request EXCEPT ![r] = l]
  BY <1>1 DEF AllSound
<1>3. /\ DOMAIN l = Fields /\ l.kind = request[r].kind /\ l.asked = request[r].asked
      /\ l.target = {p} /\ l.addresses = addresses /\ l.hops = request[r].hops + 1
      /\ l.rules = request[r].rules /\ l.answer = request[r].answer
  BY <1>0, AtStage DEF Fields
<1> HIDE DEF l
<1>4. l.hops \in 0..MaxRedirects
  BY <1>0, <1>3, AtStage, MaxRedirectsNat
<1>5. Sound(service, state[r], todo[r], l)
  BY <1>0, <1>1, <1>3, <1>4, AtStage DEF Sound, Vetted, Answered, AllowedBy
<1> QED
  BY <1>0, <1>2, <1>5 DEF AllSound

(* A fresh row answers the same question. *)
LEMMA CheckCacheSound ==
  ASSUME VetInv, NEW r \in Requests, CheckCache(r) PROVE AllSound'
<1> DEFINE held == cache[request[r].asked]
           l   == [request[r] EXCEPT !.answer = held]
<1>0. At(r, "cache") /\ UNCHANGED service /\ AllSound
  BY DEF CheckCache, project, VetInv
<1>1. CASE Pass(r, request[r])
  BY <1>0, <1>1, SameLocals, PlainPass
<1>2. CASE Fresh(held) /\ Continue(r, <<"answer">>, l)
  <2>1. /\ DOMAIN l = Fields /\ l.kind = request[r].kind /\ l.asked = request[r].asked
        /\ l.target = request[r].target /\ l.hops = request[r].hops /\ l.answer = held
        /\ l.rules = request[r].rules /\ l.addresses = request[r].addresses
    BY <1>0, AtStage DEF Fields
  <2>2. request[r].kind \in {"fetch", "report"} /\ request[r].kind \in Kinds[service]
        /\ request[r].asked \in Pages /\ service \in Services
    BY <1>0, AtStage, StageFacts DEF Vetted, AllSound
  <2>3. held # Nothing /\ held.age < CacheTtl
    BY <1>2 DEF Fresh
  <2>4. PICK kind \in Kinds[service] \cap {"fetch", "report"} : RowOf(kind, request[r].asked, held)
    BY <2>2, <2>3 DEF VetInv, CacheSound
  <2>5. kind = request[r].kind
    BY <2>2, <2>4 DEF Kinds, Services
  <2> HIDE DEF l, held
  <2>6. Answered(l)
    BY <2>1, <2>3, <2>4, <2>5 DEF Answered
  <2>7. <<"answer">> \in Ahead(request[r].kind) /\ <<"answer">> \notin Checked(request[r].kind)
        /\ <<"answer">> \notin Resolved
    BY <2>2, AnswerAhead
  <2>8. Sound(service, state[r], <<"answer">>, l)
    BY <1>0, <2>1, <2>6, <2>7, AtStage DEF Sound, Vetted
  <2> QED
    BY <1>0, <1>2, <2>8, ContinueSound
<1> QED
  BY <1>1, <1>2 DEF CheckCache

(* A call has fetched what its rules allow. *)
LEMMA RespondSound == ASSUME AllSound, NEW r \in Requests, Respond(r) PROVE AllSound'
<1> DEFINE l == [request[r] EXCEPT !.answer = Fetched(r)]
<1>0. At(r, "call") /\ UNCHANGED service
  BY DEF Respond, project
<1>1. CASE End(r)
  BY <1>0, <1>1, EndSound
<1>2. CASE Tail(todo[r]) # <<>> /\ Pass(r, l)
  <2>1. /\ DOMAIN l = Fields /\ l.kind = request[r].kind /\ l.asked = request[r].asked
        /\ l.target = request[r].target /\ l.hops = request[r].hops /\ l.answer = Fetched(r)
        /\ l.rules = request[r].rules /\ l.addresses = request[r].addresses
    BY <1>0, AtStage DEF Fields
  <2>2. AllowedBy(request[r].rules, request[r].target)
    BY <1>0, AtStage, StageFacts DEF Vetted
  <2>3. RowOf(request[r].kind, request[r].asked, Fetched(r)) /\ Fetched(r).age = 0
    BY <2>2 DEF RowOf, Fetched
  <2> HIDE DEF l
  <2>4. Answered(l)
    BY <2>1, <2>3 DEF Answered
  <2>5. /\ Tail(todo[r]) \in Ahead(request[r].kind)
        /\ Tail(todo[r]) \in Checked(request[r].kind) => todo[r] \in Checked(request[r].kind)
        /\ Tail(todo[r]) \in Resolved /\ request[r].kind = "fetch" => todo[r] \in Resolved
    BY <1>0, <1>2, AtStage, StagesFollow
  <2>6. Sound(service, state[r], Tail(todo[r]), l)
    BY <1>0, <2>1, <2>4, <2>5, AtStage DEF Sound, Vetted
  <2> QED
    BY <1>0, <1>2, <2>6, ContinueSound DEF Pass
<1> QED
  BY <1>1, <1>2 DEF Respond

(* Every step of a request. *)
LEMMA RequestStepSound == ASSUME VetInv, NEW r \in Requests, RequestStep(r) PROVE AllSound'
<1>0. AllSound
  BY DEF VetInv
<1>1. CASE Fail(r) \/ NoRoom(r) \/ RateLimited(r) \/ Put(r) \/ AnswerCached(r)
  <2>1. End(r) /\ UNCHANGED service
    BY <1>1 DEF Fail, NoRoom, RateLimited, Put, AnswerCached, project
  <2> QED
    BY <1>0, <2>1, EndSound
<1>2. CASE Enter(r)
  <2>1. /\ At(r, "enter") /\ UNCHANGED service
        /\ Pass(r, [request[r] EXCEPT !.limiter = entry'[request[r].owner]])
    BY <1>2 DEF Enter, project
  <2>2. SameTask(request[r], [request[r] EXCEPT !.limiter = entry'[request[r].owner]])
    BY <1>0, SameLocals
  <2> QED
    BY <1>0, <2>1, <2>2, PlainPass
<1>3. CASE Acquire(r)
  <2>1. (At(r, "user") \/ At(r, "global")) /\ UNCHANGED service /\ Pass(r, request[r])
    BY <1>3 DEF Acquire, Acquiring, project
  <2>2. SameTask(request[r], request[r])
    BY <1>0, SameLocals
  <2> QED
    BY <1>0, <2>1, <2>2, PlainPass
<1>4. CASE Wait(r)
  <2> DEFINE l == [request[r] EXCEPT !.sleep = Nap(r)]
  <2>1. /\ request' = [request EXCEPT ![r] = l]
        /\ state' = state /\ todo' = todo /\ service' = service
    BY <1>0, <1>4 DEF Wait, project, AllSound
  <2>2. SameTask(request[r], l)
    BY <1>0, SameLocals
  <2> HIDE DEF l
  <2>3. Sound(service, state[r], todo[r], l)
    BY <1>0, <2>2, SameIsSound DEF AllSound
  <2> QED
    BY <1>0, <2>1, <2>3 DEF AllSound
<1>5. CASE LoadCredentials(r)
  <2>1. At(r, "credentials") /\ UNCHANGED service /\ (Pass(r, request[r]) \/ End(r))
    BY <1>5 DEF LoadCredentials, project
  <2>2. SameTask(request[r], request[r])
    BY <1>0, SameLocals
  <2> QED
    BY <1>0, <2>1, <2>2, PlainPass, EndSound
<1> QED
  BY <1>0, <1>1, <1>2, <1>3, <1>4, <1>5, StartSound, RulesSound, CheckCacheSound, ResolveSound,
     RedirectSound, RespondSound, ParentSound
  DEF RequestStep

(* Cached is what a request that has passed its rules was answered.          *)
LEMMA CacheStays ==
  ASSUME VetInv, NEW r \in Requests, RequestStep(r) PROVE CacheSound'
<1>1. service' = service
  BY DEF RequestStep, Start, Fail, Enter, NoRoom, Acquire, Wait, RateLimited, CheckRules, CheckCache,
         Resolve, LoadCredentials, Redirect, Respond, ReadParent, Put, AnswerCached, project
<1>2. CASE Put(r)
  <2>1. At(r, "put") /\ cache' \in {cache, [cache EXCEPT ![request[r].asked] = request[r].answer]}
    BY <1>2 DEF Put
  <2>2. /\ Vetted(service, todo[r], request[r]) /\ Answered(request[r])
        /\ request[r].kind \in {"fetch", "report"}
    BY <2>1, AtStage, StageFacts DEF VetInv
  <2>3. request[r].answer # Nothing =>
          \E kind \in Kinds[service] \cap {"fetch", "report"} :
            RowOf(kind, request[r].asked, request[r].answer)
    BY <2>2 DEF Vetted, Answered
  <2> QED
    BY <1>1, <2>1, <2>3 DEF VetInv, CacheSound
<1>3. CASE ~Put(r)
  <2>1. cache' = cache
    BY <1>3
    DEF RequestStep, Start, Fail, Enter, NoRoom, Acquire, Wait, RateLimited, CheckRules, CheckCache,
        Resolve, LoadCredentials, Redirect, Respond, ReadParent, AnswerCached
  <2> QED
    BY <1>1, <2>1 DEF VetInv, CacheSound
<1> QED
  BY <1>2, <1>3

(* Time makes rows older, and nothing of a request that matters here.        *)
LEMMA TickSound == ASSUME VetInv, Tick PROVE VetInv'
<1>1. AllSound'
  <2>1. service' = service /\ state' = state /\ todo' = todo
        /\ request' = [r \in Requests |-> [request[r] EXCEPT !.left = Max({0, @ - 1}),
                                                            !.sleep = Max({0, @ - 1})]]
    BY DEF Tick, project
  <2>2. ASSUME NEW r \in Requests PROVE Sound(service', state'[r], todo'[r], request'[r])
    <3> DEFINE l == [request[r] EXCEPT !.left = Max({0, @ - 1}), !.sleep = Max({0, @ - 1})]
    <3>1. SameTask(request[r], l)
      BY DEF VetInv, AllSound, Sound, SameTask, Fields
    <3> HIDE DEF l
    <3>2. Sound(service, state[r], todo[r], l)
      BY <3>1, SameIsSound DEF VetInv, AllSound
    <3> QED
      BY <2>1, <3>2 DEF l
  <2> QED
    BY <2>1, <2>2 DEF VetInv, AllSound
<1>2. CacheSound'
  <2>1. service' = service
        /\ cache' = [p \in Pages |-> IF cache[p] = Nothing THEN Nothing
                                     ELSE [cache[p] EXCEPT !.age = Min({CacheTtl, @ + 1})]]
    BY DEF Tick, project
  <2>2. ASSUME NEW p \in Pages, cache'[p] # Nothing
        PROVE  \E kind \in Kinds[service] \cap {"fetch", "report"} : RowOf(kind, p, cache'[p])
    <3>1. cache[p] # Nothing /\ cache'[p] = [cache[p] EXCEPT !.age = Min({CacheTtl, @ + 1})]
      BY <2>1, <2>2
    <3>2. PICK kind \in Kinds[service] \cap {"fetch", "report"} : RowOf(kind, p, cache[p])
      BY <3>1 DEF VetInv, CacheSound
    <3>3. Min({CacheTtl, cache[p].age + 1}) \in Nat
      <4>1. cache[p].age + 1 \in Int /\ cache[p].age + 1 \in Nat /\ CacheTtl \in Nat
        BY <3>2, GatewayConstants DEF RowOf
      <4> QED
        BY <4>1, MinOfTwo
    <3>4. RowOf(kind, p, cache'[p])
      BY <3>1, <3>2, <3>3 DEF RowOf
    <3> QED
      BY <3>4
  <2>3. DOMAIN cache' = Pages
    BY <2>1
  <2> QED
    BY <2>1, <2>2, <2>3 DEF CacheSound
<1> QED
  BY <1>1, <1>2 DEF VetInv

(* Every step of the services keeps what requests and rows are. *)
LEMMA VetStep == VetInv /\ [GatewaysNext]_gatewayVars => VetInv'
<1> SUFFICES ASSUME VetInv, [GatewaysNext]_gatewayVars PROVE VetInv'
  OBVIOUS
<1>1. CASE \E r \in Requests : RequestStep(r)
  BY <1>1, RequestStepSound, CacheStays DEF VetInv
<1>2. CASE Tick
  BY <1>2, TickSound
<1>3. CASE Edit
  <2>1. UNCHANGED <<service, state, todo, request, cache>>
    BY <1>3 DEF Edit
  <2> QED
    BY <2>1 DEF VetInv, AllSound, CacheSound
<1>4. CASE Purge
  <2>1. UNCHANGED <<service, state, todo, request>>
        /\ cache' = [p \in Pages |-> IF Fresh(cache[p]) THEN cache[p] ELSE Nothing]
    BY <1>4 DEF Purge, project
  <2> QED
    BY <2>1 DEF VetInv, AllSound, CacheSound
<1>5. CASE UNCHANGED gatewayVars
  <2>1. UNCHANGED <<service, state, todo, request, cache>>
    BY <1>5 DEF gatewayVars, project
  <2> QED
    BY <2>1 DEF VetInv, AllSound, CacheSound
<1> QED
  BY <1>1, <1>2, <1>3, <1>4, <1>5 DEF GatewaysNext

(* At first nothing is served. *)
LEMMA VetInit == GatewaysInit => VetInv
<1> SUFFICES ASSUME GatewaysInit PROVE VetInv
  OBVIOUS
<1>1. DOMAIN NoLocals = Fields /\ NoLocals.hops = 0 /\ NoLocals.answer = Nothing
  BY DEF NoLocals, Locals, Fields
<1>2. Sound(service, "new", <<>>, NoLocals)
  BY <1>1, MaxRedirectsNat DEF Sound
<1>3. AllSound
  BY <1>2 DEF GatewaysInit, AllSound
<1> QED
  BY <1>3 DEF GatewaysInit, VetInv, CacheSound

(* Whatever redirects, replies and edits of the rules do, a call reaches     *)
(* only what the rules that its request has loaded allow.                    *)
THEOREM CallsAreVetted == GatewaysSpec => []CallsVetted
<1>1. VetInv => CallsVetted
  <2> SUFFICES ASSUME VetInv, NEW r \in Requests, At(r, "call"), NEW p \in request[r].target
               PROVE  /\ ~Blocked(p, {}, request[r].rules)
                      /\ request[r].kind = "fetch" =>
                           Valid(p, request[r].addresses, request[r].rules)
                           /\ request[r].hops <= MaxRedirects
    BY DEF CallsVetted
  <2>1. /\ Vetted(service, todo[r], request[r]) /\ request[r].hops \in 0..MaxRedirects
        /\ todo[r] \in Checked(request[r].kind)
        /\ request[r].kind = "fetch" => todo[r] \in Resolved
    BY AtStage, StageFacts DEF VetInv
  <2> QED
    BY <2>1, MaxRedirectsNat DEF Vetted, AllowedBy
<1> QED
  BY <1>1, VetInit, VetStep, PTL DEF GatewaysSpec

(* Every answer was fetched by its request, or shortly before for the same   *)
(* question, under rules that allowed its page.                              *)
THEOREM AnswersAreExplained == GatewaysSpec => []AnswersExplained
<1>1. VetInv => AnswersExplained
  <2> SUFFICES ASSUME VetInv, NEW r \in Requests, request[r].answer # Nothing
               PROVE  /\ request[r].answer.kind = request[r].kind
                      /\ request[r].answer.asked = request[r].asked
                      /\ request[r].answer.age = 0 \/ request[r].answer.age < CacheTtl
                      /\ \A p \in request[r].answer.page : ~Blocked(p, {}, request[r].answer.rules)
    BY DEF AnswersExplained
  <2>1. Answered(request[r])
    BY DEF VetInv, AllSound, Sound
  <2> QED
    BY <2>1 DEF Answered, RowOf, AllowedBy
<1> QED
  BY <1>1, VetInit, VetStep, PTL DEF GatewaysSpec

-----------------------------------------------------------------------------
(* The pace.  The limiters, and what they have granted: *)
LimitTypes ==
  /\ DOMAIN bucket = Requests \cup {Shared}
  /\ \A l \in Requests \cup {Shared} : bucket[l] \in Buckets(Rpm(l))
  /\ entry \in [Users -> Requests \cup {Nothing}] /\ idle \in [Users -> Nat]
  /\ debt \in [Users \cup {Shared} -> Nat] /\ evicted \in SUBSET Users

GlobalCounted == debt[Shared] <= Owed(GlobalRpm, bucket[Shared])

(* A limiter that the email tools prune has not been used for so long that   *)
(* its user may start with a full bucket.                                    *)
UserCounted(u) ==
  IF entry[u] = Nothing THEN debt[u] < PerToken(UserRpm)
  ELSE /\ debt[u] <= Owed(UserRpm, bucket[entry[u]])
       /\ service = "email" /\ debt[u] > 0 => debt[u] + idle[u] <= ShortWait + Most(UserRpm)

LimitInv == LimitTypes /\ GlobalCounted /\ \A u \in Users \ evicted : UserCounted(u)

(* Who holds them: *)
TimerTypes ==
  \A r \in Requests :
    /\ request[r].owner \in Users \cup {NoUser} /\ request[r].limiter \in Requests \cup {Nothing}
    /\ request[r].left \in Nat /\ request[r].sleep \in Nat

Entering ==
  {<<"enter", "user", "rules", "cache", "resolve", "global", "call", "put">>,
   <<"enter", "user", "global", "call">>,
   <<"enter", "user", "cache", "global", "call", "put">>,
   <<"global", "enter", "user", "rules", "credentials", "call">>,
   <<"enter", "user", "rules", "credentials", "call">>,
   <<"global", "enter", "user", "credentials", "parent", "rules", "call">>,
   <<"enter", "user", "credentials", "parent", "rules", "call">>}

Unentered(r) == state[r] = "new" \/ todo[r] \in Entering

OwnLimiters ==
  /\ \A u, v \in Users : entry[u] = entry[v] /\ entry[u] # Nothing => u = v
  /\ \A r \in Requests, u \in Users :
       request[r].limiter = entry[u] /\ entry[u] # Nothing => request[r].owner = u
  /\ \A r \in Requests : Unentered(r) =>
       (\A u \in Users : entry[u] # r) /\ (\A q \in Requests : request[q].limiter # r)

AtUser(r) ==
  LET u == request[r].owner IN
  /\ u \in Users /\ request[r].limiter \in Requests
  /\ u \notin evicted => entry[u] = request[r].limiter
  /\ request[r].sleep <= request[r].left /\ request[r].left <= ShortWait
  /\ service = "email" => idle[u] + request[r].left <= ShortWait

HolderInv == TimerTypes /\ OwnLimiters /\ \A r \in Requests : At(r, "user") => AtUser(r)

PaceInv == VetInv /\ LimitInv /\ HolderInv

(* A request enters once, and is at its user's limiter only then.            *)
LEMMA EntersOnce ==
  ASSUME NEW k \in AllKinds, NEW t \in Ahead(k)
  PROVE  /\ Head(t) = "enter" => t \in Entering /\ Tail(t) \notin Entering
         /\ Tail(t) \in Entering => t \in Entering
         /\ Tail(t) # <<>> /\ Head(Tail(t)) = "user" => Head(t) = "enter"
<1>1. CASE k = "fetch"
  <2>1. Head(t) = "enter" => t \in Entering /\ Tail(t) \notin Entering
    BY <1>1, Tails, SMTT(90) DEF Ahead, Unchecked, Checked, Resolved, Entering
  <2>2. Tail(t) \in Entering => t \in Entering
    BY <1>1, Tails, SMTT(90) DEF Ahead, Unchecked, Checked, Resolved, Entering
  <2>3. Tail(t) # <<>> /\ Head(Tail(t)) = "user" => Head(t) = "enter"
    BY <1>1, Tails, SMTT(90) DEF Ahead, Unchecked, Checked, Resolved, Entering
  <2> QED
    BY <2>1, <2>2, <2>3
<1>2. CASE k = "search"
  BY <1>2, Tails, SMTT(90) DEF Ahead, Unchecked, Checked, Resolved, Entering
<1>3. CASE k = "report"
  BY <1>3, Tails, SMTT(90) DEF Ahead, Unchecked, Checked, Resolved, Entering
<1>4. CASE k = "send"
  <2>1. Head(t) = "enter" => t \in Entering /\ Tail(t) \notin Entering
    <3>1. CASE t \in Unchecked(k)
      BY <1>4, <3>1, Tails, SMTT(60) DEF Ahead, Unchecked, Checked, Resolved, Entering
    <3>2. CASE t \in Checked(k)
      BY <1>4, <3>2, Tails, SMTT(60) DEF Ahead, Unchecked, Checked, Resolved, Entering
    <3>3. CASE t = <<"answer">>
      BY <1>4, <3>3, Tails, SMTT(60) DEF Ahead, Unchecked, Checked, Resolved, Entering
    <3> QED
      BY <1>4, <3>1, <3>2, <3>3 DEF Ahead
  <2>2. Tail(t) \in Entering => t \in Entering
    <3>1. CASE t \in Unchecked(k)
      BY <1>4, <3>1, Tails, SMTT(60) DEF Ahead, Unchecked, Checked, Resolved, Entering
    <3>2. CASE t \in Checked(k)
      BY <1>4, <3>2, Tails, SMTT(60) DEF Ahead, Unchecked, Checked, Resolved, Entering
    <3>3. CASE t = <<"answer">>
      BY <1>4, <3>3, Tails, SMTT(60) DEF Ahead, Unchecked, Checked, Resolved, Entering
    <3> QED
      BY <1>4, <3>1, <3>2, <3>3 DEF Ahead
  <2>3. Tail(t) # <<>> /\ Head(Tail(t)) = "user" => Head(t) = "enter"
    BY <1>4, Tails, SMTT(90) DEF Ahead, Unchecked, Checked, Resolved, Entering
  <2> QED
    BY <2>1, <2>2, <2>3
<1>5. CASE k = "reply"
  <2>1. Head(t) = "enter" => t \in Entering /\ Tail(t) \notin Entering
    <3>1. CASE t \in Unchecked(k)
      BY <1>5, <3>1, Tails, SMTT(60) DEF Ahead, Unchecked, Checked, Resolved, Entering
    <3>2. CASE t \in Checked(k)
      BY <1>5, <3>2, Tails, SMTT(60) DEF Ahead, Unchecked, Checked, Resolved, Entering
    <3>3. CASE t = <<"answer">>
      BY <1>5, <3>3, Tails, SMTT(60) DEF Ahead, Unchecked, Checked, Resolved, Entering
    <3> QED
      BY <1>5, <3>1, <3>2, <3>3 DEF Ahead
  <2>2. Tail(t) \in Entering => t \in Entering
    <3>1. CASE t \in Unchecked(k)
      BY <1>5, <3>1, Tails, SMTT(60) DEF Ahead, Unchecked, Checked, Resolved, Entering
    <3>2. CASE t \in Checked(k)
      BY <1>5, <3>2, Tails, SMTT(60) DEF Ahead, Unchecked, Checked, Resolved, Entering
    <3>3. CASE t = <<"answer">>
      BY <1>5, <3>3, Tails, SMTT(60) DEF Ahead, Unchecked, Checked, Resolved, Entering
    <3> QED
      BY <1>5, <3>1, <3>2, <3>3 DEF Ahead
  <2>3. Tail(t) # <<>> /\ Head(Tail(t)) = "user" => Head(t) = "enter"
    BY <1>5, Tails, SMTT(90) DEF Ahead, Unchecked, Checked, Resolved, Entering
  <2> QED
    BY <2>1, <2>2, <2>3
<1>6. CASE k = "read"
  BY <1>6, Tails, SMTT(90) DEF Ahead, Unchecked, Checked, Resolved, Entering
<1> QED
  BY <1>1, <1>2, <1>3, <1>4, <1>5, <1>6 DEF AllKinds

(* The ends of a route. *)
LEMMA RouteEnds ==
  /\ <<>> \notin Entering /\ <<"answer">> \notin Entering /\ Head(<<"answer">>) # "user"
  /\ \A k \in AllKinds, known \in BOOLEAN : Head(Route(k, known)) # "user"
  BY DEF Entering, Route, AllKinds

(* Steps of a request that leave the map of limiters alone. *)
SideStep(r) ==
  /\ UNCHANGED <<entry, idle, evicted, service>>
  /\ \A q \in Requests \ {r} :
       state'[q] = state[q] /\ todo'[q] = todo[q] /\ request'[q] = request[q]
  /\ request'[r].left \in Nat /\ request'[r].sleep \in Nat
  /\ request'[r].owner \in Users \cup {NoUser}
  /\ \/ request'[r].limiter = Nothing
     \/ request'[r].limiter = request[r].limiter /\ request'[r].owner = request[r].owner
  /\ Unentered(r)' => Unentered(r)
  /\ ~At(r, "user")'

(* They leave those who hold limiters alone. *)
LEMMA SideKeeps == ASSUME LimitTypes, HolderInv, NEW r \in Requests, SideStep(r) PROVE HolderInv'
<1>1. TimerTypes'
  BY DEF HolderInv, TimerTypes, SideStep
<1>2. OwnLimiters'
  <2>1. \A q \in Requests : Unentered(q)' => Unentered(q)
    BY DEF SideStep, Unentered
  <2>2. \A q \in Requests : request'[q].limiter = Nothing
          \/ (request'[q].limiter = request[q].limiter /\ request'[q].owner = request[q].owner)
    BY DEF SideStep
  <2>3. entry' = entry /\ Nothing \notin Requests
    BY GatewayConstants DEF SideStep
  <2> QED
    BY <2>1, <2>2, <2>3 DEF HolderInv, OwnLimiters
<1>3. ASSUME NEW q \in Requests, At(q, "user")' PROVE AtUser(q)'
  <2>1. q # r /\ At(q, "user") /\ request'[q] = request[q]
    BY <1>3 DEF SideStep, At
  <2> QED
    BY <2>1 DEF SideStep, HolderInv, AtUser
<1> QED
  BY <1>1, <1>2, <1>3 DEF HolderInv

(* Timeouts are times. *)
LEMMA TimeoutNat == \A stage : Timeout(stage) \in Nat
  BY GatewayConstants DEF Timeout

(* On to another stage than a user's limiter. *)
LEMMA ContinueSide ==
  ASSUME VetInv, HolderInv, NEW r \in Requests, NEW stages, NEW locals,
         Continue(r, stages, locals), UNCHANGED <<entry, idle, evicted, service>>,
         DOMAIN locals = Fields,
         locals.owner = request[r].owner, locals.limiter = request[r].limiter,
         stages # <<>> => Head(stages) # "user", stages \in Entering => todo[r] \in Entering,
         state[r] = "served"
  PROVE  SideStep(r)
<1>1. /\ DOMAIN todo = Requests /\ DOMAIN request = Requests
  BY DEF VetInv, AllSound
<1>2. /\ todo'[r] = stages /\ state' = state
      /\ request'[r] = [locals EXCEPT !.left = Timeout(Head(stages)), !.sleep = 0]
      /\ \A q \in Requests \ {r} : todo'[q] = todo[q] /\ request'[q] = request[q]
  BY <1>1 DEF Continue
<1>3. /\ request'[r].left \in Nat /\ request'[r].sleep \in Nat
      /\ request'[r].owner = request[r].owner /\ request'[r].limiter = request[r].limiter
  BY <1>2, TimeoutNat DEF Fields
<1>4. ~At(r, "user")' /\ (Unentered(r)' => Unentered(r))
  BY <1>2 DEF At, Unentered
<1> QED
  BY <1>2, <1>3, <1>4 DEF SideStep, HolderInv, TimerTypes

(* The end of a request. *)
LEMMA EndSide ==
  ASSUME VetInv, NEW r \in Requests, End(r), UNCHANGED <<entry, idle, evicted, service>>
  PROVE  SideStep(r)
<1>1. /\ todo'[r] = <<>> /\ request'[r] = NoLocals /\ state'[r] = "done"
      /\ \A q \in Requests \ {r} : todo'[q] = todo[q] /\ request'[q] = request[q] /\ state'[q] = state[q]
  BY DEF End, VetInv, AllSound
<1>2. ~At(r, "user")' /\ ~Unentered(r)'
  BY <1>1, RouteEnds DEF At, Unentered
<1> QED
  BY <1>1, <1>2 DEF SideStep, NoLocals, Locals

(* The limiters are as they were. *)
LEMMA LimitsStay == LimitInv /\ UNCHANGED limits /\ UNCHANGED service => LimitInv'
  BY DEF LimitInv, LimitTypes, GlobalCounted, UserCounted, limits

(* A request starts without a limiter. *)
LEMMA StartSide == ASSUME VetInv, LimitInv, HolderInv, NEW r \in Requests, Start(r) PROVE SideStep(r)
<1>1. PICK ask \in Asks[r] :
        /\ ask.kind \in Kinds[service]
        /\ todo' = [todo EXCEPT ![r] = Route(ask.kind, ask.owner # NoUser)]
        /\ request' = [request EXCEPT ![r] =
             [Locals(ask.owner, ask.kind, ask.page) EXCEPT
                !.left = Timeout(Head(Route(ask.kind, ask.owner # NoUser)))]]
  BY DEF Start
<1> DEFINE t == Route(ask.kind, ask.owner # NoUser)
<1>2. Asks[r] \subseteq [owner : Users \cup {NoUser}, kind : STRING, page : Pages]
  BY GatewayConstants
<1>3. ask.owner \in Users \cup {NoUser} /\ ask.kind \in AllKinds
  BY <1>1, <1>2, KindsKnown DEF VetInv, AllSound
<1>4. Head(t) # "user"
  BY <1>3, RouteEnds
<1>5. /\ state[r] = "new" /\ state' = [state EXCEPT ![r] = "served"]
      /\ UNCHANGED <<entry, idle, evicted, service>>
  BY DEF Start, project, limits
<1>6. /\ request'[r].owner = ask.owner /\ request'[r].limiter = Nothing
      /\ request'[r].left = Timeout(Head(t)) /\ request'[r].sleep = 0
      /\ todo'[r] = t
      /\ \A q \in Requests \ {r} :
           state'[q] = state[q] /\ todo'[q] = todo[q] /\ request'[q] = request[q]
  BY <1>1, <1>5 DEF Locals, VetInv, AllSound
<1> HIDE DEF t
<1>7. ~At(r, "user")' /\ Unentered(r)
  BY <1>4, <1>5, <1>6 DEF At, Unentered
<1> QED
  BY <1>3, <1>5, <1>6, <1>7, TimeoutNat DEF SideStep

(* On to the next stage, with locals that keep owner and limiter.            *)
LEMMA PassSide ==
  ASSUME VetInv, HolderInv, NEW r \in Requests, NEW stage, At(r, stage), stage # "enter",
         NEW locals, Pass(r, locals), UNCHANGED <<entry, idle, evicted, service>>,
         DOMAIN locals = Fields,
         locals.owner = request[r].owner, locals.limiter = request[r].limiter
  PROVE  SideStep(r)
<1>1. /\ request[r].kind \in AllKinds /\ todo[r] \in Ahead(request[r].kind)
      /\ state[r] = "served" /\ Head(todo[r]) = stage
  BY AtStage DEF VetInv
<1>2. /\ Tail(todo[r]) # <<>> => Head(Tail(todo[r])) # "user"
      /\ Tail(todo[r]) \in Entering => todo[r] \in Entering
  BY <1>1, EntersOnce
<1> QED
  BY <1>1, <1>2, ContinueSide DEF Pass

(* The stages that take no token. *)
PlainSteps(r) ==
  \/ Fail(r) \/ NoRoom(r) \/ RateLimited(r) \/ CheckRules(r) \/ CheckCache(r) \/ Resolve(r)
  \/ LoadCredentials(r) \/ Respond(r) \/ ReadParent(r) \/ Put(r) \/ AnswerCached(r)

(* They are steps of that sort. *)
LEMMA PlainSide ==
  ASSUME VetInv, LimitInv, HolderInv, NEW r \in Requests, PlainSteps(r)
  PROVE  SideStep(r) /\ UNCHANGED limits /\ UNCHANGED service
<1>0. UNCHANGED limits /\ UNCHANGED service /\ UNCHANGED <<entry, idle, evicted, service>>
  BY DEF PlainSteps, Fail, NoRoom, RateLimited, CheckRules, CheckCache, Resolve, LoadCredentials,
         Respond, ReadParent, Put, AnswerCached, limits, project
<1>1. CASE End(r)
  BY <1>0, <1>1, EndSide
<1>2. DOMAIN request[r] = Fields
  BY DEF VetInv, AllSound, Sound
<1>3. ASSUME NEW value
      PROVE  \A locals \in {request[r], [request[r] EXCEPT !.rules = value],
                [request[r] EXCEPT !.addresses = value], [request[r] EXCEPT !.target = value],
                [request[r] EXCEPT !.answer = value]} :
               /\ DOMAIN locals = Fields
               /\ locals.owner = request[r].owner /\ locals.limiter = request[r].limiter
  BY <1>2 DEF Fields
<1>4. CASE CheckRules(r)
  <2>1. At(r, "rules") /\ (End(r) \/ Pass(r, [request[r] EXCEPT !.rules = CurrentRules]))
    BY <1>4 DEF CheckRules
  <2> QED
    BY <1>0, <1>1, <1>3, <2>1, PassSide
<1>5. CASE CheckCache(r)
  <2> DEFINE held == cache[request[r].asked]
             l    == [request[r] EXCEPT !.answer = held]
  <2>1. At(r, "cache") /\ (Pass(r, request[r]) \/ Continue(r, <<"answer">>, l))
    BY <1>5 DEF CheckCache
  <2>2. state[r] = "served" /\ Head(<<"answer">>) # "user" /\ <<"answer">> \notin Entering
    BY <2>1, AtStage, RouteEnds DEF VetInv
  <2>3. DOMAIN l = Fields /\ l.owner = request[r].owner /\ l.limiter = request[r].limiter
    BY <1>2 DEF Fields
  <2> HIDE DEF l
  <2>4. Continue(r, <<"answer">>, l) => SideStep(r)
    BY <1>0, <2>2, <2>3, ContinueSide
  <2> QED
    BY <1>0, <1>3, <2>1, <2>4, PassSide
<1>6. CASE Resolve(r)
  <2>1. PICK addresses : Pass(r, [request[r] EXCEPT !.addresses = addresses])
    BY <1>6 DEF Resolve
  <2>2. At(r, "resolve")
    BY <1>6 DEF Resolve
  <2> QED
    BY <1>0, <1>3, <2>1, <2>2, PassSide
<1>7. CASE LoadCredentials(r)
  <2>1. At(r, "credentials") /\ (End(r) \/ Pass(r, request[r]))
    BY <1>7 DEF LoadCredentials
  <2> QED
    BY <1>0, <1>1, <1>3, <2>1, PassSide
<1>8. CASE Respond(r)
  <2>1. At(r, "call") /\ (End(r) \/ Pass(r, [request[r] EXCEPT !.answer = Fetched(r)]))
    BY <1>8 DEF Respond
  <2> QED
    BY <1>0, <1>1, <1>3, <2>1, PassSide
<1>9. CASE ReadParent(r)
  <2>1. PICK to : Pass(r, [request[r] EXCEPT !.target = to])
    BY <1>9 DEF ReadParent
  <2>2. At(r, "parent")
    BY <1>9 DEF ReadParent
  <2> QED
    BY <1>0, <1>3, <2>1, <2>2, PassSide
<1> QED
  BY <1>0, <1>1, <1>4, <1>5, <1>6, <1>7, <1>8, <1>9
  DEF PlainSteps, Fail, NoRoom, RateLimited, Put, AnswerCached

(* Nor does a redirect, *)
LEMMA RedirectSide ==
  ASSUME VetInv, HolderInv, NEW r \in Requests, Redirect(r)
  PROVE  SideStep(r) /\ UNCHANGED limits /\ UNCHANGED service
<1>1. /\ At(r, "call") /\ UNCHANGED limits /\ UNCHANGED service
      /\ UNCHANGED <<entry, idle, evicted, service>> /\ state' = state /\ todo' = todo
  BY DEF Redirect, limits, project
<1>2. PICK p, addresses :
        request' = [request EXCEPT ![r].target = {p}, ![r].addresses = addresses, ![r].hops = @ + 1]
  BY DEF Redirect
<1>3. DOMAIN request = Requests /\ DOMAIN request[r] = Fields
  BY DEF VetInv, AllSound, Sound
<1>4. /\ request'[r].owner = request[r].owner /\ request'[r].limiter = request[r].limiter
      /\ request'[r].left = request[r].left /\ request'[r].sleep = request[r].sleep
      /\ \A q \in Requests \ {r} : request'[q] = request[q]
  BY <1>2, <1>3 DEF Fields
<1>5. ~At(r, "user")' /\ (Unentered(r)' => Unentered(r))
  BY <1>1 DEF At, Unentered
<1> QED
  BY <1>1, <1>4, <1>5 DEF SideStep, HolderInv, TimerTypes

(* What a request sleeps is a time. *)
LEMMA NapNat ==
  ASSUME LimitInv, HolderInv, NEW r \in Requests, Acquiring(r), ~TooLate(r)
  PROVE  Nap(r) \in Nat /\ Nap(r) <= request[r].left
<1> DEFINE i == PerToken(Rpm(Payer(r)))
           n == request[r].left
           l == Wanted(r)
<1>1. i \in Nat \ {0} /\ n \in Nat
  BY RpmsAreRates, RateFacts DEF HolderInv, TimerTypes
<1>2. CASE service = "vt"
  <2>1. Nap(r) = i - bucket[l].since /\ ~(Nap(r) > n)
    BY <1>2 DEF Nap, TooLate
  <2>2. l \in Requests \cup {Shared} /\ Rpm(l) = Rpm(Payer(r))
    <3>1. CASE At(r, "user")
      <4>1. AtUser(r)
        BY <3>1 DEF HolderInv
      <4> QED
        BY <3>1, <4>1, GatewayConstants DEF AtUser, Rpm, Wanted, Payer
    <3> QED
      BY <3>1 DEF Wanted, Payer
  <2>3. bucket[l].since \in 0..(i - 1)
    BY <2>2 DEF LimitInv, LimitTypes, Buckets
  <2> HIDE DEF i, n, l
  <2> QED
    BY <1>1, <2>1, <2>3 DEF n
<1>3. CASE service # "vt"
  <2>1. Nap(r) = Min({i, n})
    BY <1>3 DEF Nap
  <2> HIDE DEF i, n
  <2> QED
    BY <1>1, <2>1, MinOfTwo DEF n
<1> QED
  BY <1>2, <1>3

(* and one that waits keeps its limiter. *)
LEMMA WaitHolds ==
  ASSUME VetInv, LimitInv, HolderInv, NEW r \in Requests, Wait(r)
  PROVE  HolderInv' /\ UNCHANGED limits /\ UNCHANGED service
<1>1. /\ UNCHANGED limits /\ UNCHANGED service
      /\ UNCHANGED <<entry, idle, evicted, service, state, todo>>
      /\ request' = [request EXCEPT ![r].sleep = Nap(r)]
      /\ Acquiring(r) /\ ~TooLate(r)
  BY DEF Wait, limits, project
<1>2. DOMAIN request = Requests /\ DOMAIN request[r] = Fields
  BY DEF VetInv, AllSound, Sound
<1>3. Nap(r) \in Nat /\ Nap(r) <= request[r].left
  BY <1>1, NapNat
<1>4. /\ request'[r].owner = request[r].owner /\ request'[r].limiter = request[r].limiter
      /\ request'[r].left = request[r].left /\ request'[r].sleep = Nap(r)
      /\ \A q \in Requests \ {r} : request'[q] = request[q]
  BY <1>1, <1>2 DEF Fields
<1>5. TimerTypes'
  BY <1>3, <1>4 DEF HolderInv, TimerTypes
<1>6. OwnLimiters'
  <2>1. \A q \in Requests : request'[q].owner = request[q].owner /\ request'[q].limiter = request[q].limiter
    BY <1>4
  <2>2. \A q \in Requests : Unentered(q)' => Unentered(q)
    BY <1>1 DEF Unentered
  <2>3. entry' = entry
    BY <1>1
  <2> QED
    BY <2>1, <2>2, <2>3 DEF HolderInv, OwnLimiters
<1>7. ASSUME NEW q \in Requests, At(q, "user")' PROVE AtUser(q)'
  <2>1. At(q, "user") /\ AtUser(q)
    BY <1>1, <1>7 DEF At, HolderInv
  <2>2. /\ request'[q].owner = request[q].owner /\ request'[q].limiter = request[q].limiter
        /\ request'[q].left = request[q].left /\ request'[q].sleep <= request'[q].left
    BY <1>3, <1>4, <2>1 DEF AtUser
  <2> QED
    BY <1>1, <2>1, <2>2 DEF AtUser
<1> QED
  BY <1>1, <1>5, <1>6, <1>7 DEF HolderInv

(* A token: of the user's own limiter, or of the shared one. *)
LEMMA AcquirePaced ==
  ASSUME VetInv, LimitInv, HolderInv, NEW r \in Requests, Acquire(r)
  PROVE  LimitInv' /\ HolderInv'
<1> DEFINE l == Wanted(r)
           w == Payer(r)
           i == PerToken(Rpm(w))
<1>1. /\ Acquiring(r) /\ bucket[l].tokens > 0
      /\ bucket' = [bucket EXCEPT ![l] = Spent(@)]
      /\ debt' = [debt EXCEPT ![w] = @ + i]
      /\ Pass(r, request[r])
      /\ UNCHANGED <<entry, idle, evicted, service>>
  BY DEF Acquire, project
<1>2. HolderInv'
  <2>1. At(r, "user") \/ At(r, "global")
    BY <1>1 DEF Acquiring
  <2>2. DOMAIN request[r] = Fields
    BY DEF VetInv, AllSound, Sound
  <2>3. SideStep(r)
    BY <1>1, <2>1, <2>2, PassSide
  <2> QED
    BY <2>3, SideKeeps DEF LimitInv
<1>3. \/ l = Shared /\ w = Shared
      \/ l \in Requests /\ w \in Users /\ AtUser(r) /\ l = request[r].limiter /\ w = request[r].owner
  BY <1>1 DEF Acquiring, Wanted, Payer, HolderInv, AtUser
<1>4. /\ Shared \notin Requests /\ Shared \notin Users /\ Shared # Nothing
      /\ l \in Requests \cup {Shared} /\ w \in Users \cup {Shared} /\ Rpm(l) = Rpm(w)
  BY <1>3, GatewayConstants DEF Rpm
<1>5. i \in Nat \ {0} /\ Rpm(w) \in Rates
  BY RpmsAreRates, RateFacts
<1>6. /\ Spent(bucket[l]) \in Buckets(Rpm(l))
      /\ Owed(Rpm(l), Spent(bucket[l])) = Owed(Rpm(l), bucket[l]) + i
      /\ Owed(Rpm(l), bucket[l]) \in Nat
      /\ Owed(Rpm(l), Spent(bucket[l])) <= Most(Rpm(l)) /\ Most(Rpm(l)) \in Nat
  BY <1>1, <1>4, <1>5, SpentOwes, OwedBounds DEF LimitInv, LimitTypes
<1> HIDE DEF l, w, i
<1>7. LimitTypes'
  BY <1>1, <1>4, <1>5, <1>6 DEF LimitInv, LimitTypes
<1>8. /\ bucket'[l] = Spent(bucket[l]) /\ \A m \in Requests \cup {Shared} : m # l => bucket'[m] = bucket[m]
      /\ debt'[w] = debt[w] + i /\ \A v \in Users \cup {Shared} : v # w => debt'[v] = debt[v]
      /\ \A v \in Users \cup {Shared} : debt[v] \in Nat
  BY <1>1, <1>4 DEF LimitInv, LimitTypes
<1>9. GlobalCounted'
  <2>1. CASE l = Shared /\ w = Shared
    <3>1. Rpm(l) = GlobalRpm
      BY <2>1 DEF Rpm
    <3>2. debt[Shared] <= Owed(GlobalRpm, bucket[Shared])
      BY DEF LimitInv, GlobalCounted
    <3>3. debt[Shared] + i <= Owed(GlobalRpm, Spent(bucket[Shared]))
      BY <1>5, <1>6, <1>8, <2>1, <3>1, <3>2
    <3> QED
      BY <1>8, <2>1, <3>3 DEF GlobalCounted
  <2>2. CASE l \in Requests /\ w \in Users
    <3>1. bucket'[Shared] = bucket[Shared] /\ debt'[Shared] = debt[Shared]
      BY <1>4, <1>8, <2>2
    <3> QED
      BY <3>1 DEF LimitInv, GlobalCounted
  <2> QED
    BY <1>3, <2>1, <2>2
<1>10. ASSUME NEW u \in Users \ evicted' PROVE UserCounted(u)'
  <2>0. u \in Users /\ u \notin evicted /\ UserCounted(u)
    BY <1>1, <1>10 DEF LimitInv
  <2>1. CASE u # w
    <3>1. debt'[u] = debt[u]
      BY <1>8, <2>0, <2>1
    <3>2. entry[u] # Nothing => entry[u] # l /\ entry[u] \in Requests
      BY <1>3, <1>4, <2>0, <2>1 DEF LimitInv, LimitTypes, HolderInv, OwnLimiters
    <3>3. entry[u] # Nothing => bucket'[entry[u]] = bucket[entry[u]]
      BY <1>8, <3>2
    <3> QED
      BY <1>1, <2>0, <3>1, <3>3 DEF UserCounted
  <2>2. CASE u = w
    <3>1. /\ l \in Requests /\ entry[u] = l /\ Rpm(l) = UserRpm
          /\ service = "email" => idle[u] + request[r].left <= ShortWait
      BY <1>3, <1>4, <2>0, <2>2 DEF AtUser, Rpm
    <3>2. l # Nothing /\ idle[u] \in Nat /\ request[r].left \in Nat /\ ShortWait \in Nat
      BY <3>1, <2>0, GatewayConstants DEF LimitInv, LimitTypes, HolderInv, TimerTypes
    <3>3. debt[u] <= Owed(UserRpm, bucket[l])
      BY <2>0, <3>1, <3>2 DEF UserCounted
    <3>4. debt[u] \in Nat /\ debt[u] + i <= Owed(UserRpm, Spent(bucket[l]))
      BY <1>5, <1>6, <1>8, <2>0, <3>1, <3>3
    <3>5. service = "email" => (debt[u] + i) + idle[u] <= ShortWait + Most(UserRpm)
      BY <1>5, <1>6, <3>1, <3>2, <3>4
    <3>6. /\ entry'[u] = l /\ bucket'[l] = Spent(bucket[l]) /\ debt'[u] = debt[u] + i
          /\ idle'[u] = idle[u] /\ service' = service
      BY <1>1, <1>8, <2>2, <3>1
    <3> QED
      BY <3>2, <3>4, <3>5, <3>6 DEF UserCounted
  <2> QED
    BY <2>1, <2>2
<1> QED
  BY <1>2, <1>7, <1>9, <1>10 DEF LimitInv

(* A unit of time pays for one unit of every debt, and makes every bucket,   *)
(* every wait and every limiter's rest one unit older.                       *)
LEMMA TickPaced ==
  ASSUME VetInv, LimitInv, HolderInv, Tick PROVE LimitInv' /\ HolderInv'
<1>1. /\ UNCHANGED <<service, state, todo, entry, evicted>>
      /\ bucket' = [l \in DOMAIN bucket |-> IF InUse(l) THEN Aged(bucket[l], Rpm(l)) ELSE FullBucket(Rpm(l))]
      /\ request' = [r \in Requests |-> [request[r] EXCEPT !.left = Max({0, @ - 1}),
                                                           !.sleep = Max({0, @ - 1})]]
      /\ idle' = [u \in Users |-> IF service = "email" /\ u \in Tracked
                                  THEN Min({LimiterTtl, idle[u] + 1}) ELSE 0]
      /\ debt' = [l \in DOMAIN debt |-> IF l \in evicted THEN 0 ELSE Max({0, debt[l] - 1})]
      /\ \A r \in Requests : Waiting(r)
  BY DEF Tick, project
<1>2. \A l \in Requests \cup {Shared} :
        /\ Aged(bucket[l], Rpm(l)) \in Buckets(Rpm(l)) /\ FullBucket(Rpm(l)) \in Buckets(Rpm(l))
        /\ Owed(Rpm(l), bucket[l]) - 1 <= Owed(Rpm(l), Aged(bucket[l], Rpm(l)))
        /\ Owed(Rpm(l), bucket[l]) \in Nat /\ Owed(Rpm(l), Aged(bucket[l], Rpm(l))) \in Nat
  BY RpmsAreRates, AgedOwes, FullOwes, OwedBounds DEF LimitInv, LimitTypes
<1>3. \A n \in Nat : Max({0, n - 1}) \in Nat /\ Max({0, n - 1}) = IF n = 0 THEN 0 ELSE n - 1
  <2> TAKE n \in Nat
  <2>1. Max({0, n - 1}) = IF 0 >= n - 1 THEN 0 ELSE n - 1
    BY MaxOfTwo
  <2> QED
    BY <2>1
<1>4. \A u \in Users : idle'[u] \in Nat /\ idle'[u] <= idle[u] + 1 /\ idle[u] \in Nat
  <2> TAKE u \in Users
  <2>1. idle[u] \in Nat /\ LimiterTtl \in Nat
    BY GatewayConstants DEF LimitInv, LimitTypes
  <2>2. Min({LimiterTtl, idle[u] + 1}) = IF LimiterTtl <= idle[u] + 1 THEN LimiterTtl ELSE idle[u] + 1
    BY <2>1, MinOfTwo
  <2>3. idle'[u] = 0 \/ idle'[u] = Min({LimiterTtl, idle[u] + 1})
    BY <1>1
  <2> QED
    BY <2>1, <2>2, <2>3
<1>5. \A v \in Users \cup {Shared} :
        /\ debt[v] \in Nat /\ debt'[v] \in Nat
        /\ debt'[v] = 0 \/ (debt[v] > 0 /\ debt'[v] = debt[v] - 1)
  <2> TAKE v \in Users \cup {Shared}
  <2>1. debt[v] \in Nat /\ (debt'[v] = 0 \/ debt'[v] = Max({0, debt[v] - 1}))
    BY <1>1 DEF LimitInv, LimitTypes
  <2> QED
    BY <1>3, <2>1
<1>6. LimitTypes'
  <2>1. DOMAIN bucket' = Requests \cup {Shared}
        /\ \A l \in Requests \cup {Shared} : bucket'[l] \in Buckets(Rpm(l))
    BY <1>1, <1>2 DEF LimitInv, LimitTypes
  <2>2. debt' \in [Users \cup {Shared} -> Nat]
    <3>1. debt' = [v \in Users \cup {Shared} |-> debt'[v]]
      BY <1>1 DEF LimitInv, LimitTypes
    <3> QED
      BY <1>5, <3>1
  <2>3. idle' \in [Users -> Nat]
    <3>1. idle' = [u \in Users |-> idle'[u]]
      BY <1>1
    <3> QED
      BY <1>4, <3>1
  <2> QED
    BY <1>1, <2>1, <2>2, <2>3 DEF LimitInv, LimitTypes
<1>7. GlobalCounted'
  <2>1. bucket'[Shared] = Aged(bucket[Shared], GlobalRpm) /\ Rpm(Shared) = GlobalRpm
    BY <1>1 DEF InUse, Rpm, LimitInv, LimitTypes
  <2>2. debt[Shared] <= Owed(GlobalRpm, bucket[Shared])
    BY DEF LimitInv, GlobalCounted
  <2>3. debt'[Shared] <= Owed(GlobalRpm, Aged(bucket[Shared], GlobalRpm))
    BY <1>2, <1>5, <2>1, <2>2
  <2> QED
    BY <2>1, <2>3 DEF GlobalCounted
<1>8. ASSUME NEW u \in Users \ evicted' PROVE UserCounted(u)'
  <2>0. u \in Users /\ UserCounted(u)
    BY <1>1, <1>8 DEF LimitInv
  <2>1. CASE entry[u] = Nothing
    <3>1. debt[u] < PerToken(UserRpm) /\ PerToken(UserRpm) \in Nat
      BY <2>0, <2>1, RpmsAreRates, RateFacts DEF UserCounted
    <3>2. debt'[u] < PerToken(UserRpm)
      BY <1>5, <2>0, <3>1
    <3> QED
      BY <1>1, <2>1, <3>2 DEF UserCounted
  <2>2. CASE entry[u] # Nothing
    <3> DEFINE l == entry[u]
    <3>1. l \in Requests /\ InUse(l) /\ Rpm(l) = UserRpm
      BY <2>0, <2>2, GatewayConstants DEF LimitInv, LimitTypes, InUse, Rpm
    <3>2. bucket'[l] = Aged(bucket[l], UserRpm)
      BY <1>1, <3>1 DEF LimitInv, LimitTypes
    <3>3. /\ debt[u] <= Owed(UserRpm, bucket[l])
          /\ service = "email" /\ debt[u] > 0 => debt[u] + idle[u] <= ShortWait + Most(UserRpm)
      BY <2>0, <2>2 DEF UserCounted
    <3>4. debt'[u] <= Owed(UserRpm, bucket'[l])
      BY <1>2, <1>5, <2>0, <3>1, <3>2, <3>3
    <3>5. Most(UserRpm) \in Nat /\ ShortWait \in Nat
      BY <1>2, <3>1, RpmsAreRates, OwedBounds, GatewayConstants DEF LimitInv, LimitTypes
    <3>6. service = "email" /\ debt'[u] > 0 => debt'[u] + idle'[u] <= ShortWait + Most(UserRpm)
      BY <1>4, <1>5, <2>0, <3>3, <3>5
    <3>7. entry'[u] = l /\ service' = service
      BY <1>1
    <3> HIDE DEF l
    <3> QED
      BY <2>2, <3>4, <3>6, <3>7 DEF UserCounted, l
  <2> QED
    BY <2>1, <2>2
<1>9. \A r \in Requests :
        /\ request'[r].owner = request[r].owner /\ request'[r].limiter = request[r].limiter
        /\ request'[r].left = Max({0, request[r].left - 1})
        /\ request'[r].sleep = Max({0, request[r].sleep - 1})
        /\ request[r].left \in Nat /\ request[r].sleep \in Nat
  BY <1>1 DEF VetInv, AllSound, Sound, Fields, HolderInv, TimerTypes
<1>10. TimerTypes'
  BY <1>3, <1>9 DEF HolderInv, TimerTypes
<1>11. OwnLimiters'
  <2>1. \A q \in Requests : Unentered(q)' => Unentered(q)
    BY <1>1 DEF Unentered
  <2>2. entry' = entry
    BY <1>1
  <2> QED
    BY <1>9, <2>1, <2>2, ZenonT(30) DEF HolderInv, OwnLimiters
<1>12. ASSUME NEW r \in Requests, At(r, "user")' PROVE AtUser(r)'
  <2>1. At(r, "user") /\ AtUser(r)
    BY <1>1, <1>12 DEF At, HolderInv
  <2>2. state[r] = "served" /\ Head(todo[r]) = "user"
    BY <2>1, AtStage DEF VetInv
  <2>3. request[r].sleep > 0
    BY <1>1, <2>2 DEF Waiting, At
  <2> DEFINE left  == request[r].left
             sleep == request[r].sleep
             since == idle[request[r].owner]
             left2 == request'[r].left
             sleep2 == request'[r].sleep
             since2 == idle'[request[r].owner]
  <2>4. /\ sleep <= left /\ left <= ShortWait /\ request[r].owner \in Users
        /\ service = "email" => since + left <= ShortWait
    BY <2>1 DEF AtUser
  <2>5. /\ left \in Nat /\ sleep \in Nat /\ sleep > 0 /\ ShortWait \in Nat
        /\ left2 = Max({0, left - 1}) /\ sleep2 = Max({0, sleep - 1})
        /\ since \in Nat /\ since2 \in Nat /\ since2 <= since + 1
    BY <1>4, <1>9, <2>3, <2>4, GatewayConstants
  <2> HIDE DEF left, sleep, since, left2, sleep2, since2
  <2>6. left2 = left - 1 /\ sleep2 = sleep - 1
    BY <1>3, <2>4, <2>5
  <2>7. sleep2 <= left2 /\ left2 <= ShortWait
        /\ (service = "email" => since2 + left2 <= ShortWait)
    BY <2>4, <2>5, <2>6
  <2>8. /\ request'[r].owner = request[r].owner /\ request'[r].limiter = request[r].limiter
        /\ entry' = entry /\ evicted' = evicted /\ service' = service
    BY <1>1, <1>9
  <2> QED
    BY <2>1, <2>7, <2>8 DEF AtUser, left, sleep, since, left2, sleep2, since2
<1> QED
  BY <1>6, <1>7, <1>8, <1>10, <1>11, <1>12 DEF LimitInv, HolderInv

(* Whom a full map loses: of the users who still count, only those of the    *)
(* email tools whose limiter has rested for long.                            *)
LEMMA OutsRested ==
  ASSUME LimitTypes, NEW out \in Outs, service \in Services,
         evicted' = IF service = "web" THEN evicted \cup out ELSE evicted
  PROVE  /\ out \subseteq Users /\ evicted \subseteq evicted' /\ evicted' \subseteq Users
         /\ \A u \in out \ evicted' :
              service = "email" /\ entry[u] # Nothing /\ idle[u] >= LimiterTtl
<1>1. CASE service = "web"
  <2>1. out \subseteq Tracked
    BY <1>1 DEF Outs, kSubset
  <2> QED
    BY <1>1, <2>1 DEF Tracked, LimitTypes
<1>2. CASE service = "vt"
  BY <1>2 DEF Outs, LimitTypes
<1>3. CASE service = "email"
  BY <1>3 DEF Outs, Tracked, LimitTypes
<1> QED
  BY <1>1, <1>2, <1>3 DEF Services

(* Such a user has paid. *)
LEMMA RestedPaid ==
  ASSUME LimitInv, NEW u \in Users \ evicted, service = "email", entry[u] # Nothing,
         idle[u] >= LimiterTtl
  PROVE  debt[u] < PerToken(UserRpm)
<1> DEFINE f == Capacity(UserRpm)
           i == PerToken(UserRpm)
           d == debt[u]
           n == idle[u]
<1>1. UserRpm \in Rates /\ f \in Nat \ {0} /\ i \in Nat \ {0} /\ f * i \in Nat /\ f * i <= Minute
  BY RpmsAreRates, RateFacts
<1>2. d \in Nat /\ n \in Nat /\ Minute \in Nat /\ ShortWait \in Nat /\ LimiterTtl \in Nat
      /\ LimiterTtl >= Minute + ShortWait /\ n >= LimiterTtl
  BY GatewayConstants, RateLimitConstants DEF LimitInv, LimitTypes
<1>3. d > 0 => d + n <= ShortWait + (f * i + (i - 1))
  BY DEF LimitInv, UserCounted, Most
<1> DEFINE fi == f * i
<1>4. fi \in Nat /\ fi <= Minute /\ (d > 0 => d + n <= ShortWait + (fi + (i - 1)))
  BY <1>1, <1>3
<1> HIDE DEF f, i, d, n, fi
<1>5. d < i
  BY <1>1, <1>2, <1>4
<1> QED
  BY <1>5 DEF d, i

(* A request finds its user's limiter, or makes a new one. *)
LEMMA EnterPaced ==
  ASSUME VetInv, LimitInv, HolderInv, NEW r \in Requests, Enter(r)
  PROVE  LimitInv' /\ HolderInv'
<1> DEFINE u == request[r].owner
<1>1. PICK out \in Outs :
        /\ entry' = [v \in Users |-> IF v = u THEN Limiter(u, out, r)
                                     ELSE IF v \in out THEN Nothing ELSE entry[v]]
        /\ evicted' = IF service = "web" THEN evicted \cup out ELSE evicted
  BY DEF Enter
<1>2. /\ At(r, "enter") /\ u # NoUser
      /\ bucket' = IF entry'[u] = r THEN [bucket EXCEPT ![r] = FullBucket(UserRpm)] ELSE bucket
      /\ idle' = [idle EXCEPT ![u] = 0]
      /\ Pass(r, [request[r] EXCEPT !.limiter = entry'[u]])
      /\ debt' = debt /\ service' = service
  BY DEF Enter, project
<1>3. /\ request[r].kind \in AllKinds /\ todo[r] \in Ahead(request[r].kind) /\ state[r] = "served"
      /\ Head(todo[r]) = "enter" /\ DOMAIN request[r] = Fields
  BY <1>2, AtStage DEF VetInv
<1>4. Unentered(r) /\ Tail(todo[r]) \notin Entering
  BY <1>3, EntersOnce DEF Unentered
<1>5. u \in Users
  BY <1>2 DEF HolderInv, TimerTypes
<1>6. /\ \A v \in Users : entry[v] # r
      /\ \A q \in Requests : request[q].limiter # r
  BY <1>4 DEF HolderInv, OwnLimiters
<1>7. /\ Shared \notin Requests /\ Nothing \notin Requests /\ ShortWait \in Nat /\ Shared # Nothing
      /\ LimiterTtl \in Nat /\ LimiterTtl > ShortWait
  BY GatewayConstants, RateLimitConstants
<1>8. /\ evicted \subseteq evicted' /\ evicted' \subseteq Users /\ out \subseteq Users
      /\ \A v \in out \ evicted' : service = "email" /\ entry[v] # Nothing /\ idle[v] >= LimiterTtl
  BY <1>1, OutsRested DEF LimitInv, VetInv, AllSound
<1>9. /\ entry'[u] = Limiter(u, out, r)
      /\ \A v \in Users \ {u} : entry'[v] = IF v \in out THEN Nothing ELSE entry[v]
      /\ entry'[u] = r \/ (u \notin out /\ entry[u] # Nothing /\ entry'[u] = entry[u])
  BY <1>1, <1>5 DEF Limiter
<1> HIDE DEF u
<1>10. /\ entry' \in [Users -> Requests \cup {Nothing}] /\ entry'[u] \in Requests
       /\ \A v \in Users : entry[v] \in Requests \cup {Nothing}
  <2>1. \A v \in Users : entry[v] \in Requests \cup {Nothing}
    BY DEF LimitInv, LimitTypes
  <2>2. \A v \in Users : entry'[v] \in Requests \cup {Nothing}
    BY <1>5, <1>9, <2>1
  <2>3. entry' = [v \in Users |-> entry'[v]]
    BY <1>1
  <2> QED
    BY <1>5, <1>9, <2>1, <2>2, <2>3
<1>11. FullBucket(UserRpm) \in Buckets(UserRpm) /\ Owed(UserRpm, FullBucket(UserRpm)) = PerToken(UserRpm) - 1
       /\ Rpm(r) = UserRpm /\ UserRpm \in Rates /\ PerToken(UserRpm) \in Nat \ {0}
       /\ Most(UserRpm) \in Nat /\ PerToken(UserRpm) <= Most(UserRpm) + 1
  BY <1>7, RpmsAreRates, RateFacts, FullOwes, OwedBounds DEF Rpm
<1>12. /\ entry'[u] = r => bucket'[r] = FullBucket(UserRpm)
       /\ \A l \in Requests \cup {Shared} : l # r \/ entry'[u] # r => bucket'[l] = bucket[l]
       /\ DOMAIN bucket' = Requests \cup {Shared}
  BY <1>2 DEF LimitInv, LimitTypes
<1>13. idle'[u] = 0 /\ \A v \in Users \ {u} : idle'[v] = idle[v]
  BY <1>2, <1>5 DEF LimitInv, LimitTypes
<1>14. LimitTypes'
  <2>1. \A l \in Requests \cup {Shared} : bucket'[l] \in Buckets(Rpm(l))
    BY <1>11, <1>12 DEF LimitInv, LimitTypes
  <2>2. idle' \in [Users -> Nat]
    BY <1>2 DEF LimitInv, LimitTypes
  <2> QED
    BY <1>2, <1>8, <1>10, <1>12, <2>1, <2>2 DEF LimitInv, LimitTypes
<1>15. GlobalCounted'
  <2>1. bucket'[Shared] = bucket[Shared] /\ debt' = debt
    BY <1>2, <1>7, <1>12
  <2> QED
    BY <2>1 DEF LimitInv, GlobalCounted
<1>16. \A v \in Users \ evicted' : (v \in out \/ entry[v] = Nothing) => debt[v] < PerToken(UserRpm)
  BY <1>8, RestedPaid DEF LimitInv, UserCounted
<1>17. ASSUME NEW v \in Users \ evicted' PROVE UserCounted(v)'
  <2>0. v \in Users \ evicted /\ UserCounted(v) /\ debt[v] \in Nat /\ debt'[v] = debt[v]
    BY <1>2, <1>8, <1>17 DEF LimitInv, LimitTypes
  <2>1. CASE v # u /\ (v \in out \/ entry[v] = Nothing)
    <3>1. entry'[v] = Nothing /\ debt[v] < PerToken(UserRpm)
      BY <1>9, <1>16, <1>17, <2>1
    <3> QED
      BY <2>0, <3>1 DEF UserCounted
  <2>2. CASE v # u /\ v \notin out /\ entry[v] # Nothing
    <3>1. entry'[v] = entry[v] /\ idle'[v] = idle[v] /\ bucket'[entry[v]] = bucket[entry[v]]
      BY <1>6, <1>9, <1>10, <1>12, <1>13, <2>0, <2>2
    <3> QED
      BY <1>2, <2>0, <2>2, <3>1 DEF UserCounted
  <2>3. CASE v = u /\ entry'[u] = r
    <3>1. v \in out \/ entry[v] = Nothing
      BY <1>6, <1>9, <2>0, <2>3 DEF Limiter
    <3>2. debt[v] <= PerToken(UserRpm) - 1
      BY <1>11, <1>16, <1>17, <2>0, <3>1
    <3>3. entry'[v] = r /\ bucket'[r] = FullBucket(UserRpm) /\ idle'[v] = 0 /\ r # Nothing
      BY <1>7, <1>12, <1>13, <2>3
    <3>4. debt[v] + 0 <= ShortWait + Most(UserRpm)
      BY <1>7, <1>11, <2>0, <3>2
    <3> QED
      BY <1>11, <2>0, <3>2, <3>3, <3>4 DEF UserCounted
  <2>4. CASE v = u /\ entry'[u] # r
    <3>1. entry[v] # Nothing /\ entry'[v] = entry[v] /\ entry[v] \in Requests /\ entry[v] # r
          /\ idle'[v] = 0
      BY <1>6, <1>9, <1>10, <1>13, <2>0, <2>4
    <3>2. bucket'[entry[v]] = bucket[entry[v]] /\ Rpm(entry[v]) = UserRpm
      BY <1>7, <1>12, <3>1 DEF Rpm
    <3>3. debt[v] <= Owed(UserRpm, bucket[entry[v]])
      BY <2>0, <3>1 DEF UserCounted
    <3>4. bucket[entry[v]] \in Buckets(UserRpm)
      BY <3>1, <3>2 DEF LimitInv, LimitTypes
    <3>5. Owed(UserRpm, bucket[entry[v]]) \in Nat /\ Owed(UserRpm, bucket[entry[v]]) <= Most(UserRpm)
      BY <1>11, <3>4, OwedBounds
    <3>6. debt[v] + 0 <= ShortWait + Most(UserRpm)
      BY <1>7, <1>11, <2>0, <3>3, <3>5
    <3> QED
      BY <2>0, <3>1, <3>2, <3>3, <3>6 DEF UserCounted
  <2> QED
    BY <2>1, <2>2, <2>3, <2>4
<1>18. /\ todo'[r] = Tail(todo[r]) /\ state' = state
       /\ request'[r].owner = u /\ request'[r].limiter = entry'[u]
       /\ request'[r].left = Timeout(Head(Tail(todo[r]))) /\ request'[r].sleep = 0
       /\ \A q \in Requests \ {r} : todo'[q] = todo[q] /\ request'[q] = request[q]
  BY <1>2, <1>3 DEF Pass, Continue, VetInv, AllSound, Fields, u
<1>19. TimerTypes'
  BY <1>5, <1>10, <1>18, TimeoutNat DEF HolderInv, TimerTypes
<1>20. OwnLimiters'
  <2>1. \A v \in Users : entry'[v] \in {entry[v], Nothing} \/ (v = u /\ entry'[v] = r)
    BY <1>9
  <2>2. ASSUME NEW v \in Users, NEW w \in Users, entry'[v] = entry'[w], entry'[v] # Nothing
        PROVE  v = w
    BY <1>6, <2>1, <2>2 DEF HolderInv, OwnLimiters
  <2>3. ASSUME NEW q \in Requests, NEW v \in Users, request'[q].limiter = entry'[v], entry'[v] # Nothing
        PROVE  request'[q].owner = v
    <3>1. CASE q = r
      BY <1>5, <1>18, <2>2, <2>3, <3>1
    <3>2. CASE q # r
      <4>1. request[q].limiter = entry[v] /\ entry[v] # Nothing /\ request'[q] = request[q]
        BY <1>6, <1>18, <2>1, <2>3, <3>2
      <4> QED
        BY <4>1 DEF HolderInv, OwnLimiters
    <3> QED
      BY <3>1, <3>2
  <2>4. ASSUME NEW q \in Requests, Unentered(q)'
        PROVE  (\A v \in Users : entry'[v] # q) /\ (\A p \in Requests : request'[p].limiter # q)
    <3>1. q # r /\ Unentered(q)
      BY <1>3, <1>4, <1>18, <2>4 DEF Unentered
    <3>2. \A v \in Users : entry'[v] # q
      BY <1>7, <2>1, <3>1 DEF HolderInv, OwnLimiters
    <3>3. \A p \in Requests : request'[p].limiter # q
      BY <1>5, <1>18, <3>1, <3>2 DEF HolderInv, OwnLimiters
    <3> QED
      BY <3>2, <3>3
  <2> QED
    BY <2>2, <2>3, <2>4 DEF OwnLimiters
<1>21. ASSUME NEW q \in Requests, At(q, "user")' PROVE AtUser(q)'
  <2>1. CASE q = r
    <3>1. Head(Tail(todo[r])) = "user"
      BY <1>18, <1>21, <2>1 DEF At
    <3>2. request'[r].left = ShortWait
      BY <1>18, <3>1 DEF Timeout
    <3>3. request'[r].owner = u /\ request'[r].limiter = entry'[u] /\ request'[r].sleep = 0 /\ idle'[u] = 0
      BY <1>13, <1>18
    <3> QED
      BY <1>5, <1>7, <1>10, <2>1, <3>2, <3>3 DEF AtUser
  <2>2. CASE q # r
    <3> DEFINE w == request[q].owner
    <3>1. At(q, "user") /\ request'[q] = request[q]
      BY <1>18, <1>21, <2>2 DEF At
    <3>2. /\ w \in Users /\ request[q].limiter \in Requests
          /\ w \notin evicted => entry[w] = request[q].limiter
          /\ request[q].sleep <= request[q].left /\ request[q].left <= ShortWait
          /\ service = "email" => idle[w] + request[q].left <= ShortWait
          /\ request[q].left \in Nat
      BY <3>1 DEF HolderInv, AtUser, TimerTypes
    <3> HIDE DEF w
    <3>3. idle[w] \in Nat
      BY <3>2 DEF LimitInv, LimitTypes
    <3>4. service = "email" => idle[w] < LimiterTtl
      BY <1>7, <3>2, <3>3
    <3>5. w \notin evicted' => w \notin out
      BY <1>7, <1>8, <3>3, <3>4
    <3>6. w \notin evicted' => entry'[w] = request[q].limiter
      BY <1>7, <1>8, <1>9, <3>2, <3>5 DEF Limiter
    <3>7. service = "email" => idle'[w] + request[q].left <= ShortWait
      BY <1>7, <1>13, <3>2, <3>3
    <3> QED
      BY <1>2, <3>1, <3>2, <3>6, <3>7 DEF AtUser, w
  <2> QED
    BY <2>1, <2>2
<1> QED
  BY <1>14, <1>15, <1>17, <1>19, <1>20, <1>21 DEF LimitInv, HolderInv

(* Every step of a request keeps the pace. *)
LEMMA RequestPaced ==
  ASSUME VetInv, LimitInv, HolderInv, NEW r \in Requests, RequestStep(r)
  PROVE  LimitInv' /\ HolderInv'
<1>1. CASE Start(r)
  <2>1. UNCHANGED limits /\ UNCHANGED service
    BY <1>1 DEF Start, project
  <2> QED
    BY <1>1, <2>1, StartSide, SideKeeps, LimitsStay DEF LimitInv
<1>2. CASE PlainSteps(r)
  BY <1>2, PlainSide, SideKeeps, LimitsStay DEF LimitInv
<1>3. CASE Redirect(r)
  BY <1>3, RedirectSide, SideKeeps, LimitsStay DEF LimitInv
<1>4. CASE Wait(r)
  BY <1>4, WaitHolds, LimitsStay
<1> QED
  BY <1>1, <1>2, <1>3, <1>4, AcquirePaced, EnterPaced DEF RequestStep, PlainSteps

(* Every step of the services does. *)
LEMMA PaceStep == PaceInv /\ [GatewaysNext]_gatewayVars => PaceInv'
<1> SUFFICES ASSUME PaceInv, [GatewaysNext]_gatewayVars PROVE PaceInv'
  OBVIOUS
<1>0. VetInv /\ LimitInv /\ HolderInv /\ VetInv'
  BY VetStep DEF PaceInv
<1>1. CASE \E r \in Requests : RequestStep(r)
  BY <1>0, <1>1, RequestPaced DEF PaceInv
<1>2. CASE Tick
  BY <1>0, <1>2, TickPaced DEF PaceInv
<1>3. CASE Edit \/ Purge \/ UNCHANGED gatewayVars
  <2>1. UNCHANGED <<service, state, todo, request, bucket, entry, idle, debt, evicted>>
        /\ UNCHANGED limits
    BY <1>3 DEF Edit, Purge, gatewayVars, project, limits
  <2>2. LimitInv'
    BY <1>0, <2>1, LimitsStay
  <2>3. HolderInv'
    BY <1>0, <2>1 DEF HolderInv, TimerTypes, OwnLimiters, Unentered, At, AtUser
  <2> QED
    BY <1>0, <2>2, <2>3 DEF PaceInv
<1> QED
  BY <1>1, <1>2, <1>3 DEF GatewaysNext

(* At first every bucket is full, and nobody holds one. *)
LEMMA PaceInit == GatewaysInit => PaceInv
<1> SUFFICES ASSUME GatewaysInit PROVE PaceInv
  OBVIOUS
<1>1. \A l : /\ FullBucket(Rpm(l)) \in Buckets(Rpm(l))
             /\ Owed(Rpm(l), FullBucket(Rpm(l))) = PerToken(Rpm(l)) - 1
             /\ PerToken(Rpm(l)) \in Nat \ {0}
  BY RpmsAreRates, FullOwes, RateFacts
<1>2. PerToken(UserRpm) \in Nat \ {0} /\ Rpm(Shared) = GlobalRpm
  BY RpmsAreRates, RateFacts DEF Rpm
<1>3. LimitTypes
  BY <1>1 DEF GatewaysInit, LimitTypes
<1>4. GlobalCounted
  BY <1>1, <1>2 DEF GatewaysInit, GlobalCounted
<1>5. \A u \in Users : UserCounted(u)
  BY <1>2 DEF GatewaysInit, UserCounted
<1>6. TimerTypes
  BY DEF GatewaysInit, TimerTypes, NoLocals, Locals
<1>7. OwnLimiters
  BY GatewayConstants DEF GatewaysInit, OwnLimiters, NoLocals, Locals
<1>8. \A r \in Requests : ~At(r, "user")
  BY DEF GatewaysInit, At
<1> QED
  BY <1>3, <1>4, <1>5, <1>6, <1>7, <1>8, VetInit DEF PaceInv, LimitInv, HolderInv

(* However many requests wait for limiters and hold them while users come,   *)
(* are thrown out of a full map or pruned, the limiters keep their pace: of  *)
(* all requests, and of each user's.                                         *)
THEOREM PaceIsKept == GatewaysSpec => []RequestsPaced
<1>1. PaceInv => RequestsPaced
  <2> SUFFICES ASSUME PaceInv PROVE RequestsPaced
    OBVIOUS
  <2>1. InPace(Shared, GlobalRpm)
    <3>1. debt[Shared] \in Nat /\ debt[Shared] <= Owed(GlobalRpm, bucket[Shared])
          /\ bucket[Shared] \in Buckets(GlobalRpm) /\ GlobalRpm \in Rates
      BY RpmsAreRates DEF PaceInv, LimitInv, LimitTypes, GlobalCounted, Rpm
    <3>2. PerToken(GlobalRpm) \in Nat /\ Capacity(GlobalRpm) \in Nat
      BY <3>1, RateFacts
    <3> DEFINE pace == (Capacity(GlobalRpm) + 1) * PerToken(GlobalRpm)
    <3>3. Owed(GlobalRpm, bucket[Shared]) \in Nat /\ Most(GlobalRpm) \in Nat /\ pace \in Nat
          /\ Owed(GlobalRpm, bucket[Shared]) <= Most(GlobalRpm) /\ Most(GlobalRpm) < pace
      BY <3>1, <3>2, OwedBounds
    <3> HIDE DEF pace
    <3>4. debt[Shared] < pace
      BY <3>1, <3>3
    <3> QED
      BY <3>4 DEF InPace, pace
  <2>2. ASSUME NEW u \in Users \ evicted PROVE InPace(u, UserRpm)
    <3>1. debt[u] \in Nat /\ UserCounted(u) /\ UserRpm \in Rates
      BY RpmsAreRates DEF PaceInv, LimitInv, LimitTypes
    <3>2. PerToken(UserRpm) \in Nat \ {0} /\ Capacity(UserRpm) \in Nat
      BY <3>1, RateFacts
    <3> DEFINE pace == (Capacity(UserRpm) + 1) * PerToken(UserRpm)
    <3>3. pace \in Nat /\ PerToken(UserRpm) <= pace
      BY <3>2
    <3>4. debt[u] < pace
      <4>1. CASE entry[u] = Nothing
        <5> HIDE DEF pace
        <5>1. debt[u] < PerToken(UserRpm)
          BY <3>1, <4>1 DEF UserCounted
        <5> QED
          BY <3>1, <3>2, <3>3, <5>1
      <4>2. CASE entry[u] # Nothing
        <5> DEFINE b == bucket[entry[u]]
        <5>1. entry[u] \in Requests /\ Rpm(entry[u]) = UserRpm
          BY <4>2, GatewayConstants DEF PaceInv, LimitInv, LimitTypes, Rpm
        <5>2. b \in Buckets(UserRpm) /\ debt[u] <= Owed(UserRpm, b)
          BY <3>1, <4>2, <5>1 DEF PaceInv, LimitInv, LimitTypes, UserCounted
        <5> HIDE DEF b
        <5>3. Owed(UserRpm, b) \in Nat /\ Most(UserRpm) \in Nat
              /\ Owed(UserRpm, b) <= Most(UserRpm) /\ Most(UserRpm) < pace
          BY <3>1, <5>2, OwedBounds
        <5> HIDE DEF pace
        <5> QED
          BY <3>1, <3>3, <5>2, <5>3
      <4> QED
        BY <4>1, <4>2
    <3> HIDE DEF pace
    <3> QED
      BY <3>4 DEF InPace, pace
  <2> QED
    BY <2>1, <2>2 DEF RequestsPaced
<1> QED
  BY <1>1, PaceInit, PaceStep, PTL DEF GatewaysSpec
=============================================================================
