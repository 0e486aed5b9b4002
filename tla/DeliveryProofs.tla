------------------------- MODULE DeliveryProofs -------------------------
(***************************************************************************)
(* Proofs about Delivery, for any ticks, rows, emails, attempts and        *)
(* bounds: an email under way has one sender, nothing forbidden reaches    *)
(* the sending step, and every repeated notification has its cause.        *)
(***************************************************************************)
EXTENDS Delivery, WorkQueueProofs, FiniteSetTheorems

RowSteps   == {"channel", "deliver", "accepted", "refused", "permanent"}
EmailSteps == {"check", "send", "sent", "unsent"}

(* What an actor has at each step; the listener sends no emails. *)
Placed ==
  \A a \in Actors :
    /\ pc[a] \in RowSteps <=> item[a] \in Rows
    /\ pc[a] \in EmailSteps <=> item[a] \in Emails
    /\ pc[a] \in EmailSteps => a \in Ticks

(* An email that may still be sent has an attempt left. *)
TriesLeft ==
  \A e \in Emails : mail[e] \in {"none", "scheduled", "sending"} => tries[e] < MaxMailAttempts

(* Who holds an email has it in 'sending', and has it alone. *)
Sole == EmailHeldOnce /\ TriesLeft

Typed == TypeOK /\ Placed /\ ClaimsCounted

(* A barred sender that has yet to look will find what bars it. *)
WillSee ==
  \A a \in barred :
    /\ pc[a] = "check" => item[a] \in blocked
    /\ pc[a] = "channel" => channel # "enabled"

(* The senders that may yet deliver r, or give it back to be delivered. *)
Bearers(r) == {a \in Actors : item[a] = r /\ pc[a] \in {"channel", "deliver", "refused"}}

(* One more delivery is to come of a row that waits to be claimed, or will   *)
(* be set back, because it looks stale or nobody has it.                     *)
Loose(r) ==
  \/ status[r] = "pending"
  \/ status[r] = "processing" /\ (r \in stale \/ ~Held(r))

(* Deliveries made and to come do not exceed the causes there have been. *)
CountedAt(r) ==
  /\ IsFiniteSet(Bearers(r))
  /\ delivered[r] + Cardinality(Bearers(r)) + (IF Loose(r) THEN 1 ELSE 0) <= 1 + (faults + changes)
  /\ status[r] = "absent" /\ channel # "deleted" => delivered[r] = 0 /\ Bearers(r) = {}

Counted == \A r \in Rows : CountedAt(r)

(* What is about to be reported, or has been, did take place. *)
TrueReports ==
  /\ \A a \in Actors : pc[a] = "accepted" => delivered[item[a]] >= 1
  /\ \A a \in Actors : pc[a] = "sent" => mailed[item[a]] >= 1
  /\ \A r \in Rows : status[r] = "completed" => delivered[r] >= 1
  /\ \A e \in Emails : mail[e] = "sent" => mailed[e] >= 1

Inv1 == Typed /\ Sole

-----------------------------------------------------------------------------
(* The table changes by the operations of WorkQueue, or is emptied. *)
LEMMA QueueOnly ==
  ASSUME Inv1, [Next]_vars
  PROVE  QueueStep \/ DeleteRows
<1> USE QueueConstants, DeliveryConstants DEF Inv1, Typed, Placed
<1>1. ASSUME NEW r \in Rows, Notify(r) \/ RetryNotification(r) \/ CancelNotification(r)
      PROVE  QueueStep
  BY <1>1 DEF Notify, RetryNotification, CancelNotification, QueueStep
<1>2. ASSUME UpdateChannel PROVE QueueStep
  BY <1>2 DEF UpdateChannel, QueueStep
<1>3. ASSUME DeleteChannel PROVE DeleteRows
  BY <1>3 DEF DeleteChannel
<1>4. ASSUME NEW e \in Emails, Schedule(e) \/ CancelEmail(e) \/ ChangeRules(e) PROVE QueueStep
  BY <1>4 DEF Schedule, CancelEmail, ChangeRules, QueueStep
<1>5. ASSUME NEW t \in Ticks,
             \/ ListEmails(t) \/ CheckEmail(t) \/ RejectEmail(t) \/ SendEmail(t) \/ SendEmailErrs(t)
             \/ RecordEmail(t) \/ ListNotifications(t) \/ EndTick(t) \/ RecordEmailErrs(t)
             \/ \E e \in Emails : ClaimEmail(t, e)
      PROVE  QueueStep
  BY <1>5 DEF ListEmails, CheckEmail, RejectEmail, SendEmail, SendEmailErrs, RecordEmail,
     ListNotifications, EndTick, RecordEmailErrs, ClaimEmail, QueueStep
<1>6. ASSUME NEW t \in Ticks, RecoverNotifications(t) PROVE QueueStep
  BY <1>6 DEF RecoverNotifications, QueueStep
<1>7. ASSUME NEW a \in Actors, NEW r \in Rows, ClaimOrSkip(a, r) PROVE QueueStep
  BY <1>7 DEF ClaimOrSkip, QueueStep
<1>8. ASSUME NEW t \in Ticks, NEW r \in Rows, ClaimListedRow(t, r) PROVE QueueStep
  BY <1>7, <1>8 DEF ClaimListedRow, Actors
<1>9. ASSUME NEW r \in Rows, ClaimAnnounced(r) PROVE QueueStep
  BY <1>7, <1>9 DEF ClaimAnnounced, Actors
<1>10. ASSUME NEW a \in Actors, Deliveries(a) PROVE QueueStep
  BY <1>10 DEF Deliveries, ReadChannel, NoChannel, Deliver, DeliverErrs, Record, QueueStep, RowSteps
<1>11. ASSUME NEW a \in Actors, DatabaseErrs(a) \/ Dies(a) PROVE QueueStep
  BY <1>11 DEF DatabaseErrs, Dies, QueueStep
<1>12. ASSUME NEW t \in Ticks, NEW r \in Rows \cup Emails, ClaimErrs(t, r) PROVE QueueStep
  BY <1>12 DEF ClaimErrs, QueueStep
<1>13. ASSUME NEW r \in Rows, OrphanStale(r) \/ HeldStale(r) PROVE QueueStep
  BY <1>13 DEF OrphanStale, HeldStale, QueueStep
<1>14. CASE UNCHANGED vars
  BY <1>14 DEF vars, QueueStep
<1> QED
  BY <1>1, <1>2, <1>3, <1>4, <1>5, <1>6, <1>8, <1>9, <1>10, <1>11, <1>12, <1>13, <1>14
  DEF Next, UserStep, TickStep, Actors

(* ... so the table's own invariant is kept. *)
LEMMA QueueKept ==
  ASSUME Inv1, [Next]_vars
  PROVE  QueueTypeOK' /\ ClaimsCounted'
<1>1. QueueInv
  BY DEF Inv1, Typed, TypeOK, QueueInv
<1>2. CASE QueueStep
  BY <1>1, <1>2, QueueStepOK DEF QueueInv
<1>3. CASE DeleteRows
  BY <1>3, QueueConstants DEF DeleteRows, QueueTypeOK, ClaimsCounted, Active, Final
<1> QED
  BY <1>2, <1>3, QueueOnly

-----------------------------------------------------------------------------
(* The types of what is not the table. *)
NotificationTypes ==
  /\ channel \in {"enabled", "disabled", "deleted"} /\ kind \in {"email", "webhook"}
  /\ delivered \in [Rows -> Nat] /\ inbox \in SUBSET Rows
EmailTypes ==
  /\ mail \in [Emails -> {"none", "scheduled", "sending", "sent", "failed", "cancelled"}]
  /\ tries \in [Emails -> 0..MaxMailAttempts]
  /\ mailed \in [Emails -> Nat] /\ blocked \in SUBSET Emails
ActorTypes ==
  /\ pc \in [Actors -> EmailSteps \cup RowSteps \cup {"idle", "emails", "list", "loop"}]
  /\ todo \in [Actors -> SUBSET (Rows \cup Emails)]
  /\ item \in [Actors -> Rows \cup Emails \cup {None}]
  /\ barred \in SUBSET Actors
BoundTypes == faults \in 0..MaxFaults /\ changes \in 0..MaxChanges

RestTypes == NotificationTypes /\ EmailTypes /\ ActorTypes /\ BoundTypes

(* The type invariant, by parts. *)
LEMMA Types ==
  /\ TypeOK <=> QueueTypeOK /\ RestTypes
  /\ TypeOK' <=> QueueTypeOK' /\ RestTypes'
<1>1. MailSteps \cup Steps \cup {"idle"} = EmailSteps \cup RowSteps \cup {"idle", "emails", "list", "loop"}
  BY DEF MailSteps, Steps, EmailSteps, RowSteps
<1>2. TypeOK <=> QueueTypeOK /\ RestTypes
  BY <1>1 DEF TypeOK, RestTypes, NotificationTypes, EmailTypes, ActorTypes, BoundTypes
<1>3. TypeOK' <=> QueueTypeOK' /\ RestTypes'
  BY <1>1 DEF TypeOK, RestTypes, NotificationTypes, EmailTypes, ActorTypes, BoundTypes
<1> QED
  BY <1>2, <1>3

(* Who has what is kept by every step: an email is claimed only from         *)
(* 'scheduled', when nobody has it.                                          *)
LEMMA Inv1Step ==
  ASSUME Inv1, [Next]_vars
  PROVE  Inv1'
<1>q. QueueTypeOK' /\ ClaimsCounted'
  BY QueueKept
<1>i. NotificationTypes /\ EmailTypes /\ ActorTypes /\ BoundTypes /\ Placed /\ EmailHeldOnce /\ TriesLeft
  BY Types DEF Inv1, Typed, Sole, RestTypes
<1> DEFINE Goal == RestTypes' /\ Placed' /\ Sole'
<1> SUFFICES Goal
  BY <1>q, Types DEF Inv1, Typed
<1> HIDE DEF Goal
<1> USE DeliveryConstants DEF notifications, emails, actors, bounds
<1>1. ASSUME NEW r \in Rows, Notify(r) \/ RetryNotification(r) \/ CancelNotification(r) PROVE Goal
  <2>1. NotificationTypes' /\ BoundTypes'
    BY <1>1, <1>i DEF Notify, RetryNotification, CancelNotification, Change, NotificationTypes, BoundTypes, Placed
  <2>2. EmailTypes'
    BY <1>1, <1>i DEF Notify, RetryNotification, CancelNotification, Change, EmailTypes, Placed, EmailHeldOnce, TriesLeft
  <2>3. ActorTypes'
    BY <1>1, <1>i DEF Notify, RetryNotification, CancelNotification, Change, ActorTypes, Actors, EmailSteps, RowSteps
  <2>4. Placed'
    BY <1>1, <1>i DEF Notify, RetryNotification, CancelNotification, Change, Placed, Actors, ActorTypes, EmailSteps, RowSteps
  <2>5. EmailHeldOnce'
    BY <1>1, <1>i DEF Notify, RetryNotification, CancelNotification, Change, EmailHeldOnce, Placed, Actors, ActorTypes, EmailTypes, EmailSteps
  <2>6. TriesLeft'
    BY <1>1, <1>i DEF Notify, RetryNotification, CancelNotification, Change, TriesLeft, EmailTypes, EmailHeldOnce, Placed, ActorTypes, EmailSteps
  <2> QED
    BY <2>1, <2>2, <2>3, <2>4, <2>5, <2>6 DEF Goal, RestTypes, Sole
<1>2. ASSUME UpdateChannel \/ DeleteChannel PROVE Goal
  <2>1. NotificationTypes' /\ BoundTypes'
    BY <1>2, <1>i DEF UpdateChannel, DeleteChannel, Change, NotificationTypes, BoundTypes, Placed
  <2>2. EmailTypes'
    BY <1>2, <1>i DEF UpdateChannel, DeleteChannel, Change, EmailTypes, Placed, EmailHeldOnce, TriesLeft
  <2>3. ActorTypes'
    BY <1>2, <1>i DEF UpdateChannel, DeleteChannel, Change, ActorTypes, Actors, EmailSteps, RowSteps
  <2>4. Placed'
    BY <1>2, <1>i DEF UpdateChannel, DeleteChannel, Change, Placed, Actors, ActorTypes, EmailSteps, RowSteps
  <2>5. EmailHeldOnce'
    BY <1>2, <1>i DEF UpdateChannel, DeleteChannel, Change, EmailHeldOnce, Placed, Actors, ActorTypes, EmailTypes, EmailSteps
  <2>6. TriesLeft'
    BY <1>2, <1>i DEF UpdateChannel, DeleteChannel, Change, TriesLeft, EmailTypes, EmailHeldOnce, Placed, ActorTypes, EmailSteps
  <2> QED
    BY <2>1, <2>2, <2>3, <2>4, <2>5, <2>6 DEF Goal, RestTypes, Sole
<1>3. ASSUME NEW e \in Emails, Schedule(e) \/ CancelEmail(e) PROVE Goal
  <2>1. NotificationTypes' /\ BoundTypes'
    BY <1>3, <1>i DEF Schedule, CancelEmail, NotificationTypes, BoundTypes, Placed
  <2>2. EmailTypes'
    BY <1>3, <1>i DEF Schedule, CancelEmail, EmailTypes, Placed, EmailHeldOnce, TriesLeft
  <2>3. ActorTypes'
    BY <1>3, <1>i DEF Schedule, CancelEmail, ActorTypes, Actors, EmailSteps, RowSteps
  <2>4. Placed'
    BY <1>3, <1>i DEF Schedule, CancelEmail, Placed, Actors, ActorTypes, EmailSteps, RowSteps
  <2>5. EmailHeldOnce'
    <3>1. \A u \in Ticks : item[u] # e
      BY <1>3, <1>i DEF Schedule, CancelEmail, EmailHeldOnce
    <3>2. item' = item /\ \A d \in Emails \ {e} : mail'[d] = mail[d]
      BY <1>3, <1>i DEF Schedule, CancelEmail, EmailTypes
    <3> QED
      BY <1>i, <3>1, <3>2 DEF EmailHeldOnce
  <2>6. TriesLeft'
    BY <1>3, <1>i DEF Schedule, CancelEmail, TriesLeft, EmailTypes, EmailHeldOnce, Placed, ActorTypes, EmailSteps
  <2> QED
    BY <2>1, <2>2, <2>3, <2>4, <2>5, <2>6 DEF Goal, RestTypes, Sole
<1>4. ASSUME NEW e \in Emails, ChangeRules(e) PROVE Goal
  <2>1. NotificationTypes' /\ BoundTypes'
    BY <1>4, <1>i DEF ChangeRules, Change, NotificationTypes, BoundTypes, Placed
  <2>2. EmailTypes'
    BY <1>4, <1>i DEF ChangeRules, Change, EmailTypes, Placed, EmailHeldOnce, TriesLeft
  <2>3. ActorTypes'
    BY <1>4, <1>i DEF ChangeRules, Change, ActorTypes, Actors, EmailSteps, RowSteps
  <2>4. Placed'
    BY <1>4, <1>i DEF ChangeRules, Change, Placed, Actors, ActorTypes, EmailSteps, RowSteps
  <2>5. EmailHeldOnce'
    BY <1>4, <1>i DEF ChangeRules, Change, EmailHeldOnce, Placed, Actors, ActorTypes, EmailTypes, EmailSteps
  <2>6. TriesLeft'
    BY <1>4, <1>i DEF ChangeRules, Change, TriesLeft, EmailTypes, EmailHeldOnce, Placed, ActorTypes, EmailSteps
  <2> QED
    BY <2>1, <2>2, <2>3, <2>4, <2>5, <2>6 DEF Goal, RestTypes, Sole
<1>5. ASSUME NEW t \in Ticks, ListEmails(t) \/ CheckEmail(t) PROVE Goal
  <2>1. NotificationTypes' /\ BoundTypes'
    BY <1>5, <1>i DEF ListEmails, CheckEmail, Goto, NotificationTypes, BoundTypes, Placed
  <2>2. EmailTypes'
    BY <1>5, <1>i DEF ListEmails, CheckEmail, Goto, EmailTypes, Placed, EmailHeldOnce, TriesLeft
  <2>3. ActorTypes'
    BY <1>5, <1>i DEF ListEmails, CheckEmail, Goto, ActorTypes, Actors, EmailSteps, RowSteps
  <2>4. Placed'
    BY <1>5, <1>i DEF ListEmails, CheckEmail, Goto, Placed, Actors, ActorTypes, EmailSteps, RowSteps
  <2>5. EmailHeldOnce'
    BY <1>5, <1>i DEF ListEmails, CheckEmail, Goto, EmailHeldOnce, Placed, Actors, ActorTypes, EmailTypes, EmailSteps
  <2>6. TriesLeft'
    BY <1>5, <1>i DEF ListEmails, CheckEmail, Goto, TriesLeft, EmailTypes, EmailHeldOnce, Placed, ActorTypes, EmailSteps
  <2> QED
    BY <2>1, <2>2, <2>3, <2>4, <2>5, <2>6 DEF Goal, RestTypes, Sole
<1>6. ASSUME NEW t \in Ticks, NEW e \in Emails, ClaimEmail(t, e) PROVE Goal
  <2>1. NotificationTypes' /\ BoundTypes'
    BY <1>6, <1>i DEF ClaimEmail, Goto, Drop, IsNext, Take, NotificationTypes, BoundTypes, Placed
  <2>2. EmailTypes'
    BY <1>6, <1>i DEF ClaimEmail, Goto, Drop, IsNext, Take, EmailTypes, Placed, EmailHeldOnce, TriesLeft
  <2>3. ActorTypes'
    BY <1>6, <1>i DEF ClaimEmail, Goto, Drop, IsNext, Take, ActorTypes, Actors, EmailSteps, RowSteps
  <2>4. Placed'
    BY <1>6, <1>i DEF ClaimEmail, Goto, Drop, IsNext, Take, Placed, Actors, ActorTypes, EmailSteps, RowSteps
  <2>5. EmailHeldOnce'
    <3>1. CASE mail[e] = "scheduled"
      <4>1. \A u \in Ticks : item[u] # e
        BY <1>i, <3>1 DEF EmailHeldOnce
      <4>2. item' = [item EXCEPT ![t] = e] /\ mail' = [mail EXCEPT ![e] = "sending"]
        BY <1>6, <3>1 DEF ClaimEmail, Take
      <4> QED
        BY <1>i, <4>1, <4>2 DEF EmailHeldOnce, ActorTypes, EmailTypes, Actors
    <3>2. CASE mail[e] # "scheduled"
      BY <1>6, <1>i, <3>2 DEF ClaimEmail, EmailHeldOnce
    <3> QED
      BY <3>1, <3>2
  <2>6. TriesLeft'
    BY <1>6, <1>i DEF ClaimEmail, Goto, Drop, IsNext, Take, TriesLeft, EmailTypes, EmailHeldOnce, Placed, ActorTypes, EmailSteps
  <2> QED
    BY <2>1, <2>2, <2>3, <2>4, <2>5, <2>6 DEF Goal, RestTypes, Sole
<1>7. ASSUME NEW t \in Ticks, RejectEmail(t) PROVE Goal
  <2>1. NotificationTypes' /\ BoundTypes'
    BY <1>7, <1>i DEF RejectEmail, FailEmail, LetGo, Goto, NotificationTypes, BoundTypes, Placed
  <2>2. EmailTypes'
    <3>1. item[t] \in Emails /\ mail[item[t]] = "sending" /\ tries[item[t]] < MaxMailAttempts
      BY <1>7, <1>i DEF RejectEmail, Placed, EmailSteps, Actors, EmailHeldOnce, TriesLeft
    <3>0. tries[item[t]] \in 0..MaxMailAttempts
      BY <1>i, <3>1 DEF EmailTypes
    <3>2. tries[item[t]] + 1 \in 0..MaxMailAttempts
      BY <3>0, <3>1
    <3>3. mailed' = mailed /\ blocked' = blocked
      BY <1>7 DEF RejectEmail
    <3> QED
      BY <1>7, <1>i, <3>1, <3>2, <3>3 DEF RejectEmail, FailEmail, EmailTypes
  <2>3. ActorTypes'
    BY <1>7, <1>i DEF RejectEmail, FailEmail, LetGo, Goto, ActorTypes, Actors, EmailSteps, RowSteps
  <2>4. Placed'
    BY <1>7, <1>i DEF RejectEmail, FailEmail, LetGo, Goto, Placed, Actors, ActorTypes, EmailSteps, RowSteps
  <2>5. EmailHeldOnce'
    BY <1>7, <1>i DEF RejectEmail, FailEmail, LetGo, Goto, EmailHeldOnce, Placed, Actors, ActorTypes, EmailTypes, EmailSteps
  <2>6. TriesLeft'
    BY <1>7, <1>i DEF RejectEmail, FailEmail, LetGo, Goto, TriesLeft, EmailTypes, EmailHeldOnce, Placed, ActorTypes, EmailSteps
  <2> QED
    BY <2>1, <2>2, <2>3, <2>4, <2>5, <2>6 DEF Goal, RestTypes, Sole
<1>8. ASSUME NEW t \in Ticks, SendEmail(t) \/ SendEmailErrs(t) PROVE Goal
  <2>1. NotificationTypes' /\ BoundTypes'
    BY <1>8, <1>i DEF SendEmail, SendEmailErrs, Goto, Fault, NotificationTypes, BoundTypes, Placed
  <2>2. EmailTypes'
    <3>1. pc[t] = "send" /\ item[t] \in Emails
      BY <1>8, <1>i DEF SendEmail, SendEmailErrs, Placed, EmailSteps, Actors
    <3>0. mailed[item[t]] \in Nat
      BY <1>i, <3>1 DEF EmailTypes
    <3>2. mailed[item[t]] + 1 \in Nat
      BY <3>0
    <3> QED
      BY <1>8, <1>i, <3>1, <3>2, ZenonT(30) DEF SendEmail, SendEmailErrs, EmailTypes
  <2>3. ActorTypes'
    BY <1>8, <1>i DEF SendEmail, SendEmailErrs, Goto, Fault, ActorTypes, Actors, EmailSteps, RowSteps
  <2>4. Placed'
    BY <1>8, <1>i DEF SendEmail, SendEmailErrs, Goto, Fault, Placed, Actors, ActorTypes, EmailSteps, RowSteps
  <2>5. EmailHeldOnce'
    BY <1>8, <1>i DEF SendEmail, SendEmailErrs, Goto, Fault, EmailHeldOnce, Placed, Actors, ActorTypes, EmailTypes, EmailSteps
  <2>6. TriesLeft'
    BY <1>8, <1>i DEF SendEmail, SendEmailErrs, Goto, Fault, TriesLeft, EmailTypes, EmailHeldOnce, Placed, ActorTypes, EmailSteps
  <2> QED
    BY <2>1, <2>2, <2>3, <2>4, <2>5, <2>6 DEF Goal, RestTypes, Sole
<1>9. ASSUME NEW t \in Ticks, RecordEmail(t) PROVE Goal
  <2>1. NotificationTypes' /\ BoundTypes'
    BY <1>9, <1>i DEF RecordEmail, FailEmail, LetGo, Goto, NotificationTypes, BoundTypes, Placed
  <2>2. EmailTypes'
    BY <1>9, <1>i DEF RecordEmail, FailEmail, LetGo, Goto, EmailTypes, Placed, EmailHeldOnce, TriesLeft
  <2>3. ActorTypes'
    BY <1>9, <1>i DEF RecordEmail, FailEmail, LetGo, Goto, ActorTypes, Actors, EmailSteps, RowSteps
  <2>4. Placed'
    BY <1>9, <1>i DEF RecordEmail, FailEmail, LetGo, Goto, Placed, Actors, ActorTypes, EmailSteps, RowSteps
  <2>5. EmailHeldOnce'
    <3>1. item[t] \in Emails
      BY <1>9, <1>i DEF RecordEmail, Placed, EmailSteps, Actors
    <3>2. \A e \in Emails \ {item[t]} : mail'[e] = mail[e]
      BY <1>9, <1>i, <3>1 DEF RecordEmail, FailEmail, EmailTypes
    <3>3. item' = [item EXCEPT ![t] = None]
      BY <1>9 DEF RecordEmail, LetGo
    <3> QED
      BY <1>i, <3>1, <3>2, <3>3 DEF EmailHeldOnce, ActorTypes, Actors
  <2>6. TriesLeft'
    BY <1>9, <1>i DEF RecordEmail, FailEmail, LetGo, Goto, TriesLeft, EmailTypes, EmailHeldOnce, Placed, ActorTypes, EmailSteps
  <2> QED
    BY <2>1, <2>2, <2>3, <2>4, <2>5, <2>6 DEF Goal, RestTypes, Sole
<1>10. ASSUME NEW t \in Ticks, RecordEmailErrs(t) PROVE Goal
  <2>1. NotificationTypes' /\ BoundTypes'
    BY <1>10, <1>i DEF RecordEmailErrs, LetGo, Goto, Fault, NotificationTypes, BoundTypes, Placed
  <2>2. EmailTypes'
    BY <1>10, <1>i DEF RecordEmailErrs, LetGo, Goto, Fault, EmailTypes, Placed, EmailHeldOnce, TriesLeft
  <2>3. ActorTypes'
    BY <1>10, <1>i DEF RecordEmailErrs, LetGo, Goto, Fault, ActorTypes, Actors, EmailSteps, RowSteps
  <2>4. Placed'
    BY <1>10, <1>i DEF RecordEmailErrs, LetGo, Goto, Fault, Placed, Actors, ActorTypes, EmailSteps, RowSteps
  <2>5. EmailHeldOnce'
    BY <1>10, <1>i DEF RecordEmailErrs, LetGo, Goto, Fault, EmailHeldOnce, Placed, Actors, ActorTypes, EmailTypes, EmailSteps
  <2>6. TriesLeft'
    BY <1>10, <1>i DEF RecordEmailErrs, LetGo, Goto, Fault, TriesLeft, EmailTypes, EmailHeldOnce, Placed, ActorTypes, EmailSteps
  <2> QED
    BY <2>1, <2>2, <2>3, <2>4, <2>5, <2>6 DEF Goal, RestTypes, Sole
<1>11. ASSUME NEW t \in Ticks, RecoverNotifications(t) \/ ListNotifications(t) \/ EndTick(t) PROVE Goal
  <2>1. NotificationTypes' /\ BoundTypes'
    BY <1>11, <1>i DEF RecoverNotifications, ListNotifications, EndTick, Goto, Pending, Oldest, NotificationTypes, BoundTypes, Placed
  <2>2. EmailTypes'
    BY <1>11, <1>i DEF RecoverNotifications, ListNotifications, EndTick, Goto, Pending, Oldest, EmailTypes, Placed, EmailHeldOnce, TriesLeft
  <2>3. ActorTypes'
    <3>1. Pending(Rows, Limit) \subseteq Rows
      BY DEF Pending, Oldest
    <3> QED
      BY <1>11, <1>i, <3>1 DEF RecoverNotifications, ListNotifications, EndTick, Goto, ActorTypes, Actors
  <2>4. Placed'
    BY <1>11, <1>i DEF RecoverNotifications, ListNotifications, EndTick, Goto, Pending, Oldest, Placed, Actors, ActorTypes, EmailSteps, RowSteps
  <2>5. EmailHeldOnce'
    BY <1>11, <1>i DEF RecoverNotifications, ListNotifications, EndTick, Goto, Pending, Oldest, EmailHeldOnce, Placed, Actors, ActorTypes, EmailTypes, EmailSteps
  <2>6. TriesLeft'
    BY <1>11, <1>i DEF RecoverNotifications, ListNotifications, EndTick, Goto, Pending, Oldest, TriesLeft, EmailTypes, EmailHeldOnce, Placed, ActorTypes, EmailSteps
  <2> QED
    BY <2>1, <2>2, <2>3, <2>4, <2>5, <2>6 DEF Goal, RestTypes, Sole
<1>12. ASSUME NEW t \in Ticks, NEW r \in Rows, ClaimListedRow(t, r) PROVE Goal
  <2>1. NotificationTypes' /\ BoundTypes'
    BY <1>12, <1>i DEF ClaimListedRow, ClaimOrSkip, Take, Goto, IsNext, Drop, NotificationTypes, BoundTypes, Placed
  <2>2. EmailTypes'
    BY <1>12, <1>i DEF ClaimListedRow, ClaimOrSkip, Take, Goto, IsNext, Drop, EmailTypes, Placed, EmailHeldOnce, TriesLeft
  <2>3. ActorTypes'
    BY <1>12, <1>i DEF ClaimListedRow, ClaimOrSkip, Take, Goto, IsNext, Drop, ActorTypes, Actors, EmailSteps, RowSteps
  <2>4. Placed'
    BY <1>12, <1>i DEF ClaimListedRow, ClaimOrSkip, Take, Goto, IsNext, Drop, Placed, Actors, ActorTypes, EmailSteps, RowSteps
  <2>5. EmailHeldOnce'
    BY <1>12, <1>i DEF ClaimListedRow, ClaimOrSkip, Take, Goto, IsNext, Drop, EmailHeldOnce, Placed, Actors, ActorTypes, EmailTypes, EmailSteps
  <2>6. TriesLeft'
    BY <1>12, <1>i DEF ClaimListedRow, ClaimOrSkip, Take, Goto, IsNext, Drop, TriesLeft, EmailTypes, EmailHeldOnce, Placed, ActorTypes, EmailSteps
  <2> QED
    BY <2>1, <2>2, <2>3, <2>4, <2>5, <2>6 DEF Goal, RestTypes, Sole
<1>13. ASSUME NEW r \in Rows, ClaimAnnounced(r) PROVE Goal
  <2>1. NotificationTypes' /\ BoundTypes'
    BY <1>13, <1>i DEF ClaimAnnounced, ClaimOrSkip, Take, Goto, NotificationTypes, BoundTypes, Placed
  <2>2. EmailTypes'
    BY <1>13, <1>i DEF ClaimAnnounced, ClaimOrSkip, Take, Goto, EmailTypes, Placed, EmailHeldOnce, TriesLeft
  <2>3. ActorTypes'
    BY <1>13, <1>i DEF ClaimAnnounced, ClaimOrSkip, Take, Goto, ActorTypes, Actors, EmailSteps, RowSteps
  <2>4. Placed'
    BY <1>13, <1>i DEF ClaimAnnounced, ClaimOrSkip, Take, Goto, Placed, Actors, ActorTypes, EmailSteps, RowSteps
  <2>5. EmailHeldOnce'
    BY <1>13, <1>i DEF ClaimAnnounced, ClaimOrSkip, Take, Goto, EmailHeldOnce, Placed, Actors, ActorTypes, EmailTypes, EmailSteps
  <2>6. TriesLeft'
    BY <1>13, <1>i DEF ClaimAnnounced, ClaimOrSkip, Take, Goto, TriesLeft, EmailTypes, EmailHeldOnce, Placed, ActorTypes, EmailSteps
  <2> QED
    BY <2>1, <2>2, <2>3, <2>4, <2>5, <2>6 DEF Goal, RestTypes, Sole
<1>14. ASSUME NEW a \in Actors, ReadChannel(a) \/ NoChannel(a) PROVE Goal
  <2>1. NotificationTypes' /\ BoundTypes'
    BY <1>14, <1>i DEF ReadChannel, NoChannel, LetGo, Goto, Loop, NotificationTypes, BoundTypes, Placed
  <2>2. EmailTypes'
    BY <1>14, <1>i DEF ReadChannel, NoChannel, LetGo, Goto, Loop, EmailTypes, Placed, EmailHeldOnce, TriesLeft
  <2>3. ActorTypes'
    BY <1>14, <1>i DEF ReadChannel, NoChannel, LetGo, Goto, Loop, ActorTypes, Actors, EmailSteps, RowSteps
  <2>4. Placed'
    BY <1>14, <1>i DEF ReadChannel, NoChannel, LetGo, Goto, Loop, Placed, Actors, ActorTypes, EmailSteps, RowSteps
  <2>5. EmailHeldOnce'
    BY <1>14, <1>i DEF ReadChannel, NoChannel, LetGo, Goto, Loop, EmailHeldOnce, Placed, Actors, ActorTypes, EmailTypes, EmailSteps
  <2>6. TriesLeft'
    BY <1>14, <1>i DEF ReadChannel, NoChannel, LetGo, Goto, Loop, TriesLeft, EmailTypes, EmailHeldOnce, Placed, ActorTypes, EmailSteps
  <2> QED
    BY <2>1, <2>2, <2>3, <2>4, <2>5, <2>6 DEF Goal, RestTypes, Sole
<1>15. ASSUME NEW a \in Actors, Deliver(a) \/ DeliverErrs(a) PROVE Goal
  <2>1. NotificationTypes' /\ BoundTypes'
    BY <1>15, <1>i DEF Deliver, DeliverErrs, Goto, Fault, NotificationTypes, BoundTypes, Placed
  <2>2. EmailTypes'
    BY <1>15, <1>i DEF Deliver, DeliverErrs, Goto, Fault, EmailTypes, Placed, EmailHeldOnce, TriesLeft
  <2>3. ActorTypes'
    BY <1>15, <1>i DEF Deliver, DeliverErrs, Goto, Fault, ActorTypes, Actors, EmailSteps, RowSteps
  <2>4. Placed'
    BY <1>15, <1>i DEF Deliver, DeliverErrs, Goto, Fault, Placed, Actors, ActorTypes, EmailSteps, RowSteps
  <2>5. EmailHeldOnce'
    BY <1>15, <1>i DEF Deliver, DeliverErrs, Goto, Fault, EmailHeldOnce, Placed, Actors, ActorTypes, EmailTypes, EmailSteps
  <2>6. TriesLeft'
    BY <1>15, <1>i DEF Deliver, DeliverErrs, Goto, Fault, TriesLeft, EmailTypes, EmailHeldOnce, Placed, ActorTypes, EmailSteps
  <2> QED
    BY <2>1, <2>2, <2>3, <2>4, <2>5, <2>6 DEF Goal, RestTypes, Sole
<1>16. ASSUME NEW a \in Actors, Record(a) PROVE Goal
  <2>1. NotificationTypes' /\ BoundTypes'
    BY <1>16, <1>i DEF Record, LetGo, Goto, Loop, NotificationTypes, BoundTypes, Placed
  <2>2. EmailTypes'
    BY <1>16, <1>i DEF Record, LetGo, Goto, Loop, EmailTypes, Placed, EmailHeldOnce, TriesLeft
  <2>3. ActorTypes'
    BY <1>16, <1>i DEF Record, LetGo, Goto, Loop, ActorTypes, Actors, EmailSteps, RowSteps
  <2>4. Placed'
    BY <1>16, <1>i DEF Record, LetGo, Goto, Loop, Placed, Actors, ActorTypes, EmailSteps, RowSteps
  <2>5. EmailHeldOnce'
    BY <1>16, <1>i DEF Record, LetGo, Goto, Loop, EmailHeldOnce, Placed, Actors, ActorTypes, EmailTypes, EmailSteps
  <2>6. TriesLeft'
    BY <1>16, <1>i DEF Record, LetGo, Goto, Loop, TriesLeft, EmailTypes, EmailHeldOnce, Placed, ActorTypes, EmailSteps
  <2> QED
    BY <2>1, <2>2, <2>3, <2>4, <2>5, <2>6 DEF Goal, RestTypes, Sole
<1>17. ASSUME NEW a \in Actors, DatabaseErrs(a) PROVE Goal
  <2>1. NotificationTypes' /\ BoundTypes'
    BY <1>17, <1>i DEF DatabaseErrs, LetGo, Goto, Loop, Fault, NotificationTypes, BoundTypes, Placed
  <2>2. EmailTypes'
    BY <1>17, <1>i DEF DatabaseErrs, LetGo, Goto, Loop, Fault, EmailTypes, Placed, EmailHeldOnce, TriesLeft
  <2>3. ActorTypes'
    BY <1>17, <1>i DEF DatabaseErrs, LetGo, Goto, Loop, Fault, ActorTypes, Actors, EmailSteps, RowSteps
  <2>4. Placed'
    BY <1>17, <1>i DEF DatabaseErrs, LetGo, Goto, Loop, Fault, Placed, Actors, ActorTypes, EmailSteps, RowSteps
  <2>5. EmailHeldOnce'
    BY <1>17, <1>i DEF DatabaseErrs, LetGo, Goto, Loop, Fault, EmailHeldOnce, Placed, Actors, ActorTypes, EmailTypes, EmailSteps
  <2>6. TriesLeft'
    BY <1>17, <1>i DEF DatabaseErrs, LetGo, Goto, Loop, Fault, TriesLeft, EmailTypes, EmailHeldOnce, Placed, ActorTypes, EmailSteps
  <2> QED
    BY <2>1, <2>2, <2>3, <2>4, <2>5, <2>6 DEF Goal, RestTypes, Sole
<1>18. ASSUME NEW a \in Actors, Dies(a) PROVE Goal
  <2>1. NotificationTypes' /\ BoundTypes'
    BY <1>18, <1>i DEF Dies, Fault, NotificationTypes, BoundTypes, Placed
  <2>2. EmailTypes'
    BY <1>18, <1>i DEF Dies, Fault, EmailTypes, Placed, EmailHeldOnce, TriesLeft
  <2>3. ActorTypes'
    BY <1>18, <1>i DEF Dies, Fault, ActorTypes, Actors, EmailSteps, RowSteps
  <2>4. Placed'
    BY <1>18, <1>i DEF Dies, Fault, Placed, Actors, ActorTypes, EmailSteps, RowSteps
  <2>5. EmailHeldOnce'
    BY <1>18, <1>i DEF Dies, Fault, EmailHeldOnce, Placed, Actors, ActorTypes, EmailTypes, EmailSteps
  <2>6. TriesLeft'
    BY <1>18, <1>i DEF Dies, Fault, TriesLeft, EmailTypes, EmailHeldOnce, Placed, ActorTypes, EmailSteps
  <2> QED
    BY <2>1, <2>2, <2>3, <2>4, <2>5, <2>6 DEF Goal, RestTypes, Sole
<1>19. ASSUME NEW t \in Ticks, NEW r \in Rows \cup Emails, ClaimErrs(t, r) PROVE Goal
  <2>1. NotificationTypes' /\ BoundTypes'
    BY <1>19, <1>i DEF ClaimErrs, IsNext, Drop, Fault, NotificationTypes, BoundTypes, Placed
  <2>2. EmailTypes'
    BY <1>19, <1>i DEF ClaimErrs, IsNext, Drop, Fault, EmailTypes, Placed, EmailHeldOnce, TriesLeft
  <2>3. ActorTypes'
    BY <1>19, <1>i DEF ClaimErrs, IsNext, Drop, Fault, ActorTypes, Actors, EmailSteps, RowSteps
  <2>4. Placed'
    BY <1>19, <1>i DEF ClaimErrs, IsNext, Drop, Fault, Placed, Actors, ActorTypes, EmailSteps, RowSteps
  <2>5. EmailHeldOnce'
    BY <1>19, <1>i DEF ClaimErrs, IsNext, Drop, Fault, EmailHeldOnce, Placed, Actors, ActorTypes, EmailTypes, EmailSteps
  <2>6. TriesLeft'
    BY <1>19, <1>i DEF ClaimErrs, IsNext, Drop, Fault, TriesLeft, EmailTypes, EmailHeldOnce, Placed, ActorTypes, EmailSteps
  <2> QED
    BY <2>1, <2>2, <2>3, <2>4, <2>5, <2>6 DEF Goal, RestTypes, Sole
<1>20. ASSUME NEW r \in Rows, OrphanStale(r) \/ HeldStale(r) PROVE Goal
  <2>1. NotificationTypes' /\ BoundTypes'
    BY <1>20, <1>i DEF OrphanStale, HeldStale, Fault, NotificationTypes, BoundTypes, Placed
  <2>2. EmailTypes'
    BY <1>20, <1>i DEF OrphanStale, HeldStale, Fault, EmailTypes, Placed, EmailHeldOnce, TriesLeft
  <2>3. ActorTypes'
    BY <1>20, <1>i DEF OrphanStale, HeldStale, Fault, ActorTypes, Actors, EmailSteps, RowSteps
  <2>4. Placed'
    BY <1>20, <1>i DEF OrphanStale, HeldStale, Fault, Placed, Actors, ActorTypes, EmailSteps, RowSteps
  <2>5. EmailHeldOnce'
    BY <1>20, <1>i DEF OrphanStale, HeldStale, Fault, EmailHeldOnce, Placed, Actors, ActorTypes, EmailTypes, EmailSteps
  <2>6. TriesLeft'
    BY <1>20, <1>i DEF OrphanStale, HeldStale, Fault, TriesLeft, EmailTypes, EmailHeldOnce, Placed, ActorTypes, EmailSteps
  <2> QED
    BY <2>1, <2>2, <2>3, <2>4, <2>5, <2>6 DEF Goal, RestTypes, Sole
<1>21. CASE UNCHANGED vars
  BY <1>21, <1>i DEF vars, Goal, RestTypes, NotificationTypes, EmailTypes, ActorTypes, BoundTypes, Placed, Sole,
     EmailHeldOnce, TriesLeft
<1> QED
  BY <1>1, <1>2, <1>3, <1>4, <1>5, <1>6, <1>7, <1>8, <1>9, <1>10, <1>11, <1>12, <1>13, <1>14, <1>15, <1>16, <1>17, <1>18, <1>19, <1>20, <1>21
  DEF Next, UserStep, TickStep, Deliveries, Actors

(* At first nobody has anything. *)
LEMMA Inv1Init == Init => Inv1
<1> SUFFICES ASSUME Init PROVE Inv1
  OBVIOUS
<1> USE QueueConstants, DeliveryConstants
<1>1. QueueTypeOK /\ ClaimsCounted
  BY QueueInitOK DEF Init, QueueInv
<1>2. RestTypes
  BY DEF Init, RestTypes, NotificationTypes, EmailTypes, ActorTypes, BoundTypes
<1>3. Placed /\ Sole
  BY DEF Init, Placed, Sole, EmailHeldOnce, TriesLeft, Actors, EmailSteps, RowSteps
<1> QED
  BY <1>1, <1>2, <1>3, Types DEF Inv1, Typed

(* The state of emails, notifications and their senders is well-typed, and   *)
(* senders hold what their step says.                                        *)
THEOREM HeldSafe == Spec => []Inv1
<1>1. Inv1 /\ [Next]_vars => Inv1'
  BY Inv1Step
<1> QED
  BY <1>1, Inv1Init, PTL DEF Spec

(* The type invariant of Delivery holds: no email is tried more than         *)
(* max_attempts times.                                                       *)
THEOREM TypesKept == Spec => []TypeOK
<1>1. Inv1 => TypeOK
  BY DEF Inv1, Typed
<1> QED
  BY <1>1, HeldSafe, PTL

(* An email under way is 'sending' and one tick has it: complete_scheduled   *)
(* and fail_scheduled, which write without a guard, write to their own.      *)
THEOREM EmailsHeldOnce == Spec => []EmailHeldOnce
<1>1. Inv1 => EmailHeldOnce
  BY DEF Inv1, Sole
<1> QED
  BY <1>1, HeldSafe, PTL

-----------------------------------------------------------------------------
(* Rules and the channel are read after the claim. *)
BarredInv == BarredNotSent /\ WillSee

(* Whoever has been barred since its claim is stopped at its check. *)
LEMMA BarredStep ==
  ASSUME Inv1, BarredInv, [Next]_vars
  PROVE  BarredInv'
<1>i. ActorTypes /\ EmailTypes /\ NotificationTypes /\ Placed /\ BarredInv
  BY Types DEF Inv1, Typed, RestTypes
<1> USE DeliveryConstants DEF notifications, emails, actors, bounds
<1>1. ASSUME NEW r \in Rows, Notify(r) \/ RetryNotification(r) \/ CancelNotification(r) PROVE BarredInv'
  BY <1>1, <1>i DEF Notify, RetryNotification, CancelNotification, Change, BarredInv, BarredNotSent, WillSee, Placed, ActorTypes, Actors, EmailSteps, RowSteps
<1>2. ASSUME UpdateChannel \/ DeleteChannel PROVE BarredInv'
  BY <1>2, <1>i DEF UpdateChannel, DeleteChannel, Change, BarredInv, BarredNotSent, WillSee, Placed, ActorTypes, Actors, EmailSteps, RowSteps
<1>3. ASSUME NEW e \in Emails, Schedule(e) \/ CancelEmail(e) PROVE BarredInv'
  BY <1>3, <1>i DEF Schedule, CancelEmail, BarredInv, BarredNotSent, WillSee, Placed, ActorTypes, Actors, EmailSteps, RowSteps
<1>4. ASSUME NEW e \in Emails, ChangeRules(e) PROVE BarredInv'
  BY <1>4, <1>i DEF ChangeRules, Change, BarredInv, BarredNotSent, WillSee, Placed, ActorTypes, Actors, EmailSteps, RowSteps
<1>5. ASSUME NEW t \in Ticks, ListEmails(t) \/ CheckEmail(t) PROVE BarredInv'
  BY <1>5, <1>i DEF ListEmails, CheckEmail, Goto, BarredInv, BarredNotSent, WillSee, Placed, ActorTypes, Actors, EmailSteps, RowSteps
<1>6. ASSUME NEW t \in Ticks, NEW e \in Emails, ClaimEmail(t, e) PROVE BarredInv'
  BY <1>6, <1>i DEF ClaimEmail, Goto, Drop, IsNext, Take, BarredInv, BarredNotSent, WillSee, Placed, ActorTypes, Actors, EmailSteps, RowSteps
<1>7. ASSUME NEW t \in Ticks, RejectEmail(t) PROVE BarredInv'
  BY <1>7, <1>i DEF RejectEmail, FailEmail, LetGo, Goto, BarredInv, BarredNotSent, WillSee, Placed, ActorTypes, Actors, EmailSteps, RowSteps
<1>8. ASSUME NEW t \in Ticks, SendEmail(t) \/ SendEmailErrs(t) PROVE BarredInv'
  BY <1>8, <1>i DEF SendEmail, SendEmailErrs, Goto, Fault, BarredInv, BarredNotSent, WillSee, Placed, ActorTypes, Actors, EmailSteps, RowSteps
<1>9. ASSUME NEW t \in Ticks, RecordEmail(t) PROVE BarredInv'
  BY <1>9, <1>i DEF RecordEmail, FailEmail, LetGo, Goto, BarredInv, BarredNotSent, WillSee, Placed, ActorTypes, Actors, EmailSteps, RowSteps
<1>10. ASSUME NEW t \in Ticks, RecordEmailErrs(t) PROVE BarredInv'
  BY <1>10, <1>i DEF RecordEmailErrs, LetGo, Goto, Fault, BarredInv, BarredNotSent, WillSee, Placed, ActorTypes, Actors, EmailSteps, RowSteps
<1>11. ASSUME NEW t \in Ticks, RecoverNotifications(t) \/ ListNotifications(t) \/ EndTick(t) PROVE BarredInv'
  BY <1>11, <1>i DEF RecoverNotifications, ListNotifications, EndTick, Goto, Pending, Oldest, BarredInv, BarredNotSent, WillSee, Placed, ActorTypes, Actors, EmailSteps, RowSteps
<1>12. ASSUME NEW t \in Ticks, NEW r \in Rows, ClaimListedRow(t, r) PROVE BarredInv'
  BY <1>12, <1>i DEF ClaimListedRow, ClaimOrSkip, Take, Goto, IsNext, Drop, BarredInv, BarredNotSent, WillSee, Placed, ActorTypes, Actors, EmailSteps, RowSteps
<1>13. ASSUME NEW r \in Rows, ClaimAnnounced(r) PROVE BarredInv'
  BY <1>13, <1>i DEF ClaimAnnounced, ClaimOrSkip, Take, Goto, BarredInv, BarredNotSent, WillSee, Placed, ActorTypes, Actors, EmailSteps, RowSteps
<1>14. ASSUME NEW a \in Actors, ReadChannel(a) \/ NoChannel(a) PROVE BarredInv'
  BY <1>14, <1>i DEF ReadChannel, NoChannel, LetGo, Goto, Loop, BarredInv, BarredNotSent, WillSee, Placed, ActorTypes, Actors, EmailSteps, RowSteps
<1>15. ASSUME NEW a \in Actors, Deliver(a) \/ DeliverErrs(a) PROVE BarredInv'
  BY <1>15, <1>i DEF Deliver, DeliverErrs, Goto, Fault, BarredInv, BarredNotSent, WillSee, Placed, ActorTypes, Actors, EmailSteps, RowSteps
<1>16. ASSUME NEW a \in Actors, Record(a) PROVE BarredInv'
  BY <1>16, <1>i DEF Record, LetGo, Goto, Loop, BarredInv, BarredNotSent, WillSee, Placed, ActorTypes, Actors, EmailSteps, RowSteps
<1>17. ASSUME NEW a \in Actors, DatabaseErrs(a) PROVE BarredInv'
  BY <1>17, <1>i DEF DatabaseErrs, LetGo, Goto, Loop, Fault, BarredInv, BarredNotSent, WillSee, Placed, ActorTypes, Actors, EmailSteps, RowSteps
<1>18. ASSUME NEW a \in Actors, Dies(a) PROVE BarredInv'
  BY <1>18, <1>i DEF Dies, Fault, BarredInv, BarredNotSent, WillSee, Placed, ActorTypes, Actors, EmailSteps, RowSteps
<1>19. ASSUME NEW t \in Ticks, NEW r \in Rows \cup Emails, ClaimErrs(t, r) PROVE BarredInv'
  BY <1>19, <1>i DEF ClaimErrs, IsNext, Drop, Fault, BarredInv, BarredNotSent, WillSee, Placed, ActorTypes, Actors, EmailSteps, RowSteps
<1>20. ASSUME NEW r \in Rows, OrphanStale(r) \/ HeldStale(r) PROVE BarredInv'
  BY <1>20, <1>i DEF OrphanStale, HeldStale, Fault, BarredInv, BarredNotSent, WillSee, Placed, ActorTypes, Actors, EmailSteps, RowSteps
<1>21. CASE UNCHANGED vars
  BY <1>21, <1>i DEF vars, BarredInv, BarredNotSent, WillSee
<1> QED
  BY <1>1, <1>2, <1>3, <1>4, <1>5, <1>6, <1>7, <1>8, <1>9, <1>10, <1>11, <1>12, <1>13, <1>14, <1>15, <1>16, <1>17, <1>18, <1>19, <1>20, <1>21
  DEF Next, UserStep, TickStep, Deliveries, Actors

(* What was not to be sent when its sender claimed it, and has not been      *)
(* allowed since, does not reach the sending step.                           *)
THEOREM NothingBarredIsSent == Spec => []BarredNotSent
<1>1. Init => BarredInv
  BY DEF Init, BarredInv, BarredNotSent, WillSee
<1>2. Inv1 /\ BarredInv /\ [Next]_vars => BarredInv'
  BY BarredStep
<1>3. BarredInv => BarredNotSent
  BY DEF BarredInv
<1> QED
  BY <1>1, <1>2, <1>3, HeldSafe, PTL DEF Spec

-----------------------------------------------------------------------------
(* Sets of senders that shrink or grow by one. *)
LEMMA Sizes ==
  ASSUME NEW S, NEW T, IsFiniteSet(S)
  PROVE  /\ Cardinality(S) \in Nat
         /\ T \subseteq S => IsFiniteSet(T) /\ Cardinality(T) \in Nat /\ Cardinality(T) <= Cardinality(S)
         /\ \A x : T \subseteq S \cup {x} =>
              IsFiniteSet(T) /\ Cardinality(T) \in Nat /\ Cardinality(T) <= Cardinality(S) + 1
         /\ \A x \in S : T \subseteq S \ {x} =>
              IsFiniteSet(T) /\ Cardinality(T) \in Nat /\ Cardinality(T) + 1 <= Cardinality(S)
<1>1. Cardinality(S) \in Nat
  BY FS_CardinalityType
<1>2. ASSUME NEW U, IsFiniteSet(U), T \subseteq U
      PROVE  IsFiniteSet(T) /\ Cardinality(T) \in Nat /\ Cardinality(T) <= Cardinality(U)
  BY <1>2, FS_Subset, FS_CardinalityType
<1>3. ASSUME NEW x
      PROVE  IsFiniteSet(S \cup {x}) /\ Cardinality(S \cup {x}) <= Cardinality(S) + 1
  BY <1>1, FS_AddElement
<1>4. ASSUME NEW x \in S
      PROVE  IsFiniteSet(S \ {x}) /\ Cardinality(S \ {x}) = Cardinality(S) - 1
  BY FS_RemoveElement
<1>5. ASSUME NEW x, T \subseteq S \cup {x}
      PROVE  IsFiniteSet(T) /\ Cardinality(T) \in Nat /\ Cardinality(T) <= Cardinality(S) + 1
  <2>0. Cardinality(S \cup {x}) <= Cardinality(S) + 1
    BY <1>3
  <2>1. IsFiniteSet(T) /\ Cardinality(T) \in Nat /\ Cardinality(T) <= Cardinality(S \cup {x})
    BY <1>2, <1>3, <1>5
  <2>2. Cardinality(S \cup {x}) \in Nat
    BY <1>3, FS_CardinalityType
  <2> QED
    BY <1>1, <2>0, <2>1, <2>2
<1>6. ASSUME NEW x \in S, T \subseteq S \ {x}
      PROVE  IsFiniteSet(T) /\ Cardinality(T) \in Nat /\ Cardinality(T) + 1 <= Cardinality(S)
  <2>1. IsFiniteSet(T) /\ Cardinality(T) \in Nat /\ Cardinality(T) <= Cardinality(S \ {x})
    BY <1>2, <1>4, <1>6
  <2> QED
    BY <1>1, <1>4, <2>1
<1> QED
  BY <1>1, <1>2, <1>5, <1>6

(* The ways in which a step may touch the deliveries of a row: nothing is    *)
(* added; a fault or a change explains one more; a sender delivers it, in    *)
(* vain or not; gives it back; claims it; or it is new.                      *)
Caused == faults' + changes' = faults + changes + 1
Frees(a, r) == a \in Bearers(r) /\ Bearers(r)' \subseteq Bearers(r) \ {a}

Accounted(r) ==
  \/ Bearers(r)' \subseteq Bearers(r) /\ delivered'[r] = delivered[r] /\ (Loose(r)' => Loose(r))
  \/ Bearers(r)' \subseteq Bearers(r) /\ delivered'[r] = delivered[r] /\ Caused
  \/ /\ Bearers(r)' \subseteq Bearers(r) /\ Bearers(r) # {}
     /\ delivered'[r] = delivered[r] + 1 /\ (Loose(r)' => Loose(r)) /\ Caused
  \/ \E a \in Actors : Frees(a, r) /\ delivered'[r] = delivered[r] + 1 /\ (Loose(r)' => Loose(r))
  \/ \E a \in Actors : Frees(a, r) /\ delivered'[r] = delivered[r]
  \/ \E a \in Actors :
       /\ Bearers(r)' \subseteq Bearers(r) \cup {a} /\ delivered'[r] = delivered[r]
       /\ Loose(r) /\ ~Loose(r)' /\ status'[r] # "absent"
  \/ /\ status[r] = "absent" /\ channel # "deleted" /\ status'[r] # "absent"
     /\ Bearers(r)' \subseteq Bearers(r) /\ delivered'[r] = delivered[r]

(* Arithmetic of the causes. *)
LEMMA SumsGrow ==
  ASSUME NEW f \in Nat, NEW c \in Nat, NEW g \in Nat, NEW h \in Nat, f <= g, c <= h
  PROVE  f + c \in Nat /\ g + h \in Nat /\ f + c <= g + h
OBVIOUS

(* The sum that is kept: deliveries made (d, then e), senders that bear one  *)
(* (B, then C), and the one that is loose (l, then m), against the causes    *)
(* there have been (n, then k).                                              *)
Explained(B, C, d, e, l, m, n, k) ==
  /\ d \in Nat /\ l \in {0, 1} /\ m \in {0, 1} /\ n \in Nat /\ k \in Nat
  /\ IsFiniteSet(B) /\ n <= k /\ d + Cardinality(B) + l <= 1 + n
  /\ \/ C \subseteq B /\ e = d /\ m <= l
     \/ C \subseteq B /\ e = d /\ k = n + 1
     \/ C \subseteq B /\ e = d + 1 /\ m <= l /\ k = n + 1
     \/ \E a \in B : C \subseteq B \ {a} /\ e = d + 1 /\ m <= l
     \/ \E a \in B : C \subseteq B \ {a} /\ e = d
     \/ \E a \in Actors : C \subseteq B \cup {a} /\ e = d /\ l = 1 /\ m = 0
     \/ C = {} /\ e = 0

(* Each of these keeps the sum below the causes. *)
LEMMA SumKept ==
  ASSUME NEW B, NEW C, NEW d, NEW e, NEW l, NEW m, NEW n, NEW k, Explained(B, C, d, e, l, m, n, k)
  PROVE  IsFiniteSet(C) /\ e + Cardinality(C) + m <= 1 + k
<1> DEFINE b == Cardinality(B)
           c == Cardinality(C)
           Goal == IsFiniteSet(C) /\ e + c + m <= 1 + k
<1> SUFFICES Goal
  OBVIOUS
<1> HIDE DEF Goal
<1>a. /\ d \in Nat /\ l \in {0, 1} /\ m \in {0, 1} /\ n \in Nat /\ k \in Nat
      /\ IsFiniteSet(B) /\ n <= k /\ d + b + l <= 1 + n
  BY DEF Explained
<1>b. b \in Nat
  BY <1>a, FS_CardinalityType
<1>1. ASSUME C \subseteq B,
             (e = d /\ m <= l) \/ (e = d /\ k = n + 1) \/ (e = d + 1 /\ m <= l /\ k = n + 1)
      PROVE  Goal
  <2>1. IsFiniteSet(C) /\ c \in Nat /\ c <= b
    BY <1>1, <1>a, Sizes
  <2> HIDE DEF b, c
  <2> QED
    BY <1>1, <1>a, <1>b, <2>1 DEF Goal
<1>2. ASSUME NEW a \in B, C \subseteq B \ {a}, (e = d + 1 /\ m <= l) \/ e = d
      PROVE  Goal
  <2>1. IsFiniteSet(C) /\ c \in Nat /\ c + 1 <= b
    BY <1>2, <1>a, Sizes
  <2> HIDE DEF b, c
  <2> QED
    BY <1>2, <1>a, <1>b, <2>1 DEF Goal
<1>3. ASSUME NEW a \in Actors, C \subseteq B \cup {a}, e = d, l = 1, m = 0
      PROVE  Goal
  <2>1. IsFiniteSet(C) /\ c \in Nat /\ c <= b + 1
    BY <1>3, <1>a, Sizes
  <2> HIDE DEF b, c
  <2> QED
    BY <1>3, <1>a, <1>b, <2>1 DEF Goal
<1>4. ASSUME C = {}, e = 0 PROVE Goal
  BY <1>4, <1>a, FS_EmptySet DEF Goal
<1> QED
  BY <1>1, <1>2, <1>3, <1>4 DEF Explained

BoundsGrow ==
  /\ faults \in Nat /\ changes \in Nat /\ faults' \in Nat /\ changes' \in Nat
  /\ faults <= faults' /\ changes <= changes'

(* Whichever it is, the count holds on. *)
LEMMA AccountedKeeps ==
  ASSUME NEW r \in Rows, CountedAt(r), Accounted(r),
         delivered[r] \in Nat, BoundsGrow,
         status'[r] = "absent" /\ channel' # "deleted" => status[r] = "absent" /\ channel # "deleted"
  PROVE  CountedAt(r)'
<1> DEFINE One(x) == IF x THEN 1 ELSE 0
           B == Bearers(r)
           C == Bearers(r)'
           n == faults + changes
           k == (faults + changes)'
<1>1. IsFiniteSet(B) /\ delivered[r] + Cardinality(B) + One(Loose(r)) <= 1 + n
  BY DEF CountedAt
<1>2. One(Loose(r)) \in {0, 1} /\ One(Loose(r)') \in {0, 1}
  OBVIOUS
<1>3. status[r] = "absent" /\ channel # "deleted" => delivered[r] = 0 /\ B = {}
  BY DEF CountedAt
<1>c. \/ C \subseteq B /\ delivered'[r] = delivered[r] /\ (Loose(r)' => Loose(r))
      \/ C \subseteq B /\ delivered'[r] = delivered[r] /\ k = n + 1
      \/ C \subseteq B /\ B # {} /\ delivered'[r] = delivered[r] + 1 /\ (Loose(r)' => Loose(r)) /\ k = n + 1
      \/ \E a \in B : C \subseteq B \ {a} /\ delivered'[r] = delivered[r] + 1 /\ (Loose(r)' => Loose(r))
      \/ \E a \in B : C \subseteq B \ {a} /\ delivered'[r] = delivered[r]
      \/ \E a \in Actors : C \subseteq B \cup {a} /\ delivered'[r] = delivered[r]
                /\ Loose(r) /\ ~Loose(r)' /\ status'[r] # "absent"
      \/ status[r] = "absent" /\ channel # "deleted" /\ status'[r] # "absent" /\ C \subseteq B /\ delivered'[r] = delivered[r]
  BY DEF Accounted, Caused, Frees
<1>5. n \in Nat /\ k \in Nat /\ n <= k
  BY SumsGrow DEF BoundsGrow
<1> HIDE DEF B, C, n, k
<1>4. \/ C \subseteq B /\ delivered'[r] = delivered[r] /\ One(Loose(r)') <= One(Loose(r))
      \/ C \subseteq B /\ delivered'[r] = delivered[r] /\ k = n + 1
      \/ C \subseteq B /\ delivered'[r] = delivered[r] + 1 /\ One(Loose(r)') <= One(Loose(r)) /\ k = n + 1
      \/ \E a \in B : C \subseteq B \ {a} /\ delivered'[r] = delivered[r] + 1 /\ One(Loose(r)') <= One(Loose(r))
      \/ \E a \in B : C \subseteq B \ {a} /\ delivered'[r] = delivered[r]
      \/ \E a \in Actors : C \subseteq B \cup {a} /\ delivered'[r] = delivered[r]
                /\ One(Loose(r)) = 1 /\ One(Loose(r)') = 0
      \/ C = {} /\ delivered'[r] = 0
  <2>1. (Loose(r)' => Loose(r)) => One(Loose(r)') <= One(Loose(r))
    OBVIOUS
  <2>2. Loose(r) /\ ~Loose(r)' => One(Loose(r)) = 1 /\ One(Loose(r)') = 0
    OBVIOUS
  <2> HIDE DEF One
  <2> QED
    BY <1>3, <1>c, <2>1, <2>2
<1>6. IsFiniteSet(C) /\ delivered'[r] + Cardinality(C) + One(Loose(r)') <= 1 + k
  <2> DEFINE l == One(Loose(r))
             m == One(Loose(r)')
             d == delivered[r]
             e == delivered'[r]
  <2>1. l \in {0, 1} /\ m \in {0, 1} /\ d \in Nat
    BY <1>2
  <2>2. d + Cardinality(B) + l <= 1 + n /\ IsFiniteSet(B)
    BY <1>1
  <2>3. Explained(B, C, d, e, l, m, n, k)
    BY <1>4, <1>5, <2>1, <2>2 DEF Explained
  <2> HIDE DEF d, e, l, m
  <2>4. IsFiniteSet(C) /\ e + Cardinality(C) + m <= 1 + k
    BY <2>3, SumKept
  <2> QED
    BY <2>4 DEF e, m
<1>7. status'[r] = "absent" /\ channel' # "deleted" => delivered'[r] = 0 /\ C = {}
  BY <1>3, <1>c
<1> QED
  BY <1>6, <1>7 DEF CountedAt, C, k

-----------------------------------------------------------------------------
(* What a step does to row q is one of the ways that are accounted for. *)
RowSafe(q) ==
  /\ Accounted(q) /\ BoundsGrow
  /\ status'[q] = "absent" /\ channel' # "deleted" => status[q] = "absent" /\ channel # "deleted"

(* ... whichever action is taken. *)
LEMMA StepAccounted ==
  ASSUME Inv1, [Next]_vars, NEW q \in Rows
  PROVE  RowSafe(q)
<1>i. /\ NotificationTypes /\ EmailTypes /\ ActorTypes /\ BoundTypes /\ Placed
      /\ QueueTypeOK /\ ClaimsCounted
  BY Types DEF Inv1, Typed, RestTypes
<1>b. faults \in Nat /\ changes \in Nat /\ delivered[q] \in Nat
  BY <1>i, DeliveryConstants DEF BoundTypes, NotificationTypes
<1> USE DeliveryConstants, QueueConstants DEF queue, notifications, emails, actors, bounds
<1>1. ASSUME NEW r \in Rows, Notify(r) \/ RetryNotification(r) \/ CancelNotification(r) PROVE RowSafe(q)
  <2>1. BoundsGrow
    BY <1>1, <1>b DEF BoundsGrow, Notify, RetryNotification, CancelNotification, Change
  <2>2. status'[q] = "absent" /\ channel' # "deleted" => status[q] = "absent" /\ channel # "deleted"
    BY <1>1, <1>i DEF QueueTypeOK, Active, Final, Notify, RetryNotification, CancelNotification, Change, Enqueue, Retry, Cancel
  <2> SUFFICES Accounted(q)
    BY <2>1, <2>2 DEF RowSafe
  <2>3. Bearers(q)' = Bearers(q) /\ Held(q)' = Held(q) /\ delivered' = delivered
    BY <1>1 DEF Bearers, Held, Notify, RetryNotification, CancelNotification, Change

  <2>4. CASE Notify(r) /\ r = q
    BY <1>i, <2>3, <2>4 DEF Accounted, Notify, Enqueue, QueueTypeOK
  <2>5. CASE ~(Notify(r) /\ r = q)
    <3>1. CASE RetryNotification(r)
      BY <1>b, <2>3, <3>1 DEF Accounted, Caused, RetryNotification, Change
    <3>2. CASE ~RetryNotification(r)
      BY <1>1, <1>i, <2>3, <2>5, <3>2
      DEF Accounted, Loose, Notify, CancelNotification, Enqueue, Cancel, QueueTypeOK
    <3> QED
      BY <3>1, <3>2
  <2> QED
    BY <2>4, <2>5
<1>2. ASSUME UpdateChannel \/ DeleteChannel PROVE RowSafe(q)
  <2>1. BoundsGrow
    BY <1>2, <1>b DEF BoundsGrow, UpdateChannel, DeleteChannel, Change
  <2>2. status'[q] = "absent" /\ channel' # "deleted" => status[q] = "absent" /\ channel # "deleted"
    BY <1>2, <1>i DEF QueueTypeOK, Active, Final, UpdateChannel, DeleteChannel, Change, DeleteRows
  <2> SUFFICES Accounted(q)
    BY <2>1, <2>2 DEF RowSafe
  <2>3. Bearers(q)' = Bearers(q) /\ Held(q)' = Held(q) /\ delivered' = delivered
    BY <1>2 DEF Bearers, Held, UpdateChannel, DeleteChannel, Change

  <2> QED
    BY <1>2, <1>b, <2>3 DEF Accounted, Caused, UpdateChannel, DeleteChannel, Change
<1>3. ASSUME NEW e \in Emails, Schedule(e) \/ CancelEmail(e) PROVE RowSafe(q)
  <2>1. BoundsGrow
    BY <1>3, <1>b DEF BoundsGrow, Schedule, CancelEmail
  <2>2. status'[q] = "absent" /\ channel' # "deleted" => status[q] = "absent" /\ channel # "deleted"
    BY <1>3, <1>i DEF QueueTypeOK, Active, Final, Schedule, CancelEmail
  <2> SUFFICES Accounted(q)
    BY <2>1, <2>2 DEF RowSafe
  <2>3. Bearers(q)' = Bearers(q)
    BY <1>3, <1>i DEF Bearers, Placed, ActorTypes, Actors, EmailSteps, RowSteps, Schedule, CancelEmail
  <2>4. Held(q)' = Held(q)
    BY <1>3, <1>i DEF Held, Placed, ActorTypes, Actors, EmailSteps, RowSteps, Schedule, CancelEmail
  <2>5. delivered' = delivered /\ status' = status /\ stale' = stale
    BY <1>3 DEF Schedule, CancelEmail
  <2> QED
    BY <2>3, <2>4, <2>5 DEF Accounted, Loose
<1>4. ASSUME NEW e \in Emails, ChangeRules(e) PROVE RowSafe(q)
  <2>1. BoundsGrow
    BY <1>4, <1>b DEF BoundsGrow, ChangeRules, Change
  <2>2. status'[q] = "absent" /\ channel' # "deleted" => status[q] = "absent" /\ channel # "deleted"
    BY <1>4, <1>i DEF QueueTypeOK, Active, Final, ChangeRules, Change
  <2> SUFFICES Accounted(q)
    BY <2>1, <2>2 DEF RowSafe
  <2>3. Bearers(q)' = Bearers(q)
    BY <1>4, <1>i DEF Bearers, Placed, ActorTypes, Actors, EmailSteps, RowSteps, ChangeRules, Change
  <2>4. Held(q)' = Held(q)
    BY <1>4, <1>i DEF Held, Placed, ActorTypes, Actors, EmailSteps, RowSteps, ChangeRules, Change
  <2>5. delivered' = delivered /\ status' = status /\ stale' = stale
    BY <1>4 DEF ChangeRules, Change
  <2> QED
    BY <2>3, <2>4, <2>5 DEF Accounted, Loose
<1>5. ASSUME NEW t \in Ticks, ListEmails(t) \/ CheckEmail(t) PROVE RowSafe(q)
  <2>1. BoundsGrow
    BY <1>5, <1>b DEF BoundsGrow, ListEmails, CheckEmail, Goto
  <2>2. status'[q] = "absent" /\ channel' # "deleted" => status[q] = "absent" /\ channel # "deleted"
    BY <1>5, <1>i DEF QueueTypeOK, Active, Final, ListEmails, CheckEmail, Goto
  <2> SUFFICES Accounted(q)
    BY <2>1, <2>2 DEF RowSafe
  <2>3. Bearers(q)' = Bearers(q)
    BY <1>5, <1>i DEF Bearers, Placed, ActorTypes, Actors, EmailSteps, RowSteps, ListEmails, CheckEmail, Goto
  <2>4. Held(q)' = Held(q)
    BY <1>5, <1>i DEF Held, Placed, ActorTypes, Actors, EmailSteps, RowSteps, ListEmails, CheckEmail, Goto
  <2>5. delivered' = delivered /\ status' = status /\ stale' = stale
    BY <1>5 DEF ListEmails, CheckEmail, Goto
  <2> QED
    BY <2>3, <2>4, <2>5 DEF Accounted, Loose
<1>6. ASSUME NEW t \in Ticks, NEW e \in Emails, ClaimEmail(t, e) PROVE RowSafe(q)
  <2>1. BoundsGrow
    BY <1>6, <1>b DEF BoundsGrow, ClaimEmail, Goto, Drop, IsNext, Take
  <2>2. status'[q] = "absent" /\ channel' # "deleted" => status[q] = "absent" /\ channel # "deleted"
    BY <1>6, <1>i DEF QueueTypeOK, Active, Final, ClaimEmail, Goto, Drop, IsNext, Take
  <2> SUFFICES Accounted(q)
    BY <2>1, <2>2 DEF RowSafe
  <2>3. Bearers(q)' = Bearers(q)
    BY <1>6, <1>i DEF Bearers, Placed, ActorTypes, Actors, EmailSteps, RowSteps, ClaimEmail, Goto, Drop, IsNext, Take
  <2>4. Held(q)' = Held(q)
    BY <1>6, <1>i DEF Held, Placed, ActorTypes, Actors, EmailSteps, RowSteps, ClaimEmail, Goto, Drop, IsNext, Take
  <2>5. delivered' = delivered /\ status' = status /\ stale' = stale
    BY <1>6 DEF ClaimEmail, Goto, Drop, IsNext, Take
  <2> QED
    BY <2>3, <2>4, <2>5 DEF Accounted, Loose
<1>7. ASSUME NEW t \in Ticks, RejectEmail(t) PROVE RowSafe(q)
  <2>1. BoundsGrow
    BY <1>7, <1>b DEF BoundsGrow, RejectEmail, FailEmail, LetGo, Goto
  <2>2. status'[q] = "absent" /\ channel' # "deleted" => status[q] = "absent" /\ channel # "deleted"
    BY <1>7, <1>i DEF QueueTypeOK, Active, Final, RejectEmail, FailEmail, LetGo, Goto
  <2> SUFFICES Accounted(q)
    BY <2>1, <2>2 DEF RowSafe
  <2>3. Bearers(q)' = Bearers(q)
    BY <1>7, <1>i DEF Bearers, Placed, ActorTypes, Actors, EmailSteps, RowSteps, RejectEmail, FailEmail, LetGo, Goto
  <2>4. Held(q)' = Held(q)
    BY <1>7, <1>i DEF Held, Placed, ActorTypes, Actors, EmailSteps, RowSteps, RejectEmail, FailEmail, LetGo, Goto
  <2>5. delivered' = delivered /\ status' = status /\ stale' = stale
    BY <1>7 DEF RejectEmail, FailEmail, LetGo, Goto
  <2> QED
    BY <2>3, <2>4, <2>5 DEF Accounted, Loose
<1>8. ASSUME NEW t \in Ticks, SendEmail(t) \/ SendEmailErrs(t) PROVE RowSafe(q)
  <2>1. BoundsGrow
    BY <1>8, <1>b DEF BoundsGrow, SendEmail, SendEmailErrs, Goto, Fault
  <2>2. status'[q] = "absent" /\ channel' # "deleted" => status[q] = "absent" /\ channel # "deleted"
    BY <1>8, <1>i DEF QueueTypeOK, Active, Final, SendEmail, SendEmailErrs, Goto, Fault
  <2> SUFFICES Accounted(q)
    BY <2>1, <2>2 DEF RowSafe
  <2>3. Bearers(q)' = Bearers(q)
    BY <1>8, <1>i DEF Bearers, Placed, ActorTypes, Actors, EmailSteps, RowSteps, SendEmail, SendEmailErrs, Goto, Fault
  <2>4. Held(q)' = Held(q)
    BY <1>8, <1>i DEF Held, Placed, ActorTypes, Actors, EmailSteps, RowSteps, SendEmail, SendEmailErrs, Goto, Fault
  <2>5. delivered' = delivered /\ status' = status /\ stale' = stale
    BY <1>8 DEF SendEmail, SendEmailErrs, Goto, Fault
  <2> QED
    BY <2>3, <2>4, <2>5 DEF Accounted, Loose
<1>9. ASSUME NEW t \in Ticks, RecordEmail(t) PROVE RowSafe(q)
  <2>1. BoundsGrow
    BY <1>9, <1>b DEF BoundsGrow, RecordEmail, FailEmail, LetGo, Goto
  <2>2. status'[q] = "absent" /\ channel' # "deleted" => status[q] = "absent" /\ channel # "deleted"
    BY <1>9, <1>i DEF QueueTypeOK, Active, Final, RecordEmail, FailEmail, LetGo, Goto
  <2> SUFFICES Accounted(q)
    BY <2>1, <2>2 DEF RowSafe
  <2>3. Bearers(q)' = Bearers(q)
    BY <1>9, <1>i DEF Bearers, Placed, ActorTypes, Actors, EmailSteps, RowSteps, RecordEmail, FailEmail, LetGo, Goto
  <2>4. Held(q)' = Held(q)
    BY <1>9, <1>i DEF Held, Placed, ActorTypes, Actors, EmailSteps, RowSteps, RecordEmail, FailEmail, LetGo, Goto
  <2>5. delivered' = delivered /\ status' = status /\ stale' = stale
    BY <1>9 DEF RecordEmail, FailEmail, LetGo, Goto
  <2> QED
    BY <2>3, <2>4, <2>5 DEF Accounted, Loose
<1>10. ASSUME NEW t \in Ticks, RecordEmailErrs(t) PROVE RowSafe(q)
  <2>1. BoundsGrow
    BY <1>10, <1>b DEF BoundsGrow, RecordEmailErrs, LetGo, Goto, Fault
  <2>2. status'[q] = "absent" /\ channel' # "deleted" => status[q] = "absent" /\ channel # "deleted"
    BY <1>10, <1>i DEF QueueTypeOK, Active, Final, RecordEmailErrs, LetGo, Goto, Fault
  <2> SUFFICES Accounted(q)
    BY <2>1, <2>2 DEF RowSafe
  <2>3. Bearers(q)' = Bearers(q)
    BY <1>10, <1>i DEF Bearers, Placed, ActorTypes, Actors, EmailSteps, RowSteps, RecordEmailErrs, LetGo, Goto, Fault
  <2>4. Held(q)' = Held(q)
    BY <1>10, <1>i DEF Held, Placed, ActorTypes, Actors, EmailSteps, RowSteps, RecordEmailErrs, LetGo, Goto, Fault
  <2>5. delivered' = delivered /\ status' = status /\ stale' = stale
    BY <1>10 DEF RecordEmailErrs, LetGo, Goto, Fault
  <2> QED
    BY <2>3, <2>4, <2>5 DEF Accounted, Loose
<1>11. ASSUME NEW t \in Ticks, RecoverNotifications(t) \/ ListNotifications(t) \/ EndTick(t) PROVE RowSafe(q)
  <2>1. BoundsGrow
    BY <1>11, <1>b DEF BoundsGrow, RecoverNotifications, ListNotifications, EndTick, Goto, Pending, Oldest
  <2>2. status'[q] = "absent" /\ channel' # "deleted" => status[q] = "absent" /\ channel # "deleted"
    BY <1>11, <1>i DEF QueueTypeOK, Active, Final, RecoverNotifications, ListNotifications, EndTick, Goto, Pending, Oldest, RecoverStale, SetBack
  <2> SUFFICES Accounted(q)
    BY <2>1, <2>2 DEF RowSafe
  <2>3. Bearers(q)' = Bearers(q)
    BY <1>11, <1>i DEF Bearers, Placed, ActorTypes, Actors, RowSteps, RecoverNotifications, ListNotifications, EndTick, Goto, Pending, Oldest
  <2>4. Held(q)' = Held(q) /\ delivered' = delivered
    BY <1>11 DEF Held, RecoverNotifications, ListNotifications, EndTick, Goto, Pending, Oldest
  <2>5. Loose(q)' => Loose(q)
    <3>1. CASE UNCHANGED queue
      BY <2>4, <3>1 DEF Loose
    <3>2. CASE RecoverStale(Rows)
      BY <1>i, <2>4, <3>2 DEF Loose, RecoverStale, SetBack, QueueTypeOK, ClaimsCounted
    <3> QED
      BY <1>11, <3>1, <3>2 DEF RecoverNotifications, ListNotifications, EndTick
  <2> QED
    BY <2>3, <2>4, <2>5 DEF Accounted
<1>12. ASSUME NEW t \in Ticks, NEW r \in Rows, ClaimListedRow(t, r) PROVE RowSafe(q)
  <2>1. BoundsGrow
    BY <1>12, <1>b DEF BoundsGrow, ClaimListedRow, ClaimOrSkip, Take, Goto, IsNext, Drop
  <2>2. status'[q] = "absent" /\ channel' # "deleted" => status[q] = "absent" /\ channel # "deleted"
    BY <1>12, <1>i DEF QueueTypeOK, Active, Final, ClaimListedRow, ClaimOrSkip, Take, Goto, IsNext, Drop, Claim
  <2> SUFFICES Accounted(q)
    BY <2>1, <2>2 DEF RowSafe
  <2>a. t \in Actors /\ item[t] \notin Rows /\ delivered' = delivered
    BY <1>12, <1>i DEF Actors, Placed, RowSteps, ClaimListedRow
  <2>3. CASE status[r] # "pending"
    <3>1. UNCHANGED <<queue, item, pc>>
      BY <1>12, <2>3 DEF ClaimListedRow, ClaimOrSkip
    <3> QED
      BY <2>a, <3>1 DEF Accounted, Bearers, Loose, Held
  <2>4. CASE status[r] = "pending"
    <3>1. /\ Claim(r)
          /\ item' = [item EXCEPT ![t] = r] /\ pc' = [pc EXCEPT ![t] = "channel"]
      BY <1>12, <2>4 DEF ClaimListedRow, ClaimOrSkip, Take, Goto
    <3>2. CASE r = q
      <4>1. Bearers(q)' \subseteq Bearers(q) \cup {t}
        BY <1>i, <2>a, <3>1 DEF Bearers, ActorTypes
      <4>2. Held(q)' /\ q \notin stale'
        BY <1>i, <2>a, <2>4, <3>1, <3>2 DEF Held, ActorTypes, ClaimsCounted, Claim
      <4>3. Loose(q) /\ ~Loose(q)' /\ status'[q] # "absent"
        BY <1>i, <2>4, <3>1, <3>2, <4>2 DEF Loose, Claim, QueueTypeOK
      <4> QED
        BY <2>a, <4>1, <4>3 DEF Accounted
    <3>3. CASE r # q
      <4>1. Bearers(q)' = Bearers(q)
        BY <1>i, <2>a, <3>1, <3>3 DEF Bearers, ActorTypes
      <4>2. Held(q)' = Held(q)
        BY <1>i, <2>a, <3>1, <3>3 DEF Held, ActorTypes
      <4>3. Loose(q)' => Loose(q)
        BY <1>i, <3>1, <3>3, <4>2 DEF Loose, Claim, QueueTypeOK
      <4> QED
        BY <2>a, <4>1, <4>3 DEF Accounted
    <3> QED
      BY <3>2, <3>3
  <2> QED
    BY <2>3, <2>4
<1>13. ASSUME NEW r \in Rows, ClaimAnnounced(r) PROVE RowSafe(q)
  <2>1. BoundsGrow
    BY <1>13, <1>b DEF BoundsGrow, ClaimAnnounced, ClaimOrSkip, Take, Goto
  <2>2. status'[q] = "absent" /\ channel' # "deleted" => status[q] = "absent" /\ channel # "deleted"
    BY <1>13, <1>i DEF QueueTypeOK, Active, Final, ClaimAnnounced, ClaimOrSkip, Take, Goto, Claim
  <2> SUFFICES Accounted(q)
    BY <2>1, <2>2 DEF RowSafe
  <2>a. Listener \in Actors /\ item[Listener] \notin Rows /\ delivered' = delivered
    BY <1>13, <1>i DEF Actors, Placed, RowSteps, ClaimAnnounced
  <2>3. CASE status[r] # "pending"
    <3>1. UNCHANGED <<queue, item, pc>>
      BY <1>13, <2>3 DEF ClaimAnnounced, ClaimOrSkip
    <3> QED
      BY <2>a, <3>1 DEF Accounted, Bearers, Loose, Held
  <2>4. CASE status[r] = "pending"
    <3>1. /\ Claim(r)
          /\ item' = [item EXCEPT ![Listener] = r] /\ pc' = [pc EXCEPT ![Listener] = "channel"]
      BY <1>13, <2>4 DEF ClaimAnnounced, ClaimOrSkip, Take, Goto
    <3>2. CASE r = q
      <4>1. Bearers(q)' \subseteq Bearers(q) \cup {Listener}
        BY <1>i, <2>a, <3>1 DEF Bearers, ActorTypes
      <4>2. Held(q)' /\ q \notin stale'
        BY <1>i, <2>a, <2>4, <3>1, <3>2 DEF Held, ActorTypes, ClaimsCounted, Claim
      <4>3. Loose(q) /\ ~Loose(q)' /\ status'[q] # "absent"
        BY <1>i, <2>4, <3>1, <3>2, <4>2 DEF Loose, Claim, QueueTypeOK
      <4> QED
        BY <2>a, <4>1, <4>3 DEF Accounted
    <3>3. CASE r # q
      <4>1. Bearers(q)' = Bearers(q)
        BY <1>i, <2>a, <3>1, <3>3 DEF Bearers, ActorTypes
      <4>2. Held(q)' = Held(q)
        BY <1>i, <2>a, <3>1, <3>3 DEF Held, ActorTypes
      <4>3. Loose(q)' => Loose(q)
        BY <1>i, <3>1, <3>3, <4>2 DEF Loose, Claim, QueueTypeOK
      <4> QED
        BY <2>a, <4>1, <4>3 DEF Accounted
    <3> QED
      BY <3>2, <3>3
  <2> QED
    BY <2>3, <2>4
<1>14. ASSUME NEW a \in Actors, ReadChannel(a) \/ NoChannel(a) PROVE RowSafe(q)
  <2>1. BoundsGrow
    BY <1>14, <1>b DEF BoundsGrow, ReadChannel, NoChannel, LetGo, Goto, Loop
  <2>2. status'[q] = "absent" /\ channel' # "deleted" => status[q] = "absent" /\ channel # "deleted"
    BY <1>14, <1>i DEF QueueTypeOK, Active, Final, ReadChannel, NoChannel, LetGo, Goto, Loop, Fail, SetBack
  <2> SUFFICES Accounted(q)
    BY <2>1, <2>2 DEF RowSafe
  <2>3. CASE ReadChannel(a)
    <3>1. Bearers(q)' \subseteq Bearers(q)
      BY <1>i, <2>3 DEF Bearers, ActorTypes, ReadChannel, Goto
    <3>2. Held(q)' = Held(q) /\ delivered' = delivered /\ UNCHANGED queue
      BY <2>3 DEF Held, ReadChannel
    <3> QED
      BY <3>1, <3>2 DEF Accounted, Loose
  <2>4. CASE NoChannel(a)
    <3>1. /\ item' = [item EXCEPT ![a] = None] /\ pc[a] = "channel" /\ delivered' = delivered
          /\ Fail(item[a])
      BY <2>4 DEF NoChannel, LetGo
    <3>2. CASE item[a] = q
      <4>1. Frees(a, q)
        BY <1>i, <2>4, <3>1, <3>2 DEF Frees, Bearers, ActorTypes, NoChannel, LetGo, Goto
      <4> QED
        BY <3>1, <4>1 DEF Accounted
    <3>3. CASE item[a] # q
      <4>1. Bearers(q)' \subseteq Bearers(q) /\ Held(q)' = Held(q)
        BY <1>i, <2>4, <3>1, <3>3 DEF Bearers, Held, ActorTypes, NoChannel, LetGo, Goto
      <4>2. Loose(q)' => Loose(q)
        BY <1>i, <3>1, <3>3, <4>1 DEF Loose, Fail, SetBack, QueueTypeOK
      <4> QED
        BY <3>1, <4>1, <4>2 DEF Accounted
    <3> QED
      BY <3>2, <3>3
  <2> QED
    BY <1>14, <2>3, <2>4
<1>15. ASSUME NEW a \in Actors, Deliver(a) \/ DeliverErrs(a) PROVE RowSafe(q)
  <2>1. BoundsGrow
    BY <1>15, <1>b DEF BoundsGrow, Deliver, DeliverErrs, Goto, Fault
  <2>2. status'[q] = "absent" /\ channel' # "deleted" => status[q] = "absent" /\ channel # "deleted"
    BY <1>15, <1>i DEF QueueTypeOK, Active, Final, Deliver, DeliverErrs, Goto, Fault
  <2> SUFFICES Accounted(q)
    BY <2>1, <2>2 DEF RowSafe
  <2>a. item' = item /\ UNCHANGED queue /\ item[a] \in Rows /\ a \in Bearers(item[a])
    BY <1>15, <1>i DEF Deliver, DeliverErrs, Placed, RowSteps, Bearers
  <2>b. Loose(q)' = Loose(q)
    BY <2>a DEF Loose, Held
  <2>3. CASE DeliverErrs(a)
    <3>1. Bearers(q)' \subseteq Bearers(q) /\ delivered' = delivered
      BY <1>i, <2>3 DEF Bearers, ActorTypes, DeliverErrs, Goto
    <3> QED
      BY <2>b, <3>1 DEF Accounted
  <2>4. CASE Deliver(a) /\ item[a] # q
    <3>1. Bearers(q)' \subseteq Bearers(q) /\ delivered'[q] = delivered[q]
      BY <1>i, <2>4 DEF Bearers, ActorTypes, NotificationTypes, Deliver, Goto
    <3> QED
      BY <2>b, <3>1 DEF Accounted
  <2>5. CASE Deliver(a) /\ item[a] = q
    <3>1. delivered'[q] = delivered[q] + 1
      BY <1>i, <2>5 DEF Deliver, NotificationTypes
    <3>2. CASE Goto(a, "accepted")
      <4>1. Frees(a, q)
        BY <1>i, <2>a, <2>5, <3>2 DEF Frees, Bearers, ActorTypes, Goto
      <4> QED
        BY <2>b, <3>1, <4>1 DEF Accounted
    <3>3. CASE Goto(a, "refused") /\ Fault
      <4>1. Bearers(q)' \subseteq Bearers(q) /\ Bearers(q) # {}
        BY <1>i, <2>a, <2>5, <3>3 DEF Bearers, ActorTypes, Goto, Deliver
      <4>2. Caused
        BY <1>b, <3>3 DEF Fault, Caused
      <4> QED
        BY <2>b, <3>1, <4>1, <4>2 DEF Accounted
    <3> QED
      BY <2>5, <3>2, <3>3 DEF Deliver
  <2> QED
    BY <1>15, <2>3, <2>4, <2>5
<1>16. ASSUME NEW a \in Actors, Record(a) PROVE RowSafe(q)
  <2>1. BoundsGrow
    BY <1>16, <1>b DEF BoundsGrow, Record, LetGo, Goto, Loop
  <2>2. status'[q] = "absent" /\ channel' # "deleted" => status[q] = "absent" /\ channel # "deleted"
    BY <1>16, <1>i DEF QueueTypeOK, Active, Final, Record, LetGo, Goto, Loop, Complete, Fail, FailPermanent, SetBack
  <2> SUFFICES Accounted(q)
    BY <2>1, <2>2 DEF RowSafe
  <2>a. /\ item' = [item EXCEPT ![a] = None] /\ pc' = [pc EXCEPT ![a] = Loop(a)]
        /\ pc[a] \in {"accepted", "refused", "permanent"} /\ delivered' = delivered
    BY <1>16 DEF Record, LetGo, Goto
  <2>b. Bearers(q)' \subseteq Bearers(q)
    BY <1>i, <2>a DEF Bearers, ActorTypes, Loop
  <2>3. CASE item[a] # q
    <3>1. Held(q)' = Held(q)
      BY <1>i, <2>3, <2>a DEF Held, ActorTypes
    <3>2. Loose(q)' => Loose(q)
      BY <1>16, <1>i, <2>3, <3>1 DEF Record, Loose, Complete, Fail, FailPermanent, SetBack, QueueTypeOK
    <3> QED
      BY <2>a, <2>b, <3>2 DEF Accounted
  <2>4. CASE item[a] = q /\ pc[a] = "refused"
    <3>1. Frees(a, q)
      BY <1>i, <2>4, <2>a DEF Frees, Bearers, ActorTypes, Loop
    <3> QED
      BY <2>a, <3>1 DEF Accounted
  <2>5. CASE item[a] = q /\ pc[a] # "refused"
    <3>1. Complete(q) \/ FailPermanent(q)
      BY <1>16, <2>5 DEF Record
    <3>2. Loose(q)' => Loose(q)
      BY <1>i, <3>1 DEF Loose, Complete, FailPermanent, QueueTypeOK
    <3> QED
      BY <2>a, <2>b, <3>2 DEF Accounted
  <2> QED
    BY <2>3, <2>4, <2>5
<1>17. ASSUME NEW a \in Actors, DatabaseErrs(a) PROVE RowSafe(q)
  <2>1. BoundsGrow
    BY <1>17, <1>b DEF BoundsGrow, DatabaseErrs, LetGo, Goto, Loop, Fault
  <2>2. status'[q] = "absent" /\ channel' # "deleted" => status[q] = "absent" /\ channel # "deleted"
    BY <1>17, <1>i DEF QueueTypeOK, Active, Final, DatabaseErrs, LetGo, Goto, Loop, Fault
  <2> SUFFICES Accounted(q)
    BY <2>1, <2>2 DEF RowSafe
  <2>3. Bearers(q)' \subseteq Bearers(q) /\ delivered' = delivered
    BY <1>17, <1>i DEF Bearers, ActorTypes, DatabaseErrs, LetGo, Goto, Loop, Fault
  <2>4. Caused
    BY <1>17, <1>b DEF Caused, DatabaseErrs, LetGo, Goto, Loop, Fault
  <2> QED
    BY <2>3, <2>4 DEF Accounted
<1>18. ASSUME NEW a \in Actors, Dies(a) PROVE RowSafe(q)
  <2>1. BoundsGrow
    BY <1>18, <1>b DEF BoundsGrow, Dies, Fault
  <2>2. status'[q] = "absent" /\ channel' # "deleted" => status[q] = "absent" /\ channel # "deleted"
    BY <1>18, <1>i DEF QueueTypeOK, Active, Final, Dies, Fault
  <2> SUFFICES Accounted(q)
    BY <2>1, <2>2 DEF RowSafe
  <2>3. Bearers(q)' \subseteq Bearers(q) /\ delivered' = delivered
    BY <1>18, <1>i DEF Bearers, ActorTypes, Dies, Fault
  <2>4. Caused
    BY <1>18, <1>b DEF Caused, Dies, Fault
  <2> QED
    BY <2>3, <2>4 DEF Accounted
<1>19. ASSUME NEW t \in Ticks, NEW r \in Rows \cup Emails, ClaimErrs(t, r) PROVE RowSafe(q)
  <2>1. BoundsGrow
    BY <1>19, <1>b DEF BoundsGrow, ClaimErrs, IsNext, Drop, Fault
  <2>2. status'[q] = "absent" /\ channel' # "deleted" => status[q] = "absent" /\ channel # "deleted"
    BY <1>19, <1>i DEF QueueTypeOK, Active, Final, ClaimErrs, IsNext, Drop, Fault
  <2> SUFFICES Accounted(q)
    BY <2>1, <2>2 DEF RowSafe
  <2>3. Bearers(q)' = Bearers(q)
    BY <1>19, <1>i DEF Bearers, Placed, ActorTypes, Actors, EmailSteps, RowSteps, ClaimErrs, IsNext, Drop, Fault
  <2>4. Held(q)' = Held(q)
    BY <1>19, <1>i DEF Held, Placed, ActorTypes, Actors, EmailSteps, RowSteps, ClaimErrs, IsNext, Drop, Fault
  <2>5. delivered' = delivered /\ status' = status /\ stale' = stale
    BY <1>19 DEF ClaimErrs, IsNext, Drop, Fault
  <2> QED
    BY <2>3, <2>4, <2>5 DEF Accounted, Loose
<1>20. ASSUME NEW r \in Rows, OrphanStale(r) \/ HeldStale(r) PROVE RowSafe(q)
  <2>1. BoundsGrow
    BY <1>20, <1>b DEF BoundsGrow, OrphanStale, HeldStale, Fault
  <2>2. status'[q] = "absent" /\ channel' # "deleted" => status[q] = "absent" /\ channel # "deleted"
    BY <1>20, <1>i DEF QueueTypeOK, Active, Final, OrphanStale, HeldStale, Fault, BecomesStale
  <2> SUFFICES Accounted(q)
    BY <2>1, <2>2 DEF RowSafe
  <2>3. Bearers(q)' = Bearers(q) /\ Held(q)' = Held(q) /\ delivered' = delivered
    BY <1>20 DEF Bearers, Held, OrphanStale, HeldStale
  <2>4. CASE OrphanStale(r)
    <3>1. Loose(q)' => Loose(q)
      BY <1>i, <2>3, <2>4 DEF Loose, OrphanStale, BecomesStale
    <3> QED
      BY <2>3, <3>1 DEF Accounted
  <2>5. CASE HeldStale(r)
    <3>1. Caused
      BY <1>b, <2>5 DEF Caused, HeldStale, Fault
    <3> QED
      BY <2>3, <3>1 DEF Accounted
  <2> QED
    BY <1>20, <2>4, <2>5
<1>21. CASE UNCHANGED vars
  BY <1>21, <1>b DEF vars, RowSafe, Accounted, BoundsGrow, Bearers, Loose, Held
<1> QED
  BY <1>1, <1>2, <1>3, <1>4, <1>5, <1>6, <1>7, <1>8, <1>9, <1>10, <1>11, <1>12, <1>13, <1>14, <1>15, <1>16, <1>17, <1>18, <1>19, <1>20, <1>21
  DEF Next, UserStep, TickStep, Deliveries, Actors

(* At first nothing is delivered or to be delivered. *)
LEMMA CountedInit == Init => Counted
<1> SUFFICES ASSUME Init, NEW r \in Rows PROVE CountedAt(r)
  BY DEF Counted
<1>1. Bearers(r) = {} /\ ~Loose(r) /\ delivered[r] = 0 /\ faults = 0 /\ changes = 0
  BY DEF Init, QueueInit, Bearers, Loose
<1> QED
  BY <1>1, FS_EmptySet DEF CountedAt

(* Every step keeps the count. *)
LEMMA CountedStep ==
  ASSUME Inv1, Counted, [Next]_vars
  PROVE  Counted'
<1> SUFFICES ASSUME NEW r \in Rows PROVE CountedAt(r)'
  BY DEF Counted
<1>1. CountedAt(r) /\ delivered[r] \in Nat
  BY Types DEF Counted, Inv1, Typed, RestTypes, NotificationTypes
<1>2. RowSafe(r)
  BY StepAccounted
<1> QED
  BY <1>1, <1>2, AccountedKeeps DEF RowSafe

-----------------------------------------------------------------------------
(* What is reported as delivered or sent was. *)
LEMMA ReportsStep ==
  ASSUME Inv1, TrueReports, [Next]_vars
  PROVE  TrueReports'
<1>i. /\ NotificationTypes /\ EmailTypes /\ ActorTypes /\ Placed
      /\ QueueTypeOK /\ TrueReports
  BY Types DEF Inv1, Typed, RestTypes
<1> DEFINE Accepted  == \A a \in Actors : pc[a] = "accepted" => delivered[item[a]] >= 1
           Sent      == \A a \in Actors : pc[a] = "sent" => mailed[item[a]] >= 1
           Completed == \A r \in Rows : status[r] = "completed" => delivered[r] >= 1
           Mailed    == \A e \in Emails : mail[e] = "sent" => mailed[e] >= 1
<1> SUFFICES Accepted' /\ Sent' /\ Completed' /\ Mailed'
  BY DEF TrueReports
<1> DEFINE Goal == Accepted' /\ Sent' /\ Completed' /\ Mailed'
<1>t. Accepted /\ Sent /\ Completed /\ Mailed
  BY DEF TrueReports
<1>d. /\ \A r \in Rows : delivered[r] \in Nat
      /\ \A e \in Emails : mailed[e] \in Nat
      /\ \A a \in Actors : pc[a] = "accepted" => item[a] \in Rows
      /\ \A a \in Actors : pc[a] = "sent" => item[a] \in Emails
  BY <1>i DEF NotificationTypes, EmailTypes, Placed, RowSteps, EmailSteps
<1> SUFFICES Goal
  OBVIOUS
<1> USE DeliveryConstants, QueueConstants DEF queue, notifications, emails, actors, bounds
<1>1. ASSUME NEW r \in Rows, Notify(r) \/ RetryNotification(r) \/ CancelNotification(r) PROVE Goal
  <2>1. Accepted'
    BY <1>1, <1>i, <1>t, <1>d DEF ActorTypes, NotificationTypes, Actors, Notify, RetryNotification, CancelNotification, Change
  <2>2. Sent'
    BY <1>1, <1>i, <1>t, <1>d DEF ActorTypes, EmailTypes, Actors, Notify, RetryNotification, CancelNotification, Change
  <2>3. Completed'
    BY <1>1, <1>i, <1>t, <1>d DEF QueueTypeOK, NotificationTypes, Notify, RetryNotification, CancelNotification, Change, Enqueue, Retry, Cancel
  <2>4. Mailed'
    BY <1>1, <1>i, <1>t, <1>d DEF EmailTypes, Actors, Notify, RetryNotification, CancelNotification, Change
  <2> QED
    BY <2>1, <2>2, <2>3, <2>4
<1>2. ASSUME UpdateChannel \/ DeleteChannel PROVE Goal
  <2>1. Accepted'
    BY <1>2, <1>i, <1>t, <1>d DEF ActorTypes, NotificationTypes, Actors, UpdateChannel, DeleteChannel, Change
  <2>2. Sent'
    BY <1>2, <1>i, <1>t, <1>d DEF ActorTypes, EmailTypes, Actors, UpdateChannel, DeleteChannel, Change
  <2>3. Completed'
    BY <1>2, <1>i, <1>t, <1>d DEF QueueTypeOK, NotificationTypes, UpdateChannel, DeleteChannel, Change, DeleteRows
  <2>4. Mailed'
    BY <1>2, <1>i, <1>t, <1>d DEF EmailTypes, Actors, UpdateChannel, DeleteChannel, Change
  <2> QED
    BY <2>1, <2>2, <2>3, <2>4
<1>3. ASSUME NEW e \in Emails, Schedule(e) \/ CancelEmail(e) PROVE Goal
  <2>1. Accepted'
    BY <1>3, <1>i, <1>t, <1>d DEF ActorTypes, NotificationTypes, Actors, Schedule, CancelEmail
  <2>2. Sent'
    BY <1>3, <1>i, <1>t, <1>d DEF ActorTypes, EmailTypes, Actors, Schedule, CancelEmail
  <2>3. Completed'
    BY <1>3, <1>i, <1>t, <1>d DEF QueueTypeOK, NotificationTypes, Schedule, CancelEmail
  <2>4. Mailed'
    BY <1>3, <1>i, <1>t, <1>d DEF EmailTypes, Actors, Schedule, CancelEmail
  <2> QED
    BY <2>1, <2>2, <2>3, <2>4
<1>4. ASSUME NEW e \in Emails, ChangeRules(e) PROVE Goal
  <2>1. Accepted'
    BY <1>4, <1>i, <1>t, <1>d DEF ActorTypes, NotificationTypes, Actors, ChangeRules, Change
  <2>2. Sent'
    BY <1>4, <1>i, <1>t, <1>d DEF ActorTypes, EmailTypes, Actors, ChangeRules, Change
  <2>3. Completed'
    BY <1>4, <1>i, <1>t, <1>d DEF QueueTypeOK, NotificationTypes, ChangeRules, Change
  <2>4. Mailed'
    BY <1>4, <1>i, <1>t, <1>d DEF EmailTypes, Actors, ChangeRules, Change
  <2> QED
    BY <2>1, <2>2, <2>3, <2>4
<1>5. ASSUME NEW t \in Ticks, ListEmails(t) \/ CheckEmail(t) PROVE Goal
  <2>1. Accepted'
    BY <1>5, <1>i, <1>t, <1>d DEF ActorTypes, NotificationTypes, Actors, ListEmails, CheckEmail, Goto
  <2>2. Sent'
    BY <1>5, <1>i, <1>t, <1>d DEF ActorTypes, EmailTypes, Actors, ListEmails, CheckEmail, Goto
  <2>3. Completed'
    BY <1>5, <1>i, <1>t, <1>d DEF QueueTypeOK, NotificationTypes, ListEmails, CheckEmail, Goto
  <2>4. Mailed'
    BY <1>5, <1>i, <1>t, <1>d DEF EmailTypes, Actors, ListEmails, CheckEmail, Goto
  <2> QED
    BY <2>1, <2>2, <2>3, <2>4
<1>6. ASSUME NEW t \in Ticks, NEW e \in Emails, ClaimEmail(t, e) PROVE Goal
  <2>1. Accepted'
    BY <1>6, <1>i, <1>t, <1>d DEF ActorTypes, NotificationTypes, Actors, ClaimEmail, Goto, Drop, IsNext, Take
  <2>2. Sent'
    BY <1>6, <1>i, <1>t, <1>d DEF ActorTypes, EmailTypes, Actors, ClaimEmail, Goto, Drop, IsNext, Take
  <2>3. Completed'
    BY <1>6, <1>i, <1>t, <1>d DEF QueueTypeOK, NotificationTypes, ClaimEmail, Goto, Drop, IsNext, Take
  <2>4. Mailed'
    BY <1>6, <1>i, <1>t, <1>d DEF EmailTypes, Actors, ClaimEmail, Goto, Drop, IsNext, Take
  <2> QED
    BY <2>1, <2>2, <2>3, <2>4
<1>7. ASSUME NEW t \in Ticks, RejectEmail(t) PROVE Goal
  <2>1. Accepted'
    BY <1>7, <1>i, <1>t, <1>d DEF ActorTypes, NotificationTypes, Actors, RejectEmail, FailEmail, LetGo, Goto
  <2>2. Sent'
    BY <1>7, <1>i, <1>t, <1>d DEF ActorTypes, EmailTypes, Actors, RejectEmail, FailEmail, LetGo, Goto
  <2>3. Completed'
    BY <1>7, <1>i, <1>t, <1>d DEF QueueTypeOK, NotificationTypes, RejectEmail, FailEmail, LetGo, Goto
  <2>4. Mailed'
    BY <1>7, <1>i, <1>t, <1>d DEF EmailTypes, Actors, RejectEmail, FailEmail, LetGo, Goto
  <2> QED
    BY <2>1, <2>2, <2>3, <2>4
<1>8. ASSUME NEW t \in Ticks, SendEmail(t) \/ SendEmailErrs(t) PROVE Goal
  <2>1. Accepted'
    BY <1>8, <1>i, <1>t, <1>d DEF ActorTypes, NotificationTypes, Actors, SendEmail, SendEmailErrs, Goto, Fault
  <2>2. Sent'
    <3>1. CASE SendEmailErrs(t)
      BY <1>i, <1>t, <3>1 DEF ActorTypes, SendEmailErrs, Goto
    <3>2. CASE SendEmail(t)
      <4>1. item' = item /\ mailed' = [mailed EXCEPT ![item[t]] = @ + 1] /\ item[t] \in Emails
        BY <1>i, <3>2 DEF SendEmail, Placed, RowSteps, EmailSteps, Actors
      <4>2. \A x \in Emails : mailed[x] \in Nat
        BY <1>d
      <4>3. mailed'[item[t]] >= 1 /\ \A x \in Emails : mailed[x] >= 1 => mailed'[x] >= 1
        <5>1. \A x \in Emails : mailed'[x] = IF x = item[t] THEN mailed[x] + 1 ELSE mailed[x]
          BY <1>i, <4>1 DEF EmailTypes
        <5>2. \A k \in Nat : k + 1 >= 1
          OBVIOUS
        <5> QED
          BY <4>1, <4>2, <5>1, <5>2
      <4>4. \A b \in Actors : pc'[b] = "sent" => b = t \/ pc[b] = "sent"
        BY <1>i, <3>2 DEF SendEmail, Goto, ActorTypes
      <4> QED
        BY <1>t, <1>d, <4>1, <4>3, <4>4
    <3> QED
      BY <1>8, <3>1, <3>2
  <2>3. Completed'
    BY <1>8, <1>i, <1>t, <1>d DEF QueueTypeOK, NotificationTypes, SendEmail, SendEmailErrs, Goto, Fault
  <2>4. Mailed'
    BY <1>8, <1>i, <1>t, <1>d DEF EmailTypes, Actors, SendEmail, SendEmailErrs, Goto, Fault
  <2> QED
    BY <2>1, <2>2, <2>3, <2>4
<1>9. ASSUME NEW t \in Ticks, RecordEmail(t) PROVE Goal
  <2>1. Accepted'
    BY <1>9, <1>i, <1>t, <1>d DEF ActorTypes, NotificationTypes, Actors, RecordEmail, FailEmail, LetGo, Goto
  <2>2. Sent'
    BY <1>9, <1>i, <1>t, <1>d DEF ActorTypes, EmailTypes, Actors, RecordEmail, FailEmail, LetGo, Goto
  <2>3. Completed'
    BY <1>9, <1>i, <1>t, <1>d DEF QueueTypeOK, NotificationTypes, RecordEmail, FailEmail, LetGo, Goto
  <2>4. Mailed'
    BY <1>9, <1>i, <1>t, <1>d DEF EmailTypes, Actors, RecordEmail, FailEmail, LetGo, Goto
  <2> QED
    BY <2>1, <2>2, <2>3, <2>4
<1>10. ASSUME NEW t \in Ticks, RecordEmailErrs(t) PROVE Goal
  <2>1. Accepted'
    BY <1>10, <1>i, <1>t, <1>d DEF ActorTypes, NotificationTypes, Actors, RecordEmailErrs, LetGo, Goto, Fault
  <2>2. Sent'
    BY <1>10, <1>i, <1>t, <1>d DEF ActorTypes, EmailTypes, Actors, RecordEmailErrs, LetGo, Goto, Fault
  <2>3. Completed'
    BY <1>10, <1>i, <1>t, <1>d DEF QueueTypeOK, NotificationTypes, RecordEmailErrs, LetGo, Goto, Fault
  <2>4. Mailed'
    BY <1>10, <1>i, <1>t, <1>d DEF EmailTypes, Actors, RecordEmailErrs, LetGo, Goto, Fault
  <2> QED
    BY <2>1, <2>2, <2>3, <2>4
<1>11. ASSUME NEW t \in Ticks, RecoverNotifications(t) \/ ListNotifications(t) \/ EndTick(t) PROVE Goal
  <2>1. Accepted'
    BY <1>11, <1>i, <1>t, <1>d DEF ActorTypes, NotificationTypes, Actors, RecoverNotifications, ListNotifications, EndTick, Goto, Pending, Oldest
  <2>2. Sent'
    BY <1>11, <1>i, <1>t, <1>d DEF ActorTypes, EmailTypes, Actors, RecoverNotifications, ListNotifications, EndTick, Goto, Pending, Oldest
  <2>3. Completed'
    BY <1>11, <1>i, <1>t, <1>d DEF QueueTypeOK, NotificationTypes, RecoverNotifications, ListNotifications, EndTick, Goto, Pending, Oldest, RecoverStale, SetBack
  <2>4. Mailed'
    BY <1>11, <1>i, <1>t, <1>d DEF EmailTypes, Actors, RecoverNotifications, ListNotifications, EndTick, Goto, Pending, Oldest
  <2> QED
    BY <2>1, <2>2, <2>3, <2>4
<1>12. ASSUME NEW t \in Ticks, NEW r \in Rows, ClaimListedRow(t, r) PROVE Goal
  <2>1. Accepted'
    BY <1>12, <1>i, <1>t, <1>d DEF ActorTypes, NotificationTypes, Actors, ClaimListedRow, ClaimOrSkip, Take, Goto, IsNext, Drop
  <2>2. Sent'
    BY <1>12, <1>i, <1>t, <1>d DEF ActorTypes, EmailTypes, Actors, ClaimListedRow, ClaimOrSkip, Take, Goto, IsNext, Drop
  <2>3. Completed'
    BY <1>12, <1>i, <1>t, <1>d DEF QueueTypeOK, NotificationTypes, ClaimListedRow, ClaimOrSkip, Take, Goto, IsNext, Drop, Claim
  <2>4. Mailed'
    BY <1>12, <1>i, <1>t, <1>d DEF EmailTypes, Actors, ClaimListedRow, ClaimOrSkip, Take, Goto, IsNext, Drop
  <2> QED
    BY <2>1, <2>2, <2>3, <2>4
<1>13. ASSUME NEW r \in Rows, ClaimAnnounced(r) PROVE Goal
  <2>1. Accepted'
    BY <1>13, <1>i, <1>t, <1>d DEF ActorTypes, NotificationTypes, Actors, ClaimAnnounced, ClaimOrSkip, Take, Goto
  <2>2. Sent'
    BY <1>13, <1>i, <1>t, <1>d DEF ActorTypes, EmailTypes, Actors, ClaimAnnounced, ClaimOrSkip, Take, Goto
  <2>3. Completed'
    BY <1>13, <1>i, <1>t, <1>d DEF QueueTypeOK, NotificationTypes, ClaimAnnounced, ClaimOrSkip, Take, Goto, Claim
  <2>4. Mailed'
    BY <1>13, <1>i, <1>t, <1>d DEF EmailTypes, Actors, ClaimAnnounced, ClaimOrSkip, Take, Goto
  <2> QED
    BY <2>1, <2>2, <2>3, <2>4
<1>14. ASSUME NEW a \in Actors, ReadChannel(a) \/ NoChannel(a) PROVE Goal
  <2>1. Accepted'
    BY <1>14, <1>i, <1>t, <1>d DEF ActorTypes, NotificationTypes, Actors, ReadChannel, NoChannel, LetGo, Goto, Loop
  <2>2. Sent'
    BY <1>14, <1>i, <1>t, <1>d DEF ActorTypes, EmailTypes, Actors, ReadChannel, NoChannel, LetGo, Goto, Loop
  <2>3. Completed'
    BY <1>14, <1>i, <1>t, <1>d DEF QueueTypeOK, NotificationTypes, ReadChannel, NoChannel, LetGo, Goto, Loop, Fail, SetBack
  <2>4. Mailed'
    BY <1>14, <1>i, <1>t, <1>d DEF EmailTypes, Actors, ReadChannel, NoChannel, LetGo, Goto, Loop
  <2> QED
    BY <2>1, <2>2, <2>3, <2>4
<1>15. ASSUME NEW a \in Actors, Deliver(a) \/ DeliverErrs(a) PROVE Goal
  <2>1. Accepted'
    <3>1. CASE DeliverErrs(a)
      BY <1>i, <1>t, <3>1 DEF ActorTypes, DeliverErrs, Goto
    <3>2. CASE Deliver(a)
      <4>1. item' = item /\ delivered' = [delivered EXCEPT ![item[a]] = @ + 1] /\ item[a] \in Rows
        BY <1>i, <3>2 DEF Deliver, Placed, RowSteps, EmailSteps, Actors
      <4>2. \A x \in Rows : delivered[x] \in Nat
        BY <1>d
      <4>3. delivered'[item[a]] >= 1 /\ \A x \in Rows : delivered[x] >= 1 => delivered'[x] >= 1
        <5>1. \A x \in Rows : delivered'[x] = IF x = item[a] THEN delivered[x] + 1 ELSE delivered[x]
          BY <1>i, <4>1 DEF NotificationTypes
        <5>2. \A k \in Nat : k + 1 >= 1
          OBVIOUS
        <5> QED
          BY <4>1, <4>2, <5>1, <5>2, ZenonT(30)
      <4>4. \A b \in Actors : pc'[b] = "accepted" => b = a \/ pc[b] = "accepted"
        BY <1>i, <3>2 DEF Deliver, Goto, ActorTypes
      <4> QED
        BY <1>t, <1>d, <4>1, <4>3, <4>4
    <3> QED
      BY <1>15, <3>1, <3>2
  <2>2. Sent'
    BY <1>15, <1>i, <1>t, <1>d DEF ActorTypes, EmailTypes, Actors, Deliver, DeliverErrs, Goto, Fault
  <2>3. Completed'
    BY <1>15, <1>i, <1>t, <1>d DEF QueueTypeOK, NotificationTypes, Deliver, DeliverErrs, Goto, Fault
  <2>4. Mailed'
    BY <1>15, <1>i, <1>t, <1>d DEF EmailTypes, Actors, Deliver, DeliverErrs, Goto, Fault
  <2> QED
    BY <2>1, <2>2, <2>3, <2>4
<1>16. ASSUME NEW a \in Actors, Record(a) PROVE Goal
  <2>1. Accepted'
    BY <1>16, <1>i, <1>t, <1>d DEF ActorTypes, NotificationTypes, Actors, Record, LetGo, Goto, Loop
  <2>2. Sent'
    BY <1>16, <1>i, <1>t, <1>d DEF ActorTypes, EmailTypes, Actors, Record, LetGo, Goto, Loop
  <2>3. Completed'
    BY <1>16, <1>i, <1>t, <1>d DEF QueueTypeOK, NotificationTypes, Record, LetGo, Goto, Loop, Complete, Fail, FailPermanent, SetBack
  <2>4. Mailed'
    BY <1>16, <1>i, <1>t, <1>d DEF EmailTypes, Actors, Record, LetGo, Goto, Loop
  <2> QED
    BY <2>1, <2>2, <2>3, <2>4
<1>17. ASSUME NEW a \in Actors, DatabaseErrs(a) PROVE Goal
  <2>1. Accepted'
    BY <1>17, <1>i, <1>t, <1>d DEF ActorTypes, NotificationTypes, Actors, DatabaseErrs, LetGo, Goto, Loop, Fault
  <2>2. Sent'
    BY <1>17, <1>i, <1>t, <1>d DEF ActorTypes, EmailTypes, Actors, DatabaseErrs, LetGo, Goto, Loop, Fault
  <2>3. Completed'
    BY <1>17, <1>i, <1>t, <1>d DEF QueueTypeOK, NotificationTypes, DatabaseErrs, LetGo, Goto, Loop, Fault
  <2>4. Mailed'
    BY <1>17, <1>i, <1>t, <1>d DEF EmailTypes, Actors, DatabaseErrs, LetGo, Goto, Loop, Fault
  <2> QED
    BY <2>1, <2>2, <2>3, <2>4
<1>18. ASSUME NEW a \in Actors, Dies(a) PROVE Goal
  <2>1. Accepted'
    BY <1>18, <1>i, <1>t, <1>d DEF ActorTypes, NotificationTypes, Actors, Dies, Fault
  <2>2. Sent'
    BY <1>18, <1>i, <1>t, <1>d DEF ActorTypes, EmailTypes, Actors, Dies, Fault
  <2>3. Completed'
    BY <1>18, <1>i, <1>t, <1>d DEF QueueTypeOK, NotificationTypes, Dies, Fault
  <2>4. Mailed'
    BY <1>18, <1>i, <1>t, <1>d DEF EmailTypes, Actors, Dies, Fault
  <2> QED
    BY <2>1, <2>2, <2>3, <2>4
<1>19. ASSUME NEW t \in Ticks, NEW r \in Rows \cup Emails, ClaimErrs(t, r) PROVE Goal
  <2>1. Accepted'
    BY <1>19, <1>i, <1>t, <1>d DEF ActorTypes, NotificationTypes, Actors, ClaimErrs, IsNext, Drop, Fault
  <2>2. Sent'
    BY <1>19, <1>i, <1>t, <1>d DEF ActorTypes, EmailTypes, Actors, ClaimErrs, IsNext, Drop, Fault
  <2>3. Completed'
    BY <1>19, <1>i, <1>t, <1>d DEF QueueTypeOK, NotificationTypes, ClaimErrs, IsNext, Drop, Fault
  <2>4. Mailed'
    BY <1>19, <1>i, <1>t, <1>d DEF EmailTypes, Actors, ClaimErrs, IsNext, Drop, Fault
  <2> QED
    BY <2>1, <2>2, <2>3, <2>4
<1>20. ASSUME NEW r \in Rows, OrphanStale(r) \/ HeldStale(r) PROVE Goal
  <2>1. Accepted'
    BY <1>20, <1>i, <1>t, <1>d DEF ActorTypes, NotificationTypes, Actors, OrphanStale, HeldStale, Fault
  <2>2. Sent'
    BY <1>20, <1>i, <1>t, <1>d DEF ActorTypes, EmailTypes, Actors, OrphanStale, HeldStale, Fault
  <2>3. Completed'
    BY <1>20, <1>i, <1>t, <1>d DEF QueueTypeOK, NotificationTypes, OrphanStale, HeldStale, Fault, BecomesStale
  <2>4. Mailed'
    BY <1>20, <1>i, <1>t, <1>d DEF EmailTypes, Actors, OrphanStale, HeldStale, Fault
  <2> QED
    BY <2>1, <2>2, <2>3, <2>4
<1>21. CASE UNCHANGED vars
  BY <1>21, <1>t DEF vars
<1> QED
  BY <1>1, <1>2, <1>3, <1>4, <1>5, <1>6, <1>7, <1>8, <1>9, <1>10, <1>11, <1>12, <1>13, <1>14, <1>15, <1>16, <1>17, <1>18, <1>19, <1>20, <1>21
  DEF Next, UserStep, TickStep, Deliveries, Actors

(* The remote side gets a notification at most once more than there were     *)
(* crashes, stalls, lost answers, database errors and changes by users,      *)
(* however many ticks and listeners see its row; and what is reported as     *)
(* delivered or sent was delivered or sent.                                  *)
THEOREM RepeatsAreExplained == Spec => []RepeatsExplained
<1>1. Init => TrueReports
  BY DEF Init, QueueInit, TrueReports
<1>2. Inv1 /\ Counted /\ TrueReports => RepeatsExplained
  <2> SUFFICES ASSUME Inv1, Counted, TrueReports PROVE RepeatsExplained
    OBVIOUS
  <2>1. ASSUME NEW r \in Rows PROVE delivered[r] <= 1 + faults + changes
    <3>1. /\ delivered[r] \in Nat /\ faults \in Nat /\ changes \in Nat
      BY Types, DeliveryConstants DEF Inv1, Typed, RestTypes, NotificationTypes, BoundTypes
    <3>2. Cardinality(Bearers(r)) \in Nat
      BY FS_CardinalityType DEF Counted, CountedAt
    <3>3. delivered[r] + Cardinality(Bearers(r)) + (IF Loose(r) THEN 1 ELSE 0) <= 1 + (faults + changes)
      BY DEF Counted, CountedAt
    <3> QED
      BY <3>1, <3>2, <3>3
  <2> QED
    BY <2>1 DEF RepeatsExplained, TrueReports
<1>3. Inv1 /\ Counted /\ [Next]_vars => Counted'
  BY CountedStep
<1>4. Inv1 /\ TrueReports /\ [Next]_vars => TrueReports'
  BY ReportsStep
<1> QED
  BY <1>1, <1>2, <1>3, <1>4, CountedInit, HeldSafe, PTL DEF Spec
=============================================================================
