----------------------------- MODULE Delivery -----------------------------
(***************************************************************************)
(* What Arbeiterfarm sends to the outside: scheduled emails                *)
(* (af-email/scheduler.rs) and notifications (af-notify).  A tick sends    *)
(* due emails and then pending notifications; the API server's listener    *)
(* takes up each notification as soon as PostgreSQL announces its row.     *)
(*                                                                         *)
(* There is one channel.  Whether the remote side has got a message is     *)
(* recorded apart from what the sender learns about it.                    *)
(***************************************************************************)
EXTENDS WorkQueue

CONSTANTS
  Ticks,           \* `af tick` processes that may run at the same time
  Listener,        \* the listener task of `af serve`
  Emails,          \* rows of email_scheduled, in the order of scheduled_at
  None,
  MaxMailAttempts, \* max_attempts of an email (3)
  Limit,           \* BATCH_SIZE of process_notification_queue (20)
  MaxFaults,       \* bound: crashes, database errors, stalls, lost answers
  MaxChanges       \* bound: retries, channel and rule changes by users

ASSUME DeliveryConstants ==
  /\ Emails \subseteq Nat /\ Emails \cap Rows = {} /\ None \notin Rows \cup Emails
  /\ Listener \notin Ticks
  /\ MaxMailAttempts \in Nat \ {0} /\ MaxFaults \in Nat /\ MaxChanges \in Nat

Actors == Ticks \cup {Listener}

VARIABLES
  channel,    \* "enabled", "disabled" or "deleted"
  kind,       \* its channel_type: "email", or one that is implemented
  delivered,  \* how often the remote side has got a notification (history)
  inbox,      \* announced rows the listener has not looked at yet
  mail, tries,\* status and attempt_count of the emails
  mailed,     \* how often an email has been sent (history)
  blocked,    \* emails with a recipient the rules forbid
  pc, todo, item,  \* each actor: its step, the listed rows left, the row it has
  barred,     \* actors whose row was not to be sent when they claimed it (history)
  faults, changes

notifications == <<channel, kind, delivered, inbox>>
emails        == <<mail, tries, mailed, blocked>>
actors        == <<pc, todo, item, barred>>
bounds        == <<faults, changes>>
vars          == <<queue, notifications, emails, actors, bounds>>

MailSteps == {"emails", "check", "send", "sent", "unsent"}
Steps     == {"list", "loop", "channel", "deliver", "accepted", "refused", "permanent"}

(* The type invariant of emails, notifications and their senders. *)
TypeOK ==
  /\ QueueTypeOK
  /\ channel \in {"enabled", "disabled", "deleted"} /\ kind \in {"email", "webhook"}
  /\ delivered \in [Rows -> Nat] /\ inbox \in SUBSET Rows
  /\ mail \in [Emails -> {"none", "scheduled", "sending", "sent", "failed", "cancelled"}]
  /\ tries \in [Emails -> 0..MaxMailAttempts]
  /\ mailed \in [Emails -> Nat] /\ blocked \in SUBSET Emails
  /\ pc \in [Actors -> MailSteps \cup Steps \cup {"idle"}]
  /\ todo \in [Actors -> SUBSET (Rows \cup Emails)]
  /\ item \in [Actors -> Rows \cup Emails \cup {None}]
  /\ barred \in SUBSET Actors
  /\ faults \in 0..MaxFaults /\ changes \in 0..MaxChanges

Init ==
  /\ QueueInit
  /\ channel \in {"enabled", "disabled"} /\ kind \in {"email", "webhook"}
  /\ delivered = [r \in Rows |-> 0] /\ inbox = {}
  /\ mail = [e \in Emails |-> "none"] /\ tries = [e \in Emails |-> 0]
  /\ mailed = [e \in Emails |-> 0] /\ blocked \in SUBSET Emails
  /\ pc = [a \in Actors |-> "idle"] /\ todo = [a \in Actors |-> {}]
  /\ item = [a \in Actors |-> None] /\ barred = {}
  /\ faults = 0 /\ changes = 0

Fault  == faults < MaxFaults /\ faults' = faults + 1 /\ UNCHANGED changes
Change == changes < MaxChanges /\ changes' = changes + 1 /\ UNCHANGED faults

Goto(a, step) == pc' = [pc EXCEPT ![a] = step]

IsNext(a, r) == r \in todo[a] /\ \A q \in todo[a] : r <= q
Drop(a, r)   == todo' = [todo EXCEPT ![a] = @ \ {r}]

Take(a, r, forbidden) ==
  /\ item' = [item EXCEPT ![a] = r]
  /\ barred' = IF forbidden THEN barred \cup {a} ELSE barred \ {a}

LetGo(a, step) ==
  /\ Goto(a, step)
  /\ item' = [item EXCEPT ![a] = None] /\ barred' = barred \ {a}
  /\ UNCHANGED todo

-----------------------------------------------------------------------------
(* Users: tools, the API and the CLI.                                       *)

(* The INSERT trigger announces the row.  notify.send and notify.upload want *)
(* an enabled channel, the API's channel test only an existing one.          *)
Notify(r) ==
  /\ channel # "deleted"
  /\ Enqueue(r)
  /\ inbox' = inbox \cup {r}
  /\ UNCHANGED <<channel, kind, delivered, emails, actors, bounds>>

(* retry announces nothing: the trigger is on INSERT. *)
RetryNotification(r) ==
  /\ Change /\ Retry(r)
  /\ UNCHANGED <<notifications, emails, actors>>

CancelNotification(r) ==
  /\ Cancel(r)
  /\ UNCHANGED <<notifications, emails, actors, bounds>>

UpdateChannel ==
  /\ Change
  /\ \/ channel = "enabled" /\ channel' = "disabled" /\ UNCHANGED barred
     \/ /\ channel = "disabled" /\ channel' = "enabled"
        /\ barred' = {a \in barred : item[a] \in Emails}
  /\ UNCHANGED <<queue, kind, delivered, inbox, emails, pc, todo, item>>

(* The queue rows of the channel go with it (ON DELETE CASCADE). *)
DeleteChannel ==
  /\ Change
  /\ channel # "deleted" /\ channel' = "deleted"
  /\ DeleteRows
  /\ UNCHANGED <<kind, delivered, inbox, emails, actors>>

(* An email whose time comes; its recipients were allowed when scheduled. *)
Schedule(e) ==
  /\ mail[e] = "none" /\ e \notin blocked
  /\ mail' = [mail EXCEPT ![e] = "scheduled"]
  /\ UNCHANGED <<queue, notifications, tries, mailed, blocked, actors, bounds>>

CancelEmail(e) ==
  /\ mail[e] = "scheduled"
  /\ mail' = [mail EXCEPT ![e] = "cancelled"]
  /\ UNCHANGED <<queue, notifications, tries, mailed, blocked, actors, bounds>>

(* A recipient rule is added, or removed again. *)
ChangeRules(e) ==
  /\ Change
  /\ \/ e \notin blocked /\ blocked' = blocked \cup {e} /\ UNCHANGED barred
     \/ /\ e \in blocked /\ blocked' = blocked \ {e}
        /\ barred' = {a \in barred : item[a] # e}
  /\ UNCHANGED <<queue, notifications, mail, tries, mailed, pc, todo, item>>

-----------------------------------------------------------------------------
(* process_due_emails.                                                      *)

ListEmails(t) ==
  /\ pc[t] = "idle"
  /\ todo' = [todo EXCEPT ![t] = {e \in Emails : mail[e] = "scheduled"}]
  /\ Goto(t, "emails")
  /\ UNCHANGED <<queue, notifications, emails, item, barred, bounds>>

(* A mutant of ClaimEmail: the listed status is trusted. *)
ClaimListed(t, e) ==
  /\ pc[t] = "emails" /\ IsNext(t, e) /\ Drop(t, e)
  /\ mail' = [mail EXCEPT ![e] = "sending"]
  /\ Take(t, e, e \in blocked)
  /\ Goto(t, "check")
  /\ UNCHANGED <<queue, notifications, tries, mailed, blocked, bounds>>

ClaimEmail(t, e) ==
  /\ pc[t] = "emails" /\ IsNext(t, e) /\ Drop(t, e)
  /\ IF mail[e] = "scheduled"
     THEN /\ mail' = [mail EXCEPT ![e] = "sending"]
          /\ Take(t, e, e \in blocked)
          /\ Goto(t, "check")
     ELSE UNCHANGED <<mail, item, barred, pc>>
  /\ UNCHANGED <<queue, notifications, tries, mailed, blocked, bounds>>

(* complete_scheduled and fail_scheduled do not look at the status. *)
FailEmail(e) ==
  /\ tries' = [tries EXCEPT ![e] = @ + 1]
  /\ mail' = [mail EXCEPT ![e] =
                IF tries[e] + 1 >= MaxMailAttempts THEN "failed" ELSE "scheduled"]

(* Credentials and recipient rules, as they are now. *)
CheckEmail(t) ==
  /\ pc[t] = "check" /\ item[t] \notin blocked
  /\ Goto(t, "send")
  /\ UNCHANGED <<queue, notifications, emails, todo, item, barred, bounds>>

(* Blocked, or credentials or rules cannot be loaded: fail closed. *)
RejectEmail(t) ==
  /\ pc[t] = "check"
  /\ FailEmail(item[t])
  /\ LetGo(t, "emails")
  /\ UNCHANGED <<queue, notifications, mailed, blocked, bounds>>

SendEmail(t) ==
  /\ pc[t] = "send"
  /\ mailed' = [mailed EXCEPT ![item[t]] = @ + 1]
  /\ \/ Goto(t, "sent") /\ UNCHANGED bounds
     \/ Goto(t, "unsent") /\ Fault        \* sent, but the answer is lost
  /\ UNCHANGED <<queue, notifications, mail, tries, blocked, todo, item, barred>>

SendEmailErrs(t) ==
  /\ pc[t] = "send"
  /\ Goto(t, "unsent")
  /\ UNCHANGED <<queue, notifications, emails, todo, item, barred, bounds>>

RecordEmail(t) ==
  /\ \/ /\ pc[t] = "sent"
        /\ mail' = [mail EXCEPT ![item[t]] = "sent"] /\ UNCHANGED tries
     \/ pc[t] = "unsent" /\ FailEmail(item[t])
  /\ LetGo(t, "emails")
  /\ UNCHANGED <<queue, notifications, mailed, blocked, bounds>>

(* The outcome cannot be written; the error is logged and the loop goes on. *)
RecordEmailErrs(t) ==
  /\ pc[t] \in {"check", "sent", "unsent"} /\ Fault
  /\ LetGo(t, "emails")
  /\ UNCHANGED <<queue, notifications, emails>>

-----------------------------------------------------------------------------
(* process_notification_queue (ticks) and process_single (the listener).    *)

(* A mutant of RecoverNotifications: stale rows are only listed. *)
SkipRecovery(t) ==
  /\ pc[t] = "emails" /\ todo[t] = {}
  /\ Goto(t, "list")
  /\ UNCHANGED <<queue, notifications, emails, todo, item, barred, bounds>>

RecoverNotifications(t) ==
  /\ pc[t] = "emails" /\ todo[t] = {}
  /\ RecoverStale(Rows)
  /\ Goto(t, "list")
  /\ UNCHANGED <<notifications, emails, todo, item, barred, bounds>>

ListNotifications(t) ==
  /\ pc[t] = "list"
  /\ todo' = [todo EXCEPT ![t] = Pending(Rows, Limit)]
  /\ Goto(t, "loop")
  /\ UNCHANGED <<queue, notifications, emails, item, barred, bounds>>

(* A mutant of ClaimOrSkip, without AND status = 'pending'. *)
ClaimAny(a, r) ==
  /\ status' = [status EXCEPT ![r] = "processing"]
  /\ claims' = [claims EXCEPT ![r] = @ + 1]
  /\ Take(a, r, channel # "enabled") /\ Goto(a, "channel")
  /\ UNCHANGED <<attempts, stale>>

(* claim: one UPDATE decides between the listener and the ticks. *)
ClaimOrSkip(a, r) ==
  IF status[r] = "pending"
  THEN Claim(r) /\ Take(a, r, channel # "enabled") /\ Goto(a, "channel")
  ELSE UNCHANGED <<queue, item, barred, pc>>

ClaimListedRow(t, r) ==
  /\ pc[t] = "loop" /\ IsNext(t, r) /\ Drop(t, r)
  /\ ClaimOrSkip(t, r)
  /\ UNCHANGED <<notifications, emails, bounds>>

ClaimAnnounced(r) ==
  /\ pc[Listener] = "idle" /\ r \in inbox
  /\ inbox' = inbox \ {r}
  /\ ClaimOrSkip(Listener, r)
  /\ UNCHANGED <<channel, kind, delivered, emails, todo, bounds>>

Loop(a) == IF a = Listener THEN "idle" ELSE "loop"

(* A mutant of ReadChannel: enabled is not looked at. *)
ReadChannelAny(a) ==
  /\ pc[a] = "channel"
  /\ Goto(a, "deliver")
  /\ UNCHANGED <<queue, notifications, emails, todo, item, barred, bounds>>

ReadChannel(a) ==
  /\ pc[a] = "channel" /\ channel = "enabled"
  /\ Goto(a, "deliver")
  /\ UNCHANGED <<queue, notifications, emails, todo, item, barred, bounds>>

(* The channel is disabled or gone. *)
NoChannel(a) ==
  /\ pc[a] = "channel" /\ channel # "enabled"
  /\ Fail(item[a])
  /\ LetGo(a, Loop(a))
  /\ UNCHANGED <<notifications, emails, bounds>>

(* The request reaches the remote side; its answer may be lost. *)
Deliver(a) ==
  /\ pc[a] = "deliver" /\ kind # "email"
  /\ delivered' = [delivered EXCEPT ![item[a]] = @ + 1]
  /\ \/ Goto(a, "accepted") /\ UNCHANGED bounds
     \/ Goto(a, "refused") /\ Fault
  /\ UNCHANGED <<queue, channel, kind, inbox, emails, todo, item, barred>>

DeliverErrs(a) ==
  /\ pc[a] = "deliver"
  /\ Goto(a, IF kind = "email" THEN "permanent" ELSE "refused")
  /\ UNCHANGED <<queue, notifications, emails, todo, item, barred, bounds>>

Record(a) ==
  /\ \/ pc[a] = "accepted" /\ Complete(item[a])
     \/ pc[a] = "refused" /\ Fail(item[a])
     \/ pc[a] = "permanent" /\ FailPermanent(item[a])
  /\ LetGo(a, Loop(a))
  /\ UNCHANGED <<notifications, emails, bounds>>

(* The channel cannot be read, or the outcome cannot be written. *)
DatabaseErrs(a) ==
  /\ pc[a] \in {"channel", "accepted", "refused", "permanent"} /\ Fault
  /\ LetGo(a, Loop(a))
  /\ UNCHANGED <<queue, notifications, emails>>

(* A row cannot be claimed: it is passed over, for this tick. *)
ClaimErrs(t, r) ==
  /\ pc[t] \in {"emails", "loop"} /\ IsNext(t, r) /\ Fault
  /\ Drop(t, r)
  /\ UNCHANGED <<queue, notifications, emails, pc, item, barred>>

EndTick(t) ==
  /\ pc[t] = "loop" /\ todo[t] = {}
  /\ Goto(t, "idle")
  /\ UNCHANGED <<queue, notifications, emails, todo, item, barred, bounds>>

-----------------------------------------------------------------------------
(* The environment.                                                         *)

(* The process dies.  What was announced to a dead listener is lost. *)
Dies(a) ==
  /\ pc[a] # "idle" \/ (a = Listener /\ inbox # {})
  /\ Fault
  /\ pc' = [pc EXCEPT ![a] = "idle"] /\ todo' = [todo EXCEPT ![a] = {}]
  /\ item' = [item EXCEPT ![a] = None] /\ barred' = barred \ {a}
  /\ inbox' = IF a = Listener THEN {} ELSE inbox
  /\ UNCHANGED <<queue, channel, kind, delivered, emails>>

Held(r) == \E a \in Actors : item[a] = r

(* Two minutes pass for a row nobody has, or, as a fault, in a delivery. *)
OrphanStale(r) ==
  /\ ~Held(r) /\ BecomesStale(r) /\ UNCHANGED <<notifications, emails, actors, bounds>>
HeldStale(r) ==
  /\ Held(r) /\ Fault /\ BecomesStale(r) /\ UNCHANGED <<notifications, emails, actors>>

Deliveries(a) ==
  ReadChannel(a) \/ NoChannel(a) \/ Deliver(a) \/ DeliverErrs(a) \/ Record(a)

TickStep(t) ==
  \/ ListEmails(t) \/ CheckEmail(t) \/ RejectEmail(t)
  \/ \E e \in Emails : ClaimEmail(t, e)
  \/ SendEmail(t) \/ SendEmailErrs(t) \/ RecordEmail(t)
  \/ RecoverNotifications(t) \/ ListNotifications(t)
  \/ \E r \in Rows : ClaimListedRow(t, r)
  \/ Deliveries(t) \/ EndTick(t)

UserStep ==
  \/ \E r \in Rows : Notify(r) \/ RetryNotification(r) \/ CancelNotification(r)
  \/ UpdateChannel \/ DeleteChannel
  \/ \E e \in Emails : Schedule(e) \/ CancelEmail(e) \/ ChangeRules(e)

Next ==
  \/ UserStep
  \/ \E t \in Ticks : TickStep(t) \/ RecordEmailErrs(t)
  \/ \E t \in Ticks, r \in Rows \cup Emails : ClaimErrs(t, r)
  \/ \E r \in Rows : ClaimAnnounced(r)
  \/ Deliveries(Listener)
  \/ \E a \in Actors : DatabaseErrs(a) \/ Dies(a)
  \/ \E r \in Rows : OrphanStale(r) \/ HeldStale(r)

Spec == Init /\ [][Next]_vars

(* Fairness: cron starts ticks, running processes go on, time passes. *)
FairSpec ==
  /\ Spec
  /\ \A t \in Ticks : WF_vars(TickStep(t))
  /\ WF_vars(Deliveries(Listener))
  /\ \A r \in Rows : WF_vars(OrphanStale(r))

-----------------------------------------------------------------------------
(* Properties.                                                              *)

(* Every repetition has its cause: the remote side gets a notification once  *)
(* more than there were crashes, stalls, lost answers, database errors and   *)
(* retries by users, however many senders see the row.  And what is reported *)
(* as delivered was delivered at least once.                                 *)
RepeatsExplained ==
  /\ \A r \in Rows : delivered[r] <= 1 + faults + changes
  /\ \A r \in Rows : status[r] = "completed" => delivered[r] >= 1
  /\ \A e \in Emails : mail[e] = "sent" => mailed[e] >= 1

(* What was not to be sent when its sender claimed it, and has not been      *)
(* allowed since, does not reach the sending step: rules and channel are     *)
(* read after the claim, not when the row was listed or scheduled.           *)
BarredNotSent == \A a \in barred : pc[a] \notin {"deliver", "send"}

(* complete_scheduled and fail_scheduled write without a guard.  That is     *)
(* right as long as an email under way is 'sending' and one tick has it.     *)
EmailHeldOnce ==
  \A t \in Ticks :
    item[t] \in Emails =>
      /\ mail[item[t]] = "sending"
      /\ \A u \in Ticks \ {t} : item[u] # item[t]

(* Every notification ends delivered, failed, cancelled or with its channel, *)
(* although the announcement may be lost and every sender may die.           *)
EveryNotificationEnds ==
  \A r \in Rows : (status[r] \in Active) ~> (status[r] \notin Active)
=============================================================================
