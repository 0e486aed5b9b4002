--------------------------- MODULE ProjectDeletion ---------------------------
(***************************************************************************)
(* Deleting a project.  One transaction deletes table after table in the   *)
(* order of the foreign keys; the statements of other sessions commit in   *)
(* between (READ COMMITTED).  For anybody but an administrator the         *)
(* transaction runs under row-level security, which shows a row only while *)
(* af_visible_projects() lists its project, and that function reads the    *)
(* tables the transaction empties.  Its definition changes while a process *)
(* starts: migration 010 takes the rows shared with everyone out and 018   *)
(* puts them back.                                                         *)
(***************************************************************************)
EXTENDS Naturals, Sequences

CONSTANTS
  Contents,         \* which tables hold rows of the project when the request comes
  Seats,            \* who asks: "admin", "owner", "user"
  MaxInterference   \* bound: inserts, changes of a role, starts and ends of migrations

(* Foreign keys of the rows of a project that neither cascade nor are set to *)
(* NULL.  A row of email_log or email_scheduled that names no thread counts  *)
(* as project_log or goes with the project.                                  *)
References ==
  [evidence      |-> {"messages"},
   messages      |-> {"threads"},
   thread_log    |-> {"threads", "projects"},
   scheduled     |-> {"threads"},
   memory        |-> {"threads"},
   threads       |-> {"projects"},
   run_artifacts |-> {"tool_runs", "artifacts"},
   run_events    |-> {"tool_runs"},
   tool_runs     |-> {"projects"},
   artifacts     |-> {"projects"},
   members       |-> {"projects"},
   hooks         |-> {"projects"},
   project_log   |-> {"projects"},
   projects      |-> {}]

Tables == DOMAIN References

(* "secured": the table, or one the condition reads, is under row-level *)
(* security.                                                            *)
DeleteFrom(tables, secured) == [tables |-> tables, secured |-> secured]

ThreadStatements == <<
  DeleteFrom({"evidence"}, TRUE), DeleteFrom({"messages"}, TRUE), DeleteFrom({"thread_log"}, TRUE),
  DeleteFrom({"scheduled"}, TRUE), DeleteFrom({"threads"}, TRUE) >>

(* A mutant of RunStatements: tool runs go before what refers to them. *)
RunsFirst == <<
  DeleteFrom({"tool_runs"}, TRUE), DeleteFrom({"run_artifacts"}, TRUE), DeleteFrom({"run_events"}, TRUE) >>

RunStatements == <<
  DeleteFrom({"run_artifacts"}, TRUE), DeleteFrom({"run_events"}, TRUE), DeleteFrom({"tool_runs"}, TRUE) >>

Statements == ThreadStatements \o RunStatements \o <<
  DeleteFrom({"artifacts"}, TRUE), DeleteFrom({"members"}, TRUE), DeleteFrom({"hooks"}, FALSE),
  DeleteFrom({"thread_log", "project_log"}, FALSE), DeleteFrom({"projects"}, TRUE) >>

ASSUME DeletionConstants ==
  /\ Contents \subseteq {c \in SUBSET Tables :
       {"projects", "members"} \subseteq c /\ \A t \in c : References[t] \subseteq c}
  /\ Seats \subseteq {"admin", "owner", "user"} /\ MaxInterference \in Nat

VARIABLES
  rows,           \* tables that hold committed rows of the project
  seat,
  role,           \* of the user's own row in project_members, and of the row of @all
  narrow,         \* af_visible_projects() is the one of migration 010
  step,           \* 0: not asked, n: before statement n
  gone,           \* tables whose rows the transaction has deleted, and locks
  late,           \* tables that got rows after that
  answer,         \* "none", "deleted", "refused", "error", "lost"
  disturbed,      \* history: other sessions have changed something since the request came
  interference

deletionVars == <<rows, seat, role, narrow, step, gone, late, answer, disturbed, interference>>

Roles == {"none", "viewer", "manager"}

DeletionInit ==
  /\ rows \in Contents /\ seat \in Seats
  /\ role \in [{"own", "all"} -> Roles]
  /\ seat # "user" => (role = [r \in {"own", "all"} |-> "none"])
  /\ narrow = FALSE
  /\ step = 0 /\ gone = {} /\ late = {} /\ answer = "none"
  /\ disturbed = FALSE /\ interference = 0

(* What a statement of the transaction finds. *)
Found == (rows \ gone) \cup late

(* A mutant of Visible: membership alone makes a project visible. *)
VisibleToMembers ==
  seat = "admin" \/ "members" \notin gone

(* Administrators are not subject to the policies. *)
Visible ==
  \/ seat \in {"admin", "owner"}
  \/ "members" \notin gone /\ role["own"] # "none"
  \/ "members" \notin gone /\ role["all"] # "none" /\ ~narrow

-----------------------------------------------------------------------------
(* DELETE /projects/:id *)

(* The higher of the two roles counts, for what only ManageMembers needs. *)
MayDelete ==
  seat \in {"admin", "owner"} \/ "manager" \in {role["own"], role["all"]}

Ask ==
  /\ step = 0 /\ answer = "none" /\ "projects" \in rows
  /\ IF Visible /\ MayDelete THEN step' = 1 /\ UNCHANGED answer
                             ELSE answer' = "refused" /\ UNCHANGED step
  /\ UNCHANGED <<rows, seat, role, narrow, gone, late, disturbed, interference>>

Hit ==
  IF Statements[step].secured /\ ~Visible THEN {} ELSE Statements[step].tables \cap Found

Orphans == \E t \in Found \ Hit : References[t] \cap Hit # {}

Execute ==
  /\ step \in DOMAIN Statements /\ ~Orphans
  /\ gone' = gone \cup Hit /\ late' = late \ Hit /\ step' = step + 1
  /\ UNCHANGED <<rows, seat, role, narrow, answer, disturbed, interference>>

Rollback(reply) ==
  /\ gone' = {} /\ late' = {} /\ step' = 0 /\ answer' = reply
  /\ UNCHANGED <<rows, seat, role, narrow, disturbed, interference>>

Violates == step \in DOMAIN Statements /\ Orphans /\ Rollback("error")

(* How many projects the last statement deleted is not looked at. *)
Commit ==
  /\ step = Len(Statements) + 1
  /\ rows' = Found /\ gone' = {} /\ late' = {} /\ step' = 0 /\ answer' = "deleted"
  /\ role' = IF "members" \in gone THEN [r \in {"own", "all"} |-> "none"] ELSE role
  /\ UNCHANGED <<seat, narrow, disturbed, interference>>

-----------------------------------------------------------------------------
(* Other sessions. *)

Disturb ==
  /\ interference < MaxInterference /\ interference' = interference + 1
  /\ disturbed' = (disturbed \/ step > 0)

(* An insert whose parent the transaction has deleted waits for its end. *)
Insert(t) ==
  /\ Disturb
  /\ t # "projects" /\ t \notin Found /\ References[t] \subseteq Found
  /\ IF t \in gone THEN late' = late \cup {t} /\ UNCHANGED rows
                   ELSE rows' = rows \cup {t} /\ UNCHANGED late
  /\ UNCHANGED <<seat, role, narrow, step, gone, answer>>

(* POST and DELETE /projects/:id/members; rows the transaction has deleted are locked. *)
SetRole ==
  /\ Disturb /\ seat = "user" /\ "projects" \in Found /\ "members" \notin gone
  /\ \E r \in Roles, whose \in {"own", "all"} :
       r # role[whose] /\ role' = [role EXCEPT ![whose] = r]
  /\ rows' = rows \cup {"members"}
  /\ UNCHANGED <<seat, narrow, step, gone, late, answer>>

(* A process starts and runs the migrations, each in a transaction. *)
Migrate ==
  /\ Disturb /\ narrow' = ~narrow
  /\ UNCHANGED <<rows, seat, role, step, gone, late, answer>>

(* The server or the database goes away. *)
Disconnect == step > 0 /\ Rollback("lost")

-----------------------------------------------------------------------------
DeletionNext ==
  \/ Ask \/ Execute \/ Violates \/ Commit \/ Disconnect
  \/ SetRole \/ Migrate \/ \E t \in Tables : Insert(t)

DeletionSpec == DeletionInit /\ [][DeletionNext]_deletionVars

-----------------------------------------------------------------------------
(* A deletion that the database refuses either meets the memory of a thread, *)
(* which no statement deletes, or another session that wrote something       *)
(* meanwhile: the order of the statements itself offends no foreign key.     *)
FailuresExplained == answer = "error" => disturbed \/ "memory" \in rows

(* Owners and administrators delete all or nothing: though the transaction   *)
(* empties the tables that say who may see the project, it still finds the   *)
(* rest.                                                                     *)
OwnersDeleteAll == answer = "deleted" /\ seat # "user" => rows = {}

(* "Delete a project and all associated data", also on behalf of a manager:  *)
(* once the request is answered with deleted, the project is gone.           *)
DeletedIsGone == answer = "deleted" => "projects" \notin rows
=============================================================================
