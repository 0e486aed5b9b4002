--------------------------- MODULE ThreadRetention ---------------------------
(***************************************************************************)
(* Threads and their end.  Users and supervising agents create threads,    *)
(* the latter under a parent; a thread with mail is one that rows of       *)
(* email_log or email_scheduled name.  Every tick deletes, in one          *)
(* statement over all projects, the threads that are past the retention of *)
(* their project and have no children; users delete a thread with all its  *)
(* descendants.                                                            *)
(***************************************************************************)
EXTENDS Naturals, FiniteSets

CONSTANTS
  Threads, Projects,
  Homes,          \* the project of each thread
  Shapes,         \* the parent of each thread, a thread of the same project or NoThread
  NoThread,
  MaxSettings     \* bound: updates of a project's settings

ASSUME RetentionConstants ==
  /\ NoThread \notin Threads
  /\ Homes \in [Threads -> Projects] /\ Shapes \subseteq [Threads -> Threads \cup {NoThread}]
  /\ MaxSettings \in Nat

VARIABLES
  parent,         \* parent_thread_id; an id is never used again
  live, created,
  expired,        \* updated_at, which nothing updates, is older than the retention allows
  mailed,
  retained,       \* projects whose settings name a retention
  settings

retentionVars == <<parent, live, created, expired, mailed, retained, settings>>

RetentionInit ==
  /\ parent \in Shapes
  /\ live = {} /\ created = {} /\ expired = {} /\ mailed = {} /\ retained = {} /\ settings = 0

Children(t) == {c \in live : parent[c] = t}

(* t and all below it. *)
Tree(t) ==
  LET below[n \in Nat] ==
        IF n = 0 THEN {t} ELSE below[n - 1] \cup UNION {Children(x) : x \in below[n - 1]}
  IN below[Cardinality(Threads)]

CreateThread(t) ==
  /\ t \notin created /\ parent[t] \in live \cup {NoThread}
  /\ live' = live \cup {t} /\ created' = created \cup {t}
  /\ UNCHANGED <<parent, expired, mailed, retained, settings>>

(* The email tools, called by an agent of the thread. *)
Mail(t) ==
  /\ t \in live \ mailed /\ mailed' = mailed \cup {t}
  /\ UNCHANGED <<parent, live, created, expired, retained, settings>>

Expire(t) ==
  /\ t \in live \ expired /\ expired' = expired \cup {t}
  /\ UNCHANGED <<parent, live, created, mailed, retained, settings>>

SetRetention(p) ==
  /\ settings < MaxSettings /\ settings' = settings + 1
  /\ retained' = IF p \in retained THEN retained \ {p} ELSE retained \cup {p}
  /\ UNCHANGED <<parent, live, created, expired, mailed>>

(* DELETE /threads/:id, with everything that refers to the threads. *)
DeleteThread(t) ==
  /\ t \in live /\ live' = live \ Tree(t) /\ mailed' = mailed \ Tree(t)
  /\ UNCHANGED <<parent, created, expired, retained, settings>>

Candidates == {t \in live \cap expired : Homes[t] \in retained}

(* A mutant of Leaves: children that are candidates themselves do not count. *)
WithoutOtherChildren == {t \in Candidates : Children(t) \subseteq Candidates}

Leaves == {t \in Candidates : Children(t) = {}}

(* Messages, evidence and memory go first; the rows of email_log and         *)
(* email_scheduled do not, so one thread with mail fails the statement, as   *)
(* would a thread that stays under one that goes.                            *)
Purge ==
  /\ Leaves # {}
  /\ Leaves \cap mailed = {} /\ \A t \in live \ Leaves : parent[t] \notin Leaves
  /\ live' = live \ Leaves
  /\ UNCHANGED <<parent, created, expired, mailed, retained, settings>>

RetentionNext ==
  \/ Purge
  \/ \E p \in Projects : SetRetention(p)
  \/ \E t \in Threads : CreateThread(t) \/ Mail(t) \/ Expire(t) \/ DeleteThread(t)

-----------------------------------------------------------------------------
(* The leaves of one project stand in the way of another's. *)
HeldUp(t) ==
  \/ \E d \in Tree(t) : d \notin Candidates
  \/ \E l \in Candidates : Children(l) = {} /\ l \in mailed

(* Threads past their retention go, after their descendants: again and again *)
(* none is left but those above one that stays, or, when a leaf among them   *)
(* has mail, whatever there is, since the statement then fails at every      *)
(* tick, for all projects.                                                   *)
ExpiredArePurged == []<>(\A t \in Candidates : HeldUp(t))
=============================================================================
