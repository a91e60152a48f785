--------------------------------- MODULE Tasks ---------------------------------
(***************************************************************************)
(* The shared task table, written by My Tasks and by the CRM alike.  A     *)
(* handler reads the task, decides in Python what to write, and writes it  *)
(* with one call of the database function task_apply, a transaction that   *)
(* tests again only who may write.  Between the read and the write other   *)
(* requests come and go.  Here: handing work over (who a task is New to),  *)
(* recurrence (which occurrence makes the next one), and the Trash.        *)
(***************************************************************************)
EXTENDS Integers, FiniteSets

CONSTANTS
  Users,
  CrmRole,           \* the role in the one workspace: admin, member, viewer, none
  Requests,          \* requests that may be in flight at once
  MaxTask,           \* bound: tasks 1 .. MaxTask
  MaxDue,            \* bound: due dates 0 .. MaxDue; the calendar ends there
  Patches,           \* bound: what update_task is sent, and for which kind of task
  Creations,         \* bound: the tasks that are created
  MaxCreated,        \* bound: how many are
  MaxWrites,         \* bound: how often task_apply succeeds
  Nobody, NoTask, Purged

TaskId == 1 .. MaxTask
Closed == {"done", "cancelled"}
Fields == {"crm", "creator", "assignee", "by", "accepted", "status", "due",
           "recurs", "series", "spawned", "deleted"}

ASSUME RolesAssumption ==
  /\ Nobody \notin Users
  /\ CrmRole \in [Users -> {"admin", "member", "viewer", "none"}]

TaskRow ==
  [crm : BOOLEAN, creator : Users, assignee : Users, by : Users \cup {Nobody},
   accepted : Users \cup {Nobody}, status : {"open", "waiting"} \cup Closed, due : Int,
   recurs : BOOLEAN, series : Int, spawned : BOOLEAN, deleted : BOOLEAN]

(* What a client may send of a task (schemas/tasks.py: TaskPatch).          *)
Sendable(f, value) ==
  \/ f = "assignee" /\ value \in Users
  \/ f = "status" /\ value \in {"open", "waiting"} \cup Closed
  \/ f = "due" /\ value \in Int
  \/ f = "recurs" /\ value \in BOOLEAN

ASSUME TasksAssumption ==
  /\ {MaxTask, MaxDue, MaxCreated, MaxWrites} \subseteq Nat
  /\ NoTask # Purged /\ NoTask \notin TaskRow /\ Purged \notin TaskRow
  /\ \A p \in Patches :
       p.expects \in BOOLEAN /\ \A f \in DOMAIN p.values : Sendable(f, p.values[f])
  /\ \A c \in Creations : c.crm \in BOOLEAN /\ c.creator \in Users /\ c.assignee \in Users

VARIABLES
  tasks,        \* the rows; `accepted` is accepted_at, with who set it
  requests,     \* the requests between their read and their write
  made_from,    \* history: the occurrence whose closing inserted a task, or 0
  contested,    \* history: see task_apply
  writes        \* how often task_apply has succeeded, for the bound

taskVars == <<tasks, requests, made_from, contested, writes>>

NoRequest == [step |-> "idle"]
Exists(tab, t) == tab[t] \notin {NoTask, Purged}
NextFree(tab) == {t \in TaskId : tab[t] = NoTask /\ \A x \in 1 .. (t - 1) : tab[x] # NoTask}
Changed(row, changes) ==
  [f \in Fields |-> IF f \in DOMAIN changes THEN changes[f] ELSE row[f]]
Also(changes, more) ==
  [f \in DOMAIN changes \cup DOMAIN more |->
     IF f \in DOMAIN changes THEN changes[f] ELSE more[f]]
Nothing == [f \in {} |-> FALSE]

TaskInit ==
  /\ tasks = [t \in TaskId |-> NoTask]
  /\ requests = [r \in Requests |-> NoRequest]
  /\ made_from = [t \in TaskId |-> 0]
  /\ contested = {}
  /\ writes = 0

-----------------------------------------------------------------------------
(* Who may do what: domain/tasks/visibility.py *)

sight(u, row) ==
  CASE row.crm /\ CrmRole[u] \in {"admin", "member"} -> "edit"
    [] row.crm /\ CrmRole[u] = "viewer" ->
         IF row.assignee = u THEN "status_only" ELSE "read_only"
    [] ~row.crm /\ u \in {row.creator, row.assignee} -> "edit"
    [] OTHER -> "none"

may_delete(u, row) ==
  IF row.crm
  THEN \/ CrmRole[u] = "admin"
       \/ CrmRole[u] = "member" /\ row.creator = u
  ELSE row.creator = u

may_restore(u, row) ==
  IF row.crm THEN CrmRole[u] = "admin" ELSE row.creator = u

MayBeGiven(u, crm) == crm => CrmRole[u] # "none"

(* Mutant: task_apply leaves the right to write to Python. *)
AllowedOnce(u, row) == TRUE

(* What task_apply tests again, on the row as it is by then. *)
Allowed(u, row) ==
  IF row.crm THEN CrmRole[u] # "none" ELSE u \in {row.creator, row.assignee}

-----------------------------------------------------------------------------
(* Handing over: domain/tasks/delegation.py *)

is_new(row) == row.by \notin {Nobody, row.assignee} /\ row.accepted = Nobody

accepting(row, u) ==
  IF is_new(row) /\ row.assignee = u THEN [accepted |-> u] ELSE Nothing

(* Mutant: a new assignment keeps the old acceptance. *)
assignment_kept(assignee, u) == [by |-> IF assignee = u THEN Nobody ELSE u]

assignment(assignee, u) ==
  [by |-> IF assignee = u THEN Nobody ELSE u, accepted |-> Nobody]

hand_back_plan(row, u) ==
  [assignee |-> row.creator, by |-> u, accepted |-> Nobody]

-----------------------------------------------------------------------------
(* Recurrence: domain/tasks/recurrence.py, with a daily rule *)

(* Mutant: reopened and closed again, an occurrence makes another. *)
MakesNextEachTime(before, after) ==
  before.status \notin Closed /\ after.status \in Closed /\ after.recurs

MakesNext(before, after) ==
  /\ before.status \notin Closed /\ after.status \in Closed
  /\ after.recurs /\ ~before.spawned

next_occurrence(before, after) ==
  IF MakesNext(before, after)
  THEN {[after EXCEPT !.status = "open", !.due = @ + 1, !.spawned = FALSE,
                      !.creator = before.creator]}
  ELSE {}

(* The write that closes an occurrence also notes that it has its next one. *)
Closing(row, changes) ==
  IF MakesNext(row, Changed(row, changes))
  THEN Also(changes, [spawned |-> TRUE])
  ELSE changes

(* Mutant: no index on (series_id, due_on). *)
series_due_unchecked(tab, t, row) == FALSE

(* The unique index over the live rows of a series. *)
series_due_taken(tab, t, row) ==
  /\ row.series # 0 /\ ~row.deleted
  /\ \E x \in TaskId \ {t} :
       Exists(tab, x) /\ ~tab[x].deleted /\ tab[x].series = row.series /\ tab[x].due = row.due

-----------------------------------------------------------------------------
(* The handlers up to their write.  A handler that would change nothing, or *)
(* refuses, is no step.                                                     *)

create_task(u, crm, assignee) ==
  /\ Cardinality({t \in TaskId : tasks[t] # NoTask /\ made_from[t] = 0}) < MaxCreated
  /\ MayBeGiven(assignee, crm) /\ (crm => CrmRole[u] \in {"admin", "member"})
  /\ \E t \in NextFree(tasks) :
       tasks' = [tasks EXCEPT ![t] =
         [crm |-> crm, creator |-> u, assignee |-> assignee,
          by |-> assignment(assignee, u).by, accepted |-> Nobody, status |-> "open",
          due |-> 0, recurs |-> FALSE, series |-> 0, spawned |-> FALSE, deleted |-> FALSE]]
  /\ UNCHANGED <<requests, made_from, contested, writes>>

(* `_load`: the task is read, and the change decided on what was read. *)
Writes(r, u, t, changes, expects) ==
  LET row == tasks[t]
      closing == Closing(row, changes)
  IN /\ requests[r] = NoRequest /\ writes < MaxWrites
     /\ DOMAIN changes # {}
     /\ \A n \in next_occurrence(row, Changed(row, changes)) : n.due <= MaxDue
     /\ requests' = [requests EXCEPT ![r] =
          [step |-> "apply", user |-> u, task |-> t, changes |-> closing,
           following |-> next_occurrence(row, Changed(row, changes)),
           expects |-> expects, stale |-> FALSE]]
     /\ UNCHANGED <<tasks, made_from, contested, writes>>

Reads(u, t, deleted) ==
  Exists(tasks, t) /\ tasks[t].deleted = deleted /\ sight(u, tasks[t]) # "none"

MayChange(u, t, fields) ==
  \/ sight(u, tasks[t]) = "edit"
  \/ sight(u, tasks[t]) = "status_only" /\ fields \subseteq {"status"}

update_task(r, u, t, patch, expects) ==
  LET row == tasks[t]
      sent == {f \in DOMAIN patch : patch[f] # row[f]}
      values == [f \in sent |-> patch[f]]
      series == IF "recurs" \in sent /\ patch.recurs /\ row.series = 0
                THEN [series |-> t] ELSE Nothing
      handed == IF "assignee" \in sent THEN assignment(patch.assignee, u)
                ELSE accepting(row, u)
  IN /\ Reads(u, t, FALSE) /\ MayChange(u, t, DOMAIN patch)
     /\ sent # {}
     /\ "assignee" \in sent => MayBeGiven(patch.assignee, row.crm)
     /\ Writes(r, u, t, Also(values, Also(series, handed)), expects)

complete_task(r, u, t) ==
  /\ Reads(u, t, FALSE) /\ MayChange(u, t, {"status"})
  /\ tasks[t].status # "done"
  /\ Writes(r, u, t, Also([status |-> "done"], accepting(tasks[t], u)), FALSE)

reopen_task(r, u, t) ==
  /\ Reads(u, t, FALSE) /\ MayChange(u, t, {"status"})
  /\ tasks[t].status \in Closed
  /\ Writes(r, u, t, Also([status |-> "open"], accepting(tasks[t], u)), FALSE)

accept_task(r, u, t) ==
  /\ Reads(u, t, FALSE) /\ tasks[t].assignee = u
  /\ Writes(r, u, t, accepting(tasks[t], u), FALSE)

(* A comment or a link by its assignee accepts a New task in the same call. *)
add_comment(r, u, t) ==
  /\ Reads(u, t, FALSE) /\ sight(u, tasks[t]) \in {"edit", "status_only"}
  /\ Writes(r, u, t, accepting(tasks[t], u), FALSE)

hand_back(r, u, t) ==
  LET row == tasks[t]
  IN /\ Reads(u, t, FALSE) /\ MayChange(u, t, {"assignee"})
     /\ row.assignee = u /\ row.creator # u
     /\ MayBeGiven(row.creator, row.crm)
     /\ Writes(r, u, t, hand_back_plan(row, u), FALSE)

delete_task(r, u, t) ==
  /\ Reads(u, t, FALSE) /\ may_delete(u, tasks[t])
  /\ Writes(r, u, t, [deleted |-> TRUE], FALSE)

restore_task(r, u, t) ==
  /\ Reads(u, t, TRUE) /\ may_restore(u, tasks[t])
  /\ Writes(r, u, t, [deleted |-> FALSE], FALSE)

-----------------------------------------------------------------------------
(* The write *)

Closes(q, o) == /\ requests[q].step = "apply" /\ requests[q].task = o
                /\ requests[q].following # {}

(* An occurrence is contested once its date or its successor's is changed, *)
(* or the successor thrown away, while a request that closes it is in      *)
(* flight, or once it is moved by one that closes it again without naming  *)
(* the version it saw: the index on dates then no longer tells the two     *)
(* successors apart.                                                       *)
Contests(r, t) ==
  {o \in {t, made_from[t]} \ {0} : \E q \in Requests \ {r} : Closes(q, o)}
    \cup {o \in {t} : Closes(r, o) /\ tasks[o].spawned /\ ~requests[r].expects}

Accepted(q) ==
  LET row == tasks[q.task]
      written == [tasks EXCEPT ![q.task] = Changed(row, q.changes)]
  IN /\ Exists(tasks, q.task)
     /\ Allowed(q.user, row)
     /\ ~(q.expects /\ q.stale)
     /\ ~series_due_taken(written, q.task, written[q.task])
     /\ \A n \in q.following :
          Allowed(q.user, n) /\ ~series_due_taken(written, 0, [n EXCEPT !.deleted = FALSE])

task_apply(r) ==
  LET q == requests[r]
      new == IF q.following = {} THEN {} ELSE NextFree(tasks)
      row == Changed(tasks[q.task], q.changes)
      moved == row.due # tasks[q.task].due \/ row.deleted # tasks[q.task].deleted
  IN /\ q.step = "apply"
     /\ Accepted(q)
     /\ Cardinality(new) = Cardinality(q.following)
     /\ tasks' = [t \in TaskId |->
          IF t = q.task THEN row
          ELSE IF t \in new THEN CHOOSE n \in q.following : TRUE
          ELSE tasks[t]]
     /\ writes' = writes + 1
     /\ made_from' = [t \in TaskId |-> IF t \in new THEN q.task ELSE made_from[t]]
     /\ contested' = contested \cup (IF moved THEN Contests(r, q.task) ELSE {})
     /\ requests' = [x \in Requests |->
          IF x = r THEN NoRequest
          ELSE IF requests[x].step = "apply" /\ requests[x].task = q.task
          THEN [requests[x] EXCEPT !.stale = requests[x].expects] ELSE requests[x]]

(* The function raises and its transaction is rolled back. *)
task_apply_refused(r) ==
  /\ requests[r].step = "apply"
  /\ ~Accepted(requests[r])
  /\ requests' = [requests EXCEPT ![r] = NoRequest]
  /\ UNCHANGED <<tasks, made_from, contested, writes>>

(* The nightly purges: a task long in the Trash goes for good. *)
purge_deleted(t) ==
  /\ Exists(tasks, t) /\ tasks[t].deleted
  /\ tasks' = [tasks EXCEPT ![t] = Purged]
  /\ contested' = contested \cup {o \in {made_from[t]} \ {0} : \E q \in Requests : Closes(q, o)}
  /\ UNCHANGED <<requests, made_from, writes>>

Handlers(r, u, t) ==
  \/ \E p \in Patches : /\ Exists(tasks, t) /\ p.crm = tasks[t].crm
                       /\ update_task(r, u, t, p.values, p.expects)
  \/ complete_task(r, u, t)
  \/ reopen_task(r, u, t)
  \/ accept_task(r, u, t)
  \/ add_comment(r, u, t)
  \/ hand_back(r, u, t)
  \/ delete_task(r, u, t)
  \/ restore_task(r, u, t)

TaskNext ==
  \/ \E c \in Creations : create_task(c.creator, c.crm, c.assignee)
  \/ \E r \in Requests, u \in Users, t \in TaskId : Handlers(r, u, t)
  \/ \E r \in Requests : task_apply(r) \/ task_apply_refused(r)
  \/ \E t \in TaskId : purge_deleted(t)

TaskSpec == TaskInit /\ [][TaskNext]_taskVars

-----------------------------------------------------------------------------
(* Correctness *)

(* FR-TASK-RRULE-03: an occurrence makes its next one once.  Closed twice,  *)
(* by two requests at once, from either application, or reopened and closed *)
(* again, it still has one successor, unless dates moved under a request.   *)
OneSuccessor ==
  \A a, b \in TaskId :
    a # b /\ made_from[a] # 0 /\ made_from[a] = made_from[b] => made_from[a] \in contested

(* FR-TASK-DEL-02: a task without a workspace is no longer New only because *)
(* the person it was given to took it up, or its creator wrote to it: an    *)
(* answer of an earlier assignee that comes late does not take it up.       *)
TakenUpByAssignee ==
  \A t \in TaskId :
    Exists(tasks, t) /\ ~tasks[t].crm =>
      tasks[t].accepted \in {Nobody, tasks[t].assignee, tasks[t].creator}
=============================================================================
