------------------------------- MODULE TaskLinks -------------------------------
(***************************************************************************)
(* The links of CRM tasks to CRM records, and the database transactions    *)
(* that change them: a person's link or unlink (task_apply), a company     *)
(* merge, the Trash and its purge.  PostgreSQL runs them at READ COMMITTED *)
(* : a statement sees what is committed, waits for the row locks it needs, *)
(* and the constraint trigger tasks_workspace_check judges each task at    *)
(* commit.  A CRM task must never be left without a link.                  *)
(***************************************************************************)
EXTENDS Integers, FiniteSets, Sequences, SequencesExt

CONSTANTS
  LinkTasks,       \* tasks of one workspace
  Records,         \* companies of that workspace, numbered by their ids
  InTrash,         \* the companies deleted 30 days ago, due to be purged
  Connections,        \* database sessions
  Links0           \* the links at the start

ASSUME LinksAssumption ==
  /\ IsFiniteSet(LinkTasks) /\ Records \subseteq Int
  /\ Links0 \subseteq LinkTasks \X Records
  /\ \A t \in LinkTasks : \E l \in Links0 : l[1] = t    \* every CRM task starts with a link

VARIABLES
  links,           \* committed: the pairs <<task, record>>
  task,            \* committed: "live", "trash" or "gone"
  merged,          \* committed: companies merged away
  tx               \* the open transaction of each session, or NoTx

linkVars == <<links, task, merged, tx>>

NoTx == [open |-> FALSE]

LinksInit ==
  /\ links = Links0
  /\ task = [t \in LinkTasks |-> "live"]
  /\ merged = {}
  /\ tx = [s \in Connections |-> NoTx]

Of(t) == {l \in links : l[1] = t}

-----------------------------------------------------------------------------
(* Row locks: FOR KEY SHARE, FOR NO KEY UPDATE and FOR UPDATE on a task; a *)
(* link or a company is held by one transaction at a time.                 *)

Conflicts(held, wanted) ==
  \/ held = "update" /\ wanted # "none"
  \/ held # "none" /\ wanted = "update"
  \/ held = "no_key" /\ wanted = "no_key"

Others(s) == {o \in Connections \ {s} : tx[o].open}
TaskHolders(s, t, mode) == {o \in Others(s) : Conflicts(tx[o].locks[t], mode)}
RowHolders(s, rows) == {o \in Others(s) : tx[o].rows \cap rows # {}}

Stronger(a, b) ==
  IF "update" \in {a, b} THEN "update"
  ELSE IF "no_key" \in {a, b} THEN "no_key" ELSE "key_share"

(* What a transaction sees: what is committed, and its own changes. *)
Seen(x) == (links \cup x.inserted) \ x.deleted
SeenTask(x, t) == IF t \in DOMAIN x.writes THEN x.writes[t] ELSE task[t]

(* Mutant: 047's check, which locks nothing. *)
JudgingUnlocked == "none"

(* 056's, which locks too much. *)
JudgingForUpdate == "update"

(* tasks_workspace_check of a removed link: 057. *)
Judging == "no_key"

(* The sessions a statement has to wait for. *)
WaitsFor(s, st) ==
  CASE st.do \in {"task", "drop"} -> TaskHolders(s, st.t, "update")
    [] st.do = "foreign_key" -> TaskHolders(s, st.t, "key_share")
    [] st.do = "judge" -> TaskHolders(s, st.t, Judging)
    [] st.do \in {"insert", "delete"} -> RowHolders(s, {<<st.t, st.r>>})
    [] st.do = "cascade" -> RowHolders(s, Of(st.t))
    [] st.do = "company" -> {o \in Others(s) : st.r \in tx[o].companies}
    [] OTHER -> {}

Task(do, t) == [do |-> do, t |-> t]
Link(do, t, r, must) == [do |-> do, t |-> t, r |-> r, must |-> must]
Company(r) == [do |-> "company", r |-> r]

-----------------------------------------------------------------------------
(* The transactions *)

Opens(s, todo) ==
  /\ ~tx[s].open
  /\ tx' = [tx EXCEPT ![s] =
       [open |-> TRUE, todo |-> todo, deferred |-> <<>>,
        inserted |-> {}, deleted |-> {}, writes |-> [t \in {} |-> "live"], merging |-> {},
        locks |-> [t \in LinkTasks |-> "none"], rows |-> {},
        companies |-> {}]]
  /\ UNCHANGED <<links, task, merged>>

(* Its assignee's first act on a New task accepts it, in the same call. *)
Accepting(accepts, t) == IF accepts THEN <<Task("task", t), Task("accept", t)>> ELSE <<>>

add_link(s, t, r, accepts) ==
  /\ task[t] = "live" /\ <<t, r>> \notin links
  /\ r \notin InTrash \cup merged
  /\ Opens(s, Accepting(accepts, t) \o <<Link("insert", t, r, TRUE)>>)

remove_link(s, t, r, accepts) ==
  /\ task[t] = "live" /\ <<t, r>> \in links
  /\ Cardinality(Of(t)) > 1
  /\ Opens(s, Accepting(accepts, t) \o <<Link("delete", t, r, TRUE)>>)

trash_task(s, t) ==
  /\ task[t] = "live"
  /\ Opens(s, <<Task("task", t), Task("to_trash", t)>>)

untrash_task(s, t) ==
  /\ task[t] = "trash" /\ Of(t) # {}
  /\ Opens(s, <<Task("task", t), Task("restore", t)>>)

(* crm_merge_companies: both companies in the order of their ids, then the *)
(* links of the one that goes, in the order of theirs.                     *)
merge(s, keep, gone) ==
  /\ keep # gone /\ {keep, gone} \cap (InTrash \cup merged) = {}
  /\ Opens(s,
       <<Company(Min({keep, gone})), Company(Max({keep, gone})),
         [do |-> "move", keep |-> keep, gone |-> gone]>>)

(* crm_purge of a company in the Trash. *)
purge_record(s, r) ==
  /\ r \in InTrash /\ \E t \in LinkTasks : <<t, r>> \in links
  /\ Opens(s, <<Company(r), [do |-> "unlink", r |-> r]>>)

(* crm_purge of a task in the Trash. *)
purge_task(s, t) ==
  /\ task[t] = "trash"
  /\ Opens(s, <<Task("task", t), Task("drop", t), Task("cascade", t)>>)

-----------------------------------------------------------------------------
(* The statements *)

Rest(x) == [x EXCEPT !.todo = Tail(@)]
Sets(x, t, state) == [x EXCEPT !.writes = [u \in DOMAIN @ \cup {t} |-> IF u = t THEN state ELSE @[u]]]
Locks(x, t, mode) == [x EXCEPT !.locks[t] = Stronger(@, mode)]
Defers(x, do, t) == [x EXCEPT !.deferred = Append(@, Task(do, t))]

(* The orders in which a loop may take the tasks it found. *)
Orders(found) == {o \in [1 .. Cardinality(found) -> found] : \A i, j \in DOMAIN o : o[i] = o[j] => i = j}

(* Each of their links is put on the one and taken off the other. *)
Moves(o, keep, gone) ==
  [i \in 1 .. (2 * Len(o)) |->
     IF i % 2 = 1 THEN Link("insert", o[(i + 1) \div 2], keep, FALSE)
     ELSE Link("delete", o[i \div 2], gone, FALSE)]

(* One statement after its locks are had; {} when the function raises. *)
After(x, st) ==
  CASE st.do = "task" ->
         IF SeenTask(x, st.t) = "gone" THEN {} ELSE {Locks(x, st.t, "update")}
    [] st.do = "accept" -> {Defers(x, "check", st.t)}
    [] st.do = "to_trash" -> {Defers(Sets(x, st.t, "trash"), "check", st.t)}
    [] st.do = "restore" -> {Defers(Sets(x, st.t, "live"), "check", st.t)}
    [] st.do = "company" -> {[x EXCEPT !.companies = @ \cup {st.r}]}
    [] st.do = "insert" ->
         IF <<st.t, st.r>> \in Seen(x)
         THEN IF st.must THEN {} ELSE {x}
         ELSE {[x EXCEPT !.rows = @ \cup {<<st.t, st.r>>},
                         !.inserted = @ \cup {<<st.t, st.r>>},
                         !.todo = <<Task("foreign_key", st.t)>> \o @]}
    [] st.do = "foreign_key" ->
         IF SeenTask(x, st.t) = "gone" THEN {}
         ELSE {Defers(Locks(x, st.t, "key_share"), "check", st.t)}
    [] st.do = "delete" ->
         IF <<st.t, st.r>> \notin Seen(x)
         THEN IF st.must THEN {} ELSE {x}
         ELSE {Defers([x EXCEPT !.rows = @ \cup {<<st.t, st.r>>},
                                !.deleted = @ \cup {<<st.t, st.r>>}], "judge", st.t)}
    [] st.do = "move" ->
         IF {st.keep, st.gone} \cap merged # {} THEN {}
         ELSE {[x EXCEPT !.merging = {st.gone},
                         !.todo = Moves(o, st.keep, st.gone)]
                 : o \in Orders({t \in LinkTasks : <<t, st.gone>> \in links})}
    [] st.do = "unlink" ->
         LET found == {t \in LinkTasks : <<t, st.r>> \in links}
         IN {[x EXCEPT !.todo = [i \in DOMAIN o |-> Link("delete", o[i], st.r, FALSE)]
                                \o [i \in DOMAIN o |-> Task("bare", o[i])]]
               : o \in Orders(found)}
    [] st.do = "bare" ->
         IF {l \in Seen(x) : l[1] = st.t} = {}
         THEN {[x EXCEPT !.todo = <<Task("drop", st.t), Task("cascade", st.t)>> \o @]}
         ELSE {x}
    [] st.do = "drop" ->
         IF SeenTask(x, st.t) = "gone" THEN {x} ELSE {Sets(Locks(x, st.t, "update"), st.t, "gone")}
    [] st.do = "cascade" ->
         {[x EXCEPT !.deleted = @ \cup Of(st.t), !.inserted = {l \in @ : l[1] # st.t}]}

statement(s) ==
  LET x == tx[s] IN
  /\ x.open /\ x.todo # <<>>
  /\ WaitsFor(s, Head(x.todo)) = {}
  /\ IF After(Rest(x), Head(x.todo)) = {}
     THEN tx' = [tx EXCEPT ![s] = NoTx]
     ELSE \E y \in After(Rest(x), Head(x.todo)) : tx' = [tx EXCEPT ![s] = y]
  /\ UNCHANGED <<links, task, merged>>

(* A live CRM task needs a link; one that is gone or in the Trash does not. *)
Stands(x, t) == SeenTask(x, t) = "live" => \E l \in Seen(x) : l[1] = t

(* The deferred triggers, in the order their statements ran. *)
tasks_workspace_check(s) ==
  LET x == tx[s]
      st == Head(x.deferred)
      y == [x EXCEPT !.deferred = Tail(@)]
  IN /\ x.open /\ x.todo = <<>> /\ x.deferred # <<>>
     /\ WaitsFor(s, st) = {}
     /\ tx' = [tx EXCEPT ![s] =
          IF ~Stands(x, st.t) THEN NoTx
          ELSE IF st.do = "judge" /\ Judging # "none" /\ SeenTask(x, st.t) # "gone"
          THEN Locks(y, st.t, Judging) ELSE y]
     /\ UNCHANGED <<links, task, merged>>

commit(s) ==
  LET x == tx[s] IN
  /\ x.open /\ x.todo = <<>> /\ x.deferred = <<>>
  /\ links' = Seen(x)
  /\ task' = [t \in LinkTasks |-> SeenTask(x, t)]
  /\ merged' = merged \cup x.merging
  /\ tx' = [tx EXCEPT ![s] = NoTx]

Upcoming(s) == IF tx[s].todo # <<>> THEN Head(tx[s].todo) ELSE Head(tx[s].deferred)
Waiting(s) ==
  IF tx[s].open /\ (tx[s].todo # <<>> \/ tx[s].deferred # <<>>)
  THEN WaitsFor(s, Upcoming(s)) ELSE {}

Deadlocked(s, o) == o \in Waiting(s) /\ s \in Waiting(o)

(* PostgreSQL finds the two waiting for each other and ends one of them. *)
deadlock_detected(s) ==
  /\ \E o \in Connections : Deadlocked(s, o)
  /\ tx' = [tx EXCEPT ![s] = NoTx]
  /\ UNCHANGED <<links, task, merged>>

Begins(s) ==
  \/ \E t \in LinkTasks, r \in Records, a \in BOOLEAN : add_link(s, t, r, a)
  \/ \E t \in LinkTasks, r \in Records, a \in BOOLEAN : remove_link(s, t, r, a)
  \/ \E t \in LinkTasks : trash_task(s, t)
  \/ \E t \in LinkTasks : untrash_task(s, t)
  \/ \E keep, gone \in Records : merge(s, keep, gone)
  \/ \E r \in Records : purge_record(s, r)
  \/ \E t \in LinkTasks : purge_task(s, t)

LinksNext ==
  \E s \in Connections :
    \/ Begins(s)
    \/ statement(s)
    \/ tasks_workspace_check(s)
    \/ commit(s)
    \/ deadlock_detected(s)

LinksSpec == LinksInit /\ [][LinksNext]_linkVars

-----------------------------------------------------------------------------
(* Correctness *)

(* FR-TASK-DATA-05: a live CRM task always has a link: not two unlinks at   *)
(* once, not an unlink beside a merge or a purge, nor a restore beside one, *)
(* leaves it with none.                                                     *)
CrmTaskKeepsLink == \A t \in LinkTasks : task[t] = "live" => Of(t) # {}

(* Migration 057: transactions that put links on one task and take others   *)
(* off it do not deadlock, nor do merges of the same companies.  Two that   *)
(* do: one took the row of the task before it reached for a link (an        *)
(* acceptance with an unlink, a purged task), or both go through many tasks *)
(* (a merge, a purged company) and wait at two different ones.              *)
TaskFirst(s) ==
  /\ Upcoming(s).do \in {"insert", "delete", "cascade"}
  /\ tx[s].locks[Upcoming(s).t] = "update"

ManyTasks(s) == tx[s].companies # {}

OnlyKnownDeadlocks ==
  \A s, o \in Connections :
    Deadlocked(s, o) =>
      \/ TaskFirst(s) \/ TaskFirst(o)
      \/ ManyTasks(s) /\ ManyTasks(o) /\ Upcoming(s).t # Upcoming(o).t
=============================================================================
