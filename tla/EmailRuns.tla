------------------------------- MODULE EmailRuns -------------------------------
(***************************************************************************)
(* Who may sync e-mail when: the tick and the run an admin asks for, the   *)
(* single-flight lock in Redis, the runs written in crm_job_runs, and the  *)
(* page tasks, each of which enqueues the next one.  What a page does to   *)
(* its mailbox is MailboxSync's; here it comes to an end, has more to read *)
(* or fails.                                                               *)
(***************************************************************************)
EXTENDS Integers, Sequences, FiniteSets, SequencesExt, TLC

CONSTANTS
  Workspaces,        \* the workspaces, in the order they are listed
  BoxCounts,         \* how many active mailboxes each workspace may have
  MaxStarts,         \* bound: ticks and runs asked for
  MaxErrors          \* bound: processes killed and calls that fail

(* Every workspace is listed in a row, to be started one after the other.   *)
ASSUME RunsAssumption == Workspaces \in Seq(Range(Workspaces)) /\ MaxStarts \in Nat

Tokens == 1 .. MaxStarts
Free == 0

VARIABLES
  lock,              \* the token in Redis, or Free
  starts,            \* how many have tried to start
  starter,           \* for each token, how far its tick or request has come
  running,           \* the running, by token and workspace, whose outcome is "running"
  queue,             \* the queue crm_sync
  working,           \* the page task its one worker is busy with
  lapsed,            \* history: tokens whose lock ran out
  died,              \* history: tokens one of whose processes was killed
  upset,             \* history: tokens whose start was broken off by an error
  unowned,           \* history: tokens the lock was set for by a call that was seen to fail
  adrift,            \* history: tokens with a page queued by a call that was seen to fail
  errors

runVars == <<lock, starts, starter, running, queue, working, lapsed, died, upset, unowned,
             adrift, errors>>

Idle == [step |-> "idle"]

RunsStart(done) ==
  /\ lock = Free /\ starts = done
  /\ starter = [t \in Tokens |-> Idle]
  /\ running = {} /\ queue = << >> /\ working = Idle
  /\ lapsed = {} /\ died = {} /\ upset = {} /\ unowned = {} /\ adrift = {} /\ errors = 0

RunsInit == RunsStart(0)

-----------------------------------------------------------------------------
(* The lock, and the queue *)

(* Mutant: whoever is done deletes the lock. *)
ReleasedAlways(t) == Free

Released(t) == IF lock = t THEN Free ELSE lock

Begun(t, w) == running' = running \cup {<<t, w>>}
Finished(t, w) == running' = running \ {<<t, w>>}
Striking == errors < MaxErrors /\ errors' = errors + 1
Quiet == UNCHANGED errors

(* A publish that is seen to fail may have reached the broker all the same:  *)
(* nothing waits longer than a second for the answer (worker.py).            *)
PublishFails(task) ==
  /\ Striking
  /\ \/ UNCHANGED <<queue, adrift>>
     \/ queue' = Append(queue, task) /\ adrift' = adrift \cup {task.token}

Published(task) == queue' = Append(queue, task) /\ Quiet /\ UNCHANGED adrift

(* Mutant: the entry at which the plan stopped is taken for finished. *)
LeftAfter(plan, w) == SubSeq(plan, w + 1, Len(plan))

(* What is left of a plan that cannot be handed on. *)
Left(plan, w) == SubSeq(plan, w, Len(plan))

-----------------------------------------------------------------------------
(* tick and run_now: off workspaces are left out; then the lock. A call for *)
(* the lock that fails starts nothing, though the lock may be set by then.  *)

begin(t) ==
  \E ready \in {Workspaces} \cup {<<w>> : w \in Range(Workspaces)} :
    /\ starts < MaxStarts /\ t = starts + 1
    /\ starts' = t
    /\ \/ /\ lock = Free /\ lock' = t
          /\ starter' = [starter EXCEPT ![t] = [step |-> "start", todo |-> ready,
                                                plan |-> << >>]]
          /\ UNCHANGED unowned /\ Quiet
       \/ lock # Free /\ UNCHANGED <<lock, starter, unowned>> /\ Quiet
       \/ Striking /\ UNCHANGED <<lock, starter, unowned>>
       \/ /\ Striking /\ lock = Free /\ lock' = t
          /\ unowned' = unowned \cup {t} /\ UNCHANGED starter
    /\ UNCHANGED <<running, queue, working, lapsed, died, upset, adrift>>

StarterLeaves == UNCHANGED <<starts, working, lapsed, died, unowned>>

start_run(t) ==
  LET s == starter[t]
  IN /\ s.step = "start" /\ s.todo # << >>
     /\ Begun(t, Head(s.todo))
     /\ starter' = [starter EXCEPT ![t].step = "mailboxes"]
     /\ UNCHANGED <<lock, queue, upset, adrift>> /\ StarterLeaves /\ Quiet

(* Active mailboxes whose owner is an active member, none included. *)
start_mailboxes(t) ==
  LET s == starter[t]
      w == Head(s.todo)
  IN /\ s.step = "mailboxes"
     /\ \E n \in BoxCounts[w] :
          /\ IF n = 0 THEN Finished(t, w) ELSE UNCHANGED running
          /\ starter' = [starter EXCEPT ![t] =
               [step |-> "start", todo |-> Tail(s.todo),
                plan |-> IF n = 0 THEN s.plan ELSE Append(s.plan, [ws |-> w, boxes |-> n])]]
     /\ UNCHANGED <<lock, queue, upset, adrift>> /\ StarterLeaves /\ Quiet

(* Any other call of _start fails: the lock goes, the exception goes on. *)
start_raises(t) ==
  /\ starter[t].step \in {"start", "mailboxes", "unwind"} /\ Striking
  /\ lock' = Released(t)
  /\ upset' = upset \cup {t}
  /\ starter' = [starter EXCEPT ![t] = Idle]
  /\ UNCHANGED <<running, queue, adrift>> /\ StarterLeaves

FirstPage(t) == [token |-> t, plan |-> starter[t].plan, w |-> 1, m |-> 1]

start_enqueue(t) ==
  LET s == starter[t]
  IN /\ s.step = "start" /\ s.todo = << >>
     /\ \/ /\ s.plan = << >> /\ lock' = Released(t)
           /\ starter' = [starter EXCEPT ![t] = Idle]
           /\ UNCHANGED <<queue, adrift>> /\ Quiet
        \/ /\ s.plan # << >> /\ Published(FirstPage(t))
           /\ starter' = [starter EXCEPT ![t] = Idle]
           /\ UNCHANGED lock
        \/ /\ s.plan # << >> /\ PublishFails(FirstPage(t))
           /\ starter' = [starter EXCEPT ![t].step = "unwind"]
           /\ UNCHANGED lock
     /\ UNCHANGED <<running, upset>> /\ StarterLeaves

start_unwind(t) ==
  LET s == starter[t]
  IN /\ s.step = "unwind"
     /\ IF s.plan = << >>
        THEN /\ lock' = Released(t)
             /\ starter' = [starter EXCEPT ![t] = Idle]
             /\ UNCHANGED running
        ELSE /\ Finished(t, Head(s.plan).ws)
             /\ starter' = [starter EXCEPT ![t].plan = Tail(s.plan)]
             /\ UNCHANGED lock
     /\ UNCHANGED <<queue, upset, adrift>> /\ StarterLeaves /\ Quiet

(* Killed, or the release of the lock fails as well. *)
starter_dies(t) ==
  /\ starter[t] # Idle /\ Striking
  /\ died' = died \cup {t}
  /\ starter' = [starter EXCEPT ![t] = Idle]
  /\ UNCHANGED <<lock, starts, running, queue, working, lapsed, upset, unowned, adrift>>

-----------------------------------------------------------------------------
(* page: the worker takes one task after the other *)

PageLeaves == UNCHANGED <<starts, starter, lapsed, died, upset, unowned>>
Task == working.task
Entry == Task.plan[Task.w]

page_take ==
  /\ working = Idle /\ queue # << >>
  /\ working' = [step |-> "sync", task |-> Head(queue)]
  /\ queue' = Tail(queue)
  /\ UNCHANGED <<lock, running, adrift>> /\ PageLeaves /\ Quiet

At(step, w, m) == working' = [step |-> step, task |-> [Task EXCEPT !.w = w, !.m = m]]

(* More of this mailbox, the next one, or the end of the workspace's run,  *)
(* because it was the last one or because the page failed.                 *)
page_sync ==
  /\ working.step = "sync"
  /\ \/ At("next", Task.w, Task.m)
     \/ Task.m < Entry.boxes /\ At("next", Task.w, Task.m + 1)
     \/ At("finish", Task.w, Task.m)
  /\ UNCHANGED <<lock, running, queue, adrift>> /\ PageLeaves /\ Quiet

page_finish ==
  /\ working.step = "finish"
  /\ Finished(Task.token, Entry.ws)
  /\ IF Task.w < Len(Task.plan) THEN At("next", Task.w + 1, 1) ELSE At("release", Task.w, 1)
  /\ UNCHANGED <<lock, queue, adrift>> /\ PageLeaves /\ Quiet

page_next ==
  /\ working.step = "next"
  /\ \/ Published(Task) /\ working' = Idle
     \/ /\ PublishFails(Task)
        /\ working' = [step |-> "unwind", task |-> [Task EXCEPT !.plan = Left(@, Task.w)]]
  /\ UNCHANGED <<lock, running>> /\ PageLeaves

page_unwind ==
  /\ working.step = "unwind"
  /\ IF Task.plan = << >>
     THEN At("release", 1, 1) /\ UNCHANGED running
     ELSE /\ Finished(Task.token, Head(Task.plan).ws)
          /\ working' = [working EXCEPT !.task.plan = Tail(@)]
  /\ UNCHANGED <<lock, queue, adrift>> /\ PageLeaves /\ Quiet

page_release ==
  /\ working.step = "release"
  /\ lock' = Released(Task.token)
  /\ working' = Idle
  /\ UNCHANGED <<running, queue, adrift>> /\ PageLeaves /\ Quiet

(* Killed, or a call outside the handlers fails: the task is acknowledged *)
(* already and is not delivered again.                                    *)
page_dies ==
  /\ working # Idle /\ Striking
  /\ died' = died \cup {Task.token}
  /\ working' = Idle
  /\ UNCHANGED <<lock, starts, starter, running, queue, lapsed, upset, unowned, adrift>>

Busy(t) == starter[t] # Idle \/ (working # Idle /\ Task.token = t)

(* 900 seconds after the last page that extended it: no process runs that   *)
(* long by itself, but a page whose extension failed goes on without.        *)
lock_lapses ==
  /\ lock # Free
  /\ IF Busy(lock) THEN starter[lock] = Idle /\ Striking ELSE Quiet
  /\ lapsed' = lapsed \cup {lock}
  /\ lock' = Free
  /\ UNCHANGED <<starts, starter, running, queue, working, died, upset, unowned, adrift>>

RunsNext ==
  \/ \E t \in Tokens :
       \/ begin(t) \/ start_run(t) \/ start_mailboxes(t) \/ start_raises(t)
       \/ start_enqueue(t) \/ start_unwind(t) \/ starter_dies(t)
  \/ page_take \/ page_sync \/ page_finish \/ page_next \/ page_unwind
  \/ page_release \/ page_dies
  \/ lock_lapses

RunsSpec == RunsInit /\ [][RunsNext]_runVars

-----------------------------------------------------------------------------
(* Correctness *)

Underway(t) == Busy(t) \/ \E i \in DOMAIN queue : queue[i].token = t

(* FR-CRM-SYNC-04: at most one sync is under way, but for those whose lock  *)
(* ran out and those given up while a page of theirs was queued unnoticed;   *)
(* neither of them takes away the lock of another when it comes back.        *)
SingleFlight == Cardinality({t \in Tokens : Underway(t)} \ (lapsed \cup adrift)) <= 1

(* FR-CRM-JOB-01: a run is shown as running only while its sync is under     *)
(* way, and the lock is held only by a sync under way, whatever fails       *)
(* in between; a killed process, and an error that broke off the start,      *)
(* leave runs behind, and only a killed process, or a lock set by a call     *)
(* that was seen to fail, a lock. A page queued by a call that was seen to   *)
(* fail leaves neither.                                                      *)
NothingLeftBehind ==
  /\ \A run \in running : Underway(run[1]) \/ run[1] \in died \cup upset
  /\ lock # Free => Underway(lock) \/ lock \in died \cup unowned

(* Both at once: but for those said, no second sync starts beside one under *)
(* way, and none is kept from starting, or shown, by one that is over.      *)
OneSyncShown == SingleFlight /\ NothingLeftBehind
=============================================================================
