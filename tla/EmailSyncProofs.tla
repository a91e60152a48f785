----------------------------- MODULE EmailSyncProofs ----------------------------
(***************************************************************************)
(* The CRM's e-mail sync: the single-flight lock and the runs shown as     *)
(* running, for any number of ticks, workspaces, mailboxes and errors; and *)
(* the copy kept of a mailbox, for any messages, labels, changes in Gmail, *)
(* changes by an admin and pages cut short.                                *)
(***************************************************************************)
EXTENDS EmailRuns, MailboxSync, FiniteSetTheorems, SequenceTheorems,
        WellFoundedInduction, TLAPS

Spaces == Range(Workspaces)
Entries == [ws : Spaces, boxes : UNION {BoxCounts[w] : w \in Spaces}]
Tasks == [token : Tokens, plan : Seq(Entries), w : Nat \ {0}, m : Nat]

RunsTypeOK ==
  /\ lock \in Tokens \cup {Free} /\ starts \in Nat
  /\ starter \in [Tokens -> {Idle} \cup
       [step : {"start", "mailboxes", "unwind"}, todo : Seq(Spaces), plan : Seq(Entries)]]
  /\ running \subseteq Tokens \X Spaces
  /\ queue \in Seq(Tasks)
  /\ working \in {Idle} \cup
       [step : {"sync", "next", "finish", "unwind", "release"}, task : Tasks]

-----------------------------------------------------------------------------
(* The inductive invariant *)

(* Whose page the worker is busy with, and whose pages wait.                *)
Works(t) == working # Idle /\ working.task.token = t
Waits(t) == \E i \in DOMAIN queue : queue[i].token = t

(* A token that is still to be given out is nowhere in use.                 *)
FreshUnused ==
  /\ \A t \in Tokens : t > starts => ~Underway(t)
  /\ \A run \in running : run[1] <= starts

(* A sync is in one place: with its starter, in the queue or at the worker, *)
(* unless a page of it was queued unnoticed.                                *)
OnePlace ==
  /\ \A t \in Tokens \ adrift : starter[t] # Idle => ~Works(t) /\ ~Waits(t)
  /\ \A t \in Tokens \ adrift : Works(t) => ~Waits(t)
  /\ \A i, j \in DOMAIN queue :
       queue[i].token = queue[j].token /\ queue[i].token \notin adrift => i = j

(* Who is under way has the lock, unless it ran out or was let go of with a *)
(* page queued unnoticed; and the lock is not left with one who is not,     *)
(* unless it was killed or does not know of it.                             *)
LockKept ==
  /\ \A t \in Tokens : Underway(t) /\ t \notin lapsed \cup adrift => lock = t
  /\ lock # Free => Underway(lock) \/ lock \in died \cup unowned

(* The plan still holds the workspace at `from` or later.                   *)
Planned(plan, from, w) == \E i \in DOMAIN plan : i >= from /\ plan[i].ws = w

(* A run that is shown is one that the sync still has before it, wherever   *)
(* it is: each place that gives the sync up has finished the runs it had.   *)
StarterHas(t, w) ==
  /\ starter[t] # Idle
  /\ \/ Planned(starter[t].plan, 1, w)
     \/ starter[t].step = "mailboxes" /\ w = Head(starter[t].todo)
QueueHas(t, w) ==
  \E i \in DOMAIN queue : queue[i].token = t /\ Planned(queue[i].plan, queue[i].w, w)
WorkerHas(t, w) ==
  /\ Works(t)
  /\ \/ working.step \in {"sync", "next", "finish"} /\ Planned(Task.plan, Task.w, w)
     \/ working.step = "unwind" /\ Planned(Task.plan, 1, w)
Before(t, w) == StarterHas(t, w) \/ QueueHas(t, w) \/ WorkerHas(t, w)

RunsBefore == \A run \in running : run[1] \notin died \cup upset => Before(run[1], run[2])

(* Whoever looks at the mailboxes of a workspace has one to look at.        *)
TodoLeft ==
  \A t \in Tokens :
    starter[t] # Idle /\ starter[t].step = "mailboxes" => starter[t].todo # << >>

RunsInv == RunsTypeOK /\ FreshUnused /\ OnePlace /\ LockKept /\ RunsBefore /\ TodoLeft

-----------------------------------------------------------------------------
(* Lemmas about plans *)

LEMMA PlannedAppend ==
  ASSUME NEW plan \in Seq(Entries), NEW e \in Entries, NEW w
  PROVE  /\ Append(plan, e) \in Seq(Entries)
         /\ Planned(plan, 1, w) => Planned(Append(plan, e), 1, w)
         /\ e.ws = w => Planned(Append(plan, e), 1, w)
<1>1. /\ Append(plan, e) \in Seq(Entries) /\ Len(plan) \in Nat
      /\ DOMAIN plan = 1 .. Len(plan) /\ DOMAIN Append(plan, e) = 1 .. Len(plan) + 1
      /\ \A i \in 1 .. Len(plan) : Append(plan, e)[i] = plan[i]
      /\ Append(plan, e)[Len(plan) + 1] = e
  OBVIOUS
<1> QED BY <1>1 DEF Planned

LEMMA PlannedTail ==
  ASSUME NEW plan \in Seq(Entries), plan # << >>, NEW w, Planned(plan, 1, w), w # Head(plan).ws
  PROVE  Planned(Tail(plan), 1, w)
<1>1. PICK i \in DOMAIN plan : i >= 1 /\ plan[i].ws = w
  BY DEF Planned
<1>2. i # 1 /\ i - 1 \in DOMAIN Tail(plan) /\ Tail(plan)[i - 1] = plan[i] /\ i - 1 >= 1
  BY <1>1
<1> QED BY <1>1, <1>2 DEF Planned

LEMMA PlannedNext ==
  ASSUME NEW plan \in Seq(Entries), NEW k \in Nat, NEW w, Planned(plan, k, w), w # plan[k].ws
  PROVE  k < Len(plan) /\ Planned(plan, k + 1, w)
BY DEF Planned

LEMMA PlannedLeft ==
  ASSUME NEW plan \in Seq(Entries), NEW k \in Nat \ {0}
  PROVE  /\ Left(plan, k) \in Seq(Entries)
         /\ \A w : Planned(plan, k, w) => Planned(Left(plan, k), 1, w)
<1>1. /\ Left(plan, k) \in Seq(Entries)
      /\ \A i \in DOMAIN plan :
           i >= k => /\ i - k + 1 \in DOMAIN Left(plan, k)
                     /\ Left(plan, k)[i - k + 1] = plan[i]
  BY DEF Left
<1>2. ASSUME NEW w, Planned(plan, k, w) PROVE Planned(Left(plan, k), 1, w)
  <2>1. PICK i \in DOMAIN plan : i >= k /\ plan[i].ws = w
    BY <1>2 DEF Planned
  <2>2. i - k + 1 >= 1
    BY <2>1
  <2> QED BY <1>1, <2>1, <2>2 DEF Planned
<1> QED BY <1>1, <1>2

-----------------------------------------------------------------------------
(* Who is under way, and where *)

Starting(t) == starter[t] # Idle

LEMMA UnderwaySomewhere ==
  ASSUME NEW t \in Tokens
  PROVE  /\ Underway(t) <=> Starting(t) \/ Works(t) \/ Waits(t)
         /\ Underway(t)' <=> Starting(t)' \/ Works(t)' \/ Waits(t)'
BY DEF Underway, Busy, Starting, Works, Waits, Task

(* The starter's record, and the worker's, by the step they are at.         *)
LEMMA StarterAt ==
  ASSUME RunsTypeOK, NEW t \in Tokens, starter[t].step # "idle"
  PROVE  /\ Starting(t) /\ starter[t].todo \in Seq(Spaces) /\ starter[t].plan \in Seq(Entries)
         /\ starter[t].step \in {"start", "mailboxes", "unwind"}
         /\ starter[t] \in [step : {"start", "mailboxes", "unwind"}, todo : Seq(Spaces),
                            plan : Seq(Entries)]
BY DEF RunsTypeOK, Starting, Idle

LEMMA WorkerAt ==
  ASSUME RunsTypeOK, working.step # "idle" \/ working # Idle
  PROVE  /\ working # Idle /\ Task \in Tasks /\ Works(Task.token)
         /\ Task.token \in Tokens /\ Task.plan \in Seq(Entries)
         /\ Task.w \in Nat \ {0} /\ Task.m \in Nat
         /\ working.step \in {"sync", "next", "finish", "unwind", "release"}
         /\ working = [step |-> working.step, task |-> Task]
BY DEF RunsTypeOK, Works, Idle, Task, Tasks

(* One that has a page queued unnoticed is adrift. *)
QueueKept(t) ==
  \/ UNCHANGED <<queue, adrift>>
  \/ \E task \in Tasks :
       task.token = t /\ queue' = Append(queue, task) /\ adrift' = adrift \cup {t}

LEMMA Queued ==
  ASSUME queue \in Seq(Tasks), NEW task \in Tasks, queue' = Append(queue, task)
  PROVE  /\ queue' \in Seq(Tasks) /\ Len(queue) \in Nat
         /\ DOMAIN queue = 1 .. Len(queue) /\ DOMAIN queue' = 1 .. Len(queue) + 1
         /\ \A i \in 1 .. Len(queue) : queue'[i] = queue[i]
         /\ queue'[Len(queue) + 1] = task
         /\ \A x \in Tokens : Waits(x)' <=> Waits(x) \/ x = task.token
         /\ \A x, w : QueueHas(x, w) => QueueHas(x, w)'
         /\ \A w : Planned(task.plan, task.w, w) => QueueHas(task.token, w)'
<1>1. /\ queue' \in Seq(Tasks) /\ Len(queue) \in Nat
      /\ DOMAIN queue = 1 .. Len(queue) /\ DOMAIN queue' = 1 .. Len(queue) + 1
      /\ \A i \in 1 .. Len(queue) : queue'[i] = queue[i]
      /\ queue'[Len(queue) + 1] = task
  OBVIOUS
<1>2. \A x \in Tokens : Waits(x)' <=> Waits(x) \/ x = task.token
  BY <1>1 DEF Waits
<1>3. \A x, w : QueueHas(x, w) => QueueHas(x, w)'
  BY <1>1 DEF QueueHas
<1>4. Len(queue) + 1 \in DOMAIN queue'
  BY <1>1
<1>5. \A w : Planned(task.plan, task.w, w) => QueueHas(task.token, w)'
  BY <1>1, <1>4 DEF QueueHas
<1> QED BY <1>1, <1>2, <1>3, <1>5

LEMMA KeptQueue ==
  ASSUME RunsInv, NEW t \in Tokens, QueueKept(t)
  PROVE  /\ queue' \in Seq(Tasks) /\ adrift \subseteq adrift'
         /\ \A x \in Tokens : Waits(x) => Waits(x)'
         /\ \A x \in Tokens : Waits(x)' => Waits(x) \/ x = t
         /\ Waits(t)' => Waits(t) \/ t \in adrift'
         /\ \A x, w : QueueHas(x, w) => QueueHas(x, w)'
         /\ \A i, j \in DOMAIN queue' :
              queue'[i].token = queue'[j].token /\ queue'[i].token \notin adrift' => i = j
<1>1. queue \in Seq(Tasks)
  BY DEF RunsInv, RunsTypeOK
<1>2. CASE UNCHANGED <<queue, adrift>>
  BY <1>1, <1>2 DEF RunsInv, OnePlace, Waits, QueueHas
<1>3. CASE ~UNCHANGED <<queue, adrift>>
  <2>1. PICK task \in Tasks :
          task.token = t /\ queue' = Append(queue, task) /\ adrift' = adrift \cup {t}
    BY <1>3 DEF QueueKept
  <2>2. /\ queue' \in Seq(Tasks) /\ Len(queue) \in Nat
        /\ DOMAIN queue = 1 .. Len(queue) /\ DOMAIN queue' = 1 .. Len(queue) + 1
        /\ \A i \in 1 .. Len(queue) : queue'[i] = queue[i]
        /\ queue'[Len(queue) + 1] = task
        /\ \A x \in Tokens : Waits(x)' <=> Waits(x) \/ x = t
        /\ \A x, w : QueueHas(x, w) => QueueHas(x, w)'
    BY <1>1, <2>1, Queued
  <2>3. \A i, j \in DOMAIN queue' :
          queue'[i].token = queue'[j].token /\ queue'[i].token \notin adrift' => i = j
    <3> SUFFICES ASSUME NEW i \in DOMAIN queue', NEW j \in DOMAIN queue',
                        queue'[i].token = queue'[j].token, queue'[i].token \notin adrift'
                 PROVE  i = j
      OBVIOUS
    <3>1. i # Len(queue) + 1 /\ j # Len(queue) + 1
      BY <2>1, <2>2
    <3>2. i \in DOMAIN queue /\ j \in DOMAIN queue
      BY <2>2, <3>1
    <3> QED BY <2>1, <2>2, <3>2 DEF RunsInv, OnePlace
  <2> QED BY <2>1, <2>2, <2>3
<1> QED BY <1>2, <1>3

(* Nobody comes, nobody goes: places are exchanged at most. *)
LEMMA NobodyLeaves ==
  ASSUME RunsInv, UNCHANGED <<lock, starts, lapsed, died, unowned>>, adrift \subseteq adrift',
         \A x \in Tokens : Underway(x)' <=> Underway(x),
         NEW t \in Tokens, Underway(t), \A run \in running' : run \in running \/ run[1] = t
  PROVE  FreshUnused' /\ LockKept'
<1>1. LockKept'
  BY DEF RunsInv, RunsTypeOK, LockKept
<1>2. t <= starts
  BY DEF RunsInv, RunsTypeOK, FreshUnused, Tokens
<1>3. FreshUnused'
  BY <1>2 DEF RunsInv, FreshUnused
<1> QED BY <1>1, <1>3

(* One goes, and lets go of the lock or is killed; if it is adrift, it may   *)
(* still be somewhere else.                                                  *)
LEMMA OneLeaves ==
  ASSUME RunsInv, NEW t \in Tokens, UNCHANGED <<starts, lapsed, unowned, adrift>>,
         \A x \in Tokens \ {t} : Underway(x)' <=> Underway(x),
         Underway(t)' => Underway(t) /\ t \in adrift,
         \/ lock' = Released(t) /\ died' = died
         \/ lock' = lock /\ died' = died \cup {t},
         running' \subseteq running
  PROVE  FreshUnused' /\ LockKept'
<1>1. ASSUME NEW x \in Tokens, Underway(x)', x \notin lapsed' \cup adrift' PROVE lock' = x
  <2>1. x # t /\ Underway(x)
    BY <1>1
  <2> QED BY <1>1, <2>1 DEF RunsInv, LockKept, Released
<1>2. ASSUME lock' # Free PROVE Underway(lock)' \/ lock' \in died' \cup unowned'
  <2>1. lock' = lock /\ (lock = t => t \in died')
    BY <1>2 DEF Released
  <2>2. lock \in Tokens /\ (Underway(lock) \/ lock \in died \cup unowned)
    BY <1>2, <2>1 DEF RunsInv, RunsTypeOK, LockKept
  <2> QED BY <2>1, <2>2
<1>3. FreshUnused'
  BY DEF RunsInv, FreshUnused
<1> QED BY <1>1, <1>2, <1>3 DEF LockKept

(* The steps of a starter leave the worker alone, and the other starters. *)
LEMMA StarterAlone ==
  ASSUME NEW t \in Tokens, UNCHANGED working,
         \A x \in Tokens \ {t} : starter'[x] = starter[x]
  PROVE  /\ \A x \in Tokens : Works(x)' <=> Works(x)
         /\ \A x, w : WorkerHas(x, w)' <=> WorkerHas(x, w)
         /\ \A x \in Tokens \ {t} : Starting(x)' <=> Starting(x)
         /\ \A x \in Tokens \ {t} : \A w : StarterHas(x, w)' <=> StarterHas(x, w)
BY DEF Works, Starting, StarterHas, WorkerHas, Task

(* A starter that stays at work: it may begin a run of its own or end one,  *)
(* or have its first page queued unnoticed.                                 *)
LEMMA StarterGoesOn ==
  ASSUME RunsInv, NEW t \in Tokens, starter[t].step # "idle",
         UNCHANGED <<lock, starts, lapsed, died, unowned, working>>, QueueKept(t),
         starter' \in [Tokens -> {Idle} \cup
           [step : {"start", "mailboxes", "unwind"}, todo : Seq(Spaces), plan : Seq(Entries)]],
         \A x \in Tokens \ {t} : starter'[x] = starter[x], starter'[t].step # "idle",
         \A run \in running' : run \in running \/ run[1] = t,
         running' \subseteq Tokens \X Spaces, upset \subseteq upset',
         starter'[t].step = "mailboxes" => starter'[t].todo # << >>,
         \A w : <<t, w>> \in running' /\ (<<t, w>> \in running => StarterHas(t, w)) =>
                StarterHas(t, w)'
  PROVE  RunsInv'
<1>1. Starting(t) /\ Starting(t)'
  BY StarterAt DEF RunsInv, Starting, Idle
<1>2. /\ queue' \in Seq(Tasks) /\ adrift \subseteq adrift'
      /\ \A x \in Tokens : Waits(x) => Waits(x)'
      /\ \A x \in Tokens : Waits(x)' => Waits(x) \/ x = t
      /\ Waits(t)' => Waits(t) \/ t \in adrift'
      /\ \A x, w : QueueHas(x, w) => QueueHas(x, w)'
      /\ \A i, j \in DOMAIN queue' :
           queue'[i].token = queue'[j].token /\ queue'[i].token \notin adrift' => i = j
  BY KeptQueue
<1>3. RunsTypeOK'
  BY <1>2 DEF RunsInv, RunsTypeOK
<1>4. \A x \in Tokens : (Works(x)' <=> Works(x)) /\ (Starting(x)' <=> Starting(x))
  BY <1>1, StarterAlone
<1>5. OnePlace'
  <2>1. \A x \in Tokens : x \notin adrift' => (Waits(x)' <=> Waits(x)) /\ x \notin adrift
    BY <1>2
  <2> QED BY <1>2, <1>4, <2>1 DEF RunsInv, OnePlace, Starting
<1>6. \A x \in Tokens : Underway(x)' <=> Underway(x)
  BY <1>1, <1>2, <1>4, UnderwaySomewhere
<1>7. Underway(t)
  BY <1>1, UnderwaySomewhere
<1>8. FreshUnused' /\ LockKept'
  BY <1>2, <1>6, <1>7, NobodyLeaves
<1>9. RunsBefore'
  <2> SUFFICES ASSUME NEW run \in running', run[1] \notin died \cup upset
               PROVE  Before(run[1], run[2])'
    BY DEF RunsBefore
  <2>1. run[1] \in Tokens /\ run = <<run[1], run[2]>>
    OBVIOUS
  <2>2. run \in running => Before(run[1], run[2])
    BY DEF RunsInv, RunsBefore
  <2>3. CASE run[1] = t
    BY <1>2, <2>1, <2>2, <2>3, StarterAlone DEF Before
  <2>4. CASE run[1] # t
    BY <1>2, <2>1, <2>2, <2>4, StarterAlone DEF Before
  <2> QED BY <2>3, <2>4
<1>10. TodoLeft'
  BY DEF RunsInv, TodoLeft
<1> QED BY <1>3, <1>5, <1>8, <1>9, <1>10 DEF RunsInv

(* A starter that is done or gives up: no run of its own is left. *)
LEMMA StarterLeavesOff ==
  ASSUME RunsInv, NEW t \in Tokens, starter[t].step # "idle",
         UNCHANGED <<starts, lapsed, unowned, adrift, queue, working, running>>,
         starter' = [starter EXCEPT ![t] = Idle],
         \/ lock' = Released(t) /\ died' = died
         \/ lock' = lock /\ died' = died \cup {t},
         upset \subseteq upset',
         \A w : <<t, w>> \in running /\ StarterHas(t, w) => t \in upset' \cup died'
  PROVE  RunsInv'
<1>1. Starting(t) /\ ~Starting(t)' /\ \A x \in Tokens \ {t} : starter'[x] = starter[x]
  BY StarterAt DEF RunsInv, RunsTypeOK, Starting
<1>2. RunsTypeOK'
  BY DEF RunsInv, RunsTypeOK, Released
<1>3. /\ \A x \in Tokens : (Works(x)' <=> Works(x)) /\ (Waits(x)' <=> Waits(x))
      /\ \A x \in Tokens \ {t} : Starting(x)' <=> Starting(x)
      /\ \A x, w : QueueHas(x, w)' <=> QueueHas(x, w)
  BY <1>1, StarterAlone DEF Waits, QueueHas
<1>4. OnePlace'
  BY <1>1, <1>3 DEF RunsInv, OnePlace, Starting
<1>5. \A x \in Tokens \ {t} : Underway(x)' <=> Underway(x)
  BY <1>3, UnderwaySomewhere
<1>6. Underway(t)' => Underway(t) /\ t \in adrift
  BY <1>1, <1>3, UnderwaySomewhere DEF RunsInv, OnePlace, Starting
<1>7. FreshUnused' /\ LockKept'
  BY <1>5, <1>6, OneLeaves
<1>8. RunsBefore'
  <2> SUFFICES ASSUME NEW run \in running, run[1] \notin died' \cup upset'
               PROVE  Before(run[1], run[2])'
    BY DEF RunsBefore
  <2>1. run[1] \in Tokens /\ run = <<run[1], run[2]>>
    BY DEF RunsInv, RunsTypeOK
  <2>2. Before(run[1], run[2])
    BY DEF RunsInv, RunsBefore
  <2>3. run[1] = t => ~StarterHas(run[1], run[2])
    BY <2>1
  <2> QED BY <1>1, <1>3, <2>1, <2>2, <2>3, StarterAlone DEF Before
<1>9. TodoLeft'
  BY <1>1 DEF RunsInv, TodoLeft, Starting
<1> QED BY <1>2, <1>4, <1>7, <1>8, <1>9 DEF RunsInv

-----------------------------------------------------------------------------
(* The steps of a starter *)

LEMMA BeginStep ==
  ASSUME RunsInv, NEW t \in Tokens, begin(t)
  PROVE  RunsInv'
<1>1. PICK ready \in {Workspaces} \cup {<<w>> : w \in Range(Workspaces)} :
        /\ t = starts + 1 /\ starts' = t
        /\ UNCHANGED <<running, queue, working, lapsed, died, upset, adrift>>
        /\ \/ /\ lock = Free /\ lock' = t
              /\ starter' = [starter EXCEPT ![t] = [step |-> "start", todo |-> ready,
                                                    plan |-> << >>]]
              /\ UNCHANGED unowned
           \/ UNCHANGED <<lock, starter, unowned>>
           \/ lock = Free /\ lock' = t /\ unowned' = unowned \cup {t} /\ UNCHANGED starter
  BY DEF begin
<1>2. ready \in Seq(Spaces)
  <2>1. Workspaces \in Seq(Spaces)
    BY RunsAssumption DEF Spaces
  <2>2. \A w \in Spaces : <<w>> \in Seq(Spaces)
    OBVIOUS
  <2> QED BY <1>1, <2>1, <2>2 DEF Spaces
<1>3. ~Underway(t) /\ ~Starting(t) /\ ~Works(t) /\ ~Waits(t)
  BY <1>1, UnderwaySomewhere DEF RunsInv, RunsTypeOK, FreshUnused
<1>4. \A x \in Tokens \ {t} : starter'[x] = starter[x]
  BY <1>1 DEF RunsInv, RunsTypeOK
<1>5. \/ /\ lock = Free /\ lock' = t /\ UNCHANGED unowned
         /\ starter'[t] = [step |-> "start", todo |-> ready, plan |-> << >>]
      \/ /\ UNCHANGED starter
         /\ \/ UNCHANGED <<lock, unowned>>
            \/ lock = Free /\ lock' = t /\ unowned' = unowned \cup {t}
  BY <1>1 DEF RunsInv, RunsTypeOK
<1>6. RunsTypeOK'
  <2>1. << >> \in Seq(Entries)
    OBVIOUS
  <2>2. [step |-> "start", todo |-> ready, plan |-> << >>] \in
          [step : {"start", "mailboxes", "unwind"}, todo : Seq(Spaces), plan : Seq(Entries)]
    BY <1>2, <2>1
  <2>3. starts' \in Nat /\ lock' \in Tokens \cup {Free}
    BY <1>1 DEF RunsInv, RunsTypeOK
  <2>4. starter' \in [Tokens -> {Idle} \cup
          [step : {"start", "mailboxes", "unwind"}, todo : Seq(Spaces), plan : Seq(Entries)]]
    BY <1>1, <2>2 DEF RunsInv, RunsTypeOK
  <2> QED BY <1>1, <2>3, <2>4 DEF RunsInv, RunsTypeOK
<1>7. \A x \in Tokens : (Works(x)' <=> Works(x)) /\ (Waits(x)' <=> Waits(x))
  BY <1>1 DEF Works, Waits
<1>8. \A x \in Tokens \ {t} : Starting(x)' <=> Starting(x)
  BY <1>4 DEF Starting
<1>9. OnePlace'
  BY <1>1, <1>3, <1>7, <1>8 DEF RunsInv, OnePlace, Starting
<1>10. \A x \in Tokens \ {t} : Underway(x)' <=> Underway(x)
  BY <1>7, <1>8, UnderwaySomewhere
<1>11. FreshUnused'
  BY <1>1, <1>10 DEF RunsInv, RunsTypeOK, FreshUnused, Tokens
<1>12. LockKept'
  <2>1. ASSUME lock = Free PROVE \A x \in Tokens \ {t} : Underway(x) => x \in lapsed \cup adrift
    BY <2>1 DEF RunsInv, LockKept, Tokens, Free
  <2>2. CASE /\ lock = Free /\ lock' = t /\ UNCHANGED unowned
             /\ starter'[t] = [step |-> "start", todo |-> ready, plan |-> << >>]
    <3>1. Underway(t)'
      BY <2>2, UnderwaySomewhere DEF Starting, Idle
    <3> QED BY <1>1, <1>10, <2>1, <2>2, <3>1 DEF LockKept
  <2>3. CASE /\ UNCHANGED starter
             /\ \/ UNCHANGED <<lock, unowned>>
                \/ lock = Free /\ lock' = t /\ unowned' = unowned \cup {t}
    <3>1. ~Underway(t)'
      BY <1>3, <1>7, <2>3, UnderwaySomewhere DEF Starting
    <3>2. CASE UNCHANGED <<lock, unowned>>
      <4>1. lock' # Free => lock \in Tokens /\ (Underway(lock) \/ lock \in died \cup unowned)
        BY <3>2 DEF RunsInv, RunsTypeOK, LockKept
      <4>2. \A x \in Tokens : Underway(x)' <=> Underway(x)
        BY <1>3, <1>10, <3>1
      <4> QED BY <1>1, <3>2, <4>1, <4>2 DEF RunsInv, LockKept
    <3>3. CASE lock = Free /\ lock' = t /\ unowned' = unowned \cup {t}
      BY <1>1, <1>10, <2>1, <3>1, <3>3 DEF LockKept
    <3> QED BY <2>3, <3>2, <3>3
  <2> QED BY <1>5, <2>2, <2>3
<1>13. RunsBefore'
  <2>1. \A run \in running : run[1] \in Tokens \ {t}
    BY <1>1 DEF RunsInv, RunsTypeOK, FreshUnused
  <2>2. \A x \in Tokens \ {t} : \A w : Before(x, w)' <=> Before(x, w)
    BY <1>1, <1>4, StarterAlone DEF Before, QueueHas
  <2> QED BY <1>1, <2>1, <2>2 DEF RunsInv, RunsBefore
<1>14. TodoLeft'
  BY <1>1, <1>4, <1>5 DEF RunsInv, TodoLeft
<1> QED BY <1>6, <1>9, <1>11, <1>12, <1>13, <1>14 DEF RunsInv

LEMMA StartRunStep ==
  ASSUME RunsInv, NEW t \in Tokens, start_run(t)
  PROVE  RunsInv'
<1> DEFINE s == starter[t]
<1>1. /\ s.step = "start" /\ s.todo # << >>
      /\ running' = running \cup {<<t, Head(s.todo)>>}
      /\ starter' = [starter EXCEPT ![t].step = "mailboxes"]
      /\ UNCHANGED <<lock, starts, lapsed, died, queue, working, upset, unowned, adrift>>
  BY DEF start_run, Begun, StarterLeaves
<1>2. Starting(t) /\ s.todo \in Seq(Spaces) /\ s.plan \in Seq(Entries)
  BY <1>1, StarterAt DEF RunsInv
<1>3. /\ starter'[t] = [step |-> "mailboxes", todo |-> s.todo, plan |-> s.plan]
      /\ \A x \in Tokens \ {t} : starter'[x] = starter[x]
      /\ starter' \in [Tokens -> {Idle} \cup
           [step : {"start", "mailboxes", "unwind"}, todo : Seq(Spaces), plan : Seq(Entries)]]
  BY <1>1, <1>2 DEF RunsInv, RunsTypeOK, Idle
<1>4. Head(s.todo) \in Spaces
  BY <1>1, <1>2
<1>5. \A w : <<t, w>> \in running' /\ (<<t, w>> \in running => StarterHas(t, w)) =>
             StarterHas(t, w)'
  BY <1>1, <1>3 DEF StarterHas, Idle
<1>6. running' \subseteq Tokens \X Spaces
  BY <1>1, <1>4 DEF RunsInv, RunsTypeOK
<1>7. \A run \in running' : run \in running \/ run[1] = t
  BY <1>1
<1>8. starter'[t].step = "mailboxes" /\ starter'[t].todo # << >>
  BY <1>1, <1>3
<1> QED BY <1>1, <1>3, <1>5, <1>6, <1>7, <1>8, StarterGoesOn DEF QueueKept

LEMMA StartMailboxesStep ==
  ASSUME RunsInv, NEW t \in Tokens, start_mailboxes(t)
  PROVE  RunsInv'
<1> DEFINE s == starter[t]
           w == Head(s.todo)
<1>1. PICK n \in BoxCounts[w] :
        /\ s.step = "mailboxes"
        /\ running' = IF n = 0 THEN running \ {<<t, w>>} ELSE running
        /\ starter' = [starter EXCEPT ![t] =
             [step |-> "start", todo |-> Tail(s.todo),
              plan |-> IF n = 0 THEN s.plan ELSE Append(s.plan, [ws |-> w, boxes |-> n])]]
        /\ UNCHANGED <<lock, starts, lapsed, died, queue, working, upset, unowned, adrift>>
  BY DEF start_mailboxes, Finished, StarterLeaves
<1>2. Starting(t) /\ s.todo \in Seq(Spaces) /\ s.todo # << >> /\ s.plan \in Seq(Entries)
  BY <1>1, StarterAt DEF RunsInv, TodoLeft, Starting
<1>3. w \in Spaces /\ Tail(s.todo) \in Seq(Spaces)
  BY <1>2
<1>4. [ws |-> w, boxes |-> n] \in Entries
  BY <1>3 DEF Entries
<1> DEFINE plan == IF n = 0 THEN s.plan ELSE Append(s.plan, [ws |-> w, boxes |-> n])
<1>5. /\ plan \in Seq(Entries)
      /\ \A v : Planned(s.plan, 1, v) => Planned(plan, 1, v)
      /\ n # 0 => Planned(plan, 1, w)
  BY <1>2, <1>4, PlannedAppend
<1> HIDE DEF plan
<1>6. /\ starter'[t] = [step |-> "start", todo |-> Tail(s.todo), plan |-> plan]
      /\ \A x \in Tokens \ {t} : starter'[x] = starter[x]
      /\ starter' \in [Tokens -> {Idle} \cup
           [step : {"start", "mailboxes", "unwind"}, todo : Seq(Spaces), plan : Seq(Entries)]]
  BY <1>1, <1>3, <1>5 DEF RunsInv, RunsTypeOK, plan
<1>7. \A v : <<t, v>> \in running' /\ (<<t, v>> \in running => StarterHas(t, v)) =>
             StarterHas(t, v)'
  <2> SUFFICES ASSUME NEW v, <<t, v>> \in running', <<t, v>> \in running => StarterHas(t, v)
               PROVE  StarterHas(t, v)'
    OBVIOUS
  <2>1. StarterHas(t, v) /\ (n = 0 => v # w)
    BY <1>1
  <2>2. Planned(s.plan, 1, v) \/ v = w
    BY <2>1 DEF StarterHas
  <2>3. Planned(plan, 1, v)
    BY <1>5, <2>1, <2>2
  <2> QED BY <1>6, <2>3 DEF StarterHas, Idle
<1>8. running' \subseteq Tokens \X Spaces /\ \A run \in running' : run \in running \/ run[1] = t
  BY <1>1 DEF RunsInv, RunsTypeOK
<1>9. starter'[t].step = "start"
  BY <1>6
<1> QED BY <1>1, <1>6, <1>7, <1>8, <1>9, StarterGoesOn DEF QueueKept

LEMMA StartUnwindStep ==
  ASSUME RunsInv, NEW t \in Tokens, start_unwind(t)
  PROVE  RunsInv'
<1> DEFINE s == starter[t]
<1>1. s.step = "unwind" /\ UNCHANGED <<starts, lapsed, died, queue, working, upset, unowned, adrift>>
  BY DEF start_unwind, StarterLeaves
<1>2. Starting(t) /\ s.todo \in Seq(Spaces) /\ s.plan \in Seq(Entries)
  BY <1>1, StarterAt DEF RunsInv
<1>3. \A v : StarterHas(t, v) => Planned(s.plan, 1, v)
  BY <1>1 DEF StarterHas
<1>4. CASE s.plan = << >>
  <2>1. lock' = Released(t) /\ starter' = [starter EXCEPT ![t] = Idle] /\ UNCHANGED running
    BY <1>4 DEF start_unwind
  <2>2. \A v : ~Planned(s.plan, 1, v)
    BY <1>4 DEF Planned
  <2>3. \A v : ~StarterHas(t, v)
    BY <1>3, <2>2
  <2> QED BY <1>1, <2>1, <2>3, StarterLeavesOff
<1>5. CASE s.plan # << >>
  <2>1. /\ running' = running \ {<<t, Head(s.plan).ws>>} /\ UNCHANGED lock
        /\ starter' = [starter EXCEPT ![t].plan = Tail(s.plan)]
    BY <1>5 DEF start_unwind, Finished
  <2>2. Tail(s.plan) \in Seq(Entries)
    BY <1>2, <1>5
  <2>3. /\ starter'[t] = [step |-> "unwind", todo |-> s.todo, plan |-> Tail(s.plan)]
        /\ \A x \in Tokens \ {t} : starter'[x] = starter[x]
        /\ starter' \in [Tokens -> {Idle} \cup
             [step : {"start", "mailboxes", "unwind"}, todo : Seq(Spaces), plan : Seq(Entries)]]
    <3>1. \A p : [starter[t] EXCEPT !.plan = p] = [step |-> "unwind", todo |-> s.todo, plan |-> p]
      BY <1>1, StarterAt DEF RunsInv
    <3> DEFINE row == [step |-> "unwind", todo |-> s.todo, plan |-> Tail(s.plan)]
    <3>2. row \in [step : {"start", "mailboxes", "unwind"}, todo : Seq(Spaces),
                   plan : Seq(Entries)]
      BY <1>2, <2>2
    <3>3. starter' = [starter EXCEPT ![t] = row]
      BY <2>1, <3>1
    <3> HIDE DEF row
    <3>4. /\ starter'[t] = row
          /\ \A x \in Tokens \ {t} : starter'[x] = starter[x]
          /\ starter' \in [Tokens -> {Idle} \cup
               [step : {"start", "mailboxes", "unwind"}, todo : Seq(Spaces), plan : Seq(Entries)]]
      BY <3>2, <3>3 DEF RunsInv, RunsTypeOK
    <3> QED BY <3>4 DEF row
  <2>4. \A v : <<t, v>> \in running' /\ (<<t, v>> \in running => StarterHas(t, v)) =>
               StarterHas(t, v)'
    <3> SUFFICES ASSUME NEW v, <<t, v>> \in running', <<t, v>> \in running => StarterHas(t, v)
                 PROVE  StarterHas(t, v)'
      OBVIOUS
    <3>1. Planned(s.plan, 1, v) /\ v # Head(s.plan).ws
      BY <1>3, <2>1
    <3>2. Planned(Tail(s.plan), 1, v)
      BY <1>2, <1>5, <3>1, PlannedTail
    <3> QED BY <2>3, <3>2 DEF StarterHas, Idle
  <2>5. running' \subseteq Tokens \X Spaces /\ \A run \in running' : run \in running \/ run[1] = t
    BY <2>1 DEF RunsInv, RunsTypeOK
  <2>6. starter'[t].step = "unwind"
    BY <2>3
  <2> QED BY <1>1, <2>1, <2>3, <2>4, <2>5, <2>6, StarterGoesOn DEF QueueKept
<1> QED BY <1>4, <1>5

LEMMA StarterStops ==
  ASSUME RunsInv, NEW t \in Tokens, start_raises(t) \/ starter_dies(t)
  PROVE  RunsInv'
<1>1. starter[t].step # "idle"
  BY DEF start_raises, starter_dies, RunsInv, RunsTypeOK, Idle
<1>2. /\ starter' = [starter EXCEPT ![t] = Idle]
      /\ UNCHANGED <<starts, lapsed, unowned, adrift, queue, working, running>>
      /\ upset \subseteq upset' /\ t \in upset' \cup died'
      /\ \/ lock' = Released(t) /\ died' = died
         \/ lock' = lock /\ died' = died \cup {t}
  BY DEF start_raises, starter_dies, StarterLeaves
<1> QED BY <1>1, <1>2, StarterLeavesOff

LEMMA StartEnqueueStep ==
  ASSUME RunsInv, NEW t \in Tokens, start_enqueue(t)
  PROVE  RunsInv'
<1> DEFINE s == starter[t]
           task == FirstPage(t)
<1>1. s.step = "start" /\ UNCHANGED <<starts, lapsed, died, unowned, working, running, upset>>
  BY DEF start_enqueue, StarterLeaves
<1>2. Starting(t) /\ s.todo \in Seq(Spaces) /\ s.plan \in Seq(Entries)
  BY <1>1, StarterAt DEF RunsInv
<1>3. \A v : StarterHas(t, v) => Planned(s.plan, 1, v)
  BY <1>1 DEF StarterHas
<1>4. task \in Tasks /\ task.token = t /\ task.plan = s.plan /\ task.w = 1
  BY <1>2 DEF Tasks, FirstPage
<1>5. CASE /\ s.plan = << >> /\ lock' = Released(t)
           /\ starter' = [starter EXCEPT ![t] = Idle] /\ UNCHANGED <<queue, adrift>>
  <2>1. \A v : ~Planned(s.plan, 1, v)
    BY <1>5 DEF Planned
  <2>2. \A v : ~StarterHas(t, v)
    BY <1>3, <2>1
  <2> QED BY <1>1, <1>5, <2>2, StarterLeavesOff
<1>6. CASE /\ starter' = [starter EXCEPT ![t].step = "unwind"] /\ UNCHANGED lock
           /\ \/ UNCHANGED <<queue, adrift>>
              \/ queue' = Append(queue, task) /\ adrift' = adrift \cup {task.token}
  <2>1. /\ starter'[t] = [step |-> "unwind", todo |-> s.todo, plan |-> s.plan]
        /\ \A x \in Tokens \ {t} : starter'[x] = starter[x]
        /\ starter' \in [Tokens -> {Idle} \cup
             [step : {"start", "mailboxes", "unwind"}, todo : Seq(Spaces), plan : Seq(Entries)]]
    <3>1. [starter[t] EXCEPT !.step = "unwind"] =
            [step |-> "unwind", todo |-> s.todo, plan |-> s.plan]
      BY <1>1, StarterAt DEF RunsInv
    <3> QED BY <1>2, <1>6, <3>1 DEF RunsInv, RunsTypeOK
  <2>2. \A v : StarterHas(t, v) => StarterHas(t, v)'
    BY <1>3, <2>1 DEF StarterHas, Idle
  <2>3. running' \subseteq Tokens \X Spaces
    BY <1>1 DEF RunsInv, RunsTypeOK
  <2>4. starter'[t].step = "unwind" /\ running' = running
    BY <1>1, <2>1
  <2>5. QueueKept(t)
    BY <1>4, <1>6 DEF QueueKept
  <2> QED BY <1>1, <1>6, <2>1, <2>2, <2>3, <2>4, <2>5, StarterGoesOn
<1>7. CASE /\ queue' = Append(queue, task) /\ UNCHANGED <<lock, adrift>>
           /\ starter' = [starter EXCEPT ![t] = Idle]
  <2>1. /\ queue' \in Seq(Tasks) /\ Len(queue) \in Nat
        /\ DOMAIN queue = 1 .. Len(queue) /\ DOMAIN queue' = 1 .. Len(queue) + 1
        /\ \A i \in 1 .. Len(queue) : queue'[i] = queue[i]
        /\ queue'[Len(queue) + 1] = task
        /\ \A x \in Tokens : Waits(x)' <=> Waits(x) \/ x = t
        /\ \A x, w : QueueHas(x, w) => QueueHas(x, w)'
        /\ \A w : Planned(s.plan, 1, w) => QueueHas(t, w)'
    <3>1. queue \in Seq(Tasks)
      BY DEF RunsInv, RunsTypeOK
    <3> HIDE DEF task
    <3> QED BY <1>4, <1>7, <3>1, Queued
  <2>2. ~Starting(t)' /\ \A x \in Tokens \ {t} : starter'[x] = starter[x]
    BY <1>7 DEF RunsInv, RunsTypeOK, Starting
  <2>3. /\ \A x \in Tokens : Works(x)' <=> Works(x)
        /\ \A x \in Tokens \ {t} : Starting(x)' <=> Starting(x)
    BY <1>1, <2>2, StarterAlone
  <2>4. t \notin adrift => ~Works(t) /\ ~Waits(t)
    BY <1>2 DEF RunsInv, OnePlace, Starting
  <2>5. RunsTypeOK'
    BY <1>1, <1>7, <2>1 DEF RunsInv, RunsTypeOK
  <2>6. OnePlace'
    <3>1. \A i, j \in DOMAIN queue' :
            queue'[i].token = queue'[j].token /\ queue'[i].token \notin adrift' => i = j
      BY <1>4, <1>7, <2>1, <2>4 DEF RunsInv, OnePlace, Waits
    <3> QED BY <1>7, <2>1, <2>2, <2>3, <2>4, <3>1 DEF RunsInv, OnePlace, Starting
  <2>7. \A x \in Tokens : Underway(x)' <=> Underway(x)
    BY <1>2, <2>1, <2>2, <2>3, UnderwaySomewhere
  <2>8. FreshUnused' /\ LockKept'
    <3>1. UNCHANGED <<lock, starts, lapsed, died, unowned>> /\ running' = running
      BY <1>1, <1>7
    <3>2. Underway(t) /\ adrift \subseteq adrift'
      BY <1>2, <1>7, UnderwaySomewhere
    <3> QED BY <2>7, <3>1, <3>2, NobodyLeaves
  <2>9. RunsBefore'
    <3> SUFFICES ASSUME NEW run \in running, run[1] \notin died \cup upset
                 PROVE  Before(run[1], run[2])'
      BY <1>1 DEF RunsBefore
    <3>1. run[1] \in Tokens /\ Before(run[1], run[2])
      BY DEF RunsInv, RunsTypeOK, RunsBefore
    <3>2. CASE run[1] = t
      BY <1>1, <1>3, <2>1, <2>2, <3>1, <3>2, StarterAlone DEF Before
    <3>3. CASE run[1] # t
      BY <1>1, <2>1, <2>2, <3>1, <3>3, StarterAlone DEF Before
    <3> QED BY <3>2, <3>3
  <2>10. TodoLeft'
    BY <2>2 DEF RunsInv, TodoLeft, Starting
  <2> QED BY <2>5, <2>6, <2>8, <2>9, <2>10 DEF RunsInv
<1> QED BY <1>5, <1>6, <1>7 DEF start_enqueue, Published, PublishFails

-----------------------------------------------------------------------------
(* The steps of the worker, and the lock that runs out *)

(* A task, and what it is with parts of it exchanged. *)
LEMMA TaskTyped ==
  ASSUME NEW task \in Tasks
  PROVE  /\ task.token \in Tokens /\ task.plan \in Seq(Entries)
         /\ task.w \in Nat \ {0} /\ task.m \in Nat
BY DEF Tasks

LEMMA TaskAt ==
  ASSUME NEW task \in Tasks
  PROVE  \A v, n : [task EXCEPT !.w = v, !.m = n] =
           [token |-> task.token, plan |-> task.plan, w |-> v, m |-> n]
<1> SUFFICES ASSUME NEW v, NEW n
             PROVE  [task EXCEPT !.w = v, !.m = n] =
                      [token |-> task.token, plan |-> task.plan, w |-> v, m |-> n]
  OBVIOUS
<1>1. [task EXCEPT !.w = v, !.m = n] = [[task EXCEPT !.w = v] EXCEPT !.m = n]
  OBVIOUS
<1>2. [task EXCEPT !.w = v] =
        [token |-> task.token, plan |-> task.plan, w |-> v, m |-> task.m]
  BY DEF Tasks
<1>3. [[token |-> task.token, plan |-> task.plan, w |-> v, m |-> task.m] EXCEPT !.m = n] =
        [token |-> task.token, plan |-> task.plan, w |-> v, m |-> n]
  OBVIOUS
<1> QED BY <1>1, <1>2, <1>3

LEMMA TaskPlan ==
  ASSUME NEW task \in Tasks, NEW plan
  PROVE  [task EXCEPT !.plan = plan] =
           [token |-> task.token, plan |-> plan, w |-> task.w, m |-> task.m]
BY DEF Tasks

(* The worker at another step, with its task changed as said. *)
LEMMA WorkingWith ==
  ASSUME NEW task \in Tasks, NEW step \in {"sync", "next", "finish", "unwind", "release"},
         NEW plan \in Seq(Entries), NEW w \in Nat \ {0}, NEW m \in Nat,
         working' = [step |-> step,
                     task |-> [token |-> task.token, plan |-> plan, w |-> w, m |-> m]]
  PROVE  /\ working'.step = step /\ working'.task.token = task.token
         /\ working'.task.plan = plan /\ working'.task.w = w
         /\ working' \in [step : {"sync", "next", "finish", "unwind", "release"}, task : Tasks]
BY DEF Tasks

(* It leaves the starters alone. *)
LEMMA WorkerAlone ==
  ASSUME UNCHANGED starter, NEW t,
         \A x \in Tokens \ {t} : ~Works(x) /\ ~Works(x)'
  PROVE  /\ \A x \in Tokens : Starting(x)' <=> Starting(x)
         /\ \A x, w : StarterHas(x, w)' <=> StarterHas(x, w)
         /\ \A x \in Tokens \ {t} : \A w : ~WorkerHas(x, w)
BY DEF Starting, StarterHas, WorkerHas

(* What the worker still has before it.                                      *)
LEMMA WorkersRuns ==
  ASSUME NEW w, WorkerHas(Task.token, w)
  PROVE  \/ working.step \in {"sync", "next", "finish"} /\ Planned(Task.plan, Task.w, w)
         \/ working.step = "unwind" /\ Planned(Task.plan, 1, w)
BY DEF WorkerHas

(* The worker goes on with its task, or has a page of it queued unnoticed. *)
LEMMA WorkerGoesOn ==
  ASSUME RunsInv, working # Idle, UNCHANGED <<lock, starts, starter, lapsed, died, upset, unowned>>,
         QueueKept(Task.token),
         working' \in [step : {"sync", "next", "finish", "unwind", "release"}, task : Tasks],
         working'.task.token = Task.token, running' \subseteq running,
         \A w : <<Task.token, w>> \in running' /\ WorkerHas(Task.token, w) =>
           \/ working'.step \in {"sync", "next", "finish"}
              /\ Planned(working'.task.plan, working'.task.w, w)
           \/ working'.step = "unwind" /\ Planned(working'.task.plan, 1, w)
  PROVE  RunsInv'
<1> PICK t \in Tokens : t = Task.token
  BY WorkerAt DEF RunsInv
<1>1. Works(t) /\ Works(t)'
  BY WorkerAt DEF RunsInv, Works, Idle
<1>2. \A x \in Tokens : x # t => ~Works(x) /\ ~Works(x)'
  BY <1>1 DEF Works, Task
<1>3. /\ queue' \in Seq(Tasks) /\ adrift \subseteq adrift'
      /\ \A x \in Tokens : Waits(x) => Waits(x)'
      /\ \A x \in Tokens : Waits(x)' => Waits(x) \/ x = t
      /\ Waits(t)' => Waits(t) \/ t \in adrift'
      /\ \A x, w : QueueHas(x, w) => QueueHas(x, w)'
      /\ \A i, j \in DOMAIN queue' :
           queue'[i].token = queue'[j].token /\ queue'[i].token \notin adrift' => i = j
  BY KeptQueue
<1>4. RunsTypeOK'
  BY <1>3 DEF RunsInv, RunsTypeOK
<1>5. \A x \in Tokens : (Works(x)' <=> Works(x)) /\ (Starting(x)' <=> Starting(x))
  BY <1>1, <1>2, WorkerAlone
<1>6. OnePlace'
  <2>1. \A x \in Tokens : x \notin adrift' => (Waits(x)' <=> Waits(x)) /\ x \notin adrift
    BY <1>3
  <2> QED BY <1>3, <1>5, <2>1 DEF RunsInv, OnePlace, Starting
<1>7. \A x \in Tokens : Underway(x)' <=> Underway(x)
  BY <1>1, <1>3, <1>5, UnderwaySomewhere
<1>8. FreshUnused' /\ LockKept'
  <2>1. Underway(t)
    BY <1>1, UnderwaySomewhere
  <2>2. \A run \in running' : run \in running \/ run[1] = t
    OBVIOUS
  <2> QED BY <1>3, <1>7, <2>1, <2>2, NobodyLeaves
<1>9. RunsBefore'
  <2> SUFFICES ASSUME NEW run \in running', run[1] \notin died \cup upset
               PROVE  Before(run[1], run[2])'
    BY DEF RunsBefore
  <2>1. run \in running /\ run[1] \in Tokens /\ run = <<run[1], run[2]>>
    BY DEF RunsInv, RunsTypeOK
  <2>2. Before(run[1], run[2])
    BY <2>1 DEF RunsInv, RunsBefore
  <2>3. CASE run[1] = t
    <3>1. WorkerHas(t, run[2]) => WorkerHas(t, run[2])'
      BY <1>1, <2>1, <2>3 DEF WorkerHas, Task
    <3> QED BY <1>2, <1>3, <2>2, <2>3, <3>1, WorkerAlone DEF Before
  <2>4. CASE run[1] # t
    BY <1>2, <1>3, <2>1, <2>2, <2>4, WorkerAlone DEF Before
  <2> QED BY <2>3, <2>4
<1>10. TodoLeft'
  BY DEF RunsInv, TodoLeft
<1> QED BY <1>4, <1>6, <1>8, <1>9, <1>10 DEF RunsInv

(* The worker is done with its sync, or killed. *)
LEMMA WorkerLeavesOff ==
  ASSUME RunsInv, working # Idle, working' = Idle,
         UNCHANGED <<starts, starter, lapsed, upset, unowned, adrift, queue, running>>,
         \/ lock' = Released(Task.token) /\ died' = died
         \/ lock' = lock /\ died' = died \cup {Task.token},
         \A w : WorkerHas(Task.token, w) => Task.token \in upset \cup died'
  PROVE  RunsInv'
<1> PICK t \in Tokens : t = Task.token
  BY WorkerAt DEF RunsInv
<1>1. Works(t)
  BY WorkerAt DEF RunsInv
<1>2. /\ \A x \in Tokens : ~Works(x)'
      /\ \A x \in Tokens : x # t => ~Works(x)
  BY <1>1 DEF Works, Task
<1>3. /\ \A x \in Tokens : (Waits(x)' <=> Waits(x)) /\ (Starting(x)' <=> Starting(x))
      /\ \A x, w : QueueHas(x, w)' <=> QueueHas(x, w)
  BY <1>2, WorkerAlone DEF Waits, QueueHas
<1>4. RunsTypeOK'
  BY <1>1 DEF RunsInv, RunsTypeOK, Released
<1>5. OnePlace'
  BY <1>2, <1>3 DEF RunsInv, OnePlace
<1>6. \A x \in Tokens \ {t} : Underway(x)' <=> Underway(x)
  BY <1>2, <1>3, UnderwaySomewhere
<1>7. Underway(t)' => Underway(t) /\ t \in adrift
  BY <1>1, <1>2, <1>3, UnderwaySomewhere DEF RunsInv, OnePlace, Starting
<1>8. FreshUnused' /\ LockKept'
  BY <1>6, <1>7, OneLeaves
<1>9. RunsBefore'
  <2> SUFFICES ASSUME NEW run \in running, run[1] \notin died' \cup upset
               PROVE  Before(run[1], run[2])'
    BY DEF RunsBefore
  <2>1. run[1] \in Tokens /\ Before(run[1], run[2]) /\ run[1] \notin died
    BY DEF RunsInv, RunsTypeOK, RunsBefore
  <2>2. ~WorkerHas(run[1], run[2])
    BY <1>2, <2>1, WorkerAlone
  <2> QED BY <1>2, <1>3, <2>1, <2>2, WorkerAlone DEF Before
<1>10. TodoLeft'
  BY DEF RunsInv, TodoLeft
<1> QED BY <1>4, <1>5, <1>8, <1>9, <1>10 DEF RunsInv

LEMMA PageSyncStep ==
  ASSUME RunsInv, page_sync
  PROVE  RunsInv'
<1>1. /\ working.step = "sync"
      /\ UNCHANGED <<lock, starts, starter, lapsed, died, upset, unowned, adrift, queue, running>>
  BY DEF page_sync, PageLeaves
<1>2. working # Idle
  BY <1>1 DEF Idle
<1>3. PICK task \in Tasks : task = Task
  BY <1>2, WorkerAt DEF RunsInv
<1>4. PICK step \in {"next", "finish"}, m \in {task.m, task.m + 1} :
        working' = [step |-> step, task |-> [task EXCEPT !.w = task.w, !.m = m]]
  BY <1>1, <1>3 DEF page_sync, At
<1>5. working' = [step |-> step,
                  task |-> [token |-> task.token, plan |-> task.plan, w |-> task.w, m |-> m]]
  BY <1>4, TaskAt
<1>6. m \in Nat
  BY TaskTyped
<1>7. /\ working'.step = step /\ working'.task.token = task.token
      /\ working'.task.plan = task.plan /\ working'.task.w = task.w
      /\ working' \in [step : {"sync", "next", "finish", "unwind", "release"}, task : Tasks]
  BY <1>5, <1>6, TaskTyped, WorkingWith
<1>8. \A w : <<Task.token, w>> \in running' /\ WorkerHas(Task.token, w) =>
        Planned(working'.task.plan, working'.task.w, w)
  BY <1>1, <1>2, <1>3, <1>7, WorkersRuns
<1> QED BY <1>1, <1>2, <1>3, <1>7, <1>8, WorkerGoesOn DEF QueueKept

LEMMA PageFinishStep ==
  ASSUME RunsInv, page_finish
  PROVE  RunsInv'
<1>1. /\ working.step = "finish"
      /\ UNCHANGED <<lock, starts, starter, lapsed, died, upset, unowned, adrift, queue>>
  BY DEF page_finish, PageLeaves
<1>2. working # Idle
  BY <1>1 DEF Idle
<1>3. PICK task \in Tasks : task = Task
  BY <1>2, WorkerAt DEF RunsInv
<1>4. /\ running' = running \ {<<task.token, task.plan[task.w].ws>>}
      /\ IF task.w < Len(task.plan)
         THEN working' = [step |-> "next", task |-> [task EXCEPT !.w = task.w + 1, !.m = 1]]
         ELSE working' = [step |-> "release", task |-> [task EXCEPT !.w = task.w, !.m = 1]]
  BY <1>3 DEF page_finish, Finished, Entry, At
<1>5. ASSUME NEW w, <<task.token, w>> \in running', WorkerHas(task.token, w)
      PROVE  task.w < Len(task.plan) /\ Planned(task.plan, task.w + 1, w)
  <2>1. Planned(task.plan, task.w, w) /\ w # task.plan[task.w].ws
    BY <1>1, <1>2, <1>3, <1>4, <1>5, WorkersRuns
  <2> QED BY <2>1, PlannedNext, TaskTyped
<1>6. CASE task.w < Len(task.plan)
  <2>1. working' = [step |-> "next", task |->
          [token |-> task.token, plan |-> task.plan, w |-> task.w + 1, m |-> 1]]
    BY <1>4, <1>6, TaskAt
  <2>2. task.w + 1 \in Nat \ {0}
    BY TaskTyped
  <2>3. /\ working'.step = "next" /\ working'.task.token = task.token
        /\ working'.task.plan = task.plan /\ working'.task.w = task.w + 1
        /\ working' \in [step : {"sync", "next", "finish", "unwind", "release"}, task : Tasks]
    BY <2>1, <2>2, TaskTyped, WorkingWith
  <2> QED BY <1>1, <1>2, <1>3, <1>4, <1>5, <2>3, WorkerGoesOn DEF QueueKept
<1>7. CASE ~(task.w < Len(task.plan))
  <2>1. working' = [step |-> "release", task |->
          [token |-> task.token, plan |-> task.plan, w |-> task.w, m |-> 1]]
    BY <1>4, <1>7, TaskAt
  <2>2. /\ working'.task.token = task.token
        /\ working' \in [step : {"sync", "next", "finish", "unwind", "release"}, task : Tasks]
    BY <2>1, TaskTyped, WorkingWith
  <2> QED BY <1>1, <1>2, <1>3, <1>4, <1>5, <1>7, <2>2, WorkerGoesOn DEF QueueKept
<1> QED BY <1>6, <1>7

LEMMA PageUnwindStep ==
  ASSUME RunsInv, page_unwind
  PROVE  RunsInv'
<1>1. working.step = "unwind" /\ UNCHANGED <<lock, starts, starter, lapsed, died, upset, unowned, adrift, queue>>
  BY DEF page_unwind, PageLeaves
<1>2. working # Idle
  BY <1>1 DEF Idle
<1>3. PICK task \in Tasks : task = Task
  BY <1>2, WorkerAt DEF RunsInv
<1>4. CASE task.plan = << >>
  <2>1. /\ working' = [step |-> "release", task |-> [task EXCEPT !.w = 1, !.m = 1]]
        /\ running' = running
    BY <1>3, <1>4 DEF page_unwind, At
  <2>2. working' = [step |-> "release", task |->
          [token |-> task.token, plan |-> task.plan, w |-> 1, m |-> 1]]
    BY <2>1, TaskAt
  <2>3. /\ working'.task.token = task.token
        /\ working' \in [step : {"sync", "next", "finish", "unwind", "release"}, task : Tasks]
    BY <2>2, TaskTyped, WorkingWith
  <2>4. \A w : ~Planned(task.plan, 1, w)
    BY <1>4 DEF Planned
  <2>5. \A w : ~WorkerHas(task.token, w)
    BY <1>1, <1>2, <1>3, <2>1, <2>4, WorkersRuns
  <2> QED BY <1>1, <1>2, <1>3, <2>1, <2>3, <2>5, WorkerGoesOn DEF QueueKept
<1>5. CASE task.plan # << >>
  <2>1. /\ running' = running \ {<<task.token, Head(task.plan).ws>>}
        /\ working' = [working EXCEPT !.task.plan = Tail(task.plan)]
    BY <1>3, <1>5 DEF page_unwind, Finished, Task
  <2>2. Tail(task.plan) \in Seq(Entries)
    BY <1>5, TaskTyped
  <2>3. working = [step |-> "unwind", task |-> task]
    BY <1>1, <1>2, <1>3 DEF RunsInv, RunsTypeOK, Task, Idle
  <2>4. working' = [step |-> "unwind", task |-> [task EXCEPT !.plan = Tail(task.plan)]]
    BY <2>1, <2>3
  <2>5. working' = [step |-> "unwind", task |->
          [token |-> task.token, plan |-> Tail(task.plan), w |-> task.w, m |-> task.m]]
    BY <2>4, TaskPlan
  <2>6. /\ working'.step = "unwind" /\ working'.task.token = task.token
        /\ working'.task.plan = Tail(task.plan)
        /\ working' \in [step : {"sync", "next", "finish", "unwind", "release"}, task : Tasks]
    BY <2>2, <2>5, TaskTyped, WorkingWith
  <2>7. ASSUME NEW w, <<task.token, w>> \in running', WorkerHas(task.token, w)
        PROVE  Planned(working'.task.plan, 1, w)
    <3>1. Planned(task.plan, 1, w) /\ w # Head(task.plan).ws
      BY <1>1, <1>2, <1>3, <2>1, <2>7, WorkersRuns
    <3> QED BY <1>5, <2>6, <3>1, PlannedTail, TaskTyped
  <2> QED BY <1>1, <1>2, <1>3, <2>1, <2>6, <2>7, WorkerGoesOn DEF QueueKept
<1> QED BY <1>4, <1>5

LEMMA WorkerStops ==
  ASSUME RunsInv, page_release \/ page_dies
  PROVE  RunsInv'
<1>1. /\ working # Idle /\ working' = Idle
      /\ UNCHANGED <<starts, starter, lapsed, upset, unowned, adrift, queue, running>>
      /\ \/ working.step = "release" /\ lock' = Released(Task.token) /\ died' = died
         \/ lock' = lock /\ died' = died \cup {Task.token}
  BY DEF page_release, page_dies, PageLeaves, Idle
<1>2. \A w : WorkerHas(Task.token, w) => Task.token \in upset \cup died'
  BY <1>1, WorkersRuns
<1> QED BY <1>1, <1>2, WorkerLeavesOff

LEMMA LockLapses ==
  ASSUME RunsInv, lock_lapses
  PROVE  RunsInv'
<1>1. /\ lock # Free /\ lock' = Free /\ lapsed' = lapsed \cup {lock}
      /\ UNCHANGED <<starts, starter, running, queue, working, died, upset, unowned, adrift>>
  BY DEF lock_lapses
<1>2. RunsTypeOK' /\ OnePlace' /\ TodoLeft'
  BY <1>1 DEF RunsInv, RunsTypeOK, OnePlace, TodoLeft, Works, Waits
<1>3. \A x \in Tokens : Underway(x)' <=> Underway(x)
  BY <1>1 DEF Underway, Busy, Task
<1>4. FreshUnused'
  BY <1>1, <1>3 DEF RunsInv, FreshUnused
<1>5. LockKept'
  BY <1>1, <1>3 DEF RunsInv, LockKept
<1>6. RunsBefore'
  BY <1>1 DEF RunsInv, RunsBefore, Before, StarterHas, QueueHas, WorkerHas, Works, Task
<1> QED BY <1>2, <1>4, <1>5, <1>6 DEF RunsInv

LEMMA PageTakeStep ==
  ASSUME RunsInv, page_take
  PROVE  RunsInv'
<1>1. /\ working = Idle /\ queue # << >>
      /\ working' = [step |-> "sync", task |-> Head(queue)] /\ queue' = Tail(queue)
      /\ UNCHANGED <<lock, starts, starter, running, lapsed, died, upset, unowned, adrift>>
  BY DEF page_take, PageLeaves
<1>2. /\ queue \in Seq(Tasks) /\ Len(queue) \in Nat /\ Len(queue) >= 1
      /\ DOMAIN queue = 1 .. Len(queue) /\ DOMAIN queue' = 1 .. Len(queue) - 1
      /\ \A i \in 1 .. Len(queue) - 1 : queue'[i] = queue[i + 1]
      /\ Head(queue) = queue[1] /\ queue' \in Seq(Tasks)
  BY <1>1 DEF RunsInv, RunsTypeOK
<1>3. PICK task \in Tasks : task = queue[1]
  BY <1>2
<1>4. PICK t \in Tokens : t = task.token
  BY TaskTyped
<1>5. /\ working'.step = "sync" /\ working'.task = task /\ working' # Idle
      /\ working' \in [step : {"sync", "next", "finish", "unwind", "release"}, task : Tasks]
  BY <1>1, <1>2, <1>3 DEF Idle
<1>6. /\ \A x \in Tokens : ~Works(x)
      /\ \A x \in Tokens : Works(x)' <=> x = t
  BY <1>1, <1>4, <1>5 DEF Works
<1>7. \A i \in 2 .. Len(queue) : i - 1 \in DOMAIN queue' /\ queue'[i - 1] = queue[i]
  BY <1>2
<1>8. Waits(t) /\ (t \notin adrift => \A i \in 2 .. Len(queue) : queue[i].token # t)
  BY <1>2, <1>3, <1>4 DEF Waits, RunsInv, OnePlace
<1>9. /\ \A x \in Tokens : Waits(x)' => Waits(x) /\ (x = t => t \in adrift)
      /\ \A x \in Tokens \ {t} : Waits(x) => Waits(x)'
  <2>1. ASSUME NEW x \in Tokens, Waits(x)' PROVE Waits(x) /\ (x = t => t \in adrift)
    <3>1. PICK i \in 1 .. Len(queue) - 1 : queue'[i].token = x
      BY <1>2, <2>1 DEF Waits
    <3>2. i + 1 \in 2 .. Len(queue) /\ i + 1 \in DOMAIN queue /\ queue[i + 1].token = x
      BY <1>2, <3>1
    <3> QED BY <1>8, <3>2 DEF Waits
  <2>2. ASSUME NEW x \in Tokens \ {t}, Waits(x) PROVE Waits(x)'
    <3>1. PICK i \in 2 .. Len(queue) : queue[i].token = x
      BY <1>2, <1>3, <1>4, <2>2 DEF Waits
    <3> QED BY <1>7, <3>1 DEF Waits
  <2> QED BY <2>1, <2>2
<1>10. \A x \in Tokens : Starting(x)' <=> Starting(x)
  BY <1>1 DEF Starting
<1>11. RunsTypeOK'
  BY <1>1, <1>2, <1>5 DEF RunsInv, RunsTypeOK
<1>12. OnePlace'
  <2>1. \A x \in Tokens \ adrift : Starting(x) => ~Waits(x)
    BY DEF RunsInv, OnePlace, Starting
  <2>2. \A i, j \in DOMAIN queue' :
          queue'[i].token = queue'[j].token /\ queue'[i].token \notin adrift => i = j
    <3>1. \A i \in DOMAIN queue' : i + 1 \in DOMAIN queue /\ queue'[i] = queue[i + 1]
      BY <1>2
    <3> SUFFICES ASSUME NEW i \in DOMAIN queue', NEW j \in DOMAIN queue',
                        queue'[i].token = queue'[j].token, queue'[i].token \notin adrift
                 PROVE  i = j
      OBVIOUS
    <3>2. i + 1 = j + 1
      BY <3>1 DEF RunsInv, OnePlace
    <3> QED BY <1>2, <3>2
  <2> QED BY <1>1, <1>6, <1>8, <1>9, <1>10, <2>1, <2>2 DEF OnePlace, Starting
<1>13. \A x \in Tokens : Underway(x)' <=> Underway(x)
  BY <1>6, <1>8, <1>9, <1>10, UnderwaySomewhere
<1>14. FreshUnused' /\ LockKept'
  <2>1. Underway(t)
    BY <1>8, UnderwaySomewhere
  <2>2. adrift \subseteq adrift'
    BY <1>1
  <2> QED BY <1>1, <1>13, <2>1, <2>2, NobodyLeaves
<1>15. RunsBefore'
  <2> SUFFICES ASSUME NEW run \in running, run[1] \notin died \cup upset
               PROVE  Before(run[1], run[2])'
    BY <1>1 DEF RunsBefore
  <2>1. run[1] \in Tokens /\ Before(run[1], run[2])
    BY DEF RunsInv, RunsTypeOK, RunsBefore
  <2>2. StarterHas(run[1], run[2]) => StarterHas(run[1], run[2])'
    BY <1>1 DEF StarterHas
  <2>3. ~WorkerHas(run[1], run[2])
    BY <1>6, <2>1 DEF WorkerHas
  <2>4. ASSUME QueueHas(run[1], run[2]) PROVE QueueHas(run[1], run[2])' \/ WorkerHas(run[1], run[2])'
    <3>1. PICK i \in DOMAIN queue :
            queue[i].token = run[1] /\ Planned(queue[i].plan, queue[i].w, run[2])
      BY <2>4 DEF QueueHas
    <3>2. CASE i = 1
      BY <1>3, <1>5, <3>1, <3>2 DEF WorkerHas, Works, Task
    <3>3. CASE i # 1
      <4>1. i - 1 \in DOMAIN queue' /\ queue'[i - 1] = queue[i]
        BY <1>2, <1>7, <3>1, <3>3
      <4> QED BY <3>1, <4>1 DEF QueueHas
    <3> QED BY <3>2, <3>3
  <2> QED BY <2>1, <2>2, <2>3, <2>4 DEF Before
<1>16. TodoLeft'
  BY <1>1 DEF RunsInv, TodoLeft
<1> QED BY <1>11, <1>12, <1>14, <1>15, <1>16 DEF RunsInv

(* The next page of a sync waits behind all the others. *)
LEMMA PageHandedOn ==
  ASSUME RunsInv, working.step = "next", queue' = Append(queue, Task), working' = Idle,
         UNCHANGED <<lock, starts, starter, running, lapsed, died, upset, unowned, adrift>>
  PROVE  RunsInv'
<1>1. working # Idle
  BY DEF Idle
<1>2. PICK task \in Tasks : task = Task
  BY <1>1, WorkerAt DEF RunsInv
<1>3. PICK t \in Tokens : t = task.token
  BY TaskTyped
<1>4. Works(t) /\ \A x \in Tokens : x # t => ~Works(x)
  BY <1>1, <1>2, <1>3 DEF Works, Task
<1>5. \A x \in Tokens : ~Works(x)'
  BY DEF Works
<1>6. t \notin adrift => ~Waits(t) /\ ~Starting(t)
  BY <1>4 DEF RunsInv, OnePlace, Starting
<1>7. /\ queue' \in Seq(Tasks) /\ Len(queue) \in Nat
      /\ DOMAIN queue = 1 .. Len(queue) /\ DOMAIN queue' = 1 .. Len(queue) + 1
      /\ \A i \in 1 .. Len(queue) : queue'[i] = queue[i]
      /\ queue'[Len(queue) + 1] = task
      /\ \A x \in Tokens : Waits(x)' <=> Waits(x) \/ x = t
      /\ \A x, w : QueueHas(x, w) => QueueHas(x, w)'
      /\ \A w : Planned(task.plan, task.w, w) => QueueHas(t, w)'
  <2>1. queue \in Seq(Tasks)
    BY DEF RunsInv, RunsTypeOK
  <2> QED BY <1>2, <1>3, <2>1, Queued
<1>8. \A x \in Tokens : Starting(x)' <=> Starting(x)
  BY DEF Starting
<1>9. RunsTypeOK'
  BY <1>7 DEF RunsInv, RunsTypeOK
<1>10. OnePlace'
  <2>1. \A i, j \in DOMAIN queue' :
          queue'[i].token = queue'[j].token /\ queue'[i].token \notin adrift => i = j
    BY <1>3, <1>6, <1>7 DEF RunsInv, OnePlace, Waits
  <2> QED BY <1>5, <1>6, <1>7, <1>8, <2>1 DEF RunsInv, OnePlace, Starting
<1>11. \A x \in Tokens : Underway(x)' <=> Underway(x)
  BY <1>4, <1>5, <1>7, <1>8, UnderwaySomewhere
<1>12. FreshUnused' /\ LockKept'
  <2>1. Underway(t) /\ adrift \subseteq adrift'
    BY <1>4, UnderwaySomewhere
  <2> QED BY <1>11, <2>1, NobodyLeaves
<1>13. RunsBefore'
  <2> SUFFICES ASSUME NEW run \in running, run[1] \notin died \cup upset
               PROVE  Before(run[1], run[2])'
    BY DEF RunsBefore
  <2>1. run[1] \in Tokens /\ Before(run[1], run[2])
    BY DEF RunsInv, RunsTypeOK, RunsBefore
  <2>2. StarterHas(run[1], run[2]) => StarterHas(run[1], run[2])'
    BY DEF StarterHas
  <2>3. ASSUME WorkerHas(run[1], run[2]) PROVE QueueHas(run[1], run[2])'
    <3>1. run[1] = t
      BY <1>4, <2>1, <2>3 DEF WorkerHas
    <3>2. Planned(task.plan, task.w, run[2])
      BY <1>2, <1>3, <2>3, <3>1, WorkersRuns
    <3> QED BY <1>7, <3>1, <3>2
  <2> QED BY <1>7, <2>1, <2>2, <2>3 DEF Before
<1>14. TodoLeft'
  BY DEF RunsInv, TodoLeft
<1> QED BY <1>9, <1>10, <1>12, <1>13, <1>14 DEF RunsInv

LEMMA PageNextStep ==
  ASSUME RunsInv, page_next
  PROVE  RunsInv'
<1>1. /\ working.step = "next" /\ working # Idle
      /\ UNCHANGED <<lock, starts, starter, lapsed, died, upset, unowned, running>>
  BY DEF page_next, PageLeaves, Idle
<1>2. CASE queue' = Append(queue, Task) /\ UNCHANGED adrift /\ working' = Idle
  BY <1>1, <1>2, PageHandedOn
<1>3. PICK task \in Tasks : task = Task
  BY <1>1, WorkerAt DEF RunsInv
<1>4. CASE /\ QueueKept(task.token)
           /\ working' =
                [step |-> "unwind", task |-> [task EXCEPT !.plan = Left(task.plan, task.w)]]
  <2>1. /\ task.plan \in Seq(Entries) /\ task.w \in Nat \ {0} /\ task.m \in Nat
        /\ Left(task.plan, task.w) \in Seq(Entries)
    BY TaskTyped, PlannedLeft
  <2>2. working' = [step |-> "unwind", task |->
          [token |-> task.token, plan |-> Left(task.plan, task.w), w |-> task.w, m |-> task.m]]
    BY <1>4, TaskPlan
  <2>3. /\ working'.step = "unwind" /\ working'.task.token = task.token
        /\ working'.task.plan = Left(task.plan, task.w)
        /\ working' \in [step : {"sync", "next", "finish", "unwind", "release"}, task : Tasks]
    BY <2>1, <2>2, WorkingWith
  <2>4. ASSUME NEW w, <<task.token, w>> \in running', WorkerHas(task.token, w)
        PROVE  Planned(working'.task.plan, 1, w)
    <3>1. Planned(task.plan, task.w, w)
      BY <1>1, <1>3, <2>4, WorkersRuns
    <3> QED BY <2>1, <2>3, <3>1, PlannedLeft
  <2> QED BY <1>1, <1>3, <1>4, <2>3, <2>4, WorkerGoesOn
<1>5. ASSUME PublishFails(task) PROVE QueueKept(task.token)
  BY <1>5 DEF PublishFails, QueueKept
<1>6. \/ queue' = Append(queue, Task) /\ UNCHANGED adrift /\ working' = Idle
      \/ /\ PublishFails(task)
         /\ working' =
              [step |-> "unwind", task |-> [task EXCEPT !.plan = Left(task.plan, task.w)]]
  BY <1>3 DEF page_next, Published
<1> QED BY <1>2, <1>4, <1>5, <1>6

-----------------------------------------------------------------------------
(* The theorems *)

LEMMA InitRunsInv == RunsInit => RunsInv
<1> SUFFICES ASSUME RunsInit PROVE RunsInv
  OBVIOUS
<1>1. /\ lock = Free /\ starts = 0 /\ starter = [t \in Tokens |-> Idle]
      /\ running = {} /\ queue = << >> /\ working = Idle
  BY DEF RunsInit, RunsStart
<1>2. RunsTypeOK
  BY <1>1 DEF RunsTypeOK
<1>3. \A t \in Tokens : ~Starting(t) /\ ~Works(t) /\ ~Waits(t) /\ ~Underway(t)
  BY <1>1, UnderwaySomewhere DEF Starting, Works, Waits
<1>4. FreshUnused /\ OnePlace /\ LockKept /\ RunsBefore /\ TodoLeft
  BY <1>1, <1>3 DEF FreshUnused, OnePlace, LockKept, RunsBefore, TodoLeft, Starting
<1> QED BY <1>2, <1>4 DEF RunsInv

LEMMA NextRunsInv == RunsInv /\ [RunsNext]_runVars => RunsInv'
<1> SUFFICES ASSUME RunsInv, [RunsNext]_runVars PROVE RunsInv'
  OBVIOUS
<1>1. ASSUME NEW t \in Tokens, start_raises(t) \/ starter_dies(t) PROVE RunsInv'
  BY <1>1, StarterStops
<1>2. CASE UNCHANGED runVars
  BY <1>2
  DEF runVars, RunsInv, RunsTypeOK, FreshUnused, OnePlace, LockKept, RunsBefore, TodoLeft,
              Underway, Busy, Works, Waits, Before, StarterHas, QueueHas, WorkerHas, Task
<1>3. CASE \E t \in Tokens :
              \/ begin(t) \/ start_run(t) \/ start_mailboxes(t) \/ start_raises(t)
              \/ start_enqueue(t) \/ start_unwind(t) \/ starter_dies(t)
  BY <1>1, <1>3, BeginStep, StartRunStep, StartMailboxesStep, StartEnqueueStep,
     StartUnwindStep
<1>4. CASE page_take \/ page_sync \/ page_finish \/ page_next \/ page_unwind
  BY <1>4, PageTakeStep, PageSyncStep, PageFinishStep, PageNextStep, PageUnwindStep
<1>5. CASE page_release \/ page_dies \/ lock_lapses
  BY <1>5, WorkerStops, LockLapses
<1> QED BY <1>2, <1>3, <1>4, <1>5 DEF RunsNext

(* Every state of the syncs is one in which each is in one place and has    *)
(* the lock, unless it ran out or a page was queued by a call that was seen *)
(* to fail, and still has its shown runs before it.                         *)
THEOREM RunsInvariant == RunsSpec => []RunsInv
<1>1. RunsInit => RunsInv
  BY InitRunsInv
<1>2. RunsInv /\ [RunsNext]_runVars => RunsInv'
  BY NextRunsInv
<1> QED BY <1>1, <1>2, PTL DEF RunsSpec

(* At most one sync is under way whose lock has not run out and that was    *)
(* not given up with a page queued.                                         *)
LEMMA OneAtATime == RunsInv => SingleFlight
<1> SUFFICES ASSUME RunsInv PROVE SingleFlight
  OBVIOUS
<1> DEFINE S == {t \in Tokens : Underway(t)} \ (lapsed \cup adrift)
<1>1. S \subseteq {lock}
  BY DEF RunsInv, LockKept
<1>2. IsFiniteSet({lock}) /\ Cardinality({lock}) = 1
  BY FS_Singleton
<1>3. Cardinality(S) <= Cardinality({lock})
  BY <1>1, <1>2, FS_Subset
<1> QED BY <1>2, <1>3 DEF SingleFlight

(* What a sync still has before it is its own to finish. *)
LEMMA NothingLeft == RunsInv => NothingLeftBehind
<1> SUFFICES ASSUME RunsInv PROVE NothingLeftBehind
  OBVIOUS
<1>1. ASSUME NEW run \in running, run[1] \notin died \cup upset
      PROVE  Underway(run[1])
  <2>1. run[1] \in Tokens
    BY DEF RunsInv, RunsTypeOK
  <2>2. Before(run[1], run[2])
    BY <1>1 DEF RunsInv, RunsBefore
  <2> QED BY <2>1, <2>2, UnderwaySomewhere DEF Before, Starting, Waits,
     StarterHas, QueueHas, WorkerHas
<1> QED BY <1>1 DEF NothingLeftBehind, RunsInv, LockKept

(* Whatever number of ticks and runs asked for race for the lock, however   *)
(* many workspaces and mailboxes they find and whichever calls fail, with   *)
(* or without their effect: no second sync runs beside one under way, unless*)
(* its lock ran out or a page of it was queued by a call that was seen to   *)
(* fail; no run shown as running outlives its sync, unless a process was    *)
(* killed or its start broken off; and no lock does, unless a process was   *)
(* killed or the call that set it was seen to fail (email_sync.py).         *)
THEOREM SyncsApartAndShown == RunsSpec => []OneSyncShown
<1>1. RunsInv => OneSyncShown
  BY OneAtATime, NothingLeft DEF OneSyncShown
<1> QED BY <1>1, RunsInvariant, PTL

-----------------------------------------------------------------------------
(* The mailbox.  What Gmail did is told by its history from some place on:  *)
(* every message and label that was added since, and every message that    *)
(* lost the last of a mailbox's labels.                                     *)

MailCursors ==
  {NoCursor} \cup [phase : {"history"}, at : Nat]
    \cup [phase : {"backfill"}, label : Nat \ {0}, at : Nat, start : Nat, reconcile : BOOLEAN]
MailRows ==
  [labels : Seq(Labels) \ {<<>>}, history_id : Nat \cup {None}, token : MailCursors,
   backfilled : BOOLEAN, synced : BOOLEAN, active : BOOLEAN]
MailRecords ==
  [m : Messages, kind : {"added", "removed", "deleted"}, label : Labels \cup {"any"},
   left : SUBSET Labels]
MailPages ==
  [step : {"profile", "list", "fetch", "store", "relist", "unlist", "progress", "history",
           "gone", "drop"},
   row : MailRows, cursor : MailCursors, ids : SUBSET Messages, found : SUBSET Messages,
   removed : SUBSET Messages, seen : SUBSET Messages, labelled : Nat \ {0}, more : BOOLEAN,
   last : Nat]

MailboxTypeOK ==
  /\ carries \in [Messages -> SUBSET Labels]
  /\ history \in Seq(MailRecords) /\ forgotten \in Nat
  /\ mailbox \in MailRows /\ stored \in SUBSET Messages
  /\ page \in MailPages \cup {NoPage}
  /\ overlooked \in BOOLEAN

-----------------------------------------------------------------------------
Carried(cs, m, list) == cs[m] \cap Range(list) # {}

(* The history h tells, after `at`, that m got a label of the list; or that *)
(* it lost the last of them.                                                *)
Given(h, m, list, at) ==
  \E i \in DOMAIN h : /\ i > at /\ h[i].m = m
                      /\ h[i].kind = "added" /\ h[i].label \in Range(list)
Taken(h, m, list, at) ==
  \E i \in DOMAIN h :
    /\ i > at /\ h[i].m = m
    /\ \/ h[i].kind = "deleted"
       \/ h[i].kind = "removed" /\ h[i].label \in Range(list) /\ Range(list) \cap h[i].left = {}

(* A message outside S that carries one of the first labels of the list (or *)
(* the k-th one, from `below` on) got it after `at`.                        *)
Reached(cs, h, S, list, k, below, at) ==
  \A m \in Messages \ S, j \in DOMAIN list :
    (j < k \/ (j = k /\ m >= below)) /\ list[j] \in cs[m] => Given(h, m, list, at)
AllReached(cs, h, S, list, at) == Reached(cs, h, S, list, Len(list) + 1, N + 1, at)

(* A message of S that carries none of the list lost the last after `at`.   *)
Kept(cs, h, S, list, at) == \A m \in S : ~Carried(cs, m, list) => Taken(h, m, list, at)

(* What a record left a message with, and what it carries now.              *)
HistoryTold(cs, h) ==
  \A i \in DOMAIN h :
    /\ h[i].kind = "deleted" => h[i].left = {}
    /\ \A list \in Seq(Labels) :
         h[i].left \cap Range(list) = {} /\ Carried(cs, h[i].m, list) => Given(h, h[i].m, list, i)

-----------------------------------------------------------------------------
(* Where history will be read on from.                                      *)
Position == IF mailbox.token.phase = "history" THEN mailbox.token.at ELSE mailbox.history_id

Backfills ==
  \/ page.step \in {"list", "relist", "unlist"}
  \/ page.step \in {"fetch", "store", "progress"} /\ page.cursor.phase = "backfill"
ReadsHistory == page.step \in {"fetch", "store", "drop", "progress"}
                  /\ page.cursor.phase = "history"

(* The row by its phases, and the page by its steps.                        *)
RowInStep(row) ==
  /\ row.backfilled => row.synced /\ row.history_id # None /\ row.token.phase # "backfill"
  /\ row.token.phase = "history" => row.synced

PageInStep ==
  page # NoPage =>
    /\ RowInStep(page.row)
    /\ \/ Backfills /\ page.cursor.phase = "backfill" /\ ~page.row.backfilled
       \/ page.step = "profile" /\ ~page.row.backfilled /\ page.row.token.phase # "backfill"
       \/ (page.step \in {"history", "gone"} \/ ReadsHistory) /\ page.row.backfilled
    /\ page.step = "history" => page.cursor = page.row.token
    /\ Backfills \/ page.step = "profile" => page.removed = {}
    /\ page.step \in {"profile", "list", "history", "fetch", "store"} =>
         page.seen = {} /\ page.labelled = 1
    /\ Backfills /\ page.row.token.phase = "backfill" =>
         /\ page.cursor.start = page.row.token.start
         /\ page.cursor.reconcile = page.row.token.reconcile
    /\ page.step \in {"relist", "unlist"} => page.cursor.reconcile /\ ReadToEnd
    /\ page.step = "relist" => page.labelled <= Len(page.row.labels)
    /\ page.step = "unlist" => page.labelled = Len(page.row.labels) + 1

(* The row is as the page read it, or an admin has changed its labels.      *)
RowRead ==
  page # NoPage =>
    \/ mailbox = page.row
    \/ /\ mailbox = [page.row EXCEPT !.labels = mailbox.labels, !.history_id = None,
                                     !.token = NoCursor, !.backfilled = FALSE]
       /\ page.row.synced \/ overlooked

(* The places the cursors name are in the history.                          *)
InHistory(h) ==
  /\ mailbox.backfilled => Position <= Len(h)
  /\ mailbox.token.phase = "backfill" => mailbox.token.start <= Len(h)
  /\ Backfills => page.cursor.start <= Len(h)
  /\ ReadsHistory /\ mailbox.backfilled =>
       /\ Position <= page.cursor.at /\ page.cursor.at <= Len(h)
       /\ ~page.more => page.last = page.cursor.at

(* What the row says: a mailbox that was read through, the part of a        *)
(* reading that is behind it, and one not yet read.                         *)
RowStands(cs, h) ==
  /\ mailbox.backfilled =>
       AllReached(cs, h, stored, mailbox.labels, Position)
         /\ Kept(cs, h, stored, mailbox.labels, Position)
  /\ mailbox.token.phase = "backfill" =>
       LET c == mailbox.token IN
       /\ Reached(cs, h, stored, mailbox.labels, c.label, c.at, c.start)
       /\ c.reconcile \/ Kept(cs, h, stored, mailbox.labels, c.start)
  /\ ~mailbox.synced /\ mailbox.token = NoCursor /\ page.step \in {"idle", "profile"} =>
       stored = {}

(* What a page has in hand, and is about to drop.                           *)
Coming ==
  IF page.step = "fetch" THEN page.ids ELSE IF page.step = "store" THEN page.found ELSE {}
Going == IF page.step \in {"fetch", "store", "drop"} THEN page.removed ELSE {}

BackfillStands(cs, h) ==
  Backfills =>
    LET c == page.cursor  list == page.row.labels IN
    /\ Reached(cs, h, stored \cup Coming, list, c.label, c.at, c.start)
    /\ page.step = "store" => Kept(cs, h, page.found, list, c.start)
    /\ ~c.reconcile \/ (page.step = "progress" /\ ReadToEnd) =>
         Kept(cs, h, stored, list, c.start)
    /\ page.step \in {"relist", "unlist"} =>
         /\ Kept(cs, h, page.seen, list, c.start)
         /\ Reached(cs, h, page.seen, list, page.labelled, N + 1, c.start)

HistoryStands(cs, h) ==
  ReadsHistory /\ mailbox.backfilled =>
    LET at == page.cursor.at  list == page.row.labels IN
    /\ AllReached(cs, h, (stored \cup Coming) \ Going, list, at)
    /\ Kept(cs, h, stored \ Going, list, at)
    /\ page.step = "store" => Kept(cs, h, page.found, list, at)

MailboxInv ==
  /\ MailboxTypeOK /\ HistoryTold(carries, history)
  /\ RowInStep(mailbox) /\ PageInStep /\ RowRead /\ InHistory(history)
  /\ ~overlooked =>
       /\ RowStands(carries, history) /\ BackfillStands(carries, history)
       /\ HistoryStands(carries, history)

-----------------------------------------------------------------------------
(* The newest message listed                                                *)

LEMMA NewestOf ==
  ASSUME NEW S \in SUBSET Messages, S # {}
  PROVE  Max(S) \in S /\ \A m \in S : Max(S) >= m
<1> DEFINE T == {N - m : m \in S}
<1>0. N \in Nat /\ \A m \in S : m \in Nat /\ m <= N
  BY MailboxAssumption DEF Messages
<1>1. T \subseteq Nat /\ T # {}
  <2>1. \A m \in S : N - m \in Nat
    BY <1>0
  <2> QED BY <2>1
<1>2. PICK x \in T : \A y \in T : <<y, x>> \notin OpToRel(<, Nat)
  <2>1. IsWellFoundedOn(OpToRel(<, Nat), Nat)
    BY NatLessThanWellFounded
  <2> QED BY <1>1, <2>1, WFMin, Zenon
<1>3. \A y \in T : x <= y
  <2> TAKE y \in T
  <2>1. x \in Nat /\ y \in Nat
    BY <1>1
  <2>2. <<y, x>> \in Nat \X Nat /\ ~(y < x)
    BY <1>2, <2>1 DEF OpToRel
  <2> QED BY <2>1, <2>2
<1>4. PICK n \in S : x = N - n
  OBVIOUS
<1>5. \A m \in S : n >= m
  <2> TAKE m \in S
  <2>1. N - m \in T
    OBVIOUS
  <2>2. N - n <= N - m
    BY <1>3, <1>4, <2>1
  <2> QED BY <1>0, <2>2
<1>6. \E y \in S : \A m \in S : y >= m
  BY <1>5
<1> QED BY <1>6, Zenon DEF Max

-----------------------------------------------------------------------------
(* What Gmail does is told by its history                                   *)

Moves(cs, h, cs1, h1) ==
  /\ Len(h) <= Len(h1)
  /\ \A x \in Messages, list \in Seq(Labels), at \in Nat :
       /\ Given(h, x, list, at) => Given(h1, x, list, at)
       /\ Taken(h, x, list, at) => Taken(h1, x, list, at)
       /\ at <= Len(h) =>
            /\ \A l \in cs1[x] \ cs[x] : l \in Range(list) => Given(h1, x, list, at)
            /\ Carried(cs, x, list) /\ ~Carried(cs1, x, list) => Taken(h1, x, list, at)

LEMMA ReachedOn ==
  ASSUME NEW cs, NEW h, NEW cs1, NEW h1, Moves(cs, h, cs1, h1),
         NEW S, NEW list \in Seq(Labels), NEW k, NEW below, NEW at \in Nat, at <= Len(h),
         Reached(cs, h, S, list, k, below, at)
  PROVE  Reached(cs1, h1, S, list, k, below, at)
<1> SUFFICES ASSUME NEW m \in Messages \ S, NEW j \in DOMAIN list,
                    j < k \/ (j = k /\ m >= below), list[j] \in cs1[m]
             PROVE  Given(h1, m, list, at)
  BY DEF Reached
<1>1. list[j] \in Range(list)
  BY DEF Range
<1>2. CASE list[j] \in cs[m]
  BY <1>2 DEF Reached, Moves
<1>3. CASE list[j] \notin cs[m]
  BY <1>1, <1>3 DEF Moves
<1> QED BY <1>2, <1>3

LEMMA KeptOn ==
  ASSUME NEW cs, NEW h, NEW cs1, NEW h1, Moves(cs, h, cs1, h1),
         NEW S \in SUBSET Messages, NEW list \in Seq(Labels), NEW at \in Nat, at <= Len(h),
         Kept(cs, h, S, list, at)
  PROVE  Kept(cs1, h1, S, list, at)
BY DEF Kept, Moves

(* A record on top of a history.                                            *)
LEMMA RecordOn ==
  ASSUME NEW h \in Seq(MailRecords), NEW rec \in MailRecords
  PROVE  LET h1 == Append(h, rec) IN
         /\ h1 \in Seq(MailRecords) /\ Len(h1) = Len(h) + 1 /\ Len(h) \in Nat
         /\ DOMAIN h = 1 .. Len(h) /\ DOMAIN h1 = 1 .. Len(h) + 1
         /\ \A i \in DOMAIN h : h1[i] = h[i]
         /\ h1[Len(h) + 1] = rec
OBVIOUS

LEMMA TellsOn ==
  ASSUME NEW h \in Seq(MailRecords), NEW rec \in MailRecords, NEW x \in Messages,
         NEW list \in Seq(Labels), NEW at \in Nat
  PROVE  LET h1 == Append(h, rec) IN
         /\ Given(h, x, list, at) => Given(h1, x, list, at)
         /\ Taken(h, x, list, at) => Taken(h1, x, list, at)
         /\ at <= Len(h) /\ rec.m = x /\ rec.kind = "added" /\ rec.label \in Range(list) =>
              Given(h1, x, list, at)
         /\ at <= Len(h) /\ rec.m = x
            /\ (\/ rec.kind = "deleted"
                \/ /\ rec.kind = "removed" /\ rec.label \in Range(list)
                   /\ Range(list) \cap rec.left = {})
            => Taken(h1, x, list, at)
<1> DEFINE h1 == Append(h, rec)
<1>1. /\ Len(h) \in Nat /\ DOMAIN h = 1 .. Len(h) /\ DOMAIN h1 = 1 .. Len(h) + 1
      /\ \A i \in DOMAIN h : h1[i] = h[i]
      /\ h1[Len(h) + 1] = rec
  BY RecordOn
<1>2. \A i \in DOMAIN h : i \in DOMAIN h1
  BY <1>1
<1>3. Len(h) + 1 \in DOMAIN h1 /\ (at <= Len(h) => Len(h) + 1 > at)
  BY <1>1
<1> HIDE DEF h1
<1>4. Given(h, x, list, at) => Given(h1, x, list, at)
  BY <1>1, <1>2 DEF Given
<1>5. Taken(h, x, list, at) => Taken(h1, x, list, at)
  BY <1>1, <1>2 DEF Taken
<1>6. at <= Len(h) /\ rec.m = x /\ rec.kind = "added" /\ rec.label \in Range(list) =>
        Given(h1, x, list, at)
  BY <1>1, <1>3 DEF Given
<1>7. at <= Len(h) /\ rec.m = x
      /\ (\/ rec.kind = "deleted"
          \/ /\ rec.kind = "removed" /\ rec.label \in Range(list)
             /\ Range(list) \cap rec.left = {})
      => Taken(h1, x, list, at)
  BY <1>1, <1>3 DEF Taken
<1> QED BY <1>4, <1>5, <1>6, <1>7 DEF h1

(* One change in Gmail: the labels m is left with, and the record of it.    *)
Changes(cs, rec) ==
  /\ rec \in MailRecords
  /\ \/ rec.kind = "added" /\ rec.left = cs[rec.m] \cup {rec.label}
     \/ rec.kind = "removed" /\ rec.label \in cs[rec.m] /\ rec.left = cs[rec.m] \ {rec.label}
     \/ rec.kind = "deleted" /\ rec.left = {}

LEMMA ChangeMoves ==
  ASSUME NEW cs \in [Messages -> SUBSET Labels], NEW h \in Seq(MailRecords), NEW rec,
         Changes(cs, rec)
  PROVE  Moves(cs, h, [cs EXCEPT ![rec.m] = rec.left], Append(h, rec))
<1> DEFINE cs1 == [cs EXCEPT ![rec.m] = rec.left]
           h1 == Append(h, rec)
<1>1. rec \in MailRecords /\ rec.m \in Messages
  BY DEF Changes, MailRecords
<1>2. Len(h) <= Len(h1)
  BY <1>1, RecordOn
<1>3. ASSUME NEW x \in Messages, NEW list \in Seq(Labels), NEW at \in Nat, at <= Len(h)
      PROVE  /\ \A l \in cs1[x] \ cs[x] : l \in Range(list) => Given(h1, x, list, at)
             /\ Carried(cs, x, list) /\ ~Carried(cs1, x, list) => Taken(h1, x, list, at)
  <2>1. CASE x # rec.m
    <3>1. cs1[x] = cs[x]
      BY <2>1
    <3> QED BY <3>1 DEF Carried
  <2>2. CASE x = rec.m
    <3>1. cs1[x] = rec.left
      BY <1>1, <2>2
    <3>2. CASE rec.kind = "added" /\ rec.left = cs[rec.m] \cup {rec.label}
      <4>1. rec.label \in Range(list) => Given(h1, x, list, at)
        BY <1>1, <1>3, <2>2, <3>2, TellsOn
      <4> QED BY <2>2, <3>1, <3>2, <4>1 DEF Carried
    <3>3. CASE rec.kind = "removed" /\ rec.label \in cs[rec.m]
               /\ rec.left = cs[rec.m] \ {rec.label}
      <4>1. rec.label \in Range(list) /\ Range(list) \cap rec.left = {} =>
              Taken(h1, x, list, at)
        BY <1>1, <1>3, <2>2, <3>3, TellsOn
      <4> QED BY <2>2, <3>1, <3>3, <4>1 DEF Carried
    <3>4. CASE rec.kind = "deleted" /\ rec.left = {}
      <4>1. Taken(h1, x, list, at)
        BY <1>1, <1>3, <2>2, <3>4, TellsOn
      <4> QED BY <3>1, <3>4, <4>1
    <3> QED BY <3>2, <3>3, <3>4 DEF Changes
  <2> QED BY <2>1, <2>2
<1>4. \A x \in Messages, list \in Seq(Labels), at \in Nat :
        /\ Given(h, x, list, at) => Given(h1, x, list, at)
        /\ Taken(h, x, list, at) => Taken(h1, x, list, at)
  BY <1>1, TellsOn
<1> QED BY <1>2, <1>3, <1>4 DEF Moves

LEMMA ChangeTold ==
  ASSUME NEW cs \in [Messages -> SUBSET Labels], NEW h \in Seq(MailRecords), NEW rec,
         Changes(cs, rec), HistoryTold(cs, h)
  PROVE  HistoryTold([cs EXCEPT ![rec.m] = rec.left], Append(h, rec))
<1> DEFINE cs1 == [cs EXCEPT ![rec.m] = rec.left]
           h1 == Append(h, rec)
<1>1. rec \in MailRecords /\ rec.m \in Messages
  BY DEF Changes, MailRecords
<1>2. /\ Len(h) \in Nat /\ DOMAIN h = 1 .. Len(h) /\ DOMAIN h1 = 1 .. Len(h) + 1
      /\ \A i \in DOMAIN h : h1[i] = h[i]
      /\ h1[Len(h) + 1] = rec
  BY <1>1, RecordOn
<1>3. Moves(cs, h, cs1, h1)
  BY ChangeMoves
<1> SUFFICES ASSUME NEW i \in DOMAIN h1
             PROVE  /\ h1[i].kind = "deleted" => h1[i].left = {}
                    /\ \A list \in Seq(Labels) :
                         h1[i].left \cap Range(list) = {} /\ Carried(cs1, h1[i].m, list) =>
                           Given(h1, h1[i].m, list, i)
  BY DEF HistoryTold
<1>4. CASE i = Len(h) + 1
  <2>1. h1[i] = rec /\ cs1[rec.m] = rec.left
    BY <1>1, <1>2, <1>4
  <2> HIDE DEF cs1, h1
  <2>2. rec.kind = "deleted" => rec.left = {}
    BY DEF Changes
  <2> QED BY <2>1, <2>2 DEF Carried
<1>5. CASE i \in DOMAIN h
  <2>0. h[i] \in MailRecords
    BY <1>5
  <2>1. h1[i] = h[i] /\ i \in Nat /\ i <= Len(h) /\ h[i].m \in Messages
    BY <1>2, <1>5, <2>0 DEF MailRecords
  <2>2. h[i].kind = "deleted" => h[i].left = {}
    BY <1>5 DEF HistoryTold
  <2>3. ASSUME NEW list \in Seq(Labels),
               h[i].left \cap Range(list) = {}, Carried(cs1, h[i].m, list)
        PROVE  Given(h1, h[i].m, list, i)
    <3> HIDE DEF cs1, h1
    <3>1. CASE Carried(cs, h[i].m, list)
      BY <1>3, <1>5, <2>1, <2>3, <3>1 DEF HistoryTold, Moves
    <3>2. CASE ~Carried(cs, h[i].m, list)
      <4>1. PICK l \in cs1[h[i].m] : l \in Range(list) /\ l \notin cs[h[i].m]
        BY <2>3, <3>2 DEF Carried
      <4> QED BY <1>3, <2>1, <4>1 DEF Moves
    <3> QED BY <3>1, <3>2
  <2> HIDE DEF cs1, h1
  <2> QED BY <2>1, <2>2, <2>3
<1>6. i = Len(h) + 1 \/ i \in DOMAIN h
  BY <1>2
<1> QED BY <1>4, <1>5, <1>6

-----------------------------------------------------------------------------
(* The rows and cursors by their phases                                     *)

LEMMA CursorAt ==
  ASSUME NEW c \in MailCursors
  PROVE  /\ c.phase \in {"none", "history", "backfill"}
         /\ c.phase = "none" => c = NoCursor
         /\ c.phase = "history" => c.at \in Nat /\ c = [phase |-> "history", at |-> c.at]
         /\ c.phase = "backfill" =>
              /\ c.label \in Nat \ {0} /\ c.at \in Nat /\ c.start \in Nat
              /\ c.reconcile \in BOOLEAN
              /\ c \in [phase : {"backfill"}, label : Nat \ {0}, at : Nat, start : Nat,
                        reconcile : BOOLEAN]
BY DEF MailCursors, NoCursor

LEMMA RowAt ==
  ASSUME NEW row \in MailRows
  PROVE  /\ row.labels \in Seq(Labels) /\ row.labels # <<>>
         /\ Len(row.labels) \in Nat \ {0} /\ DOMAIN row.labels = 1 .. Len(row.labels)
         /\ row.history_id \in Nat \cup {None} /\ row.token \in MailCursors
         /\ {row.backfilled, row.synced, row.active} \subseteq BOOLEAN
<1>1. row.labels \in Seq(Labels) /\ row.labels # <<>>
  BY DEF MailRows
<1>2. Len(row.labels) \in Nat \ {0} /\ DOMAIN row.labels = 1 .. Len(row.labels)
  BY <1>1
<1> QED BY <1>1, <1>2 DEF MailRows

LEMMA PageAt ==
  ASSUME MailboxTypeOK, page.step # "idle" \/ page # NoPage
  PROVE  /\ page # NoPage /\ page.step # "idle" /\ page \in MailPages
         /\ page.row \in MailRows /\ page.cursor \in MailCursors
         /\ {page.ids, page.found, page.removed, page.seen} \subseteq SUBSET Messages
         /\ page.labelled \in Nat \ {0} /\ page.more \in BOOLEAN /\ page.last \in Nat
         /\ page.step \in {"profile", "list", "fetch", "store", "relist", "unlist", "progress",
                           "history", "gone", "drop"}
BY DEF MailboxTypeOK, MailPages, NoPage

LEMMA MailboxAt ==
  ASSUME MailboxTypeOK
  PROVE  /\ mailbox \in MailRows /\ mailbox.labels \in Seq(Labels)
         /\ mailbox.token \in MailCursors /\ stored \in SUBSET Messages
         /\ Len(history) \in Nat /\ N \in Nat
         /\ RowInStep(mailbox) /\ mailbox.backfilled => Position \in Nat
         /\ mailbox.token.phase = "backfill" => mailbox.token.start \in Nat
<1>1. mailbox \in MailRows /\ stored \in SUBSET Messages /\ history \in Seq(MailRecords)
  BY DEF MailboxTypeOK
<1>2. Len(history) \in Nat
  BY <1>1
<1>3. RowInStep(mailbox) /\ mailbox.backfilled => Position \in Nat
  BY <1>1, RowAt, CursorAt DEF RowInStep, Position
<1> QED BY <1>1, <1>2, <1>3, RowAt, CursorAt, MailboxAssumption

LEMMA InPhase ==
  ASSUME MailboxTypeOK, PageInStep
  PROVE  /\ Backfills => /\ page # NoPage /\ page.cursor.phase = "backfill"
                         /\ page.cursor.start \in Nat /\ ~page.row.backfilled
                         /\ ~ReadsHistory
         /\ ReadsHistory => /\ page # NoPage /\ page.cursor.phase = "history"
                            /\ page.cursor.at \in Nat /\ page.row.backfilled
                            /\ ~Backfills
<1>1. ASSUME Backfills \/ ReadsHistory PROVE page # NoPage
  BY <1>1 DEF Backfills, ReadsHistory, NoPage
<1>2. ASSUME page # NoPage
      PROVE  /\ page.cursor \in MailCursors
             /\ Backfills => page.cursor.phase = "backfill" /\ ~page.row.backfilled
             /\ ReadsHistory => page.cursor.phase = "history" /\ page.row.backfilled
  BY <1>2, PageAt DEF PageInStep, Backfills, ReadsHistory
<1> QED BY <1>1, <1>2, CursorAt DEF Backfills, ReadsHistory

-----------------------------------------------------------------------------
(* Steps of Gmail                                                           *)

LEMMA StandsOn ==
  ASSUME MailboxInv, NEW cs1, NEW h1, Moves(carries, history, cs1, h1)
  PROVE  /\ RowStands(carries, history) => RowStands(cs1, h1)
         /\ BackfillStands(carries, history) => BackfillStands(cs1, h1)
         /\ HistoryStands(carries, history) => HistoryStands(cs1, h1)
<1>1. /\ MailboxTypeOK /\ PageInStep /\ RowInStep(mailbox) /\ InHistory(history)
  BY DEF MailboxInv
<1>2. ASSUME RowStands(carries, history) PROVE RowStands(cs1, h1)
  <2>1. ASSUME mailbox.backfilled
        PROVE  /\ AllReached(cs1, h1, stored, mailbox.labels, Position)
               /\ Kept(cs1, h1, stored, mailbox.labels, Position)
    <3>1. Position \in Nat /\ Position <= Len(history)
      BY <1>1, <2>1, MailboxAt DEF InHistory
    <3> QED BY <1>1, <1>2, <2>1, <3>1, MailboxAt, ReachedOn, KeptOn DEF RowStands, AllReached
  <2>2. ASSUME mailbox.token.phase = "backfill"
        PROVE  LET c == mailbox.token IN
               /\ Reached(cs1, h1, stored, mailbox.labels, c.label, c.at, c.start)
               /\ c.reconcile \/ Kept(cs1, h1, stored, mailbox.labels, c.start)
    <3>1. mailbox.token.start \in Nat /\ mailbox.token.start <= Len(history)
      BY <1>1, <2>2, MailboxAt DEF InHistory
    <3> QED BY <1>1, <1>2, <2>2, <3>1, MailboxAt, ReachedOn, KeptOn DEF RowStands
  <2> QED BY <1>2, <2>1, <2>2 DEF RowStands
<1>3. ASSUME BackfillStands(carries, history), Backfills PROVE BackfillStands(cs1, h1)
  <2>1. /\ page.cursor.start \in Nat /\ page.cursor.start <= Len(history)
        /\ page.row.labels \in Seq(Labels) /\ page.found \in SUBSET Messages
        /\ page.seen \in SUBSET Messages /\ stored \in SUBSET Messages
    BY <1>1, <1>3, InPhase, PageAt, RowAt DEF InHistory, MailboxTypeOK
  <2> DEFINE c == page.cursor
             list == page.row.labels
  <2>2. Reached(cs1, h1, stored \cup Coming, list, c.label, c.at, c.start)
    BY <1>3, <2>1, ReachedOn DEF BackfillStands
  <2>3. page.step = "store" => Kept(cs1, h1, page.found, list, c.start)
    BY <1>3, <2>1, KeptOn DEF BackfillStands
  <2>4. ~c.reconcile \/ (page.step = "progress" /\ ReadToEnd) =>
          Kept(cs1, h1, stored, list, c.start)
    BY <1>3, <2>1, KeptOn DEF BackfillStands
  <2>5. page.step \in {"relist", "unlist"} =>
          /\ Kept(cs1, h1, page.seen, list, c.start)
          /\ Reached(cs1, h1, page.seen, list, page.labelled, N + 1, c.start)
    BY <1>3, <2>1, KeptOn, ReachedOn DEF BackfillStands
  <2> QED BY <2>2, <2>3, <2>4, <2>5 DEF BackfillStands
<1>4. ASSUME HistoryStands(carries, history), ReadsHistory, mailbox.backfilled
      PROVE  HistoryStands(cs1, h1)
  <2>1. /\ page.cursor.at \in Nat /\ page.cursor.at <= Len(history)
        /\ page.row.labels \in Seq(Labels) /\ page.found \in SUBSET Messages
        /\ stored \in SUBSET Messages
    BY <1>1, <1>4, InPhase, PageAt, RowAt DEF InHistory, MailboxTypeOK
  <2> DEFINE at == page.cursor.at
             list == page.row.labels
  <2>2. AllReached(cs1, h1, (stored \cup Coming) \ Going, list, at)
    BY <1>4, <2>1, ReachedOn DEF HistoryStands, AllReached
  <2>3. Kept(cs1, h1, stored \ Going, list, at)
    BY <1>4, <2>1, KeptOn DEF HistoryStands
  <2>4. page.step = "store" => Kept(cs1, h1, page.found, list, at)
    BY <1>4, <2>1, KeptOn DEF HistoryStands
  <2> QED BY <2>2, <2>3, <2>4 DEF HistoryStands
<1> QED BY <1>2, <1>3, <1>4 DEF BackfillStands, HistoryStands

GmailChanges ==
  \/ \E m \in Messages, l \in Labels : gmail_label(m, l) \/ gmail_unlabel(m, l)
  \/ \E m \in Messages : gmail_delete(m)

LEMMA GmailStep ==
  ASSUME MailboxInv, GmailChanges
  PROVE  MailboxInv'
<1>1. MailboxTypeOK
  BY DEF MailboxInv
<1>2. PICK rec : /\ Changes(carries, rec)
                 /\ carries' = [carries EXCEPT ![rec.m] = rec.left]
                 /\ history' = Append(history, rec)
                 /\ UNCHANGED <<forgotten, mailbox, stored, page, overlooked>>
  <2>1. ASSUME NEW m \in Messages, NEW l \in Labels, gmail_label(m, l)
        PROVE  \E rec : /\ Changes(carries, rec)
                        /\ carries' = [carries EXCEPT ![rec.m] = rec.left]
                        /\ history' = Append(history, rec)
    <3> DEFINE rec == [m |-> m, kind |-> "added", label |-> l, left |-> carries[m] \cup {l}]
    <3>1. carries[m] \subseteq Labels
      BY <1>1 DEF MailboxTypeOK
    <3>2. Changes(carries, rec)
      BY <3>1 DEF Changes, MailRecords
    <3> QED BY <2>1, <3>2 DEF gmail_label, Recorded
  <2>2. ASSUME NEW m \in Messages, NEW l \in Labels, gmail_unlabel(m, l)
        PROVE  \E rec : /\ Changes(carries, rec)
                        /\ carries' = [carries EXCEPT ![rec.m] = rec.left]
                        /\ history' = Append(history, rec)
    <3> DEFINE rec == [m |-> m, kind |-> "removed", label |-> l, left |-> carries[m] \ {l}]
    <3>1. carries[m] \subseteq Labels /\ l \in carries[m]
      BY <1>1, <2>2 DEF MailboxTypeOK, gmail_unlabel
    <3>2. Changes(carries, rec)
      BY <3>1 DEF Changes, MailRecords
    <3> QED BY <2>2, <3>2 DEF gmail_unlabel, Recorded
  <2>3. ASSUME NEW m \in Messages, gmail_delete(m)
        PROVE  \E rec : /\ Changes(carries, rec)
                        /\ carries' = [carries EXCEPT ![rec.m] = rec.left]
                        /\ history' = Append(history, rec)
    <3> DEFINE rec == [m |-> m, kind |-> "deleted", label |-> "any", left |-> {}]
    <3>1. Changes(carries, rec)
      BY DEF Changes, MailRecords
    <3> QED BY <2>3, <3>1 DEF gmail_delete, Recorded
  <2>4. UNCHANGED <<forgotten, mailbox, stored, page, overlooked>>
    BY DEF GmailChanges, gmail_label, gmail_unlabel, gmail_delete, Recorded
  <2> QED BY <2>1, <2>2, <2>3, <2>4 DEF GmailChanges
<1>3. rec \in MailRecords /\ rec.m \in Messages /\ rec.left \in SUBSET Labels
  BY <1>2 DEF Changes, MailRecords
<1>4. /\ carries \in [Messages -> SUBSET Labels] /\ history \in Seq(MailRecords)
      /\ HistoryTold(carries, history)
  BY <1>1 DEF MailboxTypeOK, MailboxInv
<1>5. MailboxTypeOK'
  <2>1. carries' \in [Messages -> SUBSET Labels] /\ history' \in Seq(MailRecords)
    BY <1>2, <1>3, <1>4, RecordOn
  <2> QED BY <1>1, <1>2, <2>1 DEF MailboxTypeOK
<1>6. Moves(carries, history, carries', history') /\ HistoryTold(carries', history')
  BY <1>2, <1>4, ChangeMoves, ChangeTold
<1>7. /\ RowStands(carries, history) => RowStands(carries', history')
      /\ BackfillStands(carries, history) => BackfillStands(carries', history')
      /\ HistoryStands(carries, history) => HistoryStands(carries', history')
  BY <1>6, StandsOn
<1>8. RowInStep(mailbox)' /\ PageInStep' /\ RowRead'
  BY <1>2
  DEF MailboxInv, RowInStep, PageInStep, RowRead, Backfills, ReadsHistory, ReadToEnd
<1>9. InHistory(history)'
  <2>1. Len(history) <= Len(history') /\ Len(history) \in Nat /\ Len(history') \in Nat
    BY <1>1, <1>5, <1>6, MailboxAt DEF Moves, MailboxTypeOK
  <2>2. InHistory(history) /\ PageInStep /\ RowInStep(mailbox)
    BY DEF MailboxInv
  <2>3. InHistory(history')
    BY <1>1, <2>1, <2>2, MailboxAt, InPhase DEF InHistory
  <2> QED BY <1>2, <2>3 DEF InHistory, Position, Backfills, ReadsHistory
<1>10. ~overlooked' =>
         /\ RowStands(carries, history)' /\ BackfillStands(carries, history)'
         /\ HistoryStands(carries, history)'
  <2>1. ~overlooked => /\ RowStands(carries', history') /\ BackfillStands(carries', history')
                       /\ HistoryStands(carries', history')
    BY <1>7 DEF MailboxInv
  <2> QED BY <1>2, <2>1
      DEF RowStands, BackfillStands, HistoryStands, Position, Backfills, ReadsHistory,
          ReadToEnd, Coming, Going
<1> QED BY <1>5, <1>6, <1>8, <1>9, <1>10 DEF MailboxInv

-----------------------------------------------------------------------------
(* What is told since a later place is told since an earlier one            *)

LEMMA ReachedMore ==
  ASSUME NEW cs, NEW h, NEW S, NEW T, S \subseteq T, NEW list, NEW k, NEW below,
         NEW at \in Nat, NEW from \in Nat, from <= at, h \in Seq(MailRecords),
         Reached(cs, h, S, list, k, below, at)
  PROVE  Reached(cs, h, T, list, k, below, from)
<1>1. DOMAIN h \subseteq Nat
  OBVIOUS
<1>2. \A m : Given(h, m, list, at) => Given(h, m, list, from)
  BY <1>1 DEF Given
<1> QED BY <1>2 DEF Reached

LEMMA KeptLess ==
  ASSUME NEW cs, NEW h, NEW S, NEW T, T \subseteq S, NEW list,
         NEW at \in Nat, NEW from \in Nat, from <= at, h \in Seq(MailRecords),
         Kept(cs, h, S, list, at)
  PROVE  Kept(cs, h, T, list, from)
<1>1. DOMAIN h \subseteq Nat
  OBVIOUS
<1>2. \A m : Taken(h, m, list, at) => Taken(h, m, list, from)
  BY <1>1 DEF Taken
<1> QED BY <1>2 DEF Kept

LEMMA KeptBoth ==
  ASSUME NEW cs, NEW h, NEW S, NEW T, NEW list, NEW at,
         Kept(cs, h, S, list, at), Kept(cs, h, T, list, at)
  PROVE  Kept(cs, h, S \cup T, list, at)
BY DEF Kept

-----------------------------------------------------------------------------
(* The admin, and what a page leaves alone                                  *)

LEMMA UpdateStep ==
  ASSUME MailboxInv, NEW labels \in LabelLists, update_mailbox(labels)
  PROVE  MailboxInv'
<1>1. MailboxTypeOK /\ mailbox \in MailRows
  BY MailboxAt DEF MailboxInv
<1>2. /\ mailbox' = [mailbox EXCEPT !.labels = labels, !.history_id = None,
                                    !.token = NoCursor, !.backfilled = FALSE]
      /\ overlooked' = (overlooked \/ (~mailbox.synced /\ (stored # {} \/ page # NoPage)))
      /\ UNCHANGED <<carries, history, forgotten, stored, page>>
  BY DEF update_mailbox, gmailVars
<1>3. mailbox' \in MailRows
  BY <1>1, <1>2, MailboxAssumption DEF MailRows, MailCursors
<1>4. /\ ~mailbox'.backfilled /\ mailbox'.token = NoCursor /\ mailbox'.history_id = None
      /\ mailbox'.token.phase = "none" /\ mailbox'.synced = mailbox.synced
      /\ mailbox'.labels = labels
  BY <1>1, <1>2 DEF MailRows, NoCursor
<1>5. MailboxTypeOK'
  BY <1>1, <1>2, <1>3 DEF MailboxTypeOK
<1>6. HistoryTold(carries, history)' /\ RowInStep(mailbox)' /\ PageInStep'
  BY <1>2, <1>4
  DEF MailboxInv, RowInStep, PageInStep, Backfills, ReadsHistory, ReadToEnd
<1>7. RowRead'
  <2> SUFFICES ASSUME page # NoPage
               PROVE  /\ mailbox' = [page.row EXCEPT !.labels = mailbox'.labels,
                                       !.history_id = None, !.token = NoCursor,
                                       !.backfilled = FALSE]
                      /\ page.row.synced \/ overlooked'
    BY <1>2 DEF RowRead
  <2>1. page.row \in MailRows
    BY <1>1, PageAt
  <2>2. CASE mailbox = page.row
    BY <1>2, <1>4, <2>2
  <2>3. CASE /\ mailbox = [page.row EXCEPT !.labels = mailbox.labels, !.history_id = None,
                                           !.token = NoCursor, !.backfilled = FALSE]
             /\ page.row.synced \/ overlooked
    <3>1. mailbox' = [page.row EXCEPT !.labels = labels, !.history_id = None,
                                      !.token = NoCursor, !.backfilled = FALSE]
      BY <1>1, <1>2, <2>1, <2>3 DEF MailRows
    <3> QED BY <1>2, <1>4, <2>3, <3>1
  <2> QED BY <2>2, <2>3 DEF MailboxInv, RowRead
<1>8. InHistory(history)'
  BY <1>2, <1>4 DEF MailboxInv, InHistory, Backfills, ReadsHistory
<1>9. ASSUME ~overlooked'
      PROVE  /\ RowStands(carries, history)' /\ BackfillStands(carries, history)'
             /\ HistoryStands(carries, history)'
  <2>1. ~overlooked /\ (mailbox.synced \/ stored = {})
    BY <1>1, <1>2, <1>9 DEF MailRows, MailboxTypeOK
  <2>2. RowStands(carries, history)'
    BY <1>2, <1>4, <2>1 DEF RowStands
  <2>3. BackfillStands(carries, history)'
    BY <1>2, <2>1 DEF MailboxInv, BackfillStands, Backfills, Coming, ReadToEnd
  <2>4. HistoryStands(carries, history)'
    BY <1>2, <1>4 DEF HistoryStands
  <2> QED BY <2>2, <2>3, <2>4
<1> QED BY <1>5, <1>6, <1>7, <1>8, <1>9 DEF MailboxInv

(* A step that changes only the page, and does not end it.                  *)
OnlyPage ==
  /\ UNCHANGED <<carries, history, forgotten, mailbox, overlooked>>
  /\ page # NoPage /\ page' # NoPage
  /\ page'.step \notin {"idle", "profile"} /\ page'.row = page.row

LEMMA PageOnly ==
  ASSUME MailboxInv, OnlyPage, MailboxTypeOK', PageInStep'
  PROVE  /\ HistoryTold(carries, history)' /\ RowInStep(mailbox)' /\ RowRead'
         /\ /\ Backfills' => page'.cursor.start <= Len(history)
            /\ ReadsHistory' /\ mailbox.backfilled =>
                 /\ Position <= page'.cursor.at /\ page'.cursor.at <= Len(history)
                 /\ ~page'.more => page'.last = page'.cursor.at
            => InHistory(history)'
         /\ ~overlooked /\ stored' = stored => RowStands(carries, history)'
<1>1. HistoryTold(carries, history)' /\ RowInStep(mailbox)'
  BY DEF MailboxInv, OnlyPage, RowInStep
<1>2. RowRead'
  BY DEF MailboxInv, OnlyPage, RowRead
<1>3. ASSUME /\ Backfills' => page'.cursor.start <= Len(history)
             /\ ReadsHistory' /\ mailbox.backfilled =>
                  /\ Position <= page'.cursor.at /\ page'.cursor.at <= Len(history)
                  /\ ~page'.more => page'.last = page'.cursor.at
      PROVE  InHistory(history)'
  BY <1>3 DEF MailboxInv, OnlyPage, InHistory, Position
<1>4. ASSUME ~overlooked, stored' = stored PROVE RowStands(carries, history)'
  BY <1>4 DEF MailboxInv, OnlyPage, RowStands, Position
<1> QED BY <1>1, <1>2, <1>3, <1>4

-----------------------------------------------------------------------------
(* The steps of a page                                                      *)

LEMMA PageBegins ==
  ASSUME MailboxInv, page_begin
  PROVE  MailboxInv'
<1>1. MailboxTypeOK /\ RowInStep(mailbox) /\ mailbox \in MailRows /\ InHistory(history)
  BY MailboxAt DEF MailboxInv
<1>2. /\ page' = [step |-> BeginAt(mailbox), row |-> mailbox, cursor |-> mailbox.token,
                  ids |-> {}, found |-> {}, removed |-> {}, seen |-> {}, labelled |-> 1,
                  more |-> FALSE, last |-> 0]
      /\ page = NoPage /\ page.step = "idle"
      /\ UNCHANGED <<carries, history, forgotten, mailbox, stored, overlooked>>
  BY DEF page_begin, Leaves, gmailVars, NoPage
<1>3. /\ page'.step = BeginAt(mailbox) /\ page'.row = mailbox /\ page'.cursor = mailbox.token
      /\ page'.removed = {} /\ page'.ids = {} /\ page'.found = {}
      /\ page'.seen = {} /\ page'.labelled = 1
  BY <1>2
<1>4. /\ page'.step \in {"history", "list", "profile"}
      /\ page'.step = "history" => mailbox.backfilled
      /\ page'.step # "history" => ~mailbox.backfilled
      /\ page'.step = "list" <=> mailbox.token.phase = "backfill" /\ ~mailbox.backfilled
  BY <1>1, <1>3 DEF BeginAt, RowInStep
<1>5. MailboxTypeOK'
  <2>1. page' \in MailPages
    BY <1>1, <1>2, <1>4, <1>3, RowAt DEF MailPages
  <2> QED BY <1>1, <1>2, <2>1 DEF MailboxTypeOK
<1>6. page' # NoPage
  BY <1>3, <1>4 DEF NoPage
<1>7. /\ Backfills' <=> page'.step = "list"
      /\ ~ReadsHistory'
  BY <1>4 DEF Backfills, ReadsHistory
<1>8. PageInStep'
  <2>1. RowInStep(page'.row)
    BY <1>1, <1>3
  <2> QED BY <1>1, <1>3, <1>4, <1>7, <2>1 DEF PageInStep, RowInStep
<1>9. HistoryTold(carries, history)' /\ RowInStep(mailbox)' /\ RowRead'
  BY <1>1, <1>2, <1>3 DEF MailboxInv, RowInStep, RowRead
<1>10. InHistory(history)'
  BY <1>1, <1>2, <1>3, <1>4, <1>7 DEF InHistory, Position
<1>11. ASSUME ~overlooked'
       PROVE  /\ RowStands(carries, history)' /\ BackfillStands(carries, history)'
              /\ HistoryStands(carries, history)'
  <2>1. RowStands(carries, history)
    BY <1>2, <1>11 DEF MailboxInv
  <2>2. RowStands(carries, history)'
    BY <1>2, <2>1 DEF RowStands, Position
  <2>3. BackfillStands(carries, history)'
    <3> SUFFICES ASSUME page'.step = "list" PROVE BackfillStands(carries, history)'
      BY <1>7 DEF BackfillStands
    <3>1. mailbox.token.phase = "backfill" /\ Coming' = {}
      BY <1>4 DEF Coming
    <3>2. stored' \cup Coming' = stored
      BY <1>2, <3>1
    <3> QED BY <1>2, <1>3, <2>1, <3>1, <3>2 DEF BackfillStands, RowStands
  <2>4. HistoryStands(carries, history)'
    BY <1>7 DEF HistoryStands
  <2> QED BY <2>2, <2>3, <2>4
<1> QED BY <1>5, <1>8, <1>9, <1>10, <1>11 DEF MailboxInv

LEMMA ProfileStep ==
  ASSUME MailboxInv, profile
  PROVE  MailboxInv'
<1> DEFINE new == [phase |-> "backfill", label |-> 1, at |-> N + 1, start |-> Len(history),
                   reconcile |-> Reconciles(page.row)]
<1>1. /\ MailboxTypeOK /\ page \in MailPages /\ page # NoPage /\ page.row \in MailRows
      /\ Len(history) \in Nat /\ N \in Nat /\ stored \in SUBSET Messages
  BY MailboxAt, PageAt DEF MailboxInv, profile
<1>2. /\ page.step = "profile" /\ page' = [page EXCEPT !.step = "list", !.cursor = new]
      /\ UNCHANGED <<carries, history, forgotten, mailbox, stored, overlooked>>
  BY DEF profile, Leaves, gmailVars
<1>3. new \in MailCursors
  BY <1>1, RowAt DEF MailCursors, Reconciles
<1>4. /\ page'.step = "list" /\ page'.cursor = new /\ page'.row = page.row
      /\ page'.removed = page.removed /\ page' # NoPage
      /\ page'.seen = page.seen /\ page'.labelled = page.labelled
  BY <1>1, <1>2 DEF MailPages, NoPage
<1>5. MailboxTypeOK'
  <2>1. page' \in MailPages
    BY <1>1, <1>2, <1>3 DEF MailPages
  <2> QED BY <1>1, <1>2, <2>1 DEF MailboxTypeOK
<1>6. Backfills' /\ ~ReadsHistory'
  BY <1>4 DEF Backfills, ReadsHistory
<1>7. PageInStep /\ RowRead /\ page.removed = {} /\ page.row.token.phase # "backfill"
      /\ ~page.row.backfilled /\ RowInStep(page.row) /\ page.seen = {} /\ page.labelled = 1
  BY <1>1, <1>2 DEF MailboxInv, PageInStep, Backfills, ReadsHistory
<1>8. PageInStep'
  BY <1>4, <1>6, <1>7 DEF PageInStep
<1>9. OnlyPage
  BY <1>1, <1>2, <1>4 DEF OnlyPage
<1>10. InHistory(history)'
  <2>1. page'.cursor.start = Len(history)
    BY <1>4
  <2> QED BY <1>1, <1>5, <1>6, <1>8, <1>9, <2>1, PageOnly
<1>11. ASSUME ~overlooked'
       PROVE  /\ RowStands(carries, history)' /\ BackfillStands(carries, history)'
              /\ HistoryStands(carries, history)'
  <2>1. ~overlooked /\ RowStands(carries, history)
    BY <1>2, <1>11 DEF MailboxInv
  <2>2. page.row.synced \/ stored = {}
    <3> SUFFICES ASSUME ~page.row.synced PROVE stored = {}
      OBVIOUS
    <3>1. mailbox = page.row
      BY <1>1, <1>7, <2>1 DEF RowRead
    <3>2. mailbox.token = NoCursor
      BY <1>1, <1>7, <3>1, RowAt, CursorAt DEF RowInStep
    <3> QED BY <1>2, <2>1, <3>1, <3>2 DEF RowStands
  <2>3. BackfillStands(carries, history)'
    <3>1. Reached(carries, history, stored \cup Coming', page.row.labels, 1, N + 1,
                  Len(history))
      <4>1. \A m \in Messages : ~(m >= N + 1) 
        BY <1>1 DEF Messages
      <4>2. \A j \in DOMAIN page.row.labels : ~(j < 1)
        BY <1>1, RowAt
      <4> QED BY <4>1, <4>2 DEF Reached
    <3>2. ~new.reconcile => Kept(carries, history, stored, page.row.labels, Len(history))
      BY <2>2 DEF Kept, Reconciles
    <3> QED BY <1>2, <1>4, <3>1, <3>2 DEF BackfillStands
  <2> QED BY <1>5, <1>6, <1>8, <1>9, <2>1, <2>3, <1>2, PageOnly DEF HistoryStands
<1> QED BY <1>5, <1>8, <1>9, <1>10, <1>11, PageOnly DEF MailboxInv

LEMMA AtMostOne ==
  ASSUME NEW S, IsFiniteSet(S), ~(Cardinality(S) > 1), NEW x \in S, NEW y \in S
  PROVE  x = y
<1> SUFFICES ASSUME x # y PROVE FALSE
  OBVIOUS
<1>1. IsFiniteSet({x, y}) /\ Cardinality({x, y}) = 2
  <2>1. IsFiniteSet({x}) /\ Cardinality({x}) = 1
    BY FS_Singleton
  <2>2. {x} \cup {y} = {x, y} /\ y \notin {x}
    OBVIOUS
  <2> QED BY <2>1, <2>2, FS_AddElement
<1>2. Cardinality({x, y}) <= Cardinality(S)
  BY <1>1, FS_Subset
<1>3. Cardinality(S) \in Nat
  BY FS_CardinalityType
<1> QED BY <1>1, <1>2, <1>3

(* What a page of messages lists, and where the next one goes on.           *)
ListedNow(cs, list, c) == IF c.label <= Len(list)
  THEN {m \in Messages : m < c.at /\ list[c.label] \in cs[m]} ELSE {}
Onward(listed, list, c) ==
  IF Cardinality(listed) > 1 THEN [c EXCEPT !.at = Max(listed)]
  ELSE IF c.label <= Len(list) THEN [c EXCEPT !.label = @ + 1, !.at = N + 1] ELSE c
Newest(listed) == IF listed = {} THEN {} ELSE {Max(listed)}

LEMMA ListReaches ==
  ASSUME NEW h, NEW S, NEW list \in Seq(Labels), NEW c \in MailCursors,
         c.phase = "backfill", Reached(carries, h, S, list, c.label, c.at, c.start),
         NEW listed, listed = ListedNow(carries, list, c), NEW on, on = Onward(listed, list, c)
  PROVE  /\ on \in MailCursors /\ on.phase = "backfill" /\ on.start = c.start
         /\ on.reconcile = c.reconcile /\ Newest(listed) \in SUBSET Messages
         /\ Reached(carries, h, S \cup Newest(listed), list, on.label, on.at, c.start)
<1>1. /\ c.label \in Nat \ {0} /\ c.at \in Nat /\ N \in Nat /\ Len(list) \in Nat
      /\ c \in [phase : {"backfill"}, label : Nat \ {0}, at : Nat, start : Nat,
                reconcile : BOOLEAN]
      /\ DOMAIN list = 1 .. Len(list)
  BY CursorAt, MailboxAssumption
<1>2. listed \in SUBSET Messages /\ IsFiniteSet(listed)
  <2>1. listed \in SUBSET Messages
    BY DEF ListedNow
  <2>2. IsFiniteSet(Messages)
    BY <1>1, FS_Interval DEF Messages
  <2> QED BY <2>1, <2>2, FS_Subset
<1>3. listed # {} => Max(listed) \in listed /\ \A m \in listed : Max(listed) >= m
  BY <1>2, NewestOf
<1>4. Messages \subseteq Nat
  BY DEF Messages
<1>5. Newest(listed) \in SUBSET Messages
  BY <1>2, <1>3 DEF Newest
<1>6. CASE Cardinality(listed) > 1
  <2>0. listed # {}
    <3>1. ~(Cardinality({}) > 1)
      BY FS_EmptySet
    <3> QED BY <1>6, <3>1
  <2>1. Max(listed) \in Nat
    BY <1>2, <1>3, <1>4, <2>0
  <2>2. on = [c EXCEPT !.at = Max(listed)]
    BY <1>6 DEF Onward
  <2>3. /\ on \in MailCursors /\ on.phase = "backfill" /\ on.start = c.start
        /\ on.reconcile = c.reconcile /\ on.label = c.label /\ on.at = Max(listed)
    BY <1>1, <2>1, <2>2 DEF MailCursors
  <2>4. c.label <= Len(list)
    BY <2>0 DEF ListedNow
  <2>5. Reached(carries, h, S \cup Newest(listed), list, on.label, on.at, c.start)
    <3> SUFFICES ASSUME NEW m \in Messages \ (S \cup Newest(listed)), NEW j \in DOMAIN list,
                        j < c.label \/ (j = c.label /\ m >= Max(listed)),
                        list[j] \in carries[m]
                 PROVE  Given(h, m, list, c.start)
      BY <2>3 DEF Reached
    <3>1. CASE j = c.label /\ ~(m >= c.at)
      <4>1. m \in listed
        BY <1>1, <1>4, <2>4, <3>1 DEF ListedNow
      <4>2. m = Max(listed)
        BY <1>1, <1>3, <1>4, <2>1, <3>1, <4>1
      <4> QED BY <2>0, <4>2 DEF Newest
    <3>2. CASE j < c.label \/ (j = c.label /\ m >= c.at)
      BY <3>2 DEF Reached
    <3> QED BY <3>1, <3>2
  <2> QED BY <1>5, <2>3, <2>5
<1>7. CASE ~(Cardinality(listed) > 1) /\ c.label <= Len(list)
  <2>1. c.label + 1 \in Nat \ {0} /\ N + 1 \in Nat
    BY <1>1
  <2>2. on = [c EXCEPT !.label = c.label + 1, !.at = N + 1]
    BY <1>7 DEF Onward
  <2>3. /\ on \in MailCursors /\ on.phase = "backfill" /\ on.start = c.start
        /\ on.reconcile = c.reconcile /\ on.label = c.label + 1 /\ on.at = N + 1
    BY <1>1, <2>1, <2>2 DEF MailCursors
  <2>5. Reached(carries, h, S \cup Newest(listed), list, on.label, on.at, c.start)
    <3> SUFFICES ASSUME NEW m \in Messages \ (S \cup Newest(listed)), NEW j \in DOMAIN list,
                        j < c.label + 1 \/ (j = c.label + 1 /\ m >= N + 1),
                        list[j] \in carries[m]
                 PROVE  Given(h, m, list, c.start)
      BY <2>3 DEF Reached
    <3>0. j < c.label \/ j = c.label
      BY <1>1 DEF Messages
    <3>1. CASE j = c.label /\ ~(m >= c.at)
      <4>1. m \in listed
        BY <1>1, <1>4, <1>7, <3>1 DEF ListedNow
      <4>2. m = Max(listed)
        BY <1>2, <1>3, <1>7, <4>1, AtMostOne
      <4> QED BY <4>1, <4>2 DEF Newest
    <3>2. CASE j < c.label \/ (j = c.label /\ m >= c.at)
      BY <3>2 DEF Reached
    <3> QED BY <3>0, <3>1, <3>2
  <2> QED BY <1>5, <2>3, <2>5
<1>8. CASE ~(Cardinality(listed) > 1) /\ ~(c.label <= Len(list))
  <2>1. on = c
    BY <1>8 DEF Onward
  <2>2. Reached(carries, h, S \cup Newest(listed), list, c.label, c.at, c.start)
    BY DEF Reached
  <2> QED BY <1>5, <2>1, <2>2
<1> QED BY <1>6, <1>7, <1>8

LEMMA ListStep ==
  ASSUME MailboxInv, list_messages
  PROVE  MailboxInv'
<1> DEFINE list == page.row.labels
           c == page.cursor
           listed == ListedNow(carries, list, c)
           on == Onward(listed, list, c)
<1>1. /\ MailboxTypeOK /\ page \in MailPages /\ page # NoPage /\ page.row \in MailRows
      /\ list \in Seq(Labels) /\ PageInStep /\ InHistory(history)
  BY PageAt, RowAt DEF MailboxInv, list_messages
<1>2. /\ page.step = "list"
      /\ page' = [page EXCEPT !.step = "fetch", !.cursor = on, !.ids = Newest(listed)]
      /\ UNCHANGED <<carries, history, forgotten, mailbox, stored, overlooked>>
  BY DEF list_messages, Leaves, gmailVars, ListedNow, Listed, Onward, Newest
<1>3. Backfills /\ c.phase = "backfill" /\ c \in MailCursors
  BY <1>1, <1>2, InPhase, PageAt DEF Backfills
<1>4. ASSUME NEW S, Reached(carries, history, S, list, c.label, c.at, c.start)
      PROVE  /\ on \in MailCursors /\ on.phase = "backfill" /\ on.start = c.start
             /\ on.reconcile = c.reconcile /\ Newest(listed) \in SUBSET Messages
             /\ Reached(carries, history, S \cup Newest(listed), list, on.label, on.at, c.start)
  BY <1>1, <1>3, <1>4, ListReaches
<1>5. /\ on \in MailCursors /\ on.phase = "backfill" /\ on.start = c.start
      /\ on.reconcile = c.reconcile /\ Newest(listed) \in SUBSET Messages
  <2>1. Reached(carries, history, Messages, list, c.label, c.at, c.start)
    BY DEF Reached
  <2> HIDE DEF on, listed, list, c
  <2> QED BY <1>4, <2>1
<1> HIDE DEF on, listed
<1>6. /\ page'.step = "fetch" /\ page'.cursor = on /\ page'.row = page.row
      /\ page'.ids = Newest(listed) /\ page'.removed = page.removed /\ page' # NoPage
      /\ page'.seen = page.seen /\ page'.labelled = page.labelled
      /\ page' \in MailPages
  BY <1>1, <1>2, <1>5 DEF MailPages, NoPage
<1>7. MailboxTypeOK'
  BY <1>1, <1>2, <1>6 DEF MailboxTypeOK
<1>8. Backfills' /\ ~ReadsHistory'
  BY <1>5, <1>6 DEF Backfills, ReadsHistory
<1>9. page.removed = {} /\ ~page.row.backfilled /\ RowInStep(page.row)
      /\ page.seen = {} /\ page.labelled = 1
      /\ (page.row.token.phase = "backfill" =>
            c.start = page.row.token.start /\ c.reconcile = page.row.token.reconcile)
  BY <1>1, <1>2, <1>3, InPhase DEF PageInStep
<1>10. PageInStep'
  BY <1>5, <1>6, <1>8, <1>9 DEF PageInStep
<1>11. OnlyPage
  BY <1>1, <1>2, <1>6 DEF OnlyPage
<1>12. InHistory(history)'
  <2>1. page'.cursor.start <= Len(history)
    BY <1>1, <1>3, <1>5, <1>6 DEF InHistory
  <2> QED BY <1>7, <1>8, <1>10, <1>11, <2>1, PageOnly
<1>13. ASSUME ~overlooked'
       PROVE  /\ RowStands(carries, history)' /\ BackfillStands(carries, history)'
              /\ HistoryStands(carries, history)'
  <2>1. ~overlooked /\ BackfillStands(carries, history)
    BY <1>2, <1>13 DEF MailboxInv
  <2>2. Coming = {} /\ Coming' = Newest(listed)
    BY <1>2, <1>6 DEF Coming
  <2>3. Reached(carries, history, stored \cup Newest(listed), list, on.label, on.at, c.start)
    <3>1. stored \cup Coming = stored
      BY <2>2
    <3> QED BY <1>3, <1>4, <2>1, <3>1 DEF BackfillStands
  <2>4. c.reconcile \/ Kept(carries, history, stored, list, c.start)
    BY <1>3, <2>1 DEF BackfillStands
  <2>5. BackfillStands(carries, history)'
    BY <1>2, <1>5, <1>6, <2>2, <2>3, <2>4 DEF BackfillStands
  <2> QED BY <1>2, <1>7, <1>8, <1>10, <1>11, <2>1, <2>5, PageOnly DEF HistoryStands
<1> QED BY <1>7, <1>10, <1>11, <1>12, <1>13, PageOnly DEF MailboxInv

LEMMA FetchStep ==
  ASSUME MailboxInv, take_fetch
  PROVE  MailboxInv'
<1> DEFINE list == page.row.labels
           c == page.cursor
           found == {m \in page.ids \ stored : carries[m] \cap ours # {}}
<1>1. /\ MailboxTypeOK /\ page \in MailPages /\ page # NoPage /\ page.row \in MailRows
      /\ list \in Seq(Labels) /\ PageInStep /\ InHistory(history)
      /\ page.ids \in SUBSET Messages
  BY PageAt, RowAt DEF MailboxInv, take_fetch
<1>2. /\ page.step = "fetch" /\ page' = [page EXCEPT !.step = "store", !.found = found]
      /\ UNCHANGED <<carries, history, forgotten, mailbox, stored, overlooked>>
  BY DEF take_fetch, Leaves, gmailVars
<1>3. found \in SUBSET Messages /\ \A m \in found : Carried(carries, m, list)
  BY <1>1 DEF Carried, ours
<1>4. ASSUME NEW S, NEW T, NEW k, NEW below, NEW at,
             Reached(carries, history, (stored \cup page.ids) \ T, list, k, below, at)
      PROVE  Reached(carries, history, (stored \cup found) \ T, list, k, below, at)
  <2> SUFFICES ASSUME NEW m \in Messages \ ((stored \cup found) \ T), NEW j \in DOMAIN list,
                      j < k \/ (j = k /\ m >= below), list[j] \in carries[m]
               PROVE  Given(history, m, list, at)
    BY DEF Reached
  <2>1. m \in page.ids \ stored => m \in found
    BY DEF ours, Range
  <2>2. m \notin (stored \cup page.ids) \ T
    BY <2>1
  <2> HIDE DEF found
  <2> QED BY <1>4, <2>2 DEF Reached
<1> HIDE DEF found
<1>6. /\ page'.step = "store" /\ page'.cursor = c /\ page'.row = page.row
      /\ page'.found = found /\ page'.removed = page.removed /\ page' # NoPage
      /\ page'.more = page.more /\ page'.last = page.last /\ page' \in MailPages
      /\ page'.seen = page.seen /\ page'.labelled = page.labelled
  BY <1>1, <1>2, <1>3 DEF MailPages, NoPage
<1>7. MailboxTypeOK'
  BY <1>1, <1>2, <1>6 DEF MailboxTypeOK
<1>8. Backfills' = Backfills /\ ReadsHistory' = ReadsHistory
  BY <1>2, <1>6 DEF Backfills, ReadsHistory
<1>10. PageInStep'
  BY <1>1, <1>2, <1>6, <1>8 DEF PageInStep
<1>11. OnlyPage
  BY <1>1, <1>2, <1>6 DEF OnlyPage
<1>12. InHistory(history)'
  <2>1. Backfills' => page'.cursor.start <= Len(history)
    BY <1>1, <1>6, <1>8 DEF InHistory
  <2>2. ReadsHistory' /\ mailbox.backfilled =>
          /\ Position <= page'.cursor.at /\ page'.cursor.at <= Len(history)
          /\ ~page'.more => page'.last = page'.cursor.at
    BY <1>1, <1>6, <1>8 DEF InHistory
  <2> QED BY <1>7, <1>10, <1>11, <2>1, <2>2, PageOnly
<1>13. ASSUME ~overlooked'
       PROVE  /\ RowStands(carries, history)' /\ BackfillStands(carries, history)'
              /\ HistoryStands(carries, history)'
  <2>1. ~overlooked /\ BackfillStands(carries, history) /\ HistoryStands(carries, history)
    BY <1>2, <1>13 DEF MailboxInv
  <2>2. /\ Coming = page.ids /\ Coming' = found /\ Going = page.removed
        /\ Going' = page.removed
    BY <1>2, <1>6 DEF Coming, Going
  <2>3. \A at : Kept(carries, history, found, list, at)
    BY <1>3 DEF Kept
  <2>5. BackfillStands(carries, history)'
    <3> SUFFICES ASSUME Backfills PROVE BackfillStands(carries, history)'
      BY <1>8 DEF BackfillStands
    <3>1. Reached(carries, history, (stored \cup page.ids) \ {}, list, c.label, c.at, c.start)
      <4>1. (stored \cup page.ids) \ {} = stored \cup Coming
        BY <2>2
      <4> QED BY <2>1, <4>1 DEF BackfillStands
    <3>2. Reached(carries, history, stored \cup found, list, c.label, c.at, c.start)
      <4>1. (stored \cup found) \ {} = stored \cup found
        OBVIOUS
      <4>2. Reached(carries, history, (stored \cup found) \ {}, list, c.label, c.at, c.start)
        BY <1>4, <3>1
      <4> QED BY <4>1, <4>2
    <3>3. c.reconcile \/ Kept(carries, history, stored, list, c.start)
      BY <2>1 DEF BackfillStands
    <3> QED BY <1>2, <1>6, <2>2, <2>3, <3>2, <3>3 DEF BackfillStands
  <2>6. HistoryStands(carries, history)'
    <3> SUFFICES ASSUME ReadsHistory, mailbox.backfilled PROVE HistoryStands(carries, history)'
      BY <1>2, <1>8 DEF HistoryStands
    <3>1. Reached(carries, history, (stored \cup page.ids) \ page.removed, list,
                  Len(list) + 1, N + 1, c.at)
      BY <2>1, <2>2 DEF HistoryStands, AllReached
    <3>2. AllReached(carries, history, (stored \cup found) \ page.removed, list, c.at)
      BY <1>4, <3>1 DEF AllReached
    <3>3. Kept(carries, history, stored \ page.removed, list, c.at)
      BY <2>1, <2>2 DEF HistoryStands
    <3> QED BY <1>2, <1>6, <2>2, <2>3, <3>2, <3>3 DEF HistoryStands
  <2> QED BY <1>2, <1>7, <1>10, <1>11, <2>1, <2>5, <2>6, PageOnly
<1> QED BY <1>7, <1>10, <1>11, <1>12, <1>13, PageOnly DEF MailboxInv

(* A row that says something about messages is the one the page has read.   *)
LEMMA RowSame ==
  ASSUME MailboxTypeOK, RowRead, page # NoPage,
         mailbox.backfilled \/ mailbox.token.phase = "backfill" \/ mailbox.token # NoCursor
  PROVE  mailbox = page.row
<1> SUFFICES ASSUME mailbox = [page.row EXCEPT !.labels = mailbox.labels, !.history_id = None,
                                               !.token = NoCursor, !.backfilled = FALSE]
             PROVE  FALSE
  BY DEF RowRead
<1>1. page.row \in MailRows
  BY PageAt
<1>2. \A list : LET row == [page.row EXCEPT !.labels = list, !.history_id = None,
                                            !.token = NoCursor, !.backfilled = FALSE]
                IN row.backfilled = FALSE /\ row.token = NoCursor
  BY <1>1 DEF MailRows
<1>3. NoCursor.phase = "none"
  BY DEF NoCursor
<1> QED BY <1>2, <1>3

LEMMA StoreStep ==
  ASSUME MailboxInv, store_emails
  PROVE  MailboxInv'
<1> DEFINE list == page.row.labels
           c == page.cursor
           next == IF c.phase = "history" THEN "drop"
                   ELSE IF ReadToEnd /\ c.reconcile THEN "relist" ELSE "progress"
<1>1. /\ MailboxTypeOK /\ page \in MailPages /\ page # NoPage /\ page.row \in MailRows
      /\ list \in Seq(Labels) /\ PageInStep /\ InHistory(history) /\ RowRead
      /\ page.found \in SUBSET Messages /\ page.cursor \in MailCursors
      /\ history \in Seq(MailRecords) /\ mailbox \in MailRows /\ RowInStep(mailbox)
      /\ stored \in SUBSET Messages
  BY PageAt, RowAt, MailboxAt DEF MailboxInv, store_emails, MailboxTypeOK
<1>2. /\ page.step = "store" /\ page' = [page EXCEPT !.step = next]
      /\ stored' = stored \cup page.found
      /\ UNCHANGED <<carries, history, forgotten, mailbox, overlooked>>
  BY DEF store_emails, Leaves, gmailVars
<1>3. next \in {"drop", "relist", "progress"}
  OBVIOUS
<1>4. /\ page'.step = next /\ page'.cursor = c /\ page'.row = page.row
      /\ page'.removed = page.removed /\ page'.seen = page.seen
      /\ page'.labelled = page.labelled /\ page'.more = page.more /\ page'.last = page.last
      /\ page' # NoPage /\ page' \in MailPages
  BY <1>1, <1>2, <1>3 DEF MailPages, NoPage
<1>5. MailboxTypeOK'
  BY <1>1, <1>2, <1>4 DEF MailboxTypeOK
<1>6. (Backfills \/ ReadsHistory) /\ ~(Backfills /\ ReadsHistory)
  BY <1>1, <1>2, InPhase DEF PageInStep
<1>7. Backfills => c.phase = "backfill" /\ Backfills' /\ ~ReadsHistory' /\ ~page.row.backfilled
  BY <1>1, <1>4, InPhase DEF Backfills, ReadsHistory
<1>8. ReadsHistory =>
        c.phase = "history" /\ ReadsHistory' /\ ~Backfills' /\ page.row.backfilled
  BY <1>1, <1>4, InPhase DEF Backfills, ReadsHistory
<1>9. ReadToEnd' = ReadToEnd
  BY <1>4 DEF ReadToEnd
<1>10. PageInStep'
  <2>1. page.seen = {} /\ page.labelled = 1 /\ RowInStep(page.row)
    BY <1>1, <1>2 DEF PageInStep
  <2>2. page'.step \in {"relist", "unlist"} => page'.cursor.reconcile /\ ReadToEnd'
    BY <1>4, <1>9
  <2>3. page'.step \notin {"unlist", "history"} /\ 1 <= Len(list)
    BY <1>1, <1>4, RowAt
  <2> HIDE DEF next
  <2> QED BY <1>1, <1>3, <1>4, <1>6, <1>7, <1>8, <2>1, <2>2, <2>3 DEF PageInStep
<1>11. OnlyPage
  BY <1>1, <1>2, <1>3, <1>4 DEF OnlyPage
<1>12. InHistory(history)'
  <2>1. Backfills' => page'.cursor.start <= Len(history)
    BY <1>1, <1>4, <1>6, <1>7, <1>8 DEF InHistory
  <2>2. ReadsHistory' /\ mailbox.backfilled =>
          /\ Position <= page'.cursor.at /\ page'.cursor.at <= Len(history)
          /\ ~page'.more => page'.last = page'.cursor.at
    BY <1>1, <1>4, <1>6, <1>7, <1>8 DEF InHistory
  <2> QED BY <1>5, <1>10, <1>11, <2>1, <2>2, PageOnly
<1>13. ASSUME ~overlooked'
       PROVE  /\ RowStands(carries, history)' /\ BackfillStands(carries, history)'
              /\ HistoryStands(carries, history)'
  <2>1. /\ ~overlooked /\ RowStands(carries, history) /\ BackfillStands(carries, history)
        /\ HistoryStands(carries, history)
    BY <1>2, <1>13 DEF MailboxInv
  <2>2. /\ Coming = page.found /\ Coming' = {} /\ Going = page.removed
        /\ ReadsHistory => Going' = page.removed
    BY <1>2, <1>3, <1>4, <1>8 DEF Coming, Going
  <2>3. ASSUME mailbox.backfilled
        PROVE  /\ AllReached(carries, history, stored', mailbox.labels, Position)
               /\ Kept(carries, history, stored', mailbox.labels, Position)
    <3>1. mailbox = page.row /\ ReadsHistory
      BY <1>1, <1>6, <1>7, <2>3, RowSame
    <3>2. /\ Position \in Nat /\ c.at \in Nat /\ Position <= c.at
      BY <1>1, <2>3, <3>1, MailboxAt, InPhase DEF InHistory
    <3>3. Kept(carries, history, page.found, list, Position)
      BY <1>1, <1>2, <2>1, <2>3, <3>1, <3>2, KeptLess DEF HistoryStands
    <3>4. Kept(carries, history, stored, mailbox.labels, Position)
      BY <2>1, <2>3 DEF RowStands
    <3>5. AllReached(carries, history, stored', mailbox.labels, Position)
      BY <1>1, <1>2, <2>1, <2>3, <3>2, ReachedMore DEF RowStands, AllReached
    <3> QED BY <1>2, <3>1, <3>3, <3>4, <3>5, KeptBoth
  <2>4. ASSUME mailbox.token.phase = "backfill"
        PROVE  LET t == mailbox.token IN
               /\ Reached(carries, history, stored', mailbox.labels, t.label, t.at, t.start)
               /\ t.reconcile \/ Kept(carries, history, stored', mailbox.labels, t.start)
    <3>1. mailbox = page.row /\ Backfills
      BY <1>1, <1>6, <1>8, <2>4, RowSame DEF RowInStep
    <3>2. mailbox.token.start = c.start /\ c.start \in Nat
      BY <1>1, <2>4, <3>1, InPhase DEF PageInStep
    <3>3. Kept(carries, history, page.found, list, c.start)
      BY <1>2, <2>1, <3>1 DEF BackfillStands
    <3>4. Reached(carries, history, stored', mailbox.labels, mailbox.token.label,
                  mailbox.token.at, mailbox.token.start)
      BY <1>1, <1>2, <2>1, <2>4, <3>2, ReachedMore DEF RowStands
    <3>5. \/ mailbox.token.reconcile
          \/ Kept(carries, history, stored, mailbox.labels, mailbox.token.start)
      BY <2>1, <2>4 DEF RowStands
    <3> QED BY <1>2, <3>1, <3>2, <3>3, <3>4, <3>5, KeptBoth
  <2>5. RowStands(carries, history)'
    <3>1. page'.step \notin {"idle", "profile"} /\ Position' = Position
      BY <1>2, <1>3, <1>4 DEF Position
    <3> QED BY <1>2, <2>3, <2>4, <3>1 DEF RowStands
  <2>6. BackfillStands(carries, history)'
    <3> SUFFICES ASSUME Backfills PROVE BackfillStands(carries, history)'
      BY <1>6, <1>8 DEF BackfillStands
    <3>1. Reached(carries, history, stored', list, c.label, c.at, c.start)
      <4>1. stored' = stored \cup Coming
        BY <1>2, <2>2
      <4> QED BY <2>1, <4>1 DEF BackfillStands
    <3>2. Kept(carries, history, page.found, list, c.start)
      BY <1>2, <2>1 DEF BackfillStands
    <3>3. ~c.reconcile => Kept(carries, history, stored', list, c.start)
      BY <1>2, <2>1, <3>2, KeptBoth DEF BackfillStands
    <3>4. page'.step = "progress" /\ ReadToEnd => ~c.reconcile
      BY <1>4, <1>7
    <3>5. page'.step # "store" /\ page'.step # "unlist"
      BY <1>3, <1>4
    <3>6. Kept(carries, history, {}, list, c.start)
      BY DEF Kept
    <3>7. Reached(carries, history, {}, list, 1, N + 1, c.start)
      <4>1. \A m \in Messages : ~(m >= N + 1)
        BY MailboxAssumption DEF Messages
      <4>2. \A j \in DOMAIN list : ~(j < 1)
        BY <1>1, RowAt
      <4> QED BY <4>1, <4>2 DEF Reached
    <3>8. page.seen = {} /\ page.labelled = 1
      BY <1>1, <1>2 DEF PageInStep
    <3>9. stored' \cup Coming' = stored'
      BY <2>2
    <3> HIDE DEF next
    <3> QED BY <1>2, <1>4, <1>9, <3>1, <3>3, <3>4, <3>5, <3>6, <3>7, <3>8, <3>9
            DEF BackfillStands
  <2>7. HistoryStands(carries, history)'
    <3> SUFFICES ASSUME ReadsHistory, mailbox.backfilled PROVE HistoryStands(carries, history)'
      BY <1>2, <1>6, <1>7 DEF HistoryStands
    <3>1. AllReached(carries, history, (stored' \cup Coming') \ Going', list, c.at)
      <4>1. (stored' \cup Coming') \ Going' = (stored \cup Coming) \ Going
        BY <1>2, <2>2
      <4> QED BY <2>1, <4>1 DEF HistoryStands
    <3>2. Kept(carries, history, stored' \ Going', list, c.at)
      <4>1. Kept(carries, history, stored \ Going, list, c.at)
        BY <2>1 DEF HistoryStands
      <4>2. Kept(carries, history, page.found, list, c.at)
        BY <1>2, <2>1 DEF HistoryStands
      <4>3. stored' \ Going' \subseteq (stored \ Going) \cup page.found
        BY <1>2, <2>2
      <4> QED BY <4>1, <4>2, <4>3 DEF Kept
    <3>3. page'.step # "store"
      BY <1>3, <1>4
    <3> HIDE DEF next
    <3> QED BY <1>2, <1>4, <3>1, <3>2, <3>3 DEF HistoryStands
  <2> QED BY <2>5, <2>6, <2>7
<1> QED BY <1>5, <1>10, <1>11, <1>12, <1>13, PageOnly DEF MailboxInv

LEMMA RelistStep ==
  ASSUME MailboxInv, relist
  PROVE  MailboxInv'
<1> DEFINE list == page.row.labels
           c == page.cursor
           k == page.labelled
           listed == Listed(list[k], N + 1)
           next == IF k = Len(list) THEN "unlist" ELSE "relist"
<1>1. /\ MailboxTypeOK /\ page \in MailPages /\ page # NoPage /\ page.row \in MailRows
      /\ list \in Seq(Labels) /\ PageInStep /\ InHistory(history) /\ N \in Nat
      /\ page.seen \in SUBSET Messages /\ k \in Nat \ {0} /\ Len(list) \in Nat
  BY PageAt, RowAt, MailboxAt DEF MailboxInv, relist
<1>2. /\ page.step = "relist"
      /\ page' = [page EXCEPT !.seen = page.seen \cup listed, !.labelled = k + 1,
                              !.step = next]
      /\ UNCHANGED <<carries, history, forgotten, mailbox, stored, overlooked>>
  BY DEF relist, Leaves, gmailVars
<1>3. /\ listed \in SUBSET Messages /\ k + 1 \in Nat \ {0} /\ next \in {"relist", "unlist"}
      /\ next = "relist" => k # Len(list)
      /\ next = "unlist" => k = Len(list)
  BY <1>1 DEF Listed
<1> HIDE DEF next
<1>4. /\ page'.step = next /\ page'.cursor = c /\ page'.row = page.row
      /\ page'.removed = page.removed /\ page'.seen = page.seen \cup listed
      /\ page'.labelled = k + 1 /\ page' # NoPage /\ page' \in MailPages
  BY <1>1, <1>2, <1>3 DEF MailPages, NoPage
<1>5. MailboxTypeOK'
  BY <1>1, <1>2, <1>4 DEF MailboxTypeOK
<1>6. Backfills /\ Backfills' /\ ~ReadsHistory' /\ c.phase = "backfill"
      /\ ~page.row.backfilled /\ ReadToEnd' = ReadToEnd
  BY <1>1, <1>2, <1>3, <1>4, InPhase DEF Backfills, ReadsHistory, ReadToEnd
<1>7. k <= Len(list) /\ c.reconcile /\ ReadToEnd /\ RowInStep(page.row)
  BY <1>1, <1>2 DEF PageInStep
<1>10. PageInStep'
  <2>1. /\ page'.step = "relist" => k + 1 <= Len(list)
        /\ page'.step = "unlist" => k + 1 = Len(list) + 1
    BY <1>1, <1>3, <1>4, <1>7
  <2> QED BY <1>1, <1>2, <1>3, <1>4, <1>6, <1>7, <2>1 DEF PageInStep
<1>11. OnlyPage
  BY <1>1, <1>2, <1>3, <1>4 DEF OnlyPage
<1>12. InHistory(history)'
  <2>1. page'.cursor.start <= Len(history)
    BY <1>1, <1>4, <1>6 DEF InHistory
  <2> QED BY <1>5, <1>6, <1>10, <1>11, <2>1, PageOnly
<1>13. ASSUME ~overlooked'
       PROVE  /\ RowStands(carries, history)' /\ BackfillStands(carries, history)'
              /\ HistoryStands(carries, history)'
  <2>1. ~overlooked /\ BackfillStands(carries, history)
    BY <1>2, <1>13 DEF MailboxInv
  <2>2. Coming = {} /\ Coming' = {}
    BY <1>2, <1>3, <1>4 DEF Coming
  <2>3. Kept(carries, history, page.seen \cup listed, list, c.start)
    <3>1. k \in DOMAIN list
      BY <1>1, <1>7
    <3>2. list[k] \in Range(list)
      BY <3>1 DEF Range
    <3>3. Kept(carries, history, listed, list, c.start)
      BY <3>2 DEF Kept, Carried, Listed
    <3>4. Kept(carries, history, page.seen, list, c.start)
      BY <1>2, <1>6, <2>1 DEF BackfillStands
    <3> QED BY <3>3, <3>4, KeptBoth
  <2>4. Reached(carries, history, page.seen \cup listed, list, k + 1, N + 1, c.start)
    <3> SUFFICES ASSUME NEW m \in Messages \ (page.seen \cup listed), NEW j \in DOMAIN list,
                        j < k + 1 \/ (j = k + 1 /\ m >= N + 1), list[j] \in carries[m]
                 PROVE  Given(history, m, list, c.start)
      BY DEF Reached
    <3>1. m <= N /\ m \in Nat /\ j \in Nat /\ m < N + 1
      BY <1>1 DEF Messages
    <3>2. j # k
      BY <3>1 DEF Listed
    <3>3. j < k
      BY <1>1, <3>1, <3>2
    <3>4. Reached(carries, history, page.seen, list, k, N + 1, c.start)
      BY <1>2, <1>6, <2>1 DEF BackfillStands
    <3> QED BY <3>3, <3>4 DEF Reached
  <2>5. BackfillStands(carries, history)'
    <3>1. Reached(carries, history, stored \cup Coming, list, c.label, c.at, c.start)
      BY <1>6, <2>1 DEF BackfillStands
    <3> QED BY <1>2, <1>3, <1>4, <1>7, <2>2, <2>3, <2>4, <3>1 DEF BackfillStands
  <2> QED BY <1>2, <1>5, <1>6, <1>10, <1>11, <2>1, <2>5, PageOnly DEF HistoryStands
<1> QED BY <1>5, <1>10, <1>11, <1>12, <1>13, PageOnly DEF MailboxInv

LEMMA UnlistStep ==
  ASSUME MailboxInv, unlist
  PROVE  MailboxInv'
<1> DEFINE list == page.row.labels
           c == page.cursor
<1>1. /\ MailboxTypeOK /\ page \in MailPages /\ page # NoPage /\ page.row \in MailRows
      /\ list \in Seq(Labels) /\ PageInStep /\ InHistory(history) /\ RowRead
      /\ page.seen \in SUBSET Messages /\ stored \in SUBSET Messages
      /\ mailbox \in MailRows /\ RowInStep(mailbox) /\ history \in Seq(MailRecords)
      /\ Len(list) \in Nat /\ DOMAIN list = 1 .. Len(list)
  BY PageAt, RowAt, MailboxAt DEF MailboxInv, unlist, Step, MailboxTypeOK
<1>2. /\ page.step = "unlist" /\ page' = [page EXCEPT !.step = "progress"]
      /\ stored' = stored \cap page.seen
      /\ UNCHANGED <<carries, history, forgotten, mailbox, overlooked>>
  BY DEF unlist, Step, Leaves, gmailVars
<1>4. /\ page'.step = "progress" /\ page'.cursor = c /\ page'.row = page.row
      /\ page'.removed = page.removed /\ page' # NoPage /\ page' \in MailPages
  BY <1>1, <1>2 DEF MailPages, NoPage
<1>5. MailboxTypeOK'
  BY <1>1, <1>2, <1>4 DEF MailboxTypeOK
<1>6. Backfills /\ Backfills' /\ ~ReadsHistory' /\ c.phase = "backfill"
      /\ ~page.row.backfilled /\ c.start \in Nat
  BY <1>1, <1>2, <1>4, InPhase DEF Backfills, ReadsHistory
<1>7. c.reconcile /\ page.labelled = Len(list) + 1
  BY <1>1, <1>2 DEF PageInStep
<1>10. PageInStep'
  BY <1>1, <1>2, <1>4, <1>6 DEF PageInStep
<1>11. OnlyPage
  BY <1>1, <1>2, <1>4 DEF OnlyPage
<1>12. InHistory(history)'
  <2>1. page'.cursor.start <= Len(history)
    BY <1>1, <1>4, <1>6 DEF InHistory
  <2> QED BY <1>5, <1>6, <1>10, <1>11, <2>1, PageOnly
<1>13. ASSUME ~overlooked'
       PROVE  /\ RowStands(carries, history)' /\ BackfillStands(carries, history)'
              /\ HistoryStands(carries, history)'
  <2>1. ~overlooked /\ BackfillStands(carries, history) /\ RowStands(carries, history)
    BY <1>2, <1>13 DEF MailboxInv
  <2>2. Coming = {} /\ Coming' = {}
    BY <1>2, <1>4 DEF Coming
  <2>3. \A m \in Messages \ page.seen, j \in DOMAIN list :
          list[j] \in carries[m] => Given(history, m, list, c.start)
    <3>1. Reached(carries, history, page.seen, list, Len(list) + 1, N + 1, c.start)
      BY <1>2, <1>6, <1>7, <2>1 DEF BackfillStands
    <3>2. \A j \in DOMAIN list : j < Len(list) + 1
      BY <1>1
    <3> QED BY <3>1, <3>2 DEF Reached
  <2>4. ASSUME NEW l, NEW below, Reached(carries, history, stored, list, l, below, c.start)
        PROVE  Reached(carries, history, stored', list, l, below, c.start)
    BY <1>2, <2>3, <2>4 DEF Reached
  <2>5. BackfillStands(carries, history)'
    <3>1. Reached(carries, history, stored, list, c.label, c.at, c.start)
      <4>1. stored \cup Coming = stored
        BY <2>2
      <4> QED BY <1>6, <2>1, <4>1 DEF BackfillStands
    <3>2. Kept(carries, history, page.seen, list, c.start)
      BY <1>2, <1>6, <2>1 DEF BackfillStands
    <3>3. Kept(carries, history, stored', list, c.start)
      BY <1>2, <3>2 DEF Kept
    <3>4. stored' \cup Coming' = stored'
      BY <2>2
    <3>5. Reached(carries, history, stored', list, c.label, c.at, c.start)
      BY <2>4, <3>1
    <3> QED BY <1>2, <1>4, <3>3, <3>4, <3>5 DEF BackfillStands
  <2>6. RowStands(carries, history)'
    <3>1. ~mailbox.backfilled
      BY <1>1, <1>6, RowSame
    <3>2. ASSUME mailbox.token.phase = "backfill"
          PROVE  LET t == mailbox.token IN
                 /\ Reached(carries, history, stored', mailbox.labels, t.label, t.at, t.start)
                 /\ t.reconcile
      <4>1. mailbox = page.row
        BY <1>1, <3>2, RowSame
      <4>2. mailbox.token.start = c.start /\ mailbox.token.reconcile
        BY <1>1, <1>6, <1>7, <3>2, <4>1 DEF PageInStep
      <4> QED BY <2>1, <2>4, <3>2, <4>1, <4>2 DEF RowStands
    <3> QED BY <1>2, <1>4, <3>1, <3>2 DEF RowStands
  <2> QED BY <1>6, <2>5, <2>6 DEF HistoryStands
<1> QED BY <1>5, <1>10, <1>11, <1>12, <1>13, PageOnly DEF MailboxInv

LEMMA ForgetStep ==
  ASSUME MailboxInv, gmail_forgets
  PROVE  MailboxInv'
<1>1. /\ forgotten' = Len(history)
      /\ UNCHANGED <<carries, history, mailbox, stored, page, overlooked>>
  BY DEF gmail_forgets
<1>2. MailboxTypeOK'
  <2>1. Len(history) \in Nat
    BY MailboxAt DEF MailboxInv
  <2> QED BY <1>1, <2>1 DEF MailboxInv, MailboxTypeOK
<1>3. /\ HistoryTold(carries, history)' /\ RowInStep(mailbox)' /\ PageInStep' /\ RowRead'
      /\ InHistory(history)'
  BY <1>1 DEF MailboxInv, RowInStep, PageInStep, RowRead, InHistory, Position, Backfills,
              ReadsHistory, ReadToEnd
<1>4. ~overlooked' =>
        /\ RowStands(carries, history)' /\ BackfillStands(carries, history)'
        /\ HistoryStands(carries, history)'
  BY <1>1 DEF MailboxInv, RowStands, BackfillStands, HistoryStands, Position, Backfills,
              ReadsHistory, ReadToEnd, Coming, Going
<1> QED BY <1>2, <1>3, <1>4 DEF MailboxInv

LEMMA DropStep ==
  ASSUME MailboxInv, drop
  PROVE  MailboxInv'
<1> DEFINE list == page.row.labels
           c == page.cursor
<1>1. /\ MailboxTypeOK /\ page \in MailPages /\ page # NoPage /\ page.row \in MailRows
      /\ list \in Seq(Labels) /\ PageInStep /\ InHistory(history) /\ RowRead
      /\ page.removed \in SUBSET Messages /\ stored \in SUBSET Messages
      /\ mailbox \in MailRows /\ RowInStep(mailbox) /\ history \in Seq(MailRecords)
  BY PageAt, RowAt, MailboxAt DEF MailboxInv, drop, Step, MailboxTypeOK
<1>2. /\ page.step = "drop" /\ page' = [page EXCEPT !.step = "progress"]
      /\ stored' = stored \ page.removed
      /\ UNCHANGED <<carries, history, forgotten, mailbox, overlooked>>
  BY DEF drop, Step, Leaves, gmailVars
<1>3. /\ page'.step = "progress" /\ page'.cursor = c /\ page'.row = page.row
      /\ page'.more = page.more /\ page'.last = page.last
      /\ page' # NoPage /\ page' \in MailPages
  BY <1>1, <1>2 DEF MailPages, NoPage
<1>4. MailboxTypeOK'
  BY <1>1, <1>2, <1>3 DEF MailboxTypeOK
<1>5. /\ ReadsHistory /\ ReadsHistory' /\ ~Backfills' /\ c.phase = "history"
      /\ page.row.backfilled /\ c.at \in Nat
  BY <1>1, <1>2, <1>3, InPhase DEF PageInStep, Backfills, ReadsHistory
<1>6. PageInStep'
  BY <1>1, <1>2, <1>3, <1>5 DEF PageInStep
<1>7. OnlyPage
  BY <1>1, <1>2, <1>3 DEF OnlyPage
<1>8. InHistory(history)'
  <2>1. mailbox.backfilled =>
          /\ Position <= page'.cursor.at /\ page'.cursor.at <= Len(history)
          /\ ~page'.more => page'.last = page'.cursor.at
    BY <1>1, <1>3, <1>5 DEF InHistory
  <2> QED BY <1>4, <1>5, <1>6, <1>7, <2>1, PageOnly
<1>9. ASSUME ~overlooked'
      PROVE  /\ RowStands(carries, history)' /\ BackfillStands(carries, history)'
             /\ HistoryStands(carries, history)'
  <2>1. ~overlooked /\ HistoryStands(carries, history) /\ RowStands(carries, history)
    BY <1>2, <1>9 DEF MailboxInv
  <2>2. Coming = {} /\ Coming' = {} /\ Going = page.removed /\ Going' = {}
    BY <1>2, <1>3 DEF Coming, Going
  <2>3. HistoryStands(carries, history)'
    <3> SUFFICES ASSUME mailbox.backfilled PROVE HistoryStands(carries, history)'
      BY <1>2 DEF HistoryStands
    <3>1. /\ (stored' \cup Coming') \ Going' = (stored \cup Coming) \ Going
          /\ stored' \ Going' = stored \ Going
      BY <1>2, <2>2
    <3>2. /\ AllReached(carries, history, (stored' \cup Coming') \ Going', list, c.at)
          /\ Kept(carries, history, stored' \ Going', list, c.at)
      BY <1>5, <2>1, <3>1 DEF HistoryStands
    <3> QED BY <1>2, <1>3, <3>2 DEF HistoryStands
  <2>4. ASSUME mailbox.backfilled
        PROVE  /\ AllReached(carries, history, stored', mailbox.labels, Position)
               /\ Kept(carries, history, stored', mailbox.labels, Position)
    <3>1. mailbox = page.row
      BY <1>1, <2>4, RowSame
    <3>2. Position \in Nat /\ Position <= c.at
      BY <1>1, <1>5, <2>4, MailboxAt DEF InHistory
    <3>3. stored' = (stored \cup Coming) \ Going /\ stored' = stored \ Going
      BY <1>2, <2>2
    <3>4. /\ AllReached(carries, history, stored', list, c.at)
          /\ Kept(carries, history, stored', list, c.at)
      BY <1>5, <2>1, <2>4, <3>3 DEF HistoryStands
    <3> QED BY <1>1, <1>5, <3>1, <3>2, <3>4, ReachedMore, KeptLess DEF AllReached
  <2>5. RowStands(carries, history)'
    <3>1. mailbox.token.phase # "backfill"
      BY <1>1, <1>5, RowSame DEF RowInStep, PageInStep
    <3> QED BY <1>2, <1>3, <2>4, <3>1 DEF RowStands, Position
  <2> QED BY <1>5, <2>3, <2>5 DEF BackfillStands
<1> QED BY <1>4, <1>6, <1>7, <1>8, <1>9, PageOnly DEF MailboxInv

(* The place history is read from, and the record read there.               *)
From == IF page.cursor.phase = "history" THEN page.cursor.at ELSE page.row.history_id
Here == {i \in DOMAIN history : i = From + 1}

LEMMA HereIs ==
  ASSUME MailboxInv, page.step = "history"
  PROVE  /\ page # NoPage /\ page.row.backfilled /\ From \in Nat
         /\ Here = IF From + 1 <= Len(history) THEN {From + 1} ELSE {}
         /\ Cardinality(Here) = IF From + 1 <= Len(history) THEN 1 ELSE 0
         /\ mailbox.backfilled => mailbox = page.row /\ From = Position /\ From <= Len(history)
<1>1. /\ MailboxTypeOK /\ page # NoPage /\ page.row \in MailRows /\ PageInStep
      /\ RowRead /\ InHistory(history) /\ Len(history) \in Nat /\ history \in Seq(MailRecords)
  BY PageAt, MailboxAt DEF MailboxInv, MailboxTypeOK
<1>2. /\ page.row.backfilled /\ RowInStep(page.row) /\ page.cursor = page.row.token
  BY <1>1 DEF PageInStep, Backfills
<1>3. From \in Nat
  BY <1>1, <1>2, RowAt, CursorAt DEF From, RowInStep
<1>4. Here = IF From + 1 <= Len(history) THEN {From + 1} ELSE {}
  BY <1>1, <1>3 DEF Here
<1>5. Cardinality(Here) = IF From + 1 <= Len(history) THEN 1 ELSE 0
  <2>1. Cardinality({}) = 0 /\ Cardinality({From + 1}) = 1
    BY FS_EmptySet, FS_Singleton
  <2> QED BY <1>4, <2>1
<1>6. ASSUME mailbox.backfilled
      PROVE  mailbox = page.row /\ From = Position /\ From <= Len(history)
  <2>1. mailbox = page.row
    BY <1>1, <1>6, RowSame
  <2>2. From = Position
    BY <1>2, <2>1 DEF From, Position
  <2> QED BY <1>1, <1>6, <2>1, <2>2 DEF InHistory
<1> QED BY <1>1, <1>2, <1>3, <1>4, <1>5, <1>6

LEMMA HistoryStep ==
  ASSUME MailboxInv, gmail_history
  PROVE  MailboxInv'
<1> DEFINE list == page.row.labels
           at == From + Cardinality(Here)
           ids == {history[i].m : i \in {j \in Here : AddedBy(history[j])}}
           removed == {history[i].m : i \in {j \in Here : RemovedBy(history[j])}}
           more == From + 1 < Len(history)
<1>1. /\ MailboxTypeOK /\ page \in MailPages /\ page # NoPage /\ page.row \in MailRows
      /\ list \in Seq(Labels) /\ PageInStep /\ InHistory(history) /\ RowRead
      /\ stored \in SUBSET Messages /\ mailbox \in MailRows /\ RowInStep(mailbox)
      /\ history \in Seq(MailRecords) /\ HistoryTold(carries, history)
      /\ Len(history) \in Nat /\ page.step = "history"
  BY PageAt, RowAt, MailboxAt DEF MailboxInv, gmail_history, MailboxTypeOK
<1>2. /\ page' = IF page.row.history_id < forgotten THEN [page EXCEPT !.step = "gone"]
                 ELSE [page EXCEPT !.step = "fetch", !.cursor = HistoryCursor(at), !.ids = ids,
                                   !.removed = removed, !.more = more, !.last = Len(history)]
      /\ UNCHANGED <<carries, history, forgotten, mailbox, stored, overlooked>>
  BY DEF gmail_history, Leaves, gmailVars, From, Here
<1>3. /\ page.row.backfilled /\ From \in Nat
      /\ Here = IF From + 1 <= Len(history) THEN {From + 1} ELSE {}
      /\ Cardinality(Here) = IF From + 1 <= Len(history) THEN 1 ELSE 0
      /\ mailbox.backfilled => mailbox = page.row /\ From = Position /\ From <= Len(history)
  BY <1>1, HereIs
<1>4. /\ at \in Nat
      /\ From + 1 <= Len(history) => at = From + 1
      /\ ~(From + 1 <= Len(history)) => at = From
  BY <1>1, <1>3
<1>5. \A i \in Here : history[i] \in MailRecords /\ history[i].m \in Messages
  <2>1. \A i \in DOMAIN history : history[i] \in MailRecords
    BY <1>1
  <2>2. \A rec \in MailRecords : rec.m \in Messages
    BY DEF MailRecords
  <2> QED BY <2>1, <2>2 DEF Here
<1>6. ids \in SUBSET Messages /\ removed \in SUBSET Messages /\ more \in BOOLEAN
  BY <1>5
<1>7. HistoryCursor(at) \in MailCursors /\ HistoryCursor(at).phase = "history"
      /\ HistoryCursor(at).at = at
  BY <1>4 DEF HistoryCursor, MailCursors
<1> HIDE DEF at, ids, removed, more
<1>8. CASE page.row.history_id < forgotten
  <2>1. /\ page'.step = "gone" /\ page'.row = page.row /\ page' # NoPage /\ page' \in MailPages
    BY <1>1, <1>2, <1>8 DEF MailPages, NoPage
  <2>2. MailboxTypeOK'
    BY <1>1, <1>2, <2>1 DEF MailboxTypeOK
  <2>3. ~Backfills' /\ ~ReadsHistory'
    BY <2>1 DEF Backfills, ReadsHistory
  <2>4. RowInStep(page.row)
    BY <1>1 DEF PageInStep
  <2>5. PageInStep'
    BY <1>3, <2>1, <2>3, <2>4 DEF PageInStep
  <2>6. OnlyPage
    BY <1>1, <1>2, <2>1 DEF OnlyPage
  <2> QED BY <1>2, <2>2, <2>3, <2>5, <2>6, PageOnly
          DEF MailboxInv, BackfillStands, HistoryStands
<1>9. CASE ~(page.row.history_id < forgotten)
  <2>1. page' = [page EXCEPT !.step = "fetch", !.cursor = HistoryCursor(at), !.ids = ids,
                             !.removed = removed, !.more = more, !.last = Len(history)]
    BY <1>2, <1>9
  <2>2. /\ page'.step = "fetch" /\ page'.row = page.row /\ page'.cursor = HistoryCursor(at)
        /\ page'.ids = ids /\ page'.removed = removed /\ page'.more = more
        /\ page'.last = Len(history) /\ page'.seen = page.seen
        /\ page'.labelled = page.labelled /\ page' # NoPage /\ page' \in MailPages
    BY <1>1, <1>6, <1>7, <2>1 DEF MailPages, NoPage
  <2>3. MailboxTypeOK'
    BY <1>1, <1>2, <2>2 DEF MailboxTypeOK
  <2>4. ReadsHistory' /\ ~Backfills' /\ page'.cursor.phase = "history" /\ page'.cursor.at = at
    BY <1>7, <2>2 DEF Backfills, ReadsHistory
  <2>5. PageInStep'
    <3>1. RowInStep(page.row) /\ page.seen = {} /\ page.labelled = 1
      BY <1>1 DEF PageInStep
    <3> QED BY <1>3, <2>2, <2>4, <3>1 DEF PageInStep
  <2>6. OnlyPage
    BY <1>1, <1>2, <2>2 DEF OnlyPage
  <2>7. InHistory(history)'
    <3>1. mailbox.backfilled =>
            /\ Position <= page'.cursor.at /\ page'.cursor.at <= Len(history)
            /\ ~page'.more => page'.last = page'.cursor.at
      <4> SUFFICES ASSUME mailbox.backfilled
                   PROVE  /\ Position <= at /\ at <= Len(history)
                          /\ ~more => Len(history) = at
        BY <2>2, <2>4
      <4>1. From = Position /\ From <= Len(history) /\ From \in Nat /\ Len(history) \in Nat
        BY <1>1, <1>3
      <4> QED BY <1>4, <4>1 DEF more
    <3> QED BY <2>3, <2>4, <2>5, <2>6, <3>1, PageOnly
  <2>8. ASSUME ~overlooked', mailbox.backfilled PROVE HistoryStands(carries, history)'
    <3>1. /\ AllReached(carries, history, stored, list, From)
          /\ Kept(carries, history, stored, list, From)
      BY <1>2, <1>3, <2>8 DEF MailboxInv, RowStands
    <3>2. Coming' = ids /\ Going' = removed
      BY <2>2 DEF Coming, Going
    <3>3. ASSUME NEW i \in DOMAIN history, i > From
          PROVE  i > at \/ (i = at /\ i \in Here)
      BY <1>1, <1>3, <1>4, <3>3 DEF Here
    <3>4. ASSUME NEW m \in Messages, Given(history, m, list, From)
          PROVE  m \in ids \/ Given(history, m, list, at)
      <4>1. PICK i \in DOMAIN history :
              /\ i > From /\ history[i].m = m
              /\ history[i].kind = "added" /\ history[i].label \in Range(list)
        BY <3>4 DEF Given
      <4>2. i > at => Given(history, m, list, at)
        BY <4>1 DEF Given
      <4>3. i \in Here => m \in ids
        BY <4>1 DEF ids, AddedBy, ours
      <4> QED BY <3>3, <4>1, <4>2, <4>3
    <3>5. ASSUME NEW m \in Messages, Taken(history, m, list, From)
          PROVE  m \in removed \/ Taken(history, m, list, at)
      <4>1. PICK i \in DOMAIN history :
              /\ i > From /\ history[i].m = m
              /\ \/ history[i].kind = "deleted"
                 \/ /\ history[i].kind = "removed" /\ history[i].label \in Range(list)
                    /\ Range(list) \cap history[i].left = {}
        BY <3>5 DEF Taken
      <4>2. i > at => Taken(history, m, list, at)
        BY <4>1 DEF Taken
      <4>3. i \in Here => m \in removed
        BY <4>1 DEF removed, RemovedBy, ours
      <4> QED BY <3>3, <4>1, <4>2, <4>3
    <3>6. ASSUME NEW m \in removed, Carried(carries, m, list)
          PROVE  Given(history, m, list, at)
      <4>1. PICK i \in Here : RemovedBy(history[i]) /\ history[i].m = m
        BY DEF removed
      <4>2. i \in DOMAIN history /\ i = at
        BY <1>1, <1>3, <1>4, <4>1 DEF Here
      <4>3. history[i].left \cap Range(list) = {}
        BY <1>1, <4>1, <4>2 DEF RemovedBy, ours, HistoryTold
      <4> QED BY <1>1, <3>6, <4>1, <4>2, <4>3 DEF HistoryTold
    <3>7. AllReached(carries, history, (stored \cup ids) \ removed, list, at)
      <4> SUFFICES ASSUME NEW m \in Messages \ ((stored \cup ids) \ removed),
                          NEW j \in DOMAIN list, list[j] \in carries[m],
                          j < Len(list) + 1 \/ (j = Len(list) + 1 /\ m >= N + 1)
                   PROVE  Given(history, m, list, at)
        BY DEF AllReached, Reached
      <4>1. Carried(carries, m, list)
        BY DEF Carried, Range
      <4>2. CASE m \in removed
        BY <3>6, <4>1, <4>2
      <4>3. CASE m \notin stored /\ m \notin ids
        <5>1. Given(history, m, list, From)
          BY <3>1, <4>3 DEF AllReached, Reached
        <5> QED BY <3>4, <4>3, <5>1
      <4> QED BY <4>2, <4>3
    <3>8. Kept(carries, history, stored \ removed, list, at)
      BY <1>1, <3>1, <3>5 DEF Kept
    <3> QED BY <1>2, <2>2, <2>4, <3>2, <3>7, <3>8 DEF HistoryStands
  <2>9. ~overlooked' =>
          /\ RowStands(carries, history)' /\ BackfillStands(carries, history)'
          /\ HistoryStands(carries, history)'
    <3>1. ~overlooked' => HistoryStands(carries, history)'
      <4>1. ~mailbox'.backfilled => HistoryStands(carries, history)'
        BY DEF HistoryStands
      <4> QED BY <1>2, <2>8, <4>1
    <3> QED BY <1>2, <2>3, <2>4, <2>5, <2>6, <3>1, PageOnly DEF BackfillStands
  <2> QED BY <2>3, <2>5, <2>6, <2>7, <2>9, PageOnly DEF MailboxInv
<1> QED BY <1>8, <1>9

-----------------------------------------------------------------------------
(* The end of a page                                                        *)

LEMMA PageEnds ==
  ASSUME MailboxInv, page' = NoPage, UNCHANGED <<carries, history>>,
         MailboxTypeOK', RowInStep(mailbox)',
         mailbox'.backfilled => Position' <= Len(history),
         mailbox'.token.phase = "backfill" => mailbox'.token.start <= Len(history),
         ~overlooked' => RowStands(carries, history)'
  PROVE  MailboxInv'
<1>1. page'.step = "idle"
  BY DEF NoPage
<1>2. ~Backfills' /\ ~ReadsHistory'
  BY <1>1 DEF Backfills, ReadsHistory
<1>3. HistoryTold(carries, history)' /\ PageInStep' /\ RowRead'
  BY DEF MailboxInv, HistoryTold, PageInStep, RowRead, Given, Carried
<1>4. InHistory(history)'
  BY <1>2 DEF InHistory
<1> QED BY <1>2, <1>3, <1>4 DEF MailboxInv, BackfillStands, HistoryStands

LEMMA SyncedAs ==
  ASSUME MailboxTypeOK, RowRead, page # NoPage
  PROVE  mailbox.synced = page.row.synced
<1>1. page.row \in MailRows
  BY PageAt
<1>2. \A list : [page.row EXCEPT !.labels = list, !.history_id = None, !.token = NoCursor,
                                 !.backfilled = FALSE].synced = page.row.synced
  BY <1>1 DEF MailRows
<1> QED BY <1>2 DEF RowRead

LEMMA BackfillProgressStep ==
  ASSUME MailboxInv, backfill_progress
  PROVE  MailboxInv'
<1> DEFINE list == page.row.labels
           c == page.cursor
<1>1. /\ MailboxTypeOK /\ page # NoPage /\ page.row \in MailRows /\ PageInStep
      /\ InHistory(history) /\ RowRead /\ mailbox \in MailRows /\ RowInStep(mailbox)
      /\ page.step = "progress" /\ c.phase = "backfill" /\ c \in MailCursors
  BY PageAt, MailboxAt DEF MailboxInv, backfill_progress
<1>2. /\ mailbox' = IF ReadToEnd
                    THEN [mailbox EXCEPT !.history_id = c.start, !.token = NoCursor,
                                         !.backfilled = TRUE, !.synced = TRUE]
                    ELSE [mailbox EXCEPT !.token = c]
      /\ overlooked' = (overlooked \/ mailbox.labels # list) /\ page' = NoPage
      /\ UNCHANGED <<carries, history, forgotten, stored>>
  BY DEF backfill_progress, ResumeAt, gmailVars
<1>3. /\ Backfills /\ ~page.row.backfilled /\ ~mailbox.backfilled
      /\ c.start \in Nat /\ c.start <= Len(history) /\ c.label \in Nat \ {0}
  <2>1. Backfills
    BY <1>1 DEF Backfills
  <2> QED BY <1>1, <2>1, InPhase, RowSame, CursorAt DEF InHistory
<1>4. overlooked' \in BOOLEAN
  BY <1>1, <1>2 DEF MailboxTypeOK
<1>5. ~overlooked' =>
        /\ mailbox.labels = list
        /\ Reached(carries, history, stored, list, c.label, c.at, c.start)
        /\ ~c.reconcile \/ ReadToEnd => Kept(carries, history, stored, list, c.start)
  <2>1. Coming = {}
    BY <1>1 DEF Coming
  <2>2. stored \cup Coming = stored
    BY <2>1
  <2> QED BY <1>1, <1>2, <1>3, <2>2 DEF MailboxInv, BackfillStands
<1>6. CASE ReadToEnd
  <2>1. /\ mailbox' \in MailRows /\ mailbox'.labels = mailbox.labels
        /\ mailbox'.history_id = c.start /\ mailbox'.token = NoCursor
        /\ mailbox'.backfilled /\ mailbox'.synced
    <3>1. mailbox' = [mailbox EXCEPT !.history_id = c.start, !.token = NoCursor,
                                     !.backfilled = TRUE, !.synced = TRUE]
      BY <1>2, <1>6
    <3>2. NoCursor \in MailCursors
      BY DEF MailCursors
    <3> QED BY <1>1, <1>3, <3>1, <3>2 DEF MailRows
  <2>2. NoCursor.phase = "none" /\ c.start # None
    BY <1>3 DEF NoCursor, None
  <2>3. Position' = c.start
    BY <2>1, <2>2 DEF Position
  <2>4. MailboxTypeOK'
    BY <1>1, <1>2, <1>4, <2>1 DEF MailboxTypeOK
  <2>5. RowInStep(mailbox)'
    BY <2>1, <2>2 DEF RowInStep
  <2>6. ASSUME ~overlooked' PROVE RowStands(carries, history)'
    <3>1. \A j \in DOMAIN list : j < c.label /\ j < Len(list) + 1
      BY <1>1, <1>3, <1>6, RowAt DEF ReadToEnd
    <3>2. AllReached(carries, history, stored, list, c.start)
      BY <1>5, <2>6, <3>1 DEF AllReached, Reached
    <3> QED BY <1>2, <1>5, <1>6, <2>1, <2>2, <2>3, <2>6, <3>2 DEF RowStands
  <2> QED BY <1>2, <1>3, <2>1, <2>2, <2>3, <2>4, <2>5, <2>6, PageEnds
<1>7. CASE ~ReadToEnd
  <2>1. /\ mailbox' \in MailRows /\ mailbox'.labels = mailbox.labels /\ mailbox'.token = c
        /\ ~mailbox'.backfilled
    <3>1. mailbox' = [mailbox EXCEPT !.token = c]
      BY <1>2, <1>7
    <3> QED BY <1>1, <1>3, <3>1 DEF MailRows
  <2>2. NoCursor.phase = "none"
    BY DEF NoCursor
  <2>3. MailboxTypeOK'
    BY <1>1, <1>2, <1>4, <2>1 DEF MailboxTypeOK
  <2>4. RowInStep(mailbox)'
    BY <1>1, <2>1 DEF RowInStep
  <2>5. ASSUME ~overlooked' PROVE RowStands(carries, history)'
    BY <1>1, <1>2, <1>5, <2>1, <2>2, <2>5 DEF RowStands
  <2> QED BY <1>2, <1>3, <2>1, <2>3, <2>4, <2>5, PageEnds
<1> QED BY <1>6, <1>7

LEMMA HistoryProgressStep ==
  ASSUME MailboxInv, history_progress
  PROVE  MailboxInv'
<1> DEFINE list == page.row.labels
           c == page.cursor
<1>1. /\ MailboxTypeOK /\ page # NoPage /\ page.row \in MailRows /\ PageInStep
      /\ InHistory(history) /\ RowRead /\ mailbox \in MailRows /\ RowInStep(mailbox)
      /\ page.step = "progress" /\ c.phase = "history" /\ c \in MailCursors
      /\ page.last \in Nat /\ page.more \in BOOLEAN
  BY PageAt, MailboxAt DEF MailboxInv, history_progress
<1>2. /\ mailbox' = IF page.more THEN [mailbox EXCEPT !.token = c]
                    ELSE [mailbox EXCEPT !.history_id = page.last, !.token = NoCursor,
                                         !.synced = TRUE]
      /\ page' = NoPage
      /\ UNCHANGED <<carries, history, forgotten, stored, overlooked>>
  BY DEF history_progress, Leaves, gmailVars
<1>3. ReadsHistory /\ page.row.backfilled /\ RowInStep(page.row) /\ c.at \in Nat
  <2>1. ReadsHistory
    BY <1>1 DEF ReadsHistory
  <2> QED BY <1>1, <2>1, InPhase DEF PageInStep
<1>4. mailbox.synced
  BY <1>1, <1>3, SyncedAs DEF RowInStep
<1>5. NoCursor.phase = "none" /\ NoCursor \in MailCursors /\ \A n \in Nat : n # None
  BY DEF NoCursor, MailCursors, None
<1>6. /\ mailbox' \in MailRows /\ mailbox'.labels = mailbox.labels /\ mailbox'.synced
      /\ mailbox'.backfilled = mailbox.backfilled /\ mailbox'.token.phase # "backfill"
      /\ page.more => mailbox'.token = c /\ mailbox'.history_id = mailbox.history_id
      /\ ~page.more => mailbox'.token = NoCursor /\ mailbox'.history_id = page.last
  <2>1. CASE page.more
    <3>1. mailbox' = [mailbox EXCEPT !.token = c]
      BY <1>2, <2>1
    <3> QED BY <1>1, <1>4, <2>1, <3>1 DEF MailRows
  <2>2. CASE ~page.more
    <3>1. mailbox' = [mailbox EXCEPT !.history_id = page.last, !.token = NoCursor,
                                     !.synced = TRUE]
      BY <1>2, <2>2
    <3> QED BY <1>1, <1>5, <2>2, <3>1 DEF MailRows
  <2> QED BY <2>1, <2>2
<1>7. ASSUME mailbox.backfilled
      PROVE  mailbox = page.row /\ Position' = c.at /\ c.at <= Len(history)
  <2>1. c.at <= Len(history) /\ (~page.more => page.last = c.at)
    BY <1>1, <1>3, <1>7 DEF InHistory
  <2> QED BY <1>1, <1>5, <1>6, <1>7, <2>1, RowSame DEF Position
<1>8. MailboxTypeOK'
  BY <1>1, <1>2, <1>6 DEF MailboxTypeOK
<1>9. RowInStep(mailbox)'
  BY <1>1, <1>5, <1>6 DEF RowInStep
<1>10. ASSUME ~overlooked' PROVE RowStands(carries, history)'
  <2>1. ASSUME mailbox.backfilled
        PROVE  /\ AllReached(carries, history, stored, list, c.at)
               /\ Kept(carries, history, stored, list, c.at)
    <3>1. Coming = {} /\ Going = {}
      BY <1>1 DEF Coming, Going
    <3>2. (stored \cup Coming) \ Going = stored /\ stored \ Going = stored
      BY <3>1
    <3> QED BY <1>2, <1>3, <1>10, <2>1, <3>2 DEF MailboxInv, HistoryStands
  <2> QED BY <1>2, <1>6, <1>7, <2>1 DEF RowStands
<1> QED BY <1>2, <1>6, <1>7, <1>8, <1>9, <1>10, PageEnds

LEMMA GoneStep ==
  ASSUME MailboxInv, history_gone
  PROVE  MailboxInv'
<1>1. /\ MailboxTypeOK /\ page # NoPage /\ page.row \in MailRows /\ PageInStep
      /\ RowRead /\ mailbox \in MailRows /\ page.step = "gone"
  BY PageAt, MailboxAt DEF MailboxInv, history_gone
<1>2. /\ mailbox' = [mailbox EXCEPT !.history_id = None, !.token = NoCursor,
                                    !.backfilled = FALSE]
      /\ page' = NoPage
      /\ UNCHANGED <<carries, history, forgotten, stored, overlooked>>
  BY DEF history_gone, AfterGone, Leaves, gmailVars
<1>3. mailbox.synced
  <2>1. page.row.backfilled /\ RowInStep(page.row)
    BY <1>1 DEF PageInStep, Backfills
  <2> QED BY <1>1, <2>1, SyncedAs DEF RowInStep
<1>4. NoCursor.phase = "none" /\ NoCursor \in MailCursors
  BY DEF NoCursor, MailCursors
<1>5. /\ mailbox' \in MailRows /\ mailbox'.token = NoCursor /\ ~mailbox'.backfilled
      /\ mailbox'.synced
  BY <1>1, <1>2, <1>3, <1>4 DEF MailRows
<1>6. MailboxTypeOK'
  BY <1>1, <1>2, <1>5 DEF MailboxTypeOK
<1>7. RowInStep(mailbox)' /\ RowStands(carries, history)'
  BY <1>4, <1>5 DEF RowInStep, RowStands
<1> QED BY <1>2, <1>4, <1>5, <1>6, <1>7, PageEnds

LEMMA CutShortStep ==
  ASSUME MailboxInv, page_cut_short
  PROVE  MailboxInv'
<1>1. /\ overlooked' = (overlooked \/ UnsavedStart) /\ page' = NoPage
      /\ UNCHANGED <<carries, history, forgotten, mailbox, stored>>
  BY DEF page_cut_short, gmailVars
<1>2. MailboxTypeOK'
  BY <1>1 DEF MailboxInv, MailboxTypeOK
<1>3. RowInStep(mailbox)' /\ Position' = Position
  BY <1>1 DEF MailboxInv, RowInStep, Position
<1>4. ASSUME ~overlooked' PROVE RowStands(carries, history)'
  BY <1>1, <1>3, <1>4 DEF MailboxInv, RowStands, UnsavedStart
<1> QED BY <1>1, <1>2, <1>3, <1>4, PageEnds DEF MailboxInv, InHistory

-----------------------------------------------------------------------------
LEMMA MailboxStarts ==
  ASSUME NEW active \in BOOLEAN, MailboxStart(active)
  PROVE  MailboxInv
<1>1. PICK labels \in LabelLists :
        mailbox = [labels |-> labels, history_id |-> None, token |-> NoCursor,
                   backfilled |-> FALSE, synced |-> FALSE, active |-> active]
  BY DEF MailboxStart
<1>2. /\ carries \in Found /\ history = <<>> /\ forgotten = 0 /\ stored = {}
      /\ page = NoPage /\ overlooked = FALSE
  BY DEF MailboxStart
<1>3. /\ mailbox \in MailRows /\ ~mailbox.backfilled /\ mailbox.token = NoCursor
      /\ NoCursor.phase = "none"
  <2>1. labels \in Seq(Labels) \ {<<>>}
    BY MailboxAssumption
  <2>2. NoCursor \in MailCursors
    BY DEF MailCursors
  <2> QED BY <1>1, <2>1, <2>2 DEF MailRows, NoCursor
<1>4. MailboxTypeOK
  <2>1. carries \in [Messages -> SUBSET Labels]
    BY <1>2, MailboxAssumption DEF Messages
  <2>2. history \in Seq(MailRecords)
    BY <1>2
  <2> QED BY <1>2, <1>3, <2>1, <2>2 DEF MailboxTypeOK
<1>5. page.step = "idle"
  BY <1>2 DEF NoPage
<1>6. ~Backfills /\ ~ReadsHistory
  BY <1>5 DEF Backfills, ReadsHistory
<1>7. HistoryTold(carries, history)
  <2>1. DOMAIN history = {}
    BY <1>2
  <2> QED BY <2>1 DEF HistoryTold
<1>8. RowInStep(mailbox) /\ PageInStep /\ RowRead /\ InHistory(history)
  BY <1>2, <1>3, <1>6 DEF RowInStep, PageInStep, RowRead, InHistory
<1>9. /\ RowStands(carries, history) /\ BackfillStands(carries, history)
      /\ HistoryStands(carries, history)
  BY <1>2, <1>3, <1>6 DEF RowStands, BackfillStands, HistoryStands
<1> QED BY <1>4, <1>7, <1>8, <1>9 DEF MailboxInv

LEMMA MailboxStays ==
  ASSUME MailboxInv, UNCHANGED mailboxVars
  PROVE  MailboxInv'
<1>1. UNCHANGED <<carries, history, forgotten, mailbox, stored, page, overlooked>>
  BY DEF mailboxVars
<1>2. /\ MailboxTypeOK' /\ HistoryTold(carries, history)' /\ RowInStep(mailbox)'
      /\ PageInStep' /\ RowRead' /\ InHistory(history)'
  BY <1>1 DEF MailboxInv, MailboxTypeOK, RowInStep, PageInStep, RowRead, InHistory, Position,
              Backfills, ReadsHistory, ReadToEnd, HistoryTold, Given, Carried
<1>3. ~overlooked' =>
        /\ RowStands(carries, history)' /\ BackfillStands(carries, history)'
        /\ HistoryStands(carries, history)'
  BY <1>1 DEF MailboxInv, RowStands, BackfillStands, HistoryStands, Position, Backfills,
              ReadsHistory, ReadToEnd, Coming, Going
<1> QED BY <1>2, <1>3 DEF MailboxInv

LEMMA MailboxNexts ==
  ASSUME MailboxInv, [MailboxNext]_mailboxVars
  PROVE  MailboxInv'
<1>1. CASE \/ \E m \in Messages, l \in Labels : gmail_label(m, l) \/ gmail_unlabel(m, l)
           \/ \E m \in Messages : gmail_delete(m)
  BY <1>1, GmailStep DEF GmailChanges
<1>2. CASE gmail_forgets
  BY <1>2, ForgetStep
<1>3. CASE \E labels \in LabelLists : update_mailbox(labels)
  BY <1>3, UpdateStep
<1>4. CASE sync_page
  BY <1>4, PageBegins, ProfileStep, ListStep, FetchStep, StoreStep, RelistStep, UnlistStep,
     BackfillProgressStep, HistoryStep, GoneStep, DropStep, HistoryProgressStep DEF sync_page
<1>5. CASE page_cut_short
  BY <1>5, CutShortStep
<1>6. CASE UNCHANGED mailboxVars
  BY <1>6, MailboxStays
<1> QED BY <1>1, <1>2, <1>3, <1>4, <1>5, <1>6 DEF MailboxNext

(* What a reading of the mailbox knows of every message, at each step of a  *)
(* page and wherever pages were cut short: the cursor, the messages stored  *)
(* and the history that is still to be read account for what Gmail holds    *)
(* (email_sync.py, crm_sync_store.py).                                      *)
THEOREM MailboxInvariant == MailboxSpec => []MailboxInv
<1>1. MailboxInit => MailboxInv
  BY MailboxStarts DEF MailboxInit
<1>2. MailboxInv /\ [MailboxNext]_mailboxVars => MailboxInv'
  BY MailboxNexts
<1> QED BY <1>1, <1>2, PTL DEF MailboxSpec

LEMMA CaughtUp ==
  ASSUME MailboxInv
  PROVE  Mirrored
<1> SUFFICES ASSUME ReadUpToNow, ~overlooked
             PROVE  stored = {m \in Messages : Carried(carries, m, mailbox.labels)}
  BY DEF Mirrored, Carried
<1>1. /\ mailbox.backfilled /\ mailbox.token = NoCursor /\ mailbox.history_id = Len(history)
      /\ NoCursor.phase = "none"
  BY DEF ReadUpToNow, NoCursor
<1>2. Position = Len(history)
  BY <1>1 DEF Position
<1>3. /\ stored \in SUBSET Messages /\ Len(history) \in Nat
      /\ DOMAIN history = 1 .. Len(history) /\ mailbox.labels \in Seq(Labels)
  BY MailboxAt DEF MailboxInv, MailboxTypeOK
<1>4. /\ AllReached(carries, history, stored, mailbox.labels, Len(history))
      /\ Kept(carries, history, stored, mailbox.labels, Len(history))
  BY <1>1, <1>2 DEF MailboxInv, RowStands
<1>5. \A m, list : ~Given(history, m, list, Len(history)) /\ ~Taken(history, m, list, Len(history))
  BY <1>3 DEF Given, Taken
<1>6. \A m \in stored : Carried(carries, m, mailbox.labels)
  BY <1>4, <1>5 DEF Kept
<1>7. ASSUME NEW m \in Messages, Carried(carries, m, mailbox.labels) PROVE m \in stored
  <2>1. PICK j \in DOMAIN mailbox.labels : mailbox.labels[j] \in carries[m]
    BY <1>7 DEF Carried, Range
  <2>2. j < Len(mailbox.labels) + 1
    BY <1>3
  <2> QED BY <1>4, <1>5, <2>1, <2>2 DEF AllReached, Reached
<1> QED BY <1>3, <1>6, <1>7

(* Once the cursor has caught up with Gmail, the messages stored are those  *)
(* that carry a label of the mailbox (email_sync.py: backfill, changes,     *)
(* _reconcile, _take).                                                      *)
THEOREM MailboxMirrored == MailboxSpec => []Mirrored
BY MailboxInvariant, CaughtUp, PTL
=============================================================================
