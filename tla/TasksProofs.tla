------------------------------- MODULE TasksProofs -------------------------------
(***************************************************************************)
(* What holds of the shared task table and of the links of its CRM tasks,  *)
(* for any number of users, tasks, records, requests and sessions: a live  *)
(* CRM task is never left without a link, and two sessions that change     *)
(* links wait for each other in two ways only (TaskLinks); an occurrence   *)
(* makes its next one once, and a task is taken up only by whom it was     *)
(* given to (Tasks).                                                       *)
(***************************************************************************)
EXTENDS Tasks, TaskLinks, TLAPS, SequenceTheorems, FiniteSetTheorems

-----------------------------------------------------------------------------
(* I. The links (TaskLinks)                                                 *)

MODES == {"none", "key_share", "no_key", "update"}
STATES == {"live", "trash", "gone"}

OnTask ==
  [do : {"task", "accept", "to_trash", "restore", "foreign_key", "bare", "drop", "cascade"},
   t : LinkTasks]
STATEMENTS ==
  OnTask \cup [do : {"insert", "delete"}, t : LinkTasks, r : Records, must : BOOLEAN]
    \cup [do : {"company", "unlink"}, r : Records]
    \cup [do : {"move"}, keep : Records, gone : Records]
CHECKS == [do : {"check", "judge"}, t : LinkTasks]

Pairs == LinkTasks \X Records

Tx ==
  [open : {TRUE}, todo : Seq(STATEMENTS), deferred : Seq(CHECKS),
   inserted : SUBSET Pairs, deleted : SUBSET Pairs,
   writes : UNION {[D -> STATES] : D \in SUBSET LinkTasks},
   merging : SUBSET Records, locks : [LinkTasks -> MODES],
   rows : SUBSET Pairs, companies : SUBSET Records]

LinksType ==
  /\ links \in SUBSET Pairs
  /\ task \in [LinkTasks -> STATES]
  /\ tx \in [Connections -> Tx \cup {NoTx}]

-----------------------------------------------------------------------------
(* What a transaction sees, of the links `ls` and the tasks `tk`.           *)

TaskIn(x, tk, t) == IF t \in DOMAIN x.writes THEN x.writes[t] ELSE tk[t]
LinksIn(x, ls) == (ls \cup x.inserted) \ x.deleted
Linked(x, ls, tk, t) == TaskIn(x, tk, t) = "live" => \E l \in LinksIn(x, ls) : l[1] = t

Removes(x, t) == \E l \in x.deleted : l[1] = t
Revives(x, t) == t \in DOMAIN x.writes /\ x.writes[t] = "live"
Judged(x, t) == \A i \in DOMAIN x.deferred : x.deferred[i] # Task("judge", t)
Checked(x, t) == \A i \in DOMAIN x.deferred : x.deferred[i].t # t

(* Written only under its row lock, and never once it is gone.              *)
WrittenLocked(x, tk, t) ==
  t \in DOMAIN x.writes =>
    x.locks[t] = "update" /\ (x.writes[t] # "gone" => tk[t] # "gone")

(* A task that loses a link is gone, still to be judged, or was judged to   *)
(* stand and is held since.                                                 *)
RemovalJudged(x, ls, tk, t) ==
  Removes(x, t) =>
    \/ TaskIn(x, tk, t) = "gone"
    \/ ~Judged(x, t)
    \/ /\ x.todo = <<>> /\ x.locks[t] \in {"no_key", "update"}
       /\ Linked(x, ls, tk, t)

(* So is one that comes back from the Trash.                                *)
RevivalChecked(x, ls, tk, t) ==
  Revives(x, t) => ~Checked(x, t) \/ (x.todo = <<>> /\ Linked(x, ls, tk, t))

(* Which statements follow which.                                           *)
InOrder(x, tk, t) ==
  \A i \in DOMAIN x.todo :
    /\ x.todo[i] = Task("cascade", t) =>
         IF i = 1 THEN TaskIn(x, tk, t) = "gone"
         ELSE x.todo[i - 1] = Task("drop", t) \/ TaskIn(x, tk, t) = "gone"
    /\ x.todo[i] \in {Task("restore", t), Task("to_trash", t)} =>
         IF i = 1 THEN x.locks[t] = "update" /\ TaskIn(x, tk, t) # "gone"
         ELSE x.todo[i - 1] = Task("task", t)

Sound(x, ls, tk) ==
  \A t \in LinkTasks :
    /\ WrittenLocked(x, tk, t) /\ RemovalJudged(x, ls, tk, t)
    /\ RevivalChecked(x, ls, tk, t) /\ InOrder(x, tk, t)

Exclusive(txs) ==
  \A s, o \in Connections :
    s # o /\ txs[s].open /\ txs[o].open =>
      \A t \in LinkTasks : ~Conflicts(txs[o].locks[t], txs[s].locks[t])

AllSound(txs, ls, tk) == \A s \in Connections : txs[s].open => Sound(txs[s], ls, tk)

KeepsLink(ls, tk) == \A t \in LinkTasks : tk[t] = "live" => \E l \in ls : l[1] = t

LinksInv ==
  /\ LinksType /\ Exclusive(tx) /\ AllSound(tx, links, task) /\ KeepsLink(links, task)

-----------------------------------------------------------------------------
(* Row locks *)

LEMMA ConflictsBothWays ==
  ASSUME NEW a \in MODES, NEW b \in MODES
  PROVE  Conflicts(a, b) <=> Conflicts(b, a)
BY DEF Conflicts, MODES

(* A transaction that waited for a lock holds nothing another one excludes. *)
LEMMA LockHad ==
  ASSUME NEW a \in MODES, NEW mode \in MODES \ {"none"}, NEW held \in MODES,
         ~Conflicts(held, a), ~Conflicts(held, mode)
  PROVE  Stronger(a, mode) \in MODES /\ ~Conflicts(held, Stronger(a, mode))
BY DEF Conflicts, MODES, Stronger

-----------------------------------------------------------------------------
(* One session's transaction moves, or ends, and nothing is committed       *)

LEMMA SessionEnds ==
  ASSUME LinksInv, NEW s \in Connections, tx' = [tx EXCEPT ![s] = NoTx],
         UNCHANGED <<links, task>>
  PROVE  LinksInv'
<1>1. tx'[s] = NoTx /\ \A o \in Connections \ {s} : tx'[o] = tx[o]
  BY DEF LinksInv, LinksType
<1>2. LinksType'
  BY DEF LinksInv, LinksType
<1>3. ~NoTx.open
  BY DEF NoTx
<1>4. Exclusive(tx')
  BY <1>1, <1>3 DEF Exclusive, LinksInv
<1>5. AllSound(tx', links', task')
  BY <1>1, <1>3 DEF AllSound, LinksInv
<1> QED BY <1>2, <1>4, <1>5 DEF LinksInv

(* No other session holds what excludes the locks of x.                     *)
Compatible(s, x) ==
  \A o \in Connections \ {s} :
    tx[o].open => \A t \in LinkTasks : ~Conflicts(tx[o].locks[t], x.locks[t])

LEMMA SessionMoves ==
  ASSUME LinksInv, NEW s \in Connections, NEW y \in Tx, Sound(y, links, task),
         Compatible(s, y), tx' = [tx EXCEPT ![s] = y], UNCHANGED <<links, task>>
  PROVE  LinksInv'
<1>1. tx'[s] = y /\ \A o \in Connections \ {s} : tx'[o] = tx[o]
  BY DEF LinksInv, LinksType
<1>2. LinksType'
  BY DEF LinksInv, LinksType
<1>3. ASSUME NEW a \in Connections, NEW b \in Connections, a # b,
             tx'[a].open, tx'[b].open, NEW t \in LinkTasks
      PROVE  ~Conflicts(tx'[b].locks[t], tx'[a].locks[t])
  <2>1. ASSUME NEW o \in Connections \ {s}, tx[o].open
        PROVE  tx[o].locks[t] \in MODES /\ y.locks[t] \in MODES
    <3>1. tx[o] \in Tx
      BY <2>1 DEF LinksInv, LinksType, NoTx
    <3> QED BY <3>1 DEF Tx
  <2>2. CASE a # s /\ b # s
    BY <1>1, <1>3, <2>2 DEF LinksInv, Exclusive
  <2>3. CASE a = s
    BY <1>1, <1>3, <2>3 DEF Compatible
  <2>4. CASE b = s
    BY <1>1, <1>3, <2>1, <2>4, ConflictsBothWays DEF Compatible
  <2> QED BY <2>2, <2>3, <2>4
<1>4. Exclusive(tx')
  BY <1>3 DEF Exclusive
<1>5. AllSound(tx', links', task')
  BY <1>1 DEF AllSound, LinksInv
<1> QED BY <1>2, <1>4, <1>5 DEF LinksInv

LEMMA OpenTx ==
  ASSUME LinksInv, NEW s \in Connections, tx[s].open
  PROVE  /\ tx[s] \in Tx /\ Sound(tx[s], links, task) /\ Compatible(s, tx[s])
<1>1. tx[s] \in Tx
  BY DEF LinksInv, LinksType, NoTx
<1> QED BY <1>1 DEF LinksInv, AllSound, Exclusive, Compatible

LEMMA StillCompatible ==
  ASSUME NEW s, NEW x, NEW y, Compatible(s, x), y.locks = x.locks
  PROVE  Compatible(s, y)
BY DEF Compatible

LEMMA LocksTaken ==
  ASSUME LinksInv, NEW s \in Connections, NEW x \in Tx, Compatible(s, x),
         NEW t \in LinkTasks, NEW mode \in MODES \ {"none"}, TaskHolders(s, t, mode) = {},
         NEW y, y.locks = [x.locks EXCEPT ![t] = Stronger(@, mode)]
  PROVE  Compatible(s, y)
<1> SUFFICES ASSUME NEW o \in Connections \ {s}, tx[o].open, NEW u \in LinkTasks
             PROVE  ~Conflicts(tx[o].locks[u], y.locks[u])
  BY DEF Compatible
<1>1. tx[o] \in Tx
  BY DEF LinksInv, LinksType, NoTx
<1>2. x.locks \in [LinkTasks -> MODES] /\ tx[o].locks[u] \in MODES
  BY <1>1 DEF Tx
<1>3. CASE u # t
  BY <1>2, <1>3 DEF Compatible
<1>4. CASE u = t
  <2>1. ~Conflicts(tx[o].locks[t], mode)
    BY DEF TaskHolders, Others
  <2>2. ~Conflicts(tx[o].locks[t], x.locks[t]) /\ x.locks[t] \in MODES
    BY <1>2 DEF Compatible
  <2> QED BY <1>2, <1>4, <2>1, <2>2, LockHad
<1> QED BY <1>3, <1>4

-----------------------------------------------------------------------------
(* What a statement does to its transaction *)

(* As long as there are statements to come, nothing has been judged.        *)
Going(x, tk) ==
  \A t \in LinkTasks :
    /\ WrittenLocked(x, tk, t)
    /\ Removes(x, t) => TaskIn(x, tk, t) = "gone" \/ ~Judged(x, t)
    /\ Revives(x, t) => ~Checked(x, t)

LEMMA SoundGoing ==
  ASSUME NEW x, NEW ls, NEW tk, Sound(x, ls, tk), x.todo # <<>>
  PROVE  Going(x, tk) /\ \A t \in LinkTasks : InOrder(x, tk, t)
BY DEF Sound, Going, RemovalJudged, RevivalChecked

LEMMA GoingSound ==
  ASSUME NEW x, NEW ls, NEW tk, Going(x, tk), \A t \in LinkTasks : InOrder(x, tk, t)
  PROVE  Sound(x, ls, tk)
BY DEF Sound, Going, RemovalJudged, RevivalChecked

LEMMA RestFields ==
  ASSUME NEW x \in Tx, x.todo # <<>>
  PROVE  LET y == Rest(x)
         IN /\ y \in Tx /\ y.todo = Tail(x.todo) /\ y.deferred = x.deferred
            /\ y.inserted = x.inserted /\ y.deleted = x.deleted /\ y.writes = x.writes
            /\ y.locks = x.locks
<1>1. Tail(x.todo) \in Seq(STATEMENTS)
  BY DEF Tx
<1> QED BY <1>1 DEF Tx, Rest

LEMMA LocksFields ==
  ASSUME NEW x \in Tx, NEW t \in LinkTasks, NEW mode \in MODES
  PROVE  LET y == Locks(x, t, mode)
         IN /\ y \in Tx /\ y.todo = x.todo /\ y.deferred = x.deferred
            /\ y.inserted = x.inserted /\ y.deleted = x.deleted /\ y.writes = x.writes
            /\ y.locks = [x.locks EXCEPT ![t] = Stronger(@, mode)]
            /\ y.locks[t] = Stronger(x.locks[t], mode)
            /\ \A u \in LinkTasks \ {t} : y.locks[u] = x.locks[u]
<1>1. Stronger(x.locks[t], mode) \in MODES
  BY DEF Stronger, MODES
<1>2. x.locks \in [LinkTasks -> MODES]
  BY DEF Tx
<1>3. [x.locks EXCEPT ![t] = Stronger(@, mode)] \in [LinkTasks -> MODES]
  BY <1>1, <1>2
<1>4. PICK y : y = Locks(x, t, mode)
  OBVIOUS
<1>5. /\ y.todo = x.todo /\ y.deferred = x.deferred
      /\ y.inserted = x.inserted /\ y.deleted = x.deleted /\ y.writes = x.writes
      /\ y.locks = [x.locks EXCEPT ![t] = Stronger(@, mode)]
  BY <1>4 DEF Locks, Tx
<1>6. y \in Tx
  BY <1>3, <1>4 DEF Locks, Tx
<1> QED BY <1>2, <1>4, <1>5, <1>6

LEMMA SetsFields ==
  ASSUME NEW x \in Tx, NEW t \in LinkTasks, NEW state \in STATES
  PROVE  LET y == Sets(x, t, state)
         IN /\ y \in Tx /\ y.todo = x.todo /\ y.deferred = x.deferred
            /\ y.inserted = x.inserted /\ y.deleted = x.deleted /\ y.locks = x.locks
            /\ DOMAIN y.writes = DOMAIN x.writes \cup {t} /\ y.writes[t] = state
            /\ \A u \in DOMAIN x.writes \ {t} : y.writes[u] = x.writes[u]
<1> DEFINE w == [u \in DOMAIN x.writes \cup {t} |-> IF u = t THEN state ELSE x.writes[u]]
<1>1. PICK D \in SUBSET LinkTasks : x.writes \in [D -> STATES]
  BY DEF Tx
<1>2. DOMAIN x.writes = D /\ D \cup {t} \in SUBSET LinkTasks
  BY <1>1
<1>3. w \in [D \cup {t} -> STATES]
  BY <1>1, <1>2
<1>4. w \in UNION {[E -> STATES] : E \in SUBSET LinkTasks}
  BY <1>2, <1>3
<1>5. Sets(x, t, state) = [x EXCEPT !.writes = w]
  BY DEF Sets
<1> HIDE DEF w
<1>6. [x EXCEPT !.writes = w] \in Tx
  BY <1>4 DEF Tx
<1>7. PICK y : y = [x EXCEPT !.writes = w]
  OBVIOUS
<1>8. /\ y.todo = x.todo /\ y.deferred = x.deferred /\ y.inserted = x.inserted
      /\ y.deleted = x.deleted /\ y.locks = x.locks /\ y.writes = w
  BY <1>7 DEF Tx
<1>9. /\ DOMAIN w = DOMAIN x.writes \cup {t} /\ w[t] = state
      /\ \A u \in DOMAIN x.writes \ {t} : w[u] = x.writes[u]
  BY DEF w
<1> QED BY <1>5, <1>6, <1>7, <1>8, <1>9

LEMMA DefersFields ==
  ASSUME NEW x \in Tx, NEW t \in LinkTasks, NEW do \in {"check", "judge"}
  PROVE  LET y == Defers(x, do, t)
         IN /\ y \in Tx /\ y.todo = x.todo
            /\ y.inserted = x.inserted /\ y.deleted = x.deleted /\ y.writes = x.writes
            /\ y.locks = x.locks
            /\ ~Checked(y, t) /\ (do = "judge" => ~Judged(y, t))
            /\ \A u \in LinkTasks : ~Judged(x, u) => ~Judged(y, u)
            /\ \A u \in LinkTasks : ~Checked(x, u) => ~Checked(y, u)
<1> DEFINE d == Append(x.deferred, Task(do, t))
<1>1. x.deferred \in Seq(CHECKS) /\ Task(do, t) \in CHECKS
  BY DEF Tx, Task, CHECKS
<1>2. /\ d \in Seq(CHECKS) /\ Len(d) = Len(x.deferred) + 1
      /\ d[Len(x.deferred) + 1] = Task(do, t)
      /\ \A i \in 1 .. Len(x.deferred) : d[i] = x.deferred[i]
  BY <1>1, AppendProperties
<1>3. Defers(x, do, t) = [x EXCEPT !.deferred = d]
  BY DEF Defers
<1> HIDE DEF d
<1>4. PICK y : y = [x EXCEPT !.deferred = d]
  OBVIOUS
<1>5. /\ y \in Tx /\ y.deferred = d /\ y.todo = x.todo /\ y.inserted = x.inserted
      /\ y.deleted = x.deleted /\ y.writes = x.writes /\ y.locks = x.locks
  BY <1>2, <1>4 DEF Tx
<1>6. /\ DOMAIN d = 1 .. (Len(x.deferred) + 1) /\ DOMAIN x.deferred = 1 .. Len(x.deferred)
      /\ Len(x.deferred) \in Nat
  BY <1>1, <1>2
<1>7. Len(x.deferred) + 1 \in DOMAIN d
  BY <1>6
<1>8. ~Checked(y, t) /\ (do = "judge" => ~Judged(y, t))
  BY <1>2, <1>5, <1>7 DEF Checked, Judged, Task
<1>9. \A i \in DOMAIN x.deferred : i \in DOMAIN d /\ d[i] = x.deferred[i]
  BY <1>2, <1>6
<1>10. \A u \in LinkTasks : /\ ~Judged(x, u) => ~Judged(y, u)
                            /\ ~Checked(x, u) => ~Checked(y, u)
  BY <1>5, <1>9 DEF Checked, Judged
<1> QED BY <1>3, <1>4, <1>5, <1>8, <1>10

LEMMA TaskIs ==
  ASSUME NEW do, NEW t
  PROVE  Task(do, t).do = do /\ Task(do, t).t = t
BY DEF Task

(* The statement at the head is done, and the next ones keep their order.   *)
LEMMA NextInOrder ==
  ASSUME NEW x \in Tx, x.todo # <<>>, NEW y, NEW tk, NEW t \in LinkTasks,
         InOrder(x, tk, t), y.todo = Tail(x.todo),
         TaskIn(x, tk, t) = "gone" => TaskIn(y, tk, t) = "gone",
         Head(x.todo) = Task("drop", t) => TaskIn(y, tk, t) = "gone",
         Head(x.todo) = Task("task", t) => y.locks[t] = "update" /\ TaskIn(y, tk, t) # "gone"
  PROVE  InOrder(y, tk, t)
<1>1. x.todo \in Seq(STATEMENTS) /\ Len(x.todo) \in Nat \ {0} /\ Head(x.todo) = x.todo[1]
  BY EmptySeq DEF Tx
<1>2. /\ Len(y.todo) = Len(x.todo) - 1 /\ y.todo \in Seq(STATEMENTS)
      /\ \A i \in 1 .. Len(y.todo) : y.todo[i] = x.todo[i + 1]
  BY <1>1, HeadTailProperties
<1>3. SUFFICES ASSUME NEW i \in DOMAIN y.todo
               PROVE  /\ y.todo[i] = Task("cascade", t) =>
                           IF i = 1 THEN TaskIn(y, tk, t) = "gone"
                           ELSE y.todo[i - 1] = Task("drop", t) \/ TaskIn(y, tk, t) = "gone"
                      /\ y.todo[i] \in {Task("restore", t), Task("to_trash", t)} =>
                           IF i = 1 THEN y.locks[t] = "update" /\ TaskIn(y, tk, t) # "gone"
                           ELSE y.todo[i - 1] = Task("task", t)
  BY DEF InOrder
<1>4. /\ i \in 1 .. Len(y.todo) /\ i + 1 \in DOMAIN x.todo /\ i + 1 # 1 /\ (i + 1) - 1 = i
      /\ y.todo[i] = x.todo[i + 1]
      /\ i # 1 => i - 1 \in 1 .. Len(y.todo) /\ y.todo[i - 1] = x.todo[i]
  BY <1>1, <1>2
<1>5. /\ x.todo[i + 1] = Task("cascade", t) =>
           x.todo[i] = Task("drop", t) \/ TaskIn(x, tk, t) = "gone"
      /\ x.todo[i + 1] \in {Task("restore", t), Task("to_trash", t)} =>
           x.todo[i] = Task("task", t)
  BY <1>4 DEF InOrder
<1> QED BY <1>1, <1>4, <1>5

(* So they do if statements of its own come before them.                    *)
Pushes(P, u) ==
  P \in {<<Task("foreign_key", u)>>, <<Task("drop", u), Task("cascade", u)>>}

LEMMA TaskStatement ==
  ASSUME NEW u \in LinkTasks
  PROVE  /\ Task("foreign_key", u) \in STATEMENTS /\ Task("drop", u) \in STATEMENTS
         /\ Task("cascade", u) \in STATEMENTS
<1>1. /\ Task("foreign_key", u) \in OnTask /\ Task("drop", u) \in OnTask
      /\ Task("cascade", u) \in OnTask
  BY DEF Task, OnTask
<1> QED BY <1>1 DEF STATEMENTS

LEMMA PushedType ==
  ASSUME NEW u \in LinkTasks, NEW P, Pushes(P, u)
  PROVE  P \in Seq(STATEMENTS)
<1> HIDE DEF Pushes
<1> DEFINE f == Task("foreign_key", u)
<1> DEFINE d == Task("drop", u)
<1> DEFINE c == Task("cascade", u)
<1>1. f \in STATEMENTS /\ d \in STATEMENTS /\ c \in STATEMENTS
  BY TaskStatement
<1>2. P = <<f>> \/ P = <<d, c>>
  BY DEF Pushes
<1> HIDE DEF f, d, c
<1>3. <<f>> \in Seq(STATEMENTS) /\ <<d, c>> \in Seq(STATEMENTS)
  BY <1>1
<1> QED BY <1>2, <1>3

(* Every statement is a pushed one, or follows what it followed before.     *)
FollowsAsBefore(q, w, i) ==
  /\ i # 1
  /\ \E j \in DOMAIN w \ {1} : q[i] = w[j] /\ (j = 2 \/ q[i - 1] = w[j - 1])

LEMMA PushedList ==
  ASSUME NEW w \in Seq(STATEMENTS), w # <<>>, NEW u \in LinkTasks, NEW P, Pushes(P, u),
         NEW q, q = P \o Tail(w), NEW i \in DOMAIN q
  PROVE  \/ q[i] = Task("foreign_key", u) \/ q[i] = Task("drop", u)
         \/ q[i] = Task("cascade", u) /\ i # 1 /\ q[i - 1] = Task("drop", u)
         \/ FollowsAsBefore(q, w, i)
<1>1. /\ Tail(w) \in Seq(STATEMENTS) /\ Len(Tail(w)) = Len(w) - 1 /\ Len(w) \in Nat \ {0}
      /\ \A k \in 1 .. Len(Tail(w)) : Tail(w)[k] = w[k + 1]
  BY HeadTailProperties, EmptySeq
<1>2. P \in Seq(STATEMENTS)
  BY PushedType
<1>3. PICK n \in Nat : n = Len(P)
  BY <1>2
<1>4. /\ Len(q) = n + Len(Tail(w)) /\ DOMAIN q = 1 .. Len(q)
      /\ \A k \in 1 .. n : q[k] = P[k]
      /\ \A k \in n + 1 .. Len(q) : q[k] = Tail(w)[k - n]
  BY <1>1, <1>2, <1>3, ConcatProperties
<1>5. n = 1 \/ n = 2
  BY <1>3 DEF Pushes
<1>6. i \in 1 .. Len(q)
  BY <1>4
<1> HIDE DEF Pushes
<1>7. CASE i \in 1 .. n
  <2>1. q[i] = P[i] /\ q[1] = P[1]
    BY <1>4, <1>5, <1>7
  <2>2. i = 1 \/ i = 2
    BY <1>5, <1>7
  <2>3. \/ P[i] = Task("foreign_key", u) \/ P[i] = Task("drop", u)
        \/ P[i] = Task("cascade", u) /\ i = 2 /\ P[1] = Task("drop", u)
    BY <1>3, <1>5, <1>7, <2>2 DEF Pushes
  <2>4. i = 2 => i # 1 /\ i - 1 = 1
    OBVIOUS
  <2> QED BY <2>1, <2>3, <2>4
<1>8. CASE i \in n + 1 .. Len(q)
  <2>1. PICK j \in 1 .. Len(Tail(w)) : j = i - n
    BY <1>1, <1>4, <1>5, <1>8
  <2>2. q[i] = w[j + 1] /\ j + 1 \in DOMAIN w \ {1} /\ i # 1
    BY <1>1, <1>4, <1>5, <1>8, <2>1
  <2>3. j # 1 => q[i - 1] = w[j]
    <3>1. j # 1 => i - 1 \in n + 1 .. Len(q) /\ (i - 1) - n = j - 1
                   /\ j - 1 \in 1 .. Len(Tail(w)) /\ (j - 1) + 1 = j
      BY <1>1, <1>4, <1>5, <1>8, <2>1
    <3>2. j # 1 => q[i - 1] = Tail(w)[j - 1] /\ Tail(w)[j - 1] = w[j]
      BY <1>1, <1>4, <3>1
    <3> QED BY <3>2
  <2>4. PICK m \in DOMAIN w \ {1} : m = j + 1
    BY <2>2
  <2>5. m - 1 = j /\ (j = 1 => m = 2)
    BY <2>1, <2>4
  <2>6. q[i] = w[m] /\ (m = 2 \/ q[i - 1] = w[m - 1])
    BY <2>2, <2>3, <2>4, <2>5
  <2>7. FollowsAsBefore(q, w, i)
    BY <2>2, <2>4, <2>6 DEF FollowsAsBefore
  <2> QED BY <2>7
<1>9. i \in 1 .. n \/ i \in n + 1 .. Len(q)
  BY <1>1, <1>3, <1>4, <1>6
<1> QED BY <1>7, <1>8, <1>9

LEMMA PushedInOrder ==
  ASSUME NEW x \in Tx, x.todo # <<>>, NEW y, NEW tk, NEW t \in LinkTasks,
         InOrder(x, tk, t), NEW u \in LinkTasks, NEW P, Pushes(P, u),
         y.todo = P \o Tail(x.todo),
         TaskIn(x, tk, t) = "gone" => TaskIn(y, tk, t) = "gone",
         Head(x.todo).do \notin {"drop", "task"}
  PROVE  InOrder(y, tk, t)
<1>1. PICK w \in Seq(STATEMENTS) : w = x.todo
  BY DEF Tx
<1>2. PICK q : q = y.todo
  OBVIOUS
<1>3. q = P \o Tail(w) /\ w # <<>> /\ w[1] # Task("drop", t) /\ w[1] # Task("task", t)
  BY <1>1, <1>2, TaskIs
<1>4. SUFFICES ASSUME NEW i \in DOMAIN q
               PROVE  /\ q[i] = Task("cascade", t) =>
                           IF i = 1 THEN TaskIn(y, tk, t) = "gone"
                           ELSE q[i - 1] = Task("drop", t) \/ TaskIn(y, tk, t) = "gone"
                      /\ q[i] \in {Task("restore", t), Task("to_trash", t)} =>
                           IF i = 1 THEN y.locks[t] = "update" /\ TaskIn(y, tk, t) # "gone"
                           ELSE q[i - 1] = Task("task", t)
  BY <1>2 DEF InOrder
<1>5. CASE q[i] = Task("foreign_key", u) \/ q[i] = Task("drop", u)
  BY <1>5 DEF Task
<1>6. CASE q[i] = Task("cascade", u) /\ i # 1 /\ q[i - 1] = Task("drop", u)
  BY <1>6 DEF Task
<1>7. CASE FollowsAsBefore(q, w, i)
  <2>0. i # 1
    BY <1>7 DEF FollowsAsBefore
  <2>1. PICK j \in DOMAIN w \ {1} : q[i] = w[j] /\ (j = 2 \/ q[i - 1] = w[j - 1])
    BY <1>7 DEF FollowsAsBefore
  <2>2. /\ w[j] = Task("cascade", t) =>
             w[j - 1] = Task("drop", t) \/ TaskIn(x, tk, t) = "gone"
        /\ w[j] \in {Task("restore", t), Task("to_trash", t)} => w[j - 1] = Task("task", t)
    BY <1>1 DEF InOrder
  <2>3. j = 2 => w[j - 1] = w[1]
    OBVIOUS
  <2>4. CASE j = 2
    BY <1>3, <2>0, <2>1, <2>2, <2>3, <2>4
  <2>5. CASE q[i - 1] = w[j - 1]
    BY <2>0, <2>1, <2>2, <2>5
  <2> QED BY <2>1, <2>4, <2>5
<1>8. \/ q[i] = Task("foreign_key", u) \/ q[i] = Task("drop", u)
      \/ q[i] = Task("cascade", u) /\ i # 1 /\ q[i - 1] = Task("drop", u)
      \/ FollowsAsBefore(q, w, i)
  BY <1>3, PushedList
<1> QED BY <1>5, <1>6, <1>7, <1>8

-----------------------------------------------------------------------------
(* Each statement leaves its transaction sound *)

Ready(s, x) ==
  /\ x \in Tx /\ x.todo # <<>> /\ Compatible(s, x)
  /\ Going(x, task) /\ \A t \in LinkTasks : InOrder(x, task, t)

Onward(s, y) == y \in Tx /\ Compatible(s, y) /\ Sound(y, links, task)

(* y has put off what x had, and holds for update what x held.              *)
PutsOff(x, y) ==
  \A u \in LinkTasks : /\ ~Judged(x, u) => ~Judged(y, u)
                       /\ ~Checked(x, u) => ~Checked(y, u)
Holds(x, y) == \A u \in LinkTasks : x.locks[u] = "update" => y.locks[u] = "update"

LEMMA GoingKept ==
  ASSUME NEW x, NEW y, NEW tk, Going(x, tk), PutsOff(x, y), Holds(x, y),
         y.writes = x.writes, y.deleted = x.deleted
  PROVE  Going(y, tk)
BY DEF Going, PutsOff, Holds, WrittenLocked, Removes, Revives, TaskIn

LEMMA StepOnward ==
  ASSUME NEW s, NEW x, Ready(s, x), NEW y \in Tx, Compatible(s, y),
         y.todo = Tail(x.todo), PutsOff(x, y), Holds(x, y),
         y.writes = x.writes, y.deleted = x.deleted, Head(x.todo).do # "drop",
         \A t \in LinkTasks :
           Head(x.todo) = Task("task", t) =>
             y.locks[t] = "update" /\ TaskIn(x, task, t) # "gone"
  PROVE  Onward(s, y)
<1>1. Going(y, task)
  BY GoingKept DEF Ready
<1>2. ASSUME NEW t \in LinkTasks
      PROVE  InOrder(y, task, t)
  <2>1. TaskIn(y, task, t) = TaskIn(x, task, t)
    BY DEF TaskIn
  <2>2. Head(x.todo) # Task("drop", t)
    BY TaskIs
  <2>3. x \in Tx /\ x.todo # <<>> /\ InOrder(x, task, t)
    BY DEF Ready
  <2> QED BY <2>1, <2>2, <2>3, NextInOrder
<1>3. Sound(y, links, task)
  BY <1>1, <1>2, GoingSound
<1> QED BY <1>3 DEF Onward

LEMMA ReadyHead ==
  ASSUME NEW s, NEW x, Ready(s, x)
  PROVE  /\ Head(x.todo) \in STATEMENTS /\ x.todo \in Seq(STATEMENTS) /\ 1 \in DOMAIN x.todo
         /\ x.todo[1] = Head(x.todo)
         /\ Rest(x) \in Tx /\ Rest(x).todo = Tail(x.todo) /\ Rest(x).deferred = x.deferred
         /\ Rest(x).inserted = x.inserted /\ Rest(x).deleted = x.deleted
         /\ Rest(x).writes = x.writes /\ Rest(x).locks = x.locks
         /\ Compatible(s, Rest(x))
<1>1. x \in Tx /\ x.todo # <<>>
  BY DEF Ready
<1>2. x.todo \in Seq(STATEMENTS) /\ Len(x.todo) \in Nat \ {0}
  BY <1>1, EmptySeq DEF Tx
<1>3. Head(x.todo) \in STATEMENTS /\ 1 \in DOMAIN x.todo /\ x.todo[1] = Head(x.todo)
  BY <1>2
<1>4. Compatible(s, Rest(x))
  BY <1>1, RestFields, StillCompatible DEF Ready
<1> QED BY <1>1, <1>2, <1>3, <1>4, RestFields

(* Every statement's kind tells its fields.                                 *)
LEMMA StatementKinds ==
  ASSUME NEW st \in STATEMENTS
  PROVE  /\ st.do \in {"task", "accept", "to_trash", "restore", "foreign_key", "bare", "drop",
                       "cascade"} => st.t \in LinkTasks /\ st = Task(st.do, st.t)
         /\ st.do \in {"insert", "delete"} => st.t \in LinkTasks /\ st.r \in Records
         /\ st.do \in {"company", "unlink"} => st.r \in Records
         /\ st.do = "move" => st.keep \in Records /\ st.gone \in Records
BY DEF STATEMENTS, OnTask, Task

LEMMA TakesTheTask ==
  ASSUME LinksInv, NEW s \in Connections, NEW x, Ready(s, x), NEW st, st = Head(x.todo),
         st.do = "task", WaitsFor(s, st) = {}, NEW y, y \in After(Rest(x), st)
  PROVE  Onward(s, y)
<1>1. st.t \in LinkTasks /\ st = Task("task", st.t)
  BY ReadyHead, StatementKinds
<1>2. TaskHolders(s, st.t, "update") = {}
  BY DEF WaitsFor
<1>3. y = Locks(Rest(x), st.t, "update") /\ SeenTask(Rest(x), st.t) # "gone"
  BY DEF After
<1>4. "update" \in MODES /\ "update" \in MODES \ {"none"}
  BY DEF MODES
<1>5. PICK r : r = Rest(x)
  OBVIOUS
<1>6. /\ r \in Tx /\ r.todo = Tail(x.todo) /\ r.deferred = x.deferred
      /\ r.deleted = x.deleted /\ r.writes = x.writes /\ r.locks = x.locks
      /\ Compatible(s, r)
  BY <1>5, ReadyHead
<1>7. /\ y \in Tx /\ y.todo = r.todo /\ y.deferred = r.deferred
      /\ y.deleted = r.deleted /\ y.writes = r.writes
      /\ y.locks = [r.locks EXCEPT ![st.t] = Stronger(@, "update")]
      /\ y.locks[st.t] = Stronger(r.locks[st.t], "update")
      /\ \A u \in LinkTasks \ {st.t} : y.locks[u] = r.locks[u]
  BY <1>1, <1>3, <1>4, <1>5, <1>6, LocksFields
<1>8. Compatible(s, y)
  BY <1>1, <1>2, <1>4, <1>6, <1>7, LocksTaken
<1>9. y.locks[st.t] = "update"
  BY <1>7 DEF Stronger
<1>10. PutsOff(x, y)
  BY <1>6, <1>7 DEF PutsOff, Judged, Checked
<1>11. Holds(x, y)
  BY <1>6, <1>7, <1>9 DEF Holds
<1>12. TaskIn(x, task, st.t) # "gone"
  BY <1>3, <1>5, <1>6 DEF SeenTask, TaskIn
<1>13. ASSUME NEW t \in LinkTasks, st = Task("task", t)
       PROVE  y.locks[t] = "update" /\ TaskIn(x, task, t) # "gone"
  <2>1. st.t = t
    BY <1>13, TaskIs
  <2> QED BY <1>9, <1>12, <2>1
<1>14. /\ y \in Tx /\ y.todo = Tail(x.todo) /\ y.writes = x.writes /\ y.deleted = x.deleted
       /\ Head(x.todo).do # "drop"
  BY <1>6, <1>7
<1>15. \A t \in LinkTasks :
         Head(x.todo) = Task("task", t) =>
           y.locks[t] = "update" /\ TaskIn(x, task, t) # "gone"
  BY <1>13
<1> QED BY <1>8, <1>10, <1>11, <1>14, <1>15, StepOnward

LEMMA Accepts ==
  ASSUME LinksInv, NEW s \in Connections, NEW x, Ready(s, x), NEW st, st = Head(x.todo),
         st.do = "accept", NEW y, y \in After(Rest(x), st)
  PROVE  Onward(s, y)
<1>1. st.t \in LinkTasks /\ st = Task("accept", st.t)
  BY ReadyHead, StatementKinds
<1>2. y = Defers(Rest(x), "check", st.t)
  BY DEF After
<1>3. PICK r : r = Rest(x)
  OBVIOUS
<1>4. /\ r \in Tx /\ r.todo = Tail(x.todo) /\ r.deferred = x.deferred
      /\ r.deleted = x.deleted /\ r.writes = x.writes /\ r.locks = x.locks
      /\ Compatible(s, r)
  BY <1>3, ReadyHead
<1>5. /\ y \in Tx /\ y.todo = r.todo /\ y.deleted = r.deleted /\ y.writes = r.writes
      /\ y.locks = r.locks
      /\ \A u \in LinkTasks : ~Judged(r, u) => ~Judged(y, u)
      /\ \A u \in LinkTasks : ~Checked(r, u) => ~Checked(y, u)
  BY <1>1, <1>2, <1>3, <1>4, DefersFields
<1>6. Compatible(s, y)
  BY <1>4, <1>5, StillCompatible
<1>7. PutsOff(x, y)
  BY <1>4, <1>5 DEF PutsOff, Judged, Checked
<1>8. Holds(x, y)
  BY <1>4, <1>5 DEF Holds
<1>9. \A t \in LinkTasks : st # Task("task", t)
  BY TaskIs
<1> QED BY <1>4, <1>5, <1>6, <1>7, <1>8, <1>9, StepOnward

LEMMA TakesACompany ==
  ASSUME LinksInv, NEW s \in Connections, NEW x, Ready(s, x), NEW st, st = Head(x.todo),
         st.do = "company", NEW y, y \in After(Rest(x), st)
  PROVE  Onward(s, y)
<1>1. st.r \in Records
  BY ReadyHead, StatementKinds
<1>2. y = [Rest(x) EXCEPT !.companies = @ \cup {st.r}]
  BY DEF After
<1>3. PICK r : r = Rest(x)
  OBVIOUS
<1>4. /\ r \in Tx /\ r.todo = Tail(x.todo) /\ r.deferred = x.deferred
      /\ r.deleted = x.deleted /\ r.writes = x.writes /\ r.locks = x.locks
      /\ Compatible(s, r)
  BY <1>3, ReadyHead
<1>5. /\ y \in Tx /\ y.todo = r.todo /\ y.deferred = r.deferred
      /\ y.deleted = r.deleted /\ y.writes = r.writes /\ y.locks = r.locks
  BY <1>1, <1>2, <1>3, <1>4 DEF Tx
<1>6. Compatible(s, y)
  BY <1>4, <1>5, StillCompatible
<1>7. PutsOff(x, y) /\ Holds(x, y)
  BY <1>4, <1>5 DEF PutsOff, Judged, Checked, Holds
<1>8. \A t \in LinkTasks : st # Task("task", t)
  BY TaskIs
<1> QED BY <1>4, <1>5, <1>6, <1>7, <1>8, StepOnward

(* A statement that finds nothing to do.                                    *)
LEMMA NothingToDo ==
  ASSUME LinksInv, NEW s \in Connections, NEW x, Ready(s, x), NEW y, y = Rest(x),
         Head(x.todo).do \notin {"task", "drop"}
  PROVE  Onward(s, y)
<1>1. /\ y \in Tx /\ y.todo = Tail(x.todo) /\ y.deferred = x.deferred
      /\ y.deleted = x.deleted /\ y.writes = x.writes /\ y.locks = x.locks
      /\ Compatible(s, y)
  BY ReadyHead
<1>2. PutsOff(x, y) /\ Holds(x, y)
  BY <1>1 DEF PutsOff, Judged, Checked, Holds
<1>3. \A t \in LinkTasks : Head(x.todo) # Task("task", t)
  BY TaskIs
<1> QED BY <1>1, <1>2, <1>3, StepOnward

LEMMA MeetsTheTask ==
  ASSUME LinksInv, NEW s \in Connections, NEW x, Ready(s, x), NEW st, st = Head(x.todo),
         st.do = "foreign_key", WaitsFor(s, st) = {}, NEW y, y \in After(Rest(x), st)
  PROVE  Onward(s, y)
<1>1. st.t \in LinkTasks /\ st = Task("foreign_key", st.t)
  BY ReadyHead, StatementKinds
<1>2. TaskHolders(s, st.t, "key_share") = {}
  BY DEF WaitsFor
<1>3. y = Defers(Locks(Rest(x), st.t, "key_share"), "check", st.t)
  BY DEF After
<1>4. "key_share" \in MODES /\ "key_share" \in MODES \ {"none"}
  BY DEF MODES
<1>5. PICK r : r = Rest(x)
  OBVIOUS
<1>6. /\ r \in Tx /\ r.todo = Tail(x.todo) /\ r.deferred = x.deferred
      /\ r.deleted = x.deleted /\ r.writes = x.writes /\ r.locks = x.locks
      /\ Compatible(s, r)
  BY <1>5, ReadyHead
<1>7. PICK k : k = Locks(r, st.t, "key_share")
  OBVIOUS
<1>8. /\ k \in Tx /\ k.todo = r.todo /\ k.deferred = r.deferred
      /\ k.deleted = r.deleted /\ k.writes = r.writes
      /\ k.locks = [r.locks EXCEPT ![st.t] = Stronger(@, "key_share")]
      /\ k.locks[st.t] = Stronger(r.locks[st.t], "key_share")
      /\ \A u \in LinkTasks \ {st.t} : k.locks[u] = r.locks[u]
  BY <1>1, <1>4, <1>6, <1>7, LocksFields
<1>9. Compatible(s, k)
  BY <1>1, <1>2, <1>4, <1>6, <1>8, LocksTaken
<1>10. y = Defers(k, "check", st.t)
  BY <1>3, <1>5, <1>7
<1>11. /\ y \in Tx /\ y.todo = k.todo /\ y.deleted = k.deleted /\ y.writes = k.writes
       /\ y.locks = k.locks
       /\ \A u \in LinkTasks : ~Judged(k, u) => ~Judged(y, u)
       /\ \A u \in LinkTasks : ~Checked(k, u) => ~Checked(y, u)
  BY <1>1, <1>8, <1>10, DefersFields
<1>12. Compatible(s, y)
  BY <1>9, <1>11, StillCompatible
<1>13. PutsOff(x, y)
  BY <1>6, <1>8, <1>11 DEF PutsOff, Judged, Checked
<1>14. r.locks[st.t] = "update" => k.locks[st.t] = "update"
  BY <1>8 DEF Stronger
<1>15. Holds(x, y)
  BY <1>6, <1>8, <1>11, <1>14 DEF Holds
<1>16. \A t \in LinkTasks : st # Task("task", t)
  BY TaskIs
<1> QED BY <1>6, <1>8, <1>11, <1>12, <1>13, <1>15, <1>16, StepOnward

LEMMA PushOnward ==
  ASSUME NEW s, NEW x, Ready(s, x), NEW y \in Tx, Compatible(s, y),
         NEW u \in LinkTasks, NEW P, Pushes(P, u), y.todo = P \o Tail(x.todo),
         PutsOff(x, y), Holds(x, y), y.writes = x.writes, y.deleted = x.deleted,
         Head(x.todo).do \notin {"drop", "task"}
  PROVE  Onward(s, y)
<1> HIDE DEF Pushes
<1>1. Going(y, task)
  BY GoingKept DEF Ready
<1>2. ASSUME NEW t \in LinkTasks
      PROVE  InOrder(y, task, t)
  <2>1. TaskIn(y, task, t) = TaskIn(x, task, t)
    BY DEF TaskIn
  <2>2. x \in Tx /\ x.todo # <<>> /\ InOrder(x, task, t)
    BY DEF Ready
  <2> QED BY <2>1, <2>2, PushedInOrder
<1>3. Sound(y, links, task)
  BY <1>1, <1>2, GoingSound
<1> QED BY <1>3 DEF Onward

LEMMA PushesType ==
  ASSUME NEW x, NEW s, Ready(s, x), NEW u \in LinkTasks, NEW P, Pushes(P, u)
  PROVE  P \o Tail(x.todo) \in Seq(STATEMENTS)
<1>1. P \in Seq(STATEMENTS)
  BY PushedType
<1>2. Tail(x.todo) \in Seq(STATEMENTS)
  BY RestFields DEF Ready, Tx
<1> HIDE DEF Pushes
<1> QED BY <1>1, <1>2, ConcatProperties

LEMMA PutsOn ==
  ASSUME LinksInv, NEW s \in Connections, NEW x, Ready(s, x), NEW st, st = Head(x.todo),
         st.do = "insert", NEW y, y \in After(Rest(x), st)
  PROVE  Onward(s, y)
<1>1. st.t \in LinkTasks /\ st.r \in Records /\ Head(x.todo).do \notin {"task", "drop"}
  BY ReadyHead, StatementKinds
<1>2. CASE y = Rest(x)
  BY <1>1, <1>2, NothingToDo
<1>3. CASE y # Rest(x)
  <2>1. PICK r : r = Rest(x)
    OBVIOUS
  <2>2. PICK P : P = <<Task("foreign_key", st.t)>>
    OBVIOUS
  <2>3. y = [r EXCEPT !.rows = @ \cup {<<st.t, st.r>>}, !.inserted = @ \cup {<<st.t, st.r>>},
                      !.todo = P \o @]
    BY <1>3, <2>1, <2>2 DEF After
  <2>4. Pushes(P, st.t)
    BY <2>2 DEF Pushes
  <2>5. /\ r \in Tx /\ r.todo = Tail(x.todo) /\ r.deferred = x.deferred
        /\ r.deleted = x.deleted /\ r.writes = x.writes /\ r.locks = x.locks
        /\ Compatible(s, r)
    BY <2>1, ReadyHead
  <2>6. PICK q \in Seq(STATEMENTS) : q = P \o r.todo
    BY <1>1, <2>4, <2>5, PushesType
  <2>7. <<st.t, st.r>> \in Pairs
    BY <1>1 DEF Pairs
  <2>8. y = [r EXCEPT !.rows = @ \cup {<<st.t, st.r>>}, !.inserted = @ \cup {<<st.t, st.r>>},
                      !.todo = q]
    BY <2>3, <2>5, <2>6 DEF Tx
  <2>9. y \in Tx
    BY <2>5, <2>6, <2>7, <2>8 DEF Tx
  <2>10. /\ y.todo = q /\ y.deferred = r.deferred /\ y.deleted = r.deleted
         /\ y.writes = r.writes /\ y.locks = r.locks
    BY <2>5, <2>8 DEF Tx
  <2>11. y.todo = P \o Tail(x.todo)
    BY <2>5, <2>6, <2>10
  <2>12. Compatible(s, y)
    BY <2>5, <2>10, StillCompatible
  <2>13. PutsOff(x, y) /\ Holds(x, y)
    BY <2>5, <2>10 DEF PutsOff, Judged, Checked, Holds
  <2>14. y.writes = x.writes /\ y.deleted = x.deleted
    BY <2>5, <2>10
  <2> QED BY <1>1, <2>4, <2>9, <2>11, <2>12, <2>13, <2>14, PushOnward
<1> QED BY <1>2, <1>3

LEMMA FindsItBare ==
  ASSUME LinksInv, NEW s \in Connections, NEW x, Ready(s, x), NEW st, st = Head(x.todo),
         st.do = "bare", NEW y, y \in After(Rest(x), st)
  PROVE  Onward(s, y)
<1>1. st.t \in LinkTasks /\ Head(x.todo).do \notin {"task", "drop"}
  BY ReadyHead, StatementKinds
<1>2. CASE y = Rest(x)
  BY <1>1, <1>2, NothingToDo
<1>3. CASE y # Rest(x)
  <2>1. PICK r : r = Rest(x)
    OBVIOUS
  <2>2. PICK P : P = <<Task("drop", st.t), Task("cascade", st.t)>>
    OBVIOUS
  <2>3. y = [r EXCEPT !.todo = P \o @]
    BY <1>3, <2>1, <2>2 DEF After
  <2>4. Pushes(P, st.t)
    BY <2>2 DEF Pushes
  <2>5. /\ r \in Tx /\ r.todo = Tail(x.todo) /\ r.deferred = x.deferred
        /\ r.deleted = x.deleted /\ r.writes = x.writes /\ r.locks = x.locks
        /\ Compatible(s, r)
    BY <2>1, ReadyHead
  <2>6. PICK q \in Seq(STATEMENTS) : q = P \o r.todo
    BY <1>1, <2>4, <2>5, PushesType
  <2>8. y = [r EXCEPT !.todo = q]
    BY <2>3, <2>5, <2>6 DEF Tx
  <2>9. y \in Tx
    BY <2>5, <2>6, <2>8 DEF Tx
  <2>10. /\ y.todo = q /\ y.deferred = r.deferred /\ y.deleted = r.deleted
         /\ y.writes = r.writes /\ y.locks = r.locks
    BY <2>5, <2>8 DEF Tx
  <2>11. y.todo = P \o Tail(x.todo)
    BY <2>5, <2>6, <2>10
  <2>12. Compatible(s, y)
    BY <2>5, <2>10, StillCompatible
  <2>13. PutsOff(x, y) /\ Holds(x, y)
    BY <2>5, <2>10 DEF PutsOff, Judged, Checked, Holds
  <2>14. y.writes = x.writes /\ y.deleted = x.deleted
    BY <2>5, <2>10
  <2> QED BY <1>1, <2>4, <2>9, <2>11, <2>12, <2>13, <2>14, PushOnward
<1> QED BY <1>2, <1>3

LEMMA NextOnward ==
  ASSUME NEW s, NEW x, Ready(s, x), NEW y \in Tx, Compatible(s, y), Going(y, task),
         y.todo = Tail(x.todo), Head(x.todo).do # "task",
         \A t \in LinkTasks : TaskIn(x, task, t) = "gone" => TaskIn(y, task, t) = "gone",
         \A t \in LinkTasks : Head(x.todo) = Task("drop", t) => TaskIn(y, task, t) = "gone"
  PROVE  Onward(s, y)
<1>1. ASSUME NEW t \in LinkTasks
      PROVE  InOrder(y, task, t)
  <2>1. Head(x.todo) # Task("task", t)
    BY TaskIs
  <2>2. x \in Tx /\ x.todo # <<>> /\ InOrder(x, task, t)
    BY DEF Ready
  <2> QED BY <2>1, <2>2, NextInOrder
<1>2. Sound(y, links, task)
  BY <1>1, GoingSound
<1> QED BY <1>2 DEF Onward

LEMMA TakesOff ==
  ASSUME LinksInv, NEW s \in Connections, NEW x, Ready(s, x), NEW st, st = Head(x.todo),
         st.do = "delete", NEW y, y \in After(Rest(x), st)
  PROVE  Onward(s, y)
<1>1. st.t \in LinkTasks /\ st.r \in Records /\ Head(x.todo).do \notin {"task", "drop"}
  BY ReadyHead, StatementKinds
<1>2. CASE y = Rest(x)
  BY <1>1, <1>2, NothingToDo
<1>3. CASE y # Rest(x)
  <2>1. PICK r : r = Rest(x)
    OBVIOUS
  <2>2. /\ r \in Tx /\ r.todo = Tail(x.todo) /\ r.deferred = x.deferred
        /\ r.deleted = x.deleted /\ r.writes = x.writes /\ r.locks = x.locks
        /\ Compatible(s, r)
    BY <2>1, ReadyHead
  <2>3. PICK k : k = [r EXCEPT !.rows = @ \cup {<<st.t, st.r>>},
                               !.deleted = @ \cup {<<st.t, st.r>>}]
    OBVIOUS
  <2>4. y = Defers(k, "judge", st.t)
    BY <1>3, <2>1, <2>3 DEF After
  <2>5. <<st.t, st.r>> \in Pairs
    BY <1>1 DEF Pairs
  <2>6. /\ k \in Tx /\ k.todo = r.todo /\ k.deferred = r.deferred
        /\ k.writes = r.writes /\ k.locks = r.locks
        /\ k.deleted = r.deleted \cup {<<st.t, st.r>>}
    BY <2>2, <2>3, <2>5 DEF Tx
  <2>7. /\ y \in Tx /\ y.todo = k.todo /\ y.deleted = k.deleted /\ y.writes = k.writes
        /\ y.locks = k.locks /\ ~Judged(y, st.t)
        /\ \A u \in LinkTasks : ~Judged(k, u) => ~Judged(y, u)
        /\ \A u \in LinkTasks : ~Checked(k, u) => ~Checked(y, u)
    BY <1>1, <2>4, <2>6, DefersFields
  <2>8. Compatible(s, y)
    BY <2>2, <2>6, <2>7, StillCompatible
  <2>9. PutsOff(x, y)
    BY <2>2, <2>6, <2>7 DEF PutsOff, Judged, Checked
  <2>10. \A u \in LinkTasks : Removes(y, u) => Removes(x, u) \/ u = st.t
    BY <2>2, <2>6, <2>7 DEF Removes
  <2>11. y.writes = x.writes /\ y.locks = x.locks /\ y.todo = Tail(x.todo)
    BY <2>2, <2>6, <2>7
  <2>12. \A u \in LinkTasks : TaskIn(y, task, u) = TaskIn(x, task, u)
    BY <2>11 DEF TaskIn
  <2>13. Going(x, task)
    BY DEF Ready
  <2>14. Going(y, task)
    BY <2>7, <2>9, <2>10, <2>11, <2>12, <2>13
       DEF Going, PutsOff, WrittenLocked, Revives
  <2>15. \A t \in LinkTasks : Head(x.todo) # Task("drop", t)
    BY <1>1, TaskIs
  <2> QED BY <1>1, <2>7, <2>8, <2>11, <2>12, <2>14, <2>15, NextOnward
<1> QED BY <1>2, <1>3

(* A task is written, under the lock its transaction holds on it.           *)
LEMMA WrittenOnward ==
  ASSUME NEW x, Going(x, task), NEW t \in LinkTasks, NEW state, NEW y,
         DOMAIN y.writes = DOMAIN x.writes \cup {t}, y.writes[t] = state,
         \A u \in DOMAIN x.writes \ {t} : y.writes[u] = x.writes[u],
         y.deleted = x.deleted, y.locks[t] = "update", Holds(x, y), PutsOff(x, y),
         state = "gone" \/ (TaskIn(x, task, t) # "gone" /\ ~Checked(y, t))
  PROVE  /\ Going(y, task) /\ TaskIn(y, task, t) = state
         /\ \A u \in LinkTasks \ {t} : TaskIn(y, task, u) = TaskIn(x, task, u)
<1>1. /\ TaskIn(y, task, t) = state
      /\ \A u \in LinkTasks \ {t} : TaskIn(y, task, u) = TaskIn(x, task, u)
  BY DEF TaskIn
<1>2. ASSUME NEW u \in LinkTasks
      PROVE  /\ WrittenLocked(y, task, u)
             /\ Removes(y, u) => TaskIn(y, task, u) = "gone" \/ ~Judged(y, u)
             /\ Revives(y, u) => ~Checked(y, u)
  <2>1. /\ WrittenLocked(x, task, u)
        /\ Removes(x, u) => TaskIn(x, task, u) = "gone" \/ ~Judged(x, u)
        /\ Revives(x, u) => ~Checked(x, u)
    BY DEF Going
  <2>2. Removes(y, u) <=> Removes(x, u)
    BY DEF Removes
  <2>3. CASE u # t
    BY <1>1, <2>1, <2>2, <2>3 DEF WrittenLocked, Revives, Holds, PutsOff
  <2>4. CASE u = t
    <3>1. WrittenLocked(y, task, t)
      BY <2>1, <2>4 DEF WrittenLocked, TaskIn
    <3>2. Removes(y, t) => TaskIn(y, task, t) = "gone" \/ ~Judged(y, t)
      BY <1>1, <2>1, <2>2, <2>4 DEF PutsOff
    <3>3. Revives(y, t) => ~Checked(y, t)
      BY DEF Revives
    <3> QED BY <2>4, <3>1, <3>2, <3>3
  <2> QED BY <2>3, <2>4
<1>3. Going(y, task)
  BY <1>2 DEF Going
<1> QED BY <1>1, <1>3

LEMMA ToTrashOrBack ==
  ASSUME LinksInv, NEW s \in Connections, NEW x, Ready(s, x), NEW st, st = Head(x.todo),
         st.do \in {"to_trash", "restore"}, NEW y, y \in After(Rest(x), st)
  PROVE  Onward(s, y)
<1>1. st.t \in LinkTasks /\ st = Task(st.do, st.t)
  BY ReadyHead, StatementKinds
<1>2. PICK state \in STATES : /\ y = Defers(Sets(Rest(x), st.t, state), "check", st.t)
  BY DEF After, STATES
<1>3. x.locks[st.t] = "update" /\ TaskIn(x, task, st.t) # "gone"
  <2>1. 1 \in DOMAIN x.todo /\ x.todo[1] = st /\ InOrder(x, task, st.t)
    BY <1>1, ReadyHead DEF Ready
  <2>2. st \in {Task("restore", st.t), Task("to_trash", st.t)}
    BY <1>1
  <2> QED BY <2>1, <2>2 DEF InOrder
<1>4. PICK r : r = Rest(x)
  OBVIOUS
<1>5. /\ r \in Tx /\ r.todo = Tail(x.todo) /\ r.deferred = x.deferred
      /\ r.deleted = x.deleted /\ r.writes = x.writes /\ r.locks = x.locks
      /\ Compatible(s, r)
  BY <1>4, ReadyHead
<1>6. PICK k : k = Sets(r, st.t, state)
  OBVIOUS
<1>7. /\ k \in Tx /\ k.todo = r.todo /\ k.deferred = r.deferred
      /\ k.deleted = r.deleted /\ k.locks = r.locks
      /\ DOMAIN k.writes = DOMAIN r.writes \cup {st.t} /\ k.writes[st.t] = state
      /\ \A u \in DOMAIN r.writes \ {st.t} : k.writes[u] = r.writes[u]
  BY <1>1, <1>5, <1>6, SetsFields
<1>8. y = Defers(k, "check", st.t)
  BY <1>2, <1>4, <1>6
<1>9. /\ y \in Tx /\ y.todo = k.todo /\ y.deleted = k.deleted /\ y.writes = k.writes
      /\ y.locks = k.locks /\ ~Checked(y, st.t)
      /\ \A u \in LinkTasks : ~Judged(k, u) => ~Judged(y, u)
      /\ \A u \in LinkTasks : ~Checked(k, u) => ~Checked(y, u)
  BY <1>1, <1>7, <1>8, DefersFields
<1>10. Compatible(s, y)
  BY <1>5, <1>7, <1>9, StillCompatible
<1>11. PutsOff(x, y)
  BY <1>5, <1>7, <1>9 DEF PutsOff, Judged, Checked
<1>12. Holds(x, y) /\ y.locks[st.t] = "update"
  BY <1>3, <1>5, <1>7, <1>9 DEF Holds
<1>13. Going(x, task)
  BY DEF Ready
<1>14. /\ y.deleted = x.deleted /\ DOMAIN y.writes = DOMAIN x.writes \cup {st.t}
       /\ y.writes[st.t] = state /\ y.todo = Tail(x.todo)
       /\ \A u \in DOMAIN x.writes \ {st.t} : y.writes[u] = x.writes[u]
  BY <1>5, <1>7, <1>9
<1>15. /\ Going(y, task)
       /\ \A u \in LinkTasks \ {st.t} : TaskIn(y, task, u) = TaskIn(x, task, u)
  BY <1>1, <1>3, <1>9, <1>11, <1>12, <1>13, <1>14, WrittenOnward
<1>16. \A u \in LinkTasks : TaskIn(x, task, u) = "gone" => TaskIn(y, task, u) = "gone"
  BY <1>3, <1>15
<1>17. \A t \in LinkTasks : Head(x.todo) # Task("drop", t)
  BY TaskIs
<1>18. Head(x.todo).do # "task"
  OBVIOUS
<1> QED BY <1>9, <1>10, <1>14, <1>15, <1>16, <1>17, <1>18, NextOnward

LEMMA Drops ==
  ASSUME LinksInv, NEW s \in Connections, NEW x, Ready(s, x), NEW st, st = Head(x.todo),
         st.do = "drop", WaitsFor(s, st) = {}, NEW y, y \in After(Rest(x), st)
  PROVE  Onward(s, y)
<1>1. st.t \in LinkTasks /\ st = Task("drop", st.t)
  BY ReadyHead, StatementKinds
<1>2. TaskHolders(s, st.t, "update") = {}
  BY DEF WaitsFor
<1>3. PICK r : r = Rest(x)
  OBVIOUS
<1>4. /\ r \in Tx /\ r.todo = Tail(x.todo) /\ r.deferred = x.deferred
      /\ r.deleted = x.deleted /\ r.writes = x.writes /\ r.locks = x.locks
      /\ Compatible(s, r)
  BY <1>3, ReadyHead
<1>5. Going(x, task)
  BY DEF Ready
<1>6. \A t \in LinkTasks : Head(x.todo) = Task("drop", t) => t = st.t
  BY TaskIs
<1>7. CASE SeenTask(r, st.t) = "gone"
  <2>1. y = r
    BY <1>3, <1>7 DEF After
  <2>2. \A t \in LinkTasks : TaskIn(y, task, t) = TaskIn(x, task, t)
    BY <1>4, <2>1 DEF TaskIn
  <2>3. TaskIn(y, task, st.t) = "gone"
    BY <1>7, <2>1 DEF SeenTask, TaskIn
  <2>4. PutsOff(x, y) /\ Holds(x, y)
    BY <1>4, <2>1 DEF PutsOff, Holds, Judged, Checked
  <2>5. Going(y, task)
    BY <1>4, <1>5, <2>1, <2>4, GoingKept
  <2>6. \A t \in LinkTasks : Head(x.todo) = Task("drop", t) => TaskIn(y, task, t) = "gone"
    BY <1>6, <2>3
  <2> QED BY <1>4, <2>1, <2>2, <2>5, <2>6, NextOnward
<1>8. CASE SeenTask(r, st.t) # "gone"
  <2>1. "update" \in MODES /\ "update" \in MODES \ {"none"} /\ "gone" \in STATES
    BY DEF MODES, STATES
  <2>2. PICK k : k = Locks(r, st.t, "update")
    OBVIOUS
  <2>3. /\ k \in Tx /\ k.todo = r.todo /\ k.deferred = r.deferred
        /\ k.deleted = r.deleted /\ k.writes = r.writes
        /\ k.locks = [r.locks EXCEPT ![st.t] = Stronger(@, "update")]
        /\ k.locks[st.t] = Stronger(r.locks[st.t], "update")
        /\ \A u \in LinkTasks \ {st.t} : k.locks[u] = r.locks[u]
    BY <1>1, <1>4, <2>1, <2>2, LocksFields
  <2>4. Compatible(s, k)
    BY <1>1, <1>2, <1>4, <2>1, <2>3, LocksTaken
  <2>5. y = Sets(k, st.t, "gone")
    BY <1>3, <1>8, <2>2 DEF After
  <2>6. /\ y \in Tx /\ y.todo = k.todo /\ y.deferred = k.deferred
        /\ y.deleted = k.deleted /\ y.locks = k.locks
        /\ DOMAIN y.writes = DOMAIN k.writes \cup {st.t} /\ y.writes[st.t] = "gone"
        /\ \A u \in DOMAIN k.writes \ {st.t} : y.writes[u] = k.writes[u]
    BY <1>1, <2>1, <2>3, <2>5, SetsFields
  <2>7. Compatible(s, y)
    BY <2>4, <2>6, StillCompatible
  <2>8. PutsOff(x, y)
    BY <1>4, <2>3, <2>6 DEF PutsOff, Judged, Checked
  <2>9. y.locks[st.t] = "update"
    BY <2>3, <2>6 DEF Stronger
  <2>10. Holds(x, y)
    BY <1>4, <2>3, <2>6, <2>9 DEF Holds
  <2>11. /\ y.deleted = x.deleted /\ DOMAIN y.writes = DOMAIN x.writes \cup {st.t}
         /\ y.todo = Tail(x.todo)
         /\ \A u \in DOMAIN x.writes \ {st.t} : y.writes[u] = x.writes[u]
    BY <1>4, <2>3, <2>6
  <2>12. /\ Going(y, task) /\ TaskIn(y, task, st.t) = "gone"
         /\ \A u \in LinkTasks \ {st.t} : TaskIn(y, task, u) = TaskIn(x, task, u)
    BY <1>1, <1>5, <2>6, <2>8, <2>9, <2>10, <2>11, WrittenOnward
  <2>13. \A u \in LinkTasks : TaskIn(x, task, u) = "gone" => TaskIn(y, task, u) = "gone"
    BY <2>12
  <2>14. \A t \in LinkTasks : Head(x.todo) = Task("drop", t) => TaskIn(y, task, t) = "gone"
    BY <1>6, <2>12
  <2> QED BY <2>6, <2>7, <2>11, <2>12, <2>13, <2>14, NextOnward
<1> QED BY <1>7, <1>8

LEMMA Cascades ==
  ASSUME LinksInv, NEW s \in Connections, NEW x, Ready(s, x), NEW st, st = Head(x.todo),
         st.do = "cascade", NEW y, y \in After(Rest(x), st)
  PROVE  Onward(s, y)
<1>1. st.t \in LinkTasks /\ st = Task("cascade", st.t)
  BY ReadyHead, StatementKinds
<1>2. TaskIn(x, task, st.t) = "gone"
  <2>1. 1 \in DOMAIN x.todo /\ x.todo[1] = st /\ InOrder(x, task, st.t)
    BY <1>1, ReadyHead DEF Ready
  <2> QED BY <1>1, <2>1 DEF InOrder
<1>3. PICK r : r = Rest(x)
  OBVIOUS
<1>4. /\ r \in Tx /\ r.todo = Tail(x.todo) /\ r.deferred = x.deferred
      /\ r.deleted = x.deleted /\ r.writes = x.writes /\ r.locks = x.locks
      /\ Compatible(s, r)
  BY <1>3, ReadyHead
<1>5. y = [r EXCEPT !.deleted = @ \cup Of(st.t), !.inserted = {l \in @ : l[1] # st.t}]
  BY <1>3 DEF After
<1>6. Of(st.t) \in SUBSET Pairs /\ \A l \in Of(st.t) : l[1] = st.t
  BY DEF Of, LinksInv, LinksType
<1>7. /\ y \in Tx /\ y.todo = r.todo /\ y.deferred = r.deferred
      /\ y.deleted = r.deleted \cup Of(st.t) /\ y.writes = r.writes /\ y.locks = r.locks
  <2>1. {l \in r.inserted : l[1] # st.t} \in SUBSET Pairs
    BY <1>4 DEF Tx
  <2>2. r.deleted \cup Of(st.t) \in SUBSET Pairs
    BY <1>4, <1>6 DEF Tx
  <2>3. y = [r EXCEPT !.deleted = r.deleted \cup Of(st.t),
                      !.inserted = {l \in r.inserted : l[1] # st.t}]
    BY <1>4, <1>5 DEF Tx
  <2> QED BY <1>4, <2>1, <2>2, <2>3 DEF Tx
<1>8. Compatible(s, y)
  BY <1>4, <1>7, StillCompatible
<1>9. PutsOff(x, y) /\ Holds(x, y)
  BY <1>4, <1>7 DEF PutsOff, Holds, Judged, Checked
<1>10. \A u \in LinkTasks : TaskIn(y, task, u) = TaskIn(x, task, u)
  BY <1>4, <1>7 DEF TaskIn
<1>11. \A u \in LinkTasks : Removes(y, u) => Removes(x, u) \/ u = st.t
  BY <1>4, <1>6, <1>7 DEF Removes
<1>12. Going(x, task)
  BY DEF Ready
<1>13. y.writes = x.writes /\ y.locks = x.locks /\ y.todo = Tail(x.todo)
  BY <1>4, <1>7
<1>14. Going(y, task)
  BY <1>2, <1>9, <1>10, <1>11, <1>12, <1>13 DEF Going, PutsOff, WrittenLocked, Revives
<1>15. \A t \in LinkTasks : Head(x.todo) # Task("drop", t)
  BY TaskIs
<1>16. Head(x.todo).do # "task"
  OBVIOUS
<1> QED BY <1>7, <1>8, <1>10, <1>13, <1>14, <1>15, <1>16, NextOnward

(* The loops of a merge and of a purge.                                     *)
LEMMA LoopOnward ==
  ASSUME NEW s, NEW x, Ready(s, x), NEW y \in Tx, Compatible(s, y),
         PutsOff(x, y), Holds(x, y), y.writes = x.writes, y.deleted = x.deleted,
         \A i \in DOMAIN y.todo : y.todo[i].do \in {"insert", "delete", "bare"}
  PROVE  Onward(s, y)
<1>1. Going(y, task)
  BY GoingKept DEF Ready
<1>2. ASSUME NEW t \in LinkTasks, NEW i \in DOMAIN y.todo
      PROVE  y.todo[i] \notin {Task("cascade", t), Task("restore", t), Task("to_trash", t)}
  BY TaskIs
<1>3. \A t \in LinkTasks : InOrder(y, task, t)
  BY <1>2 DEF InOrder
<1>4. Sound(y, links, task)
  BY <1>1, <1>3, GoingSound
<1> QED BY <1>4 DEF Onward

LEMMA OrdersAre ==
  ASSUME LinksInv, NEW found, found \subseteq LinkTasks, NEW o, o \in Orders(found)
  PROVE  /\ Len(o) \in Nat /\ DOMAIN o = 1 .. Len(o)
         /\ \A i \in 1 .. Len(o) : o[i] \in LinkTasks
<1>1. IsFiniteSet(found)
  BY LinksAssumption, FS_Subset
<1>2. Cardinality(found) \in Nat
  BY <1>1, FS_CardinalityType
<1>3. o \in [1 .. Cardinality(found) -> found]
  BY DEF Orders
<1> QED BY <1>2, <1>3

LEMMA MovesType ==
  ASSUME NEW o, NEW keep \in Records, NEW gone \in Records,
         Len(o) \in Nat, \A i \in 1 .. Len(o) : o[i] \in LinkTasks
  PROVE  /\ Moves(o, keep, gone) \in Seq(STATEMENTS)
         /\ \A i \in DOMAIN Moves(o, keep, gone) :
              Moves(o, keep, gone)[i].do \in {"insert", "delete", "bare"}
<1>1. ASSUME NEW i \in 1 .. (2 * Len(o))
      PROVE  /\ Moves(o, keep, gone)[i] \in STATEMENTS
             /\ Moves(o, keep, gone)[i].do \in {"insert", "delete", "bare"}
  <2>1. CASE i % 2 = 1
    <3>1. (i + 1) \div 2 \in 1 .. Len(o)
      BY <2>1
    <3>2. o[(i + 1) \div 2] \in LinkTasks
      BY <3>1
    <3>3. Moves(o, keep, gone)[i] = Link("insert", o[(i + 1) \div 2], keep, FALSE)
      BY <2>1 DEF Moves
    <3> QED BY <3>2, <3>3 DEF Link, STATEMENTS
  <2>2. CASE i % 2 # 1
    <3>1. i \div 2 \in 1 .. Len(o)
      BY <2>2
    <3>2. o[i \div 2] \in LinkTasks
      BY <3>1
    <3>3. Moves(o, keep, gone)[i] = Link("delete", o[i \div 2], gone, FALSE)
      BY <2>2 DEF Moves
    <3> QED BY <3>2, <3>3 DEF Link, STATEMENTS
  <2> QED BY <2>1, <2>2
<1>2. DOMAIN Moves(o, keep, gone) = 1 .. (2 * Len(o)) /\ 2 * Len(o) \in Nat
  BY DEF Moves
<1>3. Moves(o, keep, gone) = [i \in 1 .. (2 * Len(o)) |-> Moves(o, keep, gone)[i]]
  BY DEF Moves
<1>4. PICK m : m = Moves(o, keep, gone)
  OBVIOUS
<1>5. PICK n \in Nat : n = 2 * Len(o)
  BY <1>2
<1>6. m \in [1 .. n -> STATEMENTS]
  BY <1>1, <1>2, <1>3, <1>4, <1>5
<1>7. m \in Seq(STATEMENTS)
  BY <1>6
<1> QED BY <1>1, <1>2, <1>4, <1>7

Unlinks(o, r) ==
  [i \in DOMAIN o |-> Link("delete", o[i], r, FALSE)] \o [i \in DOMAIN o |-> Task("bare", o[i])]

LEMMA UnlinksType ==
  ASSUME NEW o, NEW r \in Records, Len(o) \in Nat, DOMAIN o = 1 .. Len(o),
         \A i \in 1 .. Len(o) : o[i] \in LinkTasks
  PROVE  /\ Unlinks(o, r) \in Seq(STATEMENTS)
         /\ \A i \in DOMAIN Unlinks(o, r) :
              Unlinks(o, r)[i].do \in {"insert", "delete", "bare"}
<1>1. PICK n \in Nat : n = Len(o)
  OBVIOUS
<1>2. PICK a : a = [i \in DOMAIN o |-> Link("delete", o[i], r, FALSE)]
  OBVIOUS
<1>3. PICK b : b = [i \in DOMAIN o |-> Task("bare", o[i])]
  OBVIOUS
<1>4. \A i \in 1 .. n : a[i] \in STATEMENTS /\ a[i].do = "delete"
  BY <1>1, <1>2 DEF Link, STATEMENTS
<1>5. \A i \in 1 .. n : b[i] \in STATEMENTS /\ b[i].do = "bare"
  BY <1>1, <1>3 DEF Task, STATEMENTS, OnTask
<1>6. a \in Seq(STATEMENTS) /\ b \in Seq(STATEMENTS) /\ Len(a) = n /\ Len(b) = n
  <2>1. a \in [1 .. n -> STATEMENTS] /\ b \in [1 .. n -> STATEMENTS]
    BY <1>1, <1>2, <1>3, <1>4, <1>5
  <2> QED BY <2>1
<1>7. PICK c : c = a \o b
  OBVIOUS
<1>8. Unlinks(o, r) = c
  BY <1>2, <1>3, <1>7 DEF Unlinks
<1>9. /\ c \in Seq(STATEMENTS) /\ Len(c) = Len(a) + Len(b)
      /\ \A i \in 1 .. Len(a) + Len(b) : c[i] = IF i <= Len(a) THEN a[i] ELSE b[i - Len(a)]
  BY <1>6, <1>7, ConcatProperties
<1>10. /\ DOMAIN c = 1 .. (n + n)
       /\ \A i \in 1 .. (n + n) : c[i] = IF i <= n THEN a[i] ELSE b[i - n]
  BY <1>6, <1>9
<1>11. ASSUME NEW i \in DOMAIN c
       PROVE  c[i].do \in {"insert", "delete", "bare"}
  <2>1. CASE i <= n
    BY <1>4, <1>10, <2>1
  <2>2. CASE ~(i <= n)
    <3>1. i - n \in 1 .. n
      BY <1>10, <2>2
    <3> QED BY <1>5, <1>10, <2>2, <3>1
  <2> QED BY <2>1, <2>2
<1> QED BY <1>8, <1>9, <1>11

LEMMA MovesOnward ==
  ASSUME LinksInv, NEW s \in Connections, NEW x, Ready(s, x), NEW st, st = Head(x.todo),
         st.do = "move", NEW y, y \in After(Rest(x), st)
  PROVE  Onward(s, y)
<1>1. st.keep \in Records /\ st.gone \in Records
  BY ReadyHead, StatementKinds
<1>2. PICK r : r = Rest(x)
  OBVIOUS
<1>3. /\ r \in Tx /\ r.todo = Tail(x.todo) /\ r.deferred = x.deferred
      /\ r.deleted = x.deleted /\ r.writes = x.writes /\ r.locks = x.locks
      /\ Compatible(s, r)
  BY <1>2, ReadyHead
<1>4. PICK found : found = {t \in LinkTasks : <<t, st.gone>> \in links}
  OBVIOUS
<1>5. PICK o \in Orders(found) :
        y = [r EXCEPT !.merging = {st.gone}, !.todo = Moves(o, st.keep, st.gone)]
  BY <1>2, <1>4 DEF After
<1>6. Len(o) \in Nat /\ \A i \in 1 .. Len(o) : o[i] \in LinkTasks
  BY <1>4, OrdersAre
<1>7. PICK m : m = Moves(o, st.keep, st.gone)
  OBVIOUS
<1>8. /\ m \in Seq(STATEMENTS)
      /\ \A i \in DOMAIN m : m[i].do \in {"insert", "delete", "bare"}
  BY <1>1, <1>6, <1>7, MovesType
<1>9. y = [r EXCEPT !.merging = {st.gone}, !.todo = m]
  BY <1>5, <1>7
<1>10. /\ y \in Tx /\ y.todo = m /\ y.deferred = r.deferred
       /\ y.deleted = r.deleted /\ y.writes = r.writes /\ y.locks = r.locks
  BY <1>1, <1>3, <1>8, <1>9 DEF Tx
<1>11. Compatible(s, y)
  BY <1>3, <1>10, StillCompatible
<1>12. PutsOff(x, y) /\ Holds(x, y)
  BY <1>3, <1>10 DEF PutsOff, Holds, Judged, Checked
<1>13. /\ y.writes = x.writes /\ y.deleted = x.deleted
       /\ \A i \in DOMAIN y.todo : y.todo[i].do \in {"insert", "delete", "bare"}
  BY <1>3, <1>8, <1>10
<1> QED BY <1>10, <1>11, <1>12, <1>13, LoopOnward

LEMMA UnlinksOnward ==
  ASSUME LinksInv, NEW s \in Connections, NEW x, Ready(s, x), NEW st, st = Head(x.todo),
         st.do = "unlink", NEW y, y \in After(Rest(x), st)
  PROVE  Onward(s, y)
<1>1. st.r \in Records
  BY ReadyHead, StatementKinds
<1>2. PICK r : r = Rest(x)
  OBVIOUS
<1>3. /\ r \in Tx /\ r.todo = Tail(x.todo) /\ r.deferred = x.deferred
      /\ r.deleted = x.deleted /\ r.writes = x.writes /\ r.locks = x.locks
      /\ Compatible(s, r)
  BY <1>2, ReadyHead
<1>4. PICK found : found = {t \in LinkTasks : <<t, st.r>> \in links}
  OBVIOUS
<1>5. PICK o \in Orders(found) : y = [r EXCEPT !.todo = Unlinks(o, st.r)]
  BY <1>2, <1>4 DEF After, Unlinks
<1>6. /\ Len(o) \in Nat /\ DOMAIN o = 1 .. Len(o)
      /\ \A i \in 1 .. Len(o) : o[i] \in LinkTasks
  BY <1>4, OrdersAre
<1>7. PICK m : m = Unlinks(o, st.r)
  OBVIOUS
<1>8. /\ m \in Seq(STATEMENTS)
      /\ \A i \in DOMAIN m : m[i].do \in {"insert", "delete", "bare"}
  BY <1>1, <1>6, <1>7, UnlinksType
<1>9. y = [r EXCEPT !.todo = m]
  BY <1>5, <1>7
<1>10. /\ y \in Tx /\ y.todo = m /\ y.deferred = r.deferred
       /\ y.deleted = r.deleted /\ y.writes = r.writes /\ y.locks = r.locks
  BY <1>3, <1>8, <1>9 DEF Tx
<1>11. Compatible(s, y)
  BY <1>3, <1>10, StillCompatible
<1>12. PutsOff(x, y) /\ Holds(x, y)
  BY <1>3, <1>10 DEF PutsOff, Holds, Judged, Checked
<1>13. /\ y.writes = x.writes /\ y.deleted = x.deleted
       /\ \A i \in DOMAIN y.todo : y.todo[i].do \in {"insert", "delete", "bare"}
  BY <1>3, <1>8, <1>10
<1> QED BY <1>10, <1>11, <1>12, <1>13, LoopOnward

LEMMA StatementOnward ==
  ASSUME LinksInv, NEW s \in Connections, NEW x, Ready(s, x), NEW st, st = Head(x.todo),
         WaitsFor(s, st) = {}, NEW y, y \in After(Rest(x), st)
  PROVE  Onward(s, y)
<1>1. st \in STATEMENTS
  BY ReadyHead
<1>2. st.do \in {"task", "accept", "to_trash", "restore", "foreign_key", "bare", "drop",
                 "cascade", "insert", "delete", "company", "unlink", "move"}
  BY <1>1 DEF STATEMENTS, OnTask
<1>3. CASE st.do = "task"
  BY <1>3, TakesTheTask
<1>4. CASE st.do = "accept"
  BY <1>4, Accepts
<1>5. CASE st.do \in {"to_trash", "restore"}
  BY <1>5, ToTrashOrBack
<1>6. CASE st.do = "foreign_key"
  BY <1>6, MeetsTheTask
<1>7. CASE st.do = "bare"
  BY <1>7, FindsItBare
<1>8. CASE st.do = "drop"
  BY <1>8, Drops
<1>9. CASE st.do = "cascade"
  BY <1>9, Cascades
<1>10. CASE st.do = "insert"
  BY <1>10, PutsOn
<1>11. CASE st.do = "delete"
  BY <1>11, TakesOff
<1>12. CASE st.do = "company"
  BY <1>12, TakesACompany
<1>13. CASE st.do = "unlink"
  BY <1>13, UnlinksOnward
<1>14. CASE st.do = "move"
  BY <1>14, MovesOnward
<1> QED BY <1>2, <1>3, <1>4, <1>5, <1>6, <1>7, <1>8, <1>9, <1>10, <1>11, <1>12, <1>13, <1>14

LEMMA statementSound ==
  ASSUME LinksInv, NEW s \in Connections, statement(s)
  PROVE  LinksInv'
<1>1. PICK x : x = tx[s]
  OBVIOUS
<1>2. /\ x.open /\ x.todo # <<>> /\ WaitsFor(s, Head(x.todo)) = {}
      /\ UNCHANGED <<links, task>>
  BY <1>1 DEF statement
<1>3. x \in Tx /\ Sound(x, links, task) /\ Compatible(s, x)
  BY <1>1, <1>2, OpenTx
<1>4. Ready(s, x)
  BY <1>2, <1>3, SoundGoing DEF Ready
<1>5. CASE After(Rest(x), Head(x.todo)) = {}
  <2>1. tx' = [tx EXCEPT ![s] = NoTx]
    BY <1>1, <1>5 DEF statement
  <2> QED BY <1>2, <2>1, SessionEnds
<1>6. CASE After(Rest(x), Head(x.todo)) # {}
  <2>1. PICK y \in After(Rest(x), Head(x.todo)) : tx' = [tx EXCEPT ![s] = y]
    BY <1>1, <1>6 DEF statement
  <2>2. Onward(s, y)
    BY <1>2, <1>4, StatementOnward
  <2>3. y \in Tx /\ Compatible(s, y) /\ Sound(y, links, task)
    BY <2>2 DEF Onward
  <2> QED BY <1>2, <2>1, <2>3, SessionMoves
<1> QED BY <1>5, <1>6

-----------------------------------------------------------------------------
(* The deferred triggers, and the commit *)

(* The trigger at the head has been run; y holds what it judged to stand.   *)
LEMMA CheckSound ==
  ASSUME NEW x \in Tx, Sound(x, links, task), x.todo = <<>>, x.deferred # <<>>,
         NEW y \in Tx, y.todo = <<>>, y.deferred = Tail(x.deferred), y.inserted = x.inserted,
         y.deleted = x.deleted, y.writes = x.writes, Holds(x, y),
         \A u \in LinkTasks :
           x.locks[u] \in {"no_key", "update"} => y.locks[u] \in {"no_key", "update"},
         Linked(x, links, task, Head(x.deferred).t),
         Head(x.deferred).do = "judge" =>
           \/ TaskIn(x, task, Head(x.deferred).t) = "gone"
           \/ y.locks[Head(x.deferred).t] \in {"no_key", "update"}
  PROVE  Sound(y, links, task)
<1>1. x.deferred \in Seq(CHECKS) /\ Len(x.deferred) \in Nat \ {0}
  BY EmptySeq DEF Tx
<1>2. \A i \in DOMAIN x.deferred :
        x.deferred[i] = Head(x.deferred)
          \/ \E j \in DOMAIN y.deferred : y.deferred[j] = x.deferred[i]
  <2> SUFFICES ASSUME NEW i \in DOMAIN x.deferred, i # 1
               PROVE  \E j \in DOMAIN y.deferred : y.deferred[j] = x.deferred[i]
    BY <1>1
  <2>1. i - 1 \in DOMAIN y.deferred /\ y.deferred[i - 1] = x.deferred[i]
    BY <1>1, HeadTailProperties
  <2> QED BY <2>1
<1>3. ASSUME NEW t \in LinkTasks
      PROVE  /\ WrittenLocked(y, task, t) /\ RemovalJudged(y, links, task, t)
             /\ RevivalChecked(y, links, task, t) /\ InOrder(y, task, t)
  <2>1. /\ WrittenLocked(x, task, t) /\ RemovalJudged(x, links, task, t)
        /\ RevivalChecked(x, links, task, t)
    BY DEF Sound
  <2>2. /\ TaskIn(y, task, t) = TaskIn(x, task, t) /\ (Removes(y, t) <=> Removes(x, t))
        /\ (Revives(y, t) <=> Revives(x, t))
        /\ (Linked(y, links, task, t) <=> Linked(x, links, task, t))
    BY DEF TaskIn, Removes, Revives, Linked, LinksIn
  <2>3. WrittenLocked(y, task, t)
    BY <2>1 DEF WrittenLocked, Holds
  <2>4. ~Judged(x, t) =>
          \/ ~Judged(y, t)
          \/ Head(x.deferred) = Task("judge", t)
    BY <1>2 DEF Judged
  <2>5. ~Checked(x, t) => ~Checked(y, t) \/ Head(x.deferred).t = t
    BY <1>2 DEF Checked
  <2>6. Head(x.deferred) = Task("judge", t) =>
          /\ Linked(x, links, task, t)
          /\ TaskIn(x, task, t) = "gone" \/ y.locks[t] \in {"no_key", "update"}
    BY TaskIs
  <2>7. RemovalJudged(y, links, task, t)
    BY <2>1, <2>2, <2>4, <2>6 DEF RemovalJudged
  <2>8. RevivalChecked(y, links, task, t)
    BY <2>1, <2>2, <2>5 DEF RevivalChecked
  <2>9. InOrder(y, task, t)
    BY DEF InOrder
  <2> QED BY <2>3, <2>7, <2>8, <2>9
<1> QED BY <1>3 DEF Sound

LEMMA checkSound ==
  ASSUME LinksInv, NEW s \in Connections, tasks_workspace_check(s)
  PROVE  LinksInv'
<1>1. PICK x : x = tx[s]
  OBVIOUS
<1>2. PICK st : st = Head(x.deferred)
  OBVIOUS
<1>3. /\ x.open /\ x.todo = <<>> /\ x.deferred # <<>> /\ WaitsFor(s, st) = {}
      /\ UNCHANGED <<links, task>>
  BY <1>1, <1>2 DEF tasks_workspace_check
<1>4. x \in Tx /\ Sound(x, links, task) /\ Compatible(s, x)
  BY <1>1, <1>3, OpenTx
<1>5. x.deferred \in Seq(CHECKS)
  BY <1>4 DEF Tx
<1>6. st \in CHECKS /\ Tail(x.deferred) \in Seq(CHECKS)
  BY <1>2, <1>3, <1>5
<1>7. st.t \in LinkTasks /\ st.do \in {"check", "judge"}
  BY <1>6 DEF CHECKS
<1>8. PICK k : k = [x EXCEPT !.deferred = Tail(@)]
  OBVIOUS
<1>9. /\ k \in Tx /\ k.todo = x.todo /\ k.deferred = Tail(x.deferred)
      /\ k.inserted = x.inserted /\ k.deleted = x.deleted /\ k.writes = x.writes
      /\ k.locks = x.locks
  BY <1>4, <1>6, <1>8 DEF Tx
<1>10. Compatible(s, k)
  BY <1>4, <1>9, StillCompatible
<1>11. CASE ~Stands(x, st.t)
  <2>1. tx' = [tx EXCEPT ![s] = NoTx]
    BY <1>1, <1>2, <1>11 DEF tasks_workspace_check
  <2> QED BY <1>3, <2>1, SessionEnds
<1>12. CASE Stands(x, st.t)
  <2>1. Linked(x, links, task, Head(x.deferred).t)
    BY <1>2, <1>12 DEF Stands, Linked, SeenTask, Seen, TaskIn, LinksIn
  <2>2. CASE st.do = "judge" /\ SeenTask(x, st.t) # "gone"
    <3>1. PICK y : y = Locks(k, st.t, "no_key")
      OBVIOUS
    <3>2. tx' = [tx EXCEPT ![s] = y]
      BY <1>1, <1>2, <1>8, <1>12, <2>2, <3>1 DEF tasks_workspace_check, Judging
    <3>3. "no_key" \in MODES /\ "no_key" \in MODES \ {"none"}
      BY DEF MODES
    <3>4. /\ y \in Tx /\ y.todo = k.todo /\ y.deferred = k.deferred
          /\ y.inserted = k.inserted /\ y.deleted = k.deleted /\ y.writes = k.writes
          /\ y.locks = [k.locks EXCEPT ![st.t] = Stronger(@, "no_key")]
          /\ y.locks[st.t] = Stronger(k.locks[st.t], "no_key")
          /\ \A u \in LinkTasks \ {st.t} : y.locks[u] = k.locks[u]
      BY <1>7, <1>9, <3>1, <3>3, LocksFields
    <3>5. TaskHolders(s, st.t, "no_key") = {}
      BY <1>3, <2>2 DEF WaitsFor, Judging
    <3>6. Compatible(s, y)
      BY <1>7, <1>9, <1>10, <3>3, <3>4, <3>5, LocksTaken
    <3>7. y.locks[st.t] \in {"no_key", "update"}
      BY <3>4 DEF Stronger
    <3>8. k.locks[st.t] = "update" => y.locks[st.t] = "update"
      BY <3>4 DEF Stronger
    <3>9. Holds(x, y)
      BY <1>9, <3>4, <3>8 DEF Holds
    <3>10. \A u \in LinkTasks :
             x.locks[u] \in {"no_key", "update"} => y.locks[u] \in {"no_key", "update"}
      BY <1>9, <3>4, <3>7
    <3>11. y.locks[Head(x.deferred).t] \in {"no_key", "update"}
      BY <1>2, <3>7
    <3>12. /\ y.todo = <<>> /\ y.deferred = Tail(x.deferred) /\ y.inserted = x.inserted
           /\ y.deleted = x.deleted /\ y.writes = x.writes
      BY <1>3, <1>9, <3>4
    <3>13. Sound(y, links, task)
      BY <1>3, <1>4, <2>1, <3>4, <3>9, <3>10, <3>11, <3>12, CheckSound
    <3> QED BY <1>3, <3>2, <3>4, <3>6, <3>13, SessionMoves
  <2>3. CASE ~(st.do = "judge" /\ SeenTask(x, st.t) # "gone")
    <3>1. tx' = [tx EXCEPT ![s] = k]
      BY <1>1, <1>2, <1>8, <1>12, <2>3 DEF tasks_workspace_check
    <3>2. Head(x.deferred).do = "judge" => TaskIn(x, task, Head(x.deferred).t) = "gone"
      BY <1>2, <2>3 DEF SeenTask, TaskIn
    <3>3. Holds(x, k)
      BY <1>9 DEF Holds
    <3>4. Sound(k, links, task)
      BY <1>3, <1>4, <1>9, <2>1, <3>2, <3>3, CheckSound
    <3> QED BY <1>3, <1>9, <1>10, <3>1, <3>4, SessionMoves
  <2> QED BY <2>2, <2>3
<1> QED BY <1>11, <1>12

(* What another session has in hand stands when this one commits: the lock  *)
(* this one has kept since it took a link off, or wrote the task, shuts the *)
(* other out of that task.                                                  *)
LEMMA OthersStand ==
  ASSUME LinksType, NEW x \in Tx, Sound(x, links, task), x.todo = <<>>, x.deferred = <<>>,
         NEW z \in Tx, Sound(z, links, task),
         \A t \in LinkTasks : ~Conflicts(z.locks[t], x.locks[t]),
         NEW ls, ls = LinksIn(x, links),
         NEW tk, tk = [t \in LinkTasks |-> TaskIn(x, task, t)]
  PROVE  Sound(z, ls, tk)
<1> SUFFICES ASSUME NEW t \in LinkTasks
             PROVE  /\ WrittenLocked(z, tk, t) /\ RemovalJudged(z, ls, tk, t)
                    /\ RevivalChecked(z, ls, tk, t) /\ InOrder(z, tk, t)
  BY DEF Sound
<1>1. /\ WrittenLocked(x, task, t) /\ RemovalJudged(x, links, task, t)
      /\ WrittenLocked(z, task, t) /\ RemovalJudged(z, links, task, t)
      /\ RevivalChecked(z, links, task, t) /\ InOrder(z, task, t)
  BY DEF Sound
<1>2. ~Conflicts(z.locks[t], x.locks[t]) /\ x.locks[t] \in MODES /\ z.locks[t] \in MODES
  BY DEF Tx
<1>3. Removes(x, t) =>
        TaskIn(x, task, t) = "gone" \/ x.locks[t] \in {"no_key", "update"}
  BY <1>1 DEF RemovalJudged, Judged
<1>4. z.locks[t] # "none" => t \notin DOMAIN x.writes
  BY <1>1, <1>2 DEF WrittenLocked, Conflicts
<1>5. tk[t] = TaskIn(x, task, t)
  OBVIOUS
<1>6. z.locks[t] # "none" => tk[t] = task[t] /\ TaskIn(z, tk, t) = TaskIn(z, task, t)
  BY <1>4, <1>5 DEF TaskIn
<1>7. WrittenLocked(z, tk, t)
  BY <1>1, <1>6 DEF WrittenLocked
<1>8. TaskIn(z, task, t) = "gone" => TaskIn(z, tk, t) = "gone"
  BY <1>1, <1>5 DEF WrittenLocked, TaskIn
<1>9. z.locks[t] \in {"no_key", "update"} /\ Linked(z, links, task, t) => Linked(z, ls, tk, t)
  <2> SUFFICES ASSUME z.locks[t] \in {"no_key", "update"}, Linked(z, links, task, t),
                      TaskIn(z, tk, t) = "live"
               PROVE  \E l \in LinksIn(z, ls) : l[1] = t
    BY DEF Linked
  <2>1. TaskIn(z, task, t) = "live"
    BY <1>6
  <2>2. PICK l \in LinksIn(z, links) : l[1] = t
    BY <2>1 DEF Linked
  <2>3. x.locks[t] \notin {"no_key", "update"}
    BY <1>2 DEF Conflicts, MODES
  <2>4. TaskIn(x, task, t) # "gone"
    BY <1>1, <1>4, <2>1 DEF TaskIn, WrittenLocked
  <2>5. l \notin x.deleted
    BY <1>3, <2>2, <2>3, <2>4 DEF Removes
  <2>6. l \in LinksIn(z, ls)
    BY <2>2, <2>5 DEF LinksIn
  <2> QED BY <2>2, <2>6
<1>10. RemovalJudged(z, ls, tk, t)
  BY <1>1, <1>8, <1>9 DEF RemovalJudged
<1>11. RevivalChecked(z, ls, tk, t)
  BY <1>1, <1>9 DEF RevivalChecked, WrittenLocked, Revives
<1>12. InOrder(z, tk, t)
  BY <1>1, <1>6, <1>8 DEF InOrder
<1> QED BY <1>7, <1>10, <1>11, <1>12

LEMMA commitSound ==
  ASSUME LinksInv, NEW s \in Connections, commit(s)
  PROVE  LinksInv'
<1>1. PICK x : x = tx[s]
  OBVIOUS
<1>2. /\ x.open /\ x.todo = <<>> /\ x.deferred = <<>>
      /\ links' = LinksIn(x, links)
      /\ task' = [t \in LinkTasks |-> TaskIn(x, task, t)]
      /\ tx' = [tx EXCEPT ![s] = NoTx]
  BY <1>1 DEF commit, Seen, SeenTask, LinksIn, TaskIn
<1>3. x \in Tx /\ Sound(x, links, task) /\ Compatible(s, x)
  BY <1>1, <1>2, OpenTx
<1>4. tx'[s] = NoTx /\ \A o \in Connections \ {s} : tx'[o] = tx[o]
  BY <1>2 DEF LinksInv, LinksType
<1>5. ~NoTx.open
  BY DEF NoTx
<1>6. LinksType'
  <2>1. links' \in SUBSET Pairs
    BY <1>2, <1>3 DEF LinksIn, LinksInv, LinksType, Tx
  <2>2. ASSUME NEW t \in LinkTasks
        PROVE  TaskIn(x, task, t) \in STATES
    <3>1. PICK D \in SUBSET LinkTasks : x.writes \in [D -> STATES]
      BY <1>3 DEF Tx
    <3> QED BY <3>1 DEF TaskIn, LinksInv, LinksType
  <2>3. task' \in [LinkTasks -> STATES]
    BY <1>2, <2>2
  <2>4. tx' \in [Connections -> Tx \cup {NoTx}]
    BY <1>2 DEF LinksInv, LinksType
  <2> QED BY <2>1, <2>3, <2>4 DEF LinksType
<1>7. Exclusive(tx')
  BY <1>4, <1>5 DEF Exclusive, LinksInv
<1>8. AllSound(tx', links', task')
  <2>1. ASSUME NEW o \in Connections, tx'[o].open
        PROVE  Sound(tx'[o], links', task')
    <3>1. o # s /\ tx'[o] = tx[o] /\ tx[o].open
      BY <1>4, <1>5, <2>1
    <3>2. tx[o] \in Tx /\ Sound(tx[o], links, task)
      BY <3>1, OpenTx
    <3>3. \A t \in LinkTasks : ~Conflicts(tx[o].locks[t], x.locks[t])
      BY <1>3, <3>1 DEF Compatible
    <3>4. LinksType
      BY DEF LinksInv
    <3> QED BY <1>2, <1>3, <3>1, <3>2, <3>3, <3>4, OthersStand
  <2> QED BY <2>1 DEF AllSound
<1>9. KeepsLink(links', task')
  <2> SUFFICES ASSUME NEW t \in LinkTasks, TaskIn(x, task, t) = "live"
               PROVE  \E l \in LinksIn(x, links) : l[1] = t
    BY <1>2 DEF KeepsLink
  <2>1. RemovalJudged(x, links, task, t) /\ RevivalChecked(x, links, task, t)
    BY <1>3 DEF Sound
  <2>2. CASE Removes(x, t) \/ Revives(x, t)
    BY <1>2, <2>1, <2>2 DEF RemovalJudged, RevivalChecked, Judged, Checked, Linked
  <2>3. CASE ~Removes(x, t) /\ ~Revives(x, t)
    <3>1. task[t] = "live"
      BY <2>3 DEF Revives, TaskIn
    <3>2. PICK l \in links : l[1] = t
      BY <3>1 DEF LinksInv, KeepsLink
    <3>3. l \in LinksIn(x, links)
      BY <2>3, <3>2 DEF Removes, LinksIn
    <3> QED BY <3>2, <3>3
  <2> QED BY <2>2, <2>3
<1> QED BY <1>6, <1>7, <1>8, <1>9 DEF LinksInv

-----------------------------------------------------------------------------
(* The transactions as they open *)

(* What an operation asks for, before it has run anything.                  *)
Asked(todo) ==
  \A i \in DOMAIN todo :
    /\ todo[i].do = "cascade" => i # 1 /\ todo[i - 1] = Task("drop", todo[i].t)
    /\ todo[i].do \in {"restore", "to_trash"} =>
         i # 1 /\ todo[i - 1] = Task("task", todo[i].t)

LEMMA OpensSound ==
  ASSUME LinksInv, NEW s \in Connections, NEW todo \in Seq(STATEMENTS), Asked(todo),
         Opens(s, todo)
  PROVE  LinksInv'
<1>1. PICK y : y = [open |-> TRUE, todo |-> todo, deferred |-> <<>>,
                    inserted |-> {}, deleted |-> {}, writes |-> [t \in {} |-> "live"],
                    merging |-> {}, locks |-> [t \in LinkTasks |-> "none"], rows |-> {},
                    companies |-> {}]
  OBVIOUS
<1>2. tx' = [tx EXCEPT ![s] = y] /\ UNCHANGED <<links, task>>
  BY <1>1 DEF Opens
<1>3. [t \in {} |-> "live"] \in UNION {[D -> STATES] : D \in SUBSET LinkTasks}
  <2>1. [t \in {} |-> "live"] \in [{} -> STATES]
    OBVIOUS
  <2> QED BY <2>1
<1>4. [t \in LinkTasks |-> "none"] \in [LinkTasks -> MODES]
  BY DEF MODES
<1>5. <<>> \in Seq(CHECKS)
  OBVIOUS
<1>6. y \in Tx
  BY <1>1, <1>3, <1>4, <1>5 DEF Tx
<1>7. /\ y.todo = todo /\ y.deleted = {} /\ DOMAIN y.writes = {}
      /\ \A t \in LinkTasks : y.locks[t] = "none"
  BY <1>1
<1>8. Compatible(s, y)
  BY <1>7 DEF Compatible, Conflicts
<1>9. Going(y, task)
  BY <1>7 DEF Going, WrittenLocked, Removes, Revives
<1>10. ASSUME NEW t \in LinkTasks
       PROVE  InOrder(y, task, t)
  <2> SUFFICES ASSUME NEW i \in DOMAIN todo
               PROVE  /\ todo[i] = Task("cascade", t) => i # 1 /\ todo[i - 1] = Task("drop", t)
                      /\ todo[i] \in {Task("restore", t), Task("to_trash", t)} =>
                           i # 1 /\ todo[i - 1] = Task("task", t)
    BY <1>7 DEF InOrder
  <2> QED BY TaskIs DEF Asked
<1>11. Sound(y, links, task)
  BY <1>9, <1>10, GoingSound
<1> QED BY <1>2, <1>6, <1>8, <1>11, SessionMoves

LEMMA TaskIsStatement ==
  ASSUME NEW t \in LinkTasks,
         NEW do \in {"task", "accept", "to_trash", "restore", "foreign_key", "bare", "drop",
                     "cascade"}
  PROVE  Task(do, t) \in STATEMENTS
<1>1. Task(do, t) \in OnTask
  BY DEF Task, OnTask
<1> QED BY <1>1 DEF STATEMENTS

LEMMA AcceptedList ==
  ASSUME NEW t \in LinkTasks, NEW accepts \in BOOLEAN, NEW l \in STATEMENTS
  PROVE  Accepting(accepts, t) \o <<l>>
           = IF accepts THEN <<Task("task", t), Task("accept", t), l>> ELSE <<l>>
<1>1. PICK a, b : a = Task("task", t) /\ b = Task("accept", t)
  OBVIOUS
<1>2. a \in STATEMENTS /\ b \in STATEMENTS
  BY <1>1, TaskIsStatement
<1>3. <<l>> \in Seq(STATEMENTS) /\ <<a, b>> \in Seq(STATEMENTS) /\ <<a, b, l>> \in Seq(STATEMENTS)
  BY <1>2
<1>4. <<a, b>> \o <<l>> = <<a, b, l>>
  <2>1. PICK q : q = <<a, b>> \o <<l>>
    OBVIOUS
  <2>2. PICK p \in Seq(STATEMENTS) : p = <<a, b, l>>
    BY <1>3
  <2>3. /\ q \in Seq(STATEMENTS) /\ Len(q) = 3
        /\ \A i \in 1 .. 3 : q[i] = IF i <= 2 THEN <<a, b>>[i] ELSE <<l>>[i - 2]
    BY <1>3, <2>1, ConcatProperties
  <2>4. Len(p) = 3 /\ p[1] = a /\ p[2] = b /\ p[3] = l
    BY <2>2
  <2>5. q[1] = a /\ q[2] = b /\ q[3] = l
    BY <2>3
  <2>6. \A i \in 1 .. 3 : q[i] = p[i]
    BY <2>4, <2>5
  <2> QED BY <2>1, <2>2, <2>3, <2>4, <2>6, SeqEqual
<1>5. <<>> \o <<l>> = <<l>>
  BY <1>3, ConcatEmptySeq
<1>6. Accepting(accepts, t) = IF accepts THEN <<a, b>> ELSE <<>>
  BY <1>1 DEF Accepting
<1> QED BY <1>1, <1>4, <1>5, <1>6

(* A person's link or unlink, after their acceptance if there is one.       *)
LEMMA AcceptedAsked ==
  ASSUME NEW t \in LinkTasks, NEW r \in Records, NEW accepts \in BOOLEAN,
         NEW do \in {"insert", "delete"}
  PROVE  LET todo == Accepting(accepts, t) \o <<Link(do, t, r, TRUE)>>
         IN todo \in Seq(STATEMENTS) /\ Asked(todo)
<1>1. PICK l : l = Link(do, t, r, TRUE)
  OBVIOUS
<1>2. l \in STATEMENTS /\ l.do = do
  BY <1>1 DEF Link, STATEMENTS
<1>3. PICK a, b : a = Task("task", t) /\ b = Task("accept", t)
  OBVIOUS
<1>4. a \in STATEMENTS /\ b \in STATEMENTS /\ a.do = "task" /\ b.do = "accept"
  BY <1>3, TaskIsStatement, TaskIs
<1>5. <<l>> \in Seq(STATEMENTS) /\ <<a, b, l>> \in Seq(STATEMENTS)
  BY <1>2, <1>4
<1>6. Accepting(accepts, t) \o <<l>> = IF accepts THEN <<a, b, l>> ELSE <<l>>
  BY <1>2, <1>3, AcceptedList
<1>7. Asked(<<l>>)
  BY <1>2 DEF Asked
<1>8. Asked(<<a, b, l>>)
  <2> SUFFICES ASSUME NEW i \in {1, 2, 3}
               PROVE  <<a, b, l>>[i].do \in {"task", "accept", "insert", "delete"}
    BY DEF Asked
  <2> QED BY <1>2, <1>4
<1> QED BY <1>1, <1>5, <1>6, <1>7, <1>8

(* A task's own row, and then what is done to it.                           *)
LEMMA TaskAsked ==
  ASSUME NEW t \in LinkTasks, NEW do \in {"to_trash", "restore"}
  PROVE  LET todo == <<Task("task", t), Task(do, t)>>
         IN todo \in Seq(STATEMENTS) /\ Asked(todo)
<1>1. PICK a, b : a = Task("task", t) /\ b = Task(do, t)
  OBVIOUS
<1>2. a \in STATEMENTS /\ b \in STATEMENTS /\ a.do = "task" /\ b.do = do /\ b.t = t
  BY <1>1, TaskIsStatement, TaskIs
<1>3. <<a, b>> \in Seq(STATEMENTS)
  BY <1>2
<1>4. Asked(<<a, b>>)
  BY <1>1, <1>2 DEF Asked
<1> QED BY <1>1, <1>3, <1>4

LEMMA PurgeAsked ==
  ASSUME NEW t \in LinkTasks
  PROVE  LET todo == <<Task("task", t), Task("drop", t), Task("cascade", t)>>
         IN todo \in Seq(STATEMENTS) /\ Asked(todo)
<1>1. PICK a, b, c : a = Task("task", t) /\ b = Task("drop", t) /\ c = Task("cascade", t)
  OBVIOUS
<1>2. /\ a \in STATEMENTS /\ b \in STATEMENTS /\ c \in STATEMENTS
      /\ a.do = "task" /\ b.do = "drop" /\ c.do = "cascade" /\ c.t = t
  BY <1>1, TaskIsStatement, TaskIs
<1>3. <<a, b, c>> \in Seq(STATEMENTS)
  BY <1>2
<1>4. Asked(<<a, b, c>>)
  BY <1>1, <1>2 DEF Asked
<1> QED BY <1>1, <1>3, <1>4

LEMMA CompaniesAsked ==
  ASSUME NEW a \in Records, NEW b \in Records, NEW m \in STATEMENTS,
         m.do \in {"move", "unlink"}
  PROVE  /\ <<Company(a), Company(b), m>> \in Seq(STATEMENTS)
         /\ Asked(<<Company(a), Company(b), m>>)
         /\ <<Company(a), m>> \in Seq(STATEMENTS) /\ Asked(<<Company(a), m>>)
<1>1. PICK p, q : p = Company(a) /\ q = Company(b)
  OBVIOUS
<1>2. p \in STATEMENTS /\ q \in STATEMENTS /\ p.do = "company" /\ q.do = "company"
  BY <1>1 DEF Company, STATEMENTS
<1>3. <<p, q, m>> \in Seq(STATEMENTS) /\ <<p, m>> \in Seq(STATEMENTS)
  BY <1>2
<1>4. Asked(<<p, q, m>>)
  <2> SUFFICES ASSUME NEW i \in {1, 2, 3}
               PROVE  <<p, q, m>>[i].do \in {"company", "move", "unlink"}
    BY DEF Asked
  <2> QED BY <1>2
<1>5. Asked(<<p, m>>)
  <2> SUFFICES ASSUME NEW i \in {1, 2}
               PROVE  <<p, m>>[i].do \in {"company", "move", "unlink"}
    BY DEF Asked
  <2> QED BY <1>2
<1> QED BY <1>1, <1>3, <1>4, <1>5

LEMMA MinMaxRecords ==
  ASSUME NEW a \in Records, NEW b \in Records
  PROVE  Min({a, b}) \in Records /\ Max({a, b}) \in Records
<1>1. a \in Int /\ b \in Int
  BY LinksAssumption
<1>2. \E x \in {a, b} : \A y \in {a, b} : x <= y
  BY <1>1
<1>3. \E x \in {a, b} : \A y \in {a, b} : x >= y
  BY <1>1
<1>4. Min({a, b}) \in {a, b}
  BY <1>2 DEF Min
<1>5. Max({a, b}) \in {a, b}
  BY <1>3 DEF Max
<1> QED BY <1>4, <1>5

LEMMA BeginsSound ==
  ASSUME LinksInv, NEW s \in Connections, Begins(s)
  PROVE  LinksInv'
<1>1. ASSUME NEW t \in LinkTasks, NEW r \in Records, NEW a \in BOOLEAN, add_link(s, t, r, a)
      PROVE  LinksInv'
  <2>1. PICK todo : todo = Accepting(a, t) \o <<Link("insert", t, r, TRUE)>>
    OBVIOUS
  <2>2. todo \in Seq(STATEMENTS) /\ Asked(todo)
    BY <2>1, AcceptedAsked
  <2>3. Opens(s, todo)
    BY <1>1, <2>1 DEF add_link
  <2> QED BY <2>2, <2>3, OpensSound
<1>2. ASSUME NEW t \in LinkTasks, NEW r \in Records, NEW a \in BOOLEAN, remove_link(s, t, r, a)
      PROVE  LinksInv'
  <2>1. PICK todo : todo = Accepting(a, t) \o <<Link("delete", t, r, TRUE)>>
    OBVIOUS
  <2>2. todo \in Seq(STATEMENTS) /\ Asked(todo)
    BY <2>1, AcceptedAsked
  <2>3. Opens(s, todo)
    BY <1>2, <2>1 DEF remove_link
  <2> QED BY <2>2, <2>3, OpensSound
<1>3. ASSUME NEW t \in LinkTasks, trash_task(s, t)
      PROVE  LinksInv'
  BY <1>3, TaskAsked, OpensSound DEF trash_task
<1>4. ASSUME NEW t \in LinkTasks, untrash_task(s, t)
      PROVE  LinksInv'
  BY <1>4, TaskAsked, OpensSound DEF untrash_task
<1>5. ASSUME NEW keep \in Records, NEW gone \in Records, merge(s, keep, gone)
      PROVE  LinksInv'
  <2>1. PICK m : m = [do |-> "move", keep |-> keep, gone |-> gone]
    OBVIOUS
  <2>2. m \in STATEMENTS /\ m.do = "move"
    BY <2>1 DEF STATEMENTS
  <2>3. PICK a, b : a = Min({keep, gone}) /\ b = Max({keep, gone})
    OBVIOUS
  <2>4. a \in Records /\ b \in Records
    BY <2>3, MinMaxRecords
  <2>5. Opens(s, <<Company(a), Company(b), m>>)
    BY <1>5, <2>1, <2>3 DEF merge
  <2> QED BY <2>2, <2>4, <2>5, CompaniesAsked, OpensSound
<1>6. ASSUME NEW r \in Records, purge_record(s, r)
      PROVE  LinksInv'
  <2>1. PICK m : m = [do |-> "unlink", r |-> r]
    OBVIOUS
  <2>2. m \in STATEMENTS /\ m.do = "unlink"
    BY <2>1 DEF STATEMENTS
  <2>3. Opens(s, <<Company(r), m>>)
    BY <1>6, <2>1 DEF purge_record
  <2> QED BY <2>2, <2>3, CompaniesAsked, OpensSound
<1>7. ASSUME NEW t \in LinkTasks, purge_task(s, t)
      PROVE  LinksInv'
  BY <1>7, PurgeAsked, OpensSound DEF purge_task
<1> QED BY <1>1, <1>2, <1>3, <1>4, <1>5, <1>6, <1>7 DEF Begins

-----------------------------------------------------------------------------
(* The theorems *)

LEMMA LinksStart ==
  ASSUME LinksInit
  PROVE  LinksInv
<1>1. links = Links0 /\ task = [t \in LinkTasks |-> "live"] /\ tx = [s \in Connections |-> NoTx]
  BY DEF LinksInit
<1>2. LinksType
  BY <1>1, LinksAssumption DEF LinksType, Pairs, STATES
<1>3. \A s \in Connections : ~tx[s].open
  BY <1>1 DEF NoTx
<1>4. Exclusive(tx) /\ AllSound(tx, links, task)
  BY <1>3 DEF Exclusive, AllSound
<1>5. KeepsLink(links, task)
  BY <1>1, LinksAssumption DEF KeepsLink
<1> QED BY <1>2, <1>4, <1>5 DEF LinksInv

(* The types, the locks and what each open transaction still owes.          *)
THEOREM LinksInvariant == LinksSpec => []LinksInv
<1>1. LinksInit => LinksInv
  BY LinksStart
<1>2. LinksInv /\ [LinksNext]_linkVars => LinksInv'
  <2> SUFFICES ASSUME LinksInv, [LinksNext]_linkVars
               PROVE  LinksInv'
    OBVIOUS
  <2>1. ASSUME NEW s \in Connections, deadlock_detected(s)
        PROVE  LinksInv'
    BY <2>1, SessionEnds DEF deadlock_detected
  <2>2. CASE UNCHANGED linkVars
    BY <2>2 DEF linkVars, LinksInv, LinksType, Exclusive, AllSound, KeepsLink
  <2> QED BY <2>1, <2>2, BeginsSound, statementSound, checkSound, commitSound DEF LinksNext
<1> QED BY <1>1, <1>2, PTL DEF LinksSpec

(* FR-TASK-DATA-05, for any number of sessions, tasks and records: however  *)
(* links, unlinks, merges, the Trash and its purge are interleaved, a live  *)
(* CRM task keeps a link.                                                   *)
THEOREM TasksKeepTheirLink == LinksSpec => []CrmTaskKeepsLink
<1>1. LinksInv => CrmTaskKeepsLink
  BY DEF LinksInv, KeepsLink, CrmTaskKeepsLink, Of
<1> QED BY <1>1, LinksInvariant, PTL

-----------------------------------------------------------------------------
(* Which sessions can wait for each other                                   *)

LinkDos == {"insert", "delete"}
TaskDos == {"task", "accept", "to_trash", "restore", "foreign_key", "drop", "cascade"}

(* A person's link or unlink, or a task's way to the Trash, back or out of  *)
(* it, keeps to one task and to one link of it.                             *)
KeepsTo(todo, lock, rows, t) ==
  \A i \in DOMAIN todo :
    /\ todo[i].do \in TaskDos \cup LinkDos /\ todo[i].t = t
    /\ lock \in {"none", "update"}
    /\ todo[i].do = "task" => i = 1 /\ lock = "none"
    /\ todo[i].do = "drop" => IF i = 1 THEN lock = "update" ELSE todo[i - 1].do = "task"
    /\ todo[i].do \in LinkDos \cup {"foreign_key"} => i = Len(todo)
    /\ rows # {} => todo[i].do = "foreign_key"

OneTask(x, t) ==
  /\ x.companies = {}
  /\ \A u \in LinkTasks \ {t} : x.locks[u] = "none"
  /\ \A l \in x.rows : l[1] = t
  /\ \A i \in DOMAIN x.deferred : x.deferred[i].t = t
  /\ KeepsTo(x.todo, x.locks[t], x.rows, t)

(* A merge or a purge takes its companies first, the lesser id first.       *)
TakesBoth(x, a, b, m) ==
  /\ m.do = "move" /\ {m.keep, m.gone} = {a, b} /\ a < b
  /\ \/ x.todo = <<Company(a), Company(b), m>> /\ x.companies = {}
     \/ x.todo = <<Company(b), m>> /\ x.companies = {a}
     \/ x.todo = <<m>> /\ x.companies = {a, b}

TakesOne(x, m) ==
  /\ m.do = "unlink" /\ m.r \in Records
  /\ \/ x.todo = <<Company(m.r), m>> /\ x.companies = {}
     \/ x.todo = <<m>> /\ x.companies = {m.r}

Collects(x) ==
  /\ \A u \in LinkTasks : x.locks[u] = "none"
  /\ x.rows = {} /\ x.deferred = <<>>
  /\ \/ \E a, b \in Records : \E m : TakesBoth(x, a, b, m)
     \/ \E m : TakesOne(x, m)

(* Then it touches no link but theirs.                                      *)
Merges(x) ==
  /\ x.companies # {} /\ \A l \in x.rows : l[2] \in x.companies
  /\ \A i \in DOMAIN x.todo :
       /\ x.todo[i].do \in LinkDos \cup {"foreign_key"}
       /\ x.todo[i].do \in LinkDos => x.todo[i].r \in x.companies
       /\ \A u \in LinkTasks : x.locks[u] \in {"none", "key_share"}

(* A purge takes the links off before it looks which tasks are left bare.   *)
Purges(x) ==
  /\ x.companies # {} /\ \A l \in x.rows : l[2] \in x.companies
  /\ \A i \in DOMAIN x.todo :
       /\ x.todo[i].do \in {"delete", "bare", "drop", "cascade"}
       /\ x.todo[i].do = "delete" =>
            /\ x.todo[i].r \in x.companies
            /\ \A u \in LinkTasks : x.locks[u] = "none"
            /\ \A j \in 1 .. i : x.todo[j].do = "delete"
       /\ \A u \in LinkTasks : x.locks[u] \in {"none", "update"}

Shaped(x) == (\E t \in LinkTasks : OneTask(x, t)) \/ Collects(x) \/ Merges(x) \/ Purges(x)

(* A task that is dropped loses its links next.                             *)
DropsLinks(x) ==
  \A i \in DOMAIN x.todo :
    x.todo[i].do = "drop" =>
      i + 1 \in DOMAIN x.todo /\ x.todo[i + 1] = Task("cascade", x.todo[i].t)

MeetsNext(x, t) == x.todo # <<>> /\ Head(x.todo) = Task("foreign_key", t)

(* A link is put on a task that is there, and holds it.                     *)
PutsWhereHeld(x, tk, t) ==
  (\E l \in x.inserted : l[1] = t) => MeetsNext(x, t) \/ (x.locks[t] # "none" /\ tk[t] # "gone")

(* A task goes with its links.                                              *)
GoesBare(x, ls, t) ==
  t \in DOMAIN x.writes /\ x.writes[t] = "gone" =>
    \/ \E i \in DOMAIN x.todo : x.todo[i] = Task("cascade", t)
    \/ MeetsNext(x, t)
    \/ \A l \in LinksIn(x, ls) : l[1] # t

Orderly(x, ls, tk) ==
  /\ Shaped(x) /\ DropsLinks(x)
  /\ \A t \in LinkTasks : PutsWhereHeld(x, tk, t) /\ GoesBare(x, ls, t)

(* A link and a company are held by one session at a time.                  *)
Disjoint(x, z) == x.rows \cap z.rows = {} /\ x.companies \cap z.companies = {}

GoneBare(ls, tk) == \A t \in LinkTasks : tk[t] = "gone" => \A l \in ls : l[1] # t

WaitInv ==
  /\ LinksInv
  /\ \A s \in Connections : tx[s].open => Orderly(tx[s], links, task)
  /\ \A s, o \in Connections : s # o /\ tx[s].open /\ tx[o].open => Disjoint(tx[s], tx[o])
  /\ GoneBare(links, task)

-----------------------------------------------------------------------------
(* The lists of statements                                                  *)

IsTail(w, q) ==
  /\ q \in Seq(STATEMENTS) /\ Len(w) \in Nat \ {0} /\ Len(q) = Len(w) - 1
  /\ 1 \in DOMAIN w /\ Head(w) = w[1] /\ DOMAIN w = 1 .. Len(w) /\ DOMAIN q = 1 .. Len(q)
  /\ \A i \in DOMAIN q :
       /\ i \in Nat \ {0} /\ i + 1 \in DOMAIN w /\ q[i] = w[i + 1] /\ i + 1 # 1
       /\ (i + 1) - 1 = i /\ (i = Len(q) <=> i + 1 = Len(w))
       /\ i # 1 => i - 1 \in DOMAIN q /\ q[i - 1] = w[i]

LEMMA TailAt ==
  ASSUME NEW w \in Seq(STATEMENTS), w # <<>>, NEW q, q = Tail(w)
  PROVE  IsTail(w, q)
<1>1. Len(w) \in Nat \ {0} /\ Head(w) = w[1] /\ DOMAIN w = 1 .. Len(w)
  BY EmptySeq
<1>2. /\ Len(q) = Len(w) - 1 /\ q \in Seq(STATEMENTS)
      /\ \A i \in 1 .. Len(q) : q[i] = w[i + 1]
  BY <1>1, HeadTailProperties
<1>3. DOMAIN q = 1 .. Len(q)
  BY <1>2
<1> QED BY <1>1, <1>2, <1>3 DEF IsTail

(* q is w with its head replaced by the n statements of P.                  *)
IsPushed(w, P, q, n) ==
  /\ n = Len(P) /\ n \in {1, 2} /\ Len(w) \in Nat \ {0} /\ Len(q) = n + Len(w) - 1
  /\ q \in Seq(STATEMENTS) /\ DOMAIN q = 1 .. Len(q) /\ DOMAIN w = 1 .. Len(w)
  /\ \A k \in 1 .. n : q[k] = P[k]
  /\ \A k \in (n + 1) .. Len(q) : (k - n) + 1 \in DOMAIN w /\ q[k] = w[(k - n) + 1]
  /\ \A i \in DOMAIN w \ {1} : (i - 1) + n \in DOMAIN q /\ q[(i - 1) + n] = w[i]

LEMMA PushAt ==
  ASSUME NEW w \in Seq(STATEMENTS), w # <<>>, NEW u \in LinkTasks, NEW P, Pushes(P, u),
         NEW q, q = P \o Tail(w)
  PROVE  \E n : IsPushed(w, P, q, n)
<1>1. /\ Tail(w) \in Seq(STATEMENTS) /\ Len(Tail(w)) = Len(w) - 1 /\ Len(w) \in Nat \ {0}
      /\ DOMAIN w = 1 .. Len(w)
      /\ \A k \in 1 .. Len(Tail(w)) : Tail(w)[k] = w[k + 1]
  BY HeadTailProperties, EmptySeq
<1>2. P \in Seq(STATEMENTS)
  BY PushedType
<1>3. PICK n \in Nat : n = Len(P)
  BY <1>2
<1>4. /\ q \in Seq(STATEMENTS)
      /\ Len(q) = n + Len(Tail(w)) /\ DOMAIN q = 1 .. Len(q)
      /\ \A k \in 1 .. n : q[k] = P[k]
      /\ \A k \in n + 1 .. Len(q) : q[k] = Tail(w)[k - n]
  BY <1>1, <1>2, <1>3, ConcatProperties
<1>5. n = 1 \/ n = 2
  BY <1>3 DEF Pushes
<1>6. ASSUME NEW k \in (n + 1) .. Len(q)
      PROVE  (k - n) + 1 \in DOMAIN w /\ q[k] = w[(k - n) + 1]
  <2>1. k - n \in 1 .. Len(Tail(w))
    BY <1>1, <1>4, <1>5, <1>6
  <2> QED BY <1>1, <1>4, <1>5, <2>1
<1>7. ASSUME NEW i \in DOMAIN w \ {1}
      PROVE  (i - 1) + n \in DOMAIN q /\ q[(i - 1) + n] = w[i]
  <2>1. i - 1 \in 1 .. Len(Tail(w)) /\ (i - 1) + n \in (n + 1) .. Len(q)
    BY <1>1, <1>4, <1>5
  <2>2. ((i - 1) + n) - n = i - 1 /\ (i - 1) + 1 = i
    BY <1>1, <1>5
  <2>3. PICK k : k = (i - 1) + n
    OBVIOUS
  <2>4. k \in (n + 1) .. Len(q) /\ k - n = i - 1 /\ k \in DOMAIN q
    BY <1>1, <1>4, <1>5, <2>1, <2>2, <2>3
  <2>5. q[k] = Tail(w)[i - 1] /\ Tail(w)[i - 1] = w[(i - 1) + 1]
    BY <1>1, <1>4, <2>1, <2>4
  <2> QED BY <2>2, <2>3, <2>4, <2>5
<1>8. IsPushed(w, P, q, n)
  BY <1>1, <1>3, <1>4, <1>5, <1>6, <1>7 DEF IsPushed
<1> QED BY <1>8

-----------------------------------------------------------------------------
(* What each statement makes of its transaction                             *)

SameWork(x, y) == y.inserted = x.inserted /\ y.deleted = x.deleted /\ y.writes = x.writes
SameHolds(x, y) == y.rows = x.rows /\ y.companies = x.companies
SameChecks(x, y) == y.deferred = x.deferred /\ y.locks = x.locks

TakesTask(x, st, y) ==
  /\ SameWork(x, y) /\ SameHolds(x, y) /\ y.todo = Tail(x.todo) /\ y.deferred = x.deferred
  /\ y.locks = [x.locks EXCEPT ![st.t] = "update"]
Checks(x, st, y) ==
  /\ SameWork(x, y) /\ SameHolds(x, y) /\ y.todo = Tail(x.todo)
  /\ y.deferred = Append(x.deferred, Task("check", st.t)) /\ y.locks = x.locks
Marks(x, st, y) ==
  /\ SameHolds(x, y) /\ y.inserted = x.inserted /\ y.deleted = x.deleted
  /\ y.todo = Tail(x.todo)
  /\ y.deferred = Append(x.deferred, Task("check", st.t)) /\ y.locks = x.locks
  /\ DOMAIN y.writes = DOMAIN x.writes \cup {st.t} /\ y.writes[st.t] # "gone"
  /\ \A u \in DOMAIN x.writes \ {st.t} : y.writes[u] = x.writes[u]
Meets(x, st, y) ==
  /\ SameWork(x, y) /\ SameHolds(x, y) /\ y.todo = Tail(x.todo)
  /\ y.deferred = Append(x.deferred, Task("check", st.t))
  /\ y.locks = [x.locks EXCEPT ![st.t] = Stronger(@, "key_share")]
  /\ TaskIn(x, task, st.t) # "gone"
SkipsOn(x, y) ==
  SameWork(x, y) /\ SameHolds(x, y) /\ SameChecks(x, y) /\ y.todo = Tail(x.todo)
Inserts(x, st, y) ==
  /\ SameChecks(x, y) /\ y.deleted = x.deleted /\ y.writes = x.writes
  /\ y.companies = x.companies /\ y.rows = x.rows \cup {<<st.t, st.r>>}
  /\ y.inserted = x.inserted \cup {<<st.t, st.r>>}
  /\ y.todo = <<Task("foreign_key", st.t)>> \o Tail(x.todo)
Deletes(x, st, y) ==
  /\ y.inserted = x.inserted /\ y.writes = x.writes /\ y.locks = x.locks
  /\ y.companies = x.companies /\ y.rows = x.rows \cup {<<st.t, st.r>>}
  /\ y.deleted = x.deleted \cup {<<st.t, st.r>>}
  /\ y.todo = Tail(x.todo)
  /\ y.deferred = Append(x.deferred, Task("judge", st.t))
TakesCompany(x, st, y) ==
  /\ SameWork(x, y) /\ SameChecks(x, y) /\ y.rows = x.rows /\ y.todo = Tail(x.todo)
  /\ y.companies = x.companies \cup {st.r}
SetsOut(x, y, todo) ==
  SameWork(x, y) /\ SameHolds(x, y) /\ SameChecks(x, y) /\ y.todo = todo
Loops(x, st, y) ==
  \E o : /\ Len(o) \in Nat /\ DOMAIN o = 1 .. Len(o) /\ \A i \in 1 .. Len(o) : o[i] \in LinkTasks
         /\ SetsOut(x, y, IF st.do = "move" THEN Moves(o, st.keep, st.gone) ELSE Unlinks(o, st.r))
FoundBare(x, st, y) ==
  SetsOut(x, y, <<Task("drop", st.t), Task("cascade", st.t)>> \o Tail(x.todo))
DropsIt(x, st, y) ==
  /\ y.inserted = x.inserted /\ y.deleted = x.deleted /\ SameHolds(x, y)
  /\ y.deferred = x.deferred /\ y.todo = Tail(x.todo)
  /\ y.locks = [x.locks EXCEPT ![st.t] = "update"]
  /\ DOMAIN y.writes = DOMAIN x.writes \cup {st.t} /\ y.writes[st.t] = "gone"
  /\ \A u \in DOMAIN x.writes \ {st.t} : y.writes[u] = x.writes[u]
LosesLinks(x, st, y) ==
  /\ SameHolds(x, y) /\ SameChecks(x, y) /\ y.todo = Tail(x.todo) /\ y.writes = x.writes
  /\ y.deleted = x.deleted \cup Of(st.t)
  /\ y.inserted = {l \in x.inserted : l[1] # st.t}

Effect(x, st, y) ==
  \/ st.do = "task" /\ TakesTask(x, st, y)
  \/ st.do = "accept" /\ Checks(x, st, y)
  \/ st.do \in {"to_trash", "restore"} /\ Marks(x, st, y)
  \/ st.do = "foreign_key" /\ Meets(x, st, y)
  \/ st.do \in {"insert", "delete", "bare"} /\ SkipsOn(x, y)
  \/ st.do = "insert" /\ Inserts(x, st, y)
  \/ st.do = "delete" /\ Deletes(x, st, y)
  \/ st.do = "company" /\ TakesCompany(x, st, y)
  \/ st.do \in {"move", "unlink"} /\ Loops(x, st, y)
  \/ st.do = "bare" /\ FoundBare(x, st, y)
  \/ st.do = "drop" /\ TaskIn(x, task, st.t) = "gone" /\ SkipsOn(x, y)
  \/ st.do = "drop" /\ DropsIt(x, st, y)
  \/ st.do = "cascade" /\ LosesLinks(x, st, y)

LEMMA RestAll ==
  ASSUME NEW x \in Tx, x.todo # <<>>
  PROVE  LET r == Rest(x)
         IN /\ r \in Tx /\ r.todo = Tail(x.todo) /\ r.deferred = x.deferred
            /\ r.inserted = x.inserted /\ r.deleted = x.deleted /\ r.writes = x.writes
            /\ r.locks = x.locks /\ r.rows = x.rows /\ r.companies = x.companies
<1>1. Rest(x).rows = x.rows /\ Rest(x).companies = x.companies
  BY DEF Tx, Rest
<1> QED BY <1>1, RestFields

LEMMA LocksAll ==
  ASSUME NEW r \in Tx, NEW t \in LinkTasks, NEW mode \in MODES
  PROVE  LET y == Locks(r, t, mode)
         IN /\ y \in Tx /\ SameWork(r, y) /\ SameHolds(r, y) /\ y.todo = r.todo
            /\ y.deferred = r.deferred
            /\ y.locks = [r.locks EXCEPT ![t] = Stronger(@, mode)]
<1>1. SameHolds(r, Locks(r, t, mode))
  BY DEF Tx, Locks, SameHolds
<1> QED BY <1>1, LocksFields DEF SameWork

LEMMA SetsAll ==
  ASSUME NEW r \in Tx, NEW t \in LinkTasks, NEW state \in STATES
  PROVE  LET y == Sets(r, t, state)
         IN /\ y \in Tx /\ SameHolds(r, y) /\ SameChecks(r, y) /\ y.todo = r.todo
            /\ y.inserted = r.inserted /\ y.deleted = r.deleted
            /\ DOMAIN y.writes = DOMAIN r.writes \cup {t} /\ y.writes[t] = state
            /\ \A u \in DOMAIN r.writes \ {t} : y.writes[u] = r.writes[u]
<1> DEFINE w == [u \in DOMAIN r.writes \cup {t} |-> IF u = t THEN state ELSE r.writes[u]]
<1>1. Sets(r, t, state) = [r EXCEPT !.writes = w]
  BY DEF Sets
<1> HIDE DEF w
<1>2. SameHolds(r, Sets(r, t, state)) /\ Sets(r, t, state).deferred = r.deferred
  BY <1>1 DEF Tx, SameHolds
<1> QED BY <1>2, SetsFields DEF SameChecks

LEMMA DefersAll ==
  ASSUME NEW r \in Tx, NEW t \in LinkTasks, NEW do \in {"check", "judge"}
  PROVE  LET y == Defers(r, do, t)
         IN /\ y \in Tx /\ SameWork(r, y) /\ SameHolds(r, y) /\ y.todo = r.todo
            /\ y.deferred = Append(r.deferred, Task(do, t)) /\ y.locks = r.locks
<1>1. SameHolds(r, Defers(r, do, t))
  BY DEF Tx, Defers, SameHolds
<1>2. Defers(r, do, t).deferred = Append(r.deferred, Task(do, t))
  BY DEF Tx, Defers
<1> QED BY <1>1, <1>2, DefersFields DEF SameWork

LEMMA StatementEffect ==
  ASSUME LinksInv, NEW x \in Tx, x.todo # <<>>, NEW st, st = Head(x.todo), st \in STATEMENTS,
         NEW y, y \in After(Rest(x), st)
  PROVE  Effect(x, st, y)
<1>1. PICK r : r = Rest(x)
  OBVIOUS
<1>2. /\ r \in Tx /\ r.todo = Tail(x.todo) /\ r.deferred = x.deferred
      /\ r.inserted = x.inserted /\ r.deleted = x.deleted /\ r.writes = x.writes
      /\ r.locks = x.locks /\ r.rows = x.rows /\ r.companies = x.companies
  BY <1>1, RestAll
<1>3. y \in After(r, st)
  BY <1>1
<1>4. /\ st.do \in {"task", "accept", "to_trash", "restore", "foreign_key", "bare", "drop",
                    "cascade"} => st.t \in LinkTasks
      /\ st.do \in {"insert", "delete"} => st.t \in LinkTasks /\ st.r \in Records
      /\ st.do \in {"company", "unlink"} => st.r \in Records
      /\ st.do = "move" => st.keep \in Records /\ st.gone \in Records
      /\ st.do \in {"task", "accept", "to_trash", "restore", "foreign_key", "bare", "drop",
                    "cascade", "insert", "delete", "company", "unlink", "move"}
  BY StatementKinds DEF STATEMENTS, OnTask
<1>5. \A t : SeenTask(r, t) = TaskIn(x, task, t)
  BY <1>2 DEF SeenTask, TaskIn
<1>6. "update" \in MODES /\ "key_share" \in MODES /\ \A a : Stronger(a, "update") = "update"
  BY DEF MODES, Stronger
<1>7. CASE st.do = "task"
  <2>1. y = Locks(r, st.t, "update")
    BY <1>3, <1>7 DEF After
  <2>2. TakesTask(x, st, y)
    BY <1>2, <1>4, <1>6, <1>7, <2>1, LocksAll DEF TakesTask, SameWork, SameHolds
  <2> QED BY <1>7, <2>2 DEF Effect
<1>8. CASE st.do = "accept"
  <2>1. y = Defers(r, "check", st.t)
    BY <1>3, <1>8 DEF After
  <2>2. /\ SameWork(r, y) /\ SameHolds(r, y) /\ y.todo = r.todo
        /\ y.deferred = Append(r.deferred, Task("check", st.t)) /\ y.locks = r.locks
    BY <1>2, <1>4, <1>8, <2>1, DefersAll
  <2>3. Checks(x, st, y)
    BY <1>2, <2>2 DEF Checks, SameWork, SameHolds
  <2> QED BY <1>8, <2>3 DEF Effect
<1>9. CASE st.do \in {"to_trash", "restore"}
  <2>1. PICK state \in {"live", "trash"} : y = Defers(Sets(r, st.t, state), "check", st.t)
    BY <1>3, <1>9 DEF After
  <2>2. PICK z : z = Sets(r, st.t, state)
    OBVIOUS
  <2>3. /\ z \in Tx /\ SameHolds(r, z) /\ SameChecks(r, z) /\ z.todo = r.todo
        /\ z.inserted = r.inserted /\ z.deleted = r.deleted
        /\ DOMAIN z.writes = DOMAIN r.writes \cup {st.t} /\ z.writes[st.t] = state
        /\ \A u \in DOMAIN r.writes \ {st.t} : z.writes[u] = r.writes[u]
    <3>1. state \in STATES /\ st.t \in LinkTasks
      BY <1>4, <1>9 DEF STATES
    <3> QED BY <1>2, <2>2, <3>1, SetsAll
  <2>4. /\ SameWork(z, y) /\ SameHolds(z, y) /\ y.todo = z.todo
        /\ y.deferred = Append(z.deferred, Task("check", st.t)) /\ y.locks = z.locks
    BY <1>4, <1>9, <2>1, <2>2, <2>3, DefersAll
  <2>5. Marks(x, st, y)
    BY <1>2, <2>3, <2>4 DEF Marks, SameWork, SameHolds, SameChecks
  <2> QED BY <1>9, <2>5 DEF Effect
<1>10. CASE st.do = "foreign_key"
  <2>1. y = Defers(Locks(r, st.t, "key_share"), "check", st.t) /\ SeenTask(r, st.t) # "gone"
    BY <1>3, <1>10 DEF After
  <2>2. PICK z : z = Locks(r, st.t, "key_share")
    OBVIOUS
  <2>3. /\ z \in Tx /\ SameWork(r, z) /\ SameHolds(r, z) /\ z.todo = r.todo
        /\ z.deferred = r.deferred
        /\ z.locks = [r.locks EXCEPT ![st.t] = Stronger(@, "key_share")]
    BY <1>2, <1>4, <1>6, <1>10, <2>2, LocksAll
  <2>4. /\ SameWork(z, y) /\ SameHolds(z, y) /\ y.todo = z.todo
        /\ y.deferred = Append(z.deferred, Task("check", st.t)) /\ y.locks = z.locks
    BY <1>4, <1>10, <2>1, <2>2, <2>3, DefersAll
  <2>5. Meets(x, st, y)
    BY <1>2, <1>5, <2>1, <2>3, <2>4 DEF Meets, SameWork, SameHolds
  <2> QED BY <1>10, <2>5 DEF Effect
<1>11. CASE st.do = "insert"
  <2>1. \/ y = r
        \/ y = [r EXCEPT !.rows = @ \cup {<<st.t, st.r>>},
                         !.inserted = @ \cup {<<st.t, st.r>>},
                         !.todo = <<Task("foreign_key", st.t)>> \o @]
    BY <1>3, <1>11 DEF After
  <2>2. CASE y = r
    BY <1>2, <1>11, <2>2 DEF Effect, SkipsOn, SameWork, SameHolds, SameChecks
  <2>3. CASE y # r
    <3>0. PICK todo : todo = <<Task("foreign_key", st.t)>> \o r.todo
      OBVIOUS
    <3>1. y = [r EXCEPT !.rows = @ \cup {<<st.t, st.r>>},
                        !.inserted = @ \cup {<<st.t, st.r>>}, !.todo = todo]
      BY <2>1, <2>3, <3>0
    <3>2. /\ y.deferred = r.deferred /\ y.locks = r.locks /\ y.deleted = r.deleted
          /\ y.writes = r.writes /\ y.companies = r.companies
          /\ y.rows = r.rows \cup {<<st.t, st.r>>}
          /\ y.inserted = r.inserted \cup {<<st.t, st.r>>} /\ y.todo = todo
      BY <1>2, <3>1 DEF Tx
    <3>3. Inserts(x, st, y)
      BY <1>2, <3>0, <3>2 DEF Inserts, SameChecks
    <3> QED BY <1>11, <3>3 DEF Effect
  <2> QED BY <2>2, <2>3
<1>12. CASE st.do = "delete"
  <2>1. \/ y = r
        \/ y = Defers([r EXCEPT !.rows = @ \cup {<<st.t, st.r>>},
                                !.deleted = @ \cup {<<st.t, st.r>>}], "judge", st.t)
    BY <1>3, <1>12 DEF After
  <2>2. CASE y = r
    BY <1>2, <1>12, <2>2 DEF Effect, SkipsOn, SameWork, SameHolds, SameChecks
  <2>3. CASE y # r
    <3>1. PICK z : z = [r EXCEPT !.rows = @ \cup {<<st.t, st.r>>},
                                 !.deleted = @ \cup {<<st.t, st.r>>}]
      OBVIOUS
    <3>2. /\ z.rows = r.rows \cup {<<st.t, st.r>>} /\ z.deleted = r.deleted \cup {<<st.t, st.r>>}
          /\ z.todo = r.todo /\ z.deferred = r.deferred /\ z.locks = r.locks
          /\ z.inserted = r.inserted /\ z.writes = r.writes /\ z.companies = r.companies
      BY <1>2, <3>1 DEF Tx
    <3>3. <<st.t, st.r>> \in Pairs
      BY <1>4, <1>12 DEF Pairs
    <3>4. z \in Tx
      BY <1>2, <3>1, <3>3 DEF Tx
    <3>5. /\ SameWork(z, y) /\ SameHolds(z, y) /\ y.todo = z.todo
          /\ y.deferred = Append(z.deferred, Task("judge", st.t)) /\ y.locks = z.locks
      <4>1. y = Defers(z, "judge", st.t) /\ st.t \in LinkTasks
        BY <1>4, <1>12, <2>1, <2>3, <3>1
      <4> QED BY <3>4, <4>1, DefersAll
    <3>6. Deletes(x, st, y)
      BY <1>2, <3>2, <3>5 DEF Deletes, SameWork, SameHolds
    <3> QED BY <1>12, <3>6 DEF Effect
  <2> QED BY <2>2, <2>3
<1>13. CASE st.do = "company"
  <2>1. y = [r EXCEPT !.companies = @ \cup {st.r}]
    BY <1>3, <1>13 DEF After
  <2>2. TakesCompany(x, st, y)
    BY <1>2, <2>1 DEF TakesCompany, SameWork, SameChecks, Tx
  <2> QED BY <1>13, <2>2 DEF Effect
<1>14. CASE st.do = "move"
  <2>1. PICK found : found = {t \in LinkTasks : <<t, st.gone>> \in links}
    OBVIOUS
  <2>2. PICK o \in Orders(found) :
          y = [r EXCEPT !.merging = {st.gone}, !.todo = Moves(o, st.keep, st.gone)]
    BY <1>3, <1>14, <2>1 DEF After
  <2>3. PICK m : m = Moves(o, st.keep, st.gone)
    OBVIOUS
  <2>4. y = [r EXCEPT !.merging = {st.gone}, !.todo = m]
    BY <2>2, <2>3
  <2>5. SetsOut(x, y, m)
    BY <1>2, <2>4 DEF SetsOut, SameWork, SameHolds, SameChecks, Tx
  <2>6. Len(o) \in Nat /\ DOMAIN o = 1 .. Len(o) /\ \A i \in 1 .. Len(o) : o[i] \in LinkTasks
    BY <2>1, <2>2, OrdersAre
  <2>7. Loops(x, st, y)
    BY <1>14, <2>3, <2>5, <2>6 DEF Loops
  <2> QED BY <1>14, <2>7 DEF Effect
<1>15. CASE st.do = "unlink"
  <2>1. PICK found : found = {t \in LinkTasks : <<t, st.r>> \in links}
    OBVIOUS
  <2>2. PICK o \in Orders(found) : y = [r EXCEPT !.todo = Unlinks(o, st.r)]
    BY <1>3, <1>15, <2>1 DEF After, Unlinks
  <2>3. PICK m : m = Unlinks(o, st.r)
    OBVIOUS
  <2>4. y = [r EXCEPT !.todo = m]
    BY <2>2, <2>3
  <2>5. SetsOut(x, y, m)
    BY <1>2, <2>4 DEF SetsOut, SameWork, SameHolds, SameChecks, Tx
  <2>6. Len(o) \in Nat /\ DOMAIN o = 1 .. Len(o) /\ \A i \in 1 .. Len(o) : o[i] \in LinkTasks
    BY <2>1, <2>2, OrdersAre
  <2>7. Loops(x, st, y)
    BY <1>15, <2>3, <2>5, <2>6 DEF Loops
  <2> QED BY <1>15, <2>7 DEF Effect
<1>16. CASE st.do = "bare"
  <2>1. y = r \/ y = [r EXCEPT !.todo = <<Task("drop", st.t), Task("cascade", st.t)>> \o @]
    BY <1>3, <1>16 DEF After
  <2>2. CASE y = r
    BY <1>2, <1>16, <2>2 DEF Effect, SkipsOn, SameWork, SameHolds, SameChecks
  <2>3. CASE y # r
    <3>1. FoundBare(x, st, y)
      BY <1>2, <2>1, <2>3 DEF FoundBare, SetsOut, SameWork, SameHolds, SameChecks, Tx
    <3> QED BY <1>16, <3>1 DEF Effect
  <2> QED BY <2>2, <2>3
<1>17. CASE st.do = "drop"
  <2>1. \/ SeenTask(r, st.t) = "gone" /\ y = r
        \/ y = Sets(Locks(r, st.t, "update"), st.t, "gone")
    BY <1>3, <1>17 DEF After
  <2>2. CASE SeenTask(r, st.t) = "gone" /\ y = r
    <3>1. SkipsOn(x, y) /\ TaskIn(x, task, st.t) = "gone"
      BY <1>2, <1>5, <2>2 DEF SkipsOn, SameWork, SameHolds, SameChecks
    <3> QED BY <1>17, <3>1 DEF Effect
  <2>3. CASE y = Sets(Locks(r, st.t, "update"), st.t, "gone")
    <3>1. PICK z : z = Locks(r, st.t, "update")
      OBVIOUS
    <3>2. /\ z \in Tx /\ SameWork(r, z) /\ SameHolds(r, z) /\ z.todo = r.todo
          /\ z.deferred = r.deferred /\ z.locks = [r.locks EXCEPT ![st.t] = "update"]
      BY <1>2, <1>4, <1>6, <1>17, <3>1, LocksAll
    <3>3. /\ SameHolds(z, y) /\ SameChecks(z, y) /\ y.todo = z.todo
          /\ y.inserted = z.inserted /\ y.deleted = z.deleted
          /\ DOMAIN y.writes = DOMAIN z.writes \cup {st.t} /\ y.writes[st.t] = "gone"
          /\ \A u \in DOMAIN z.writes \ {st.t} : y.writes[u] = z.writes[u]
      <4>1. "gone" \in STATES /\ st.t \in LinkTasks /\ y = Sets(z, st.t, "gone")
        BY <1>4, <1>17, <2>3, <3>1 DEF STATES
      <4> QED BY <3>2, <4>1, SetsAll
    <3>4. DropsIt(x, st, y)
      BY <1>2, <3>2, <3>3 DEF DropsIt, SameWork, SameHolds, SameChecks
    <3> QED BY <1>17, <3>4 DEF Effect
  <2> QED BY <2>1, <2>2, <2>3
<1>18. CASE st.do = "cascade"
  <2>1. y = [r EXCEPT !.deleted = @ \cup Of(st.t), !.inserted = {l \in @ : l[1] # st.t}]
    BY <1>3, <1>18 DEF After
  <2>2. LosesLinks(x, st, y)
    BY <1>2, <2>1 DEF LosesLinks, SameHolds, SameChecks, Tx
  <2> QED BY <1>18, <2>2 DEF Effect
<1> QED
  BY <1>4, <1>7, <1>8, <1>9, <1>10, <1>11, <1>12, <1>13, <1>14, <1>15, <1>16, <1>17, <1>18

-----------------------------------------------------------------------------
(* The shapes of a transaction, statement by statement                      *)

Steps(x, st, y) ==
  /\ x \in Tx /\ y \in Tx /\ x.todo # <<>> /\ st = Head(x.todo) /\ st \in STATEMENTS
  /\ Effect(x, st, y)

LEMMA KindOf ==
  ASSUME NEW x, NEW st, NEW y, Steps(x, st, y)
  PROVE  /\ x.todo \in Seq(STATEMENTS) /\ y.todo \in Seq(STATEMENTS)
         /\ 1 \in DOMAIN x.todo /\ x.todo[1] = st
         /\ st.do \notin {"company", "unlink", "move"} => st.t \in LinkTasks
         /\ st.do \in {"insert", "delete", "company", "unlink"} => st.r \in Records
         /\ x.locks \in [LinkTasks -> MODES] /\ y.locks \in [LinkTasks -> MODES]
<1>1. x \in Tx /\ y \in Tx /\ x.todo # <<>> /\ st = Head(x.todo) /\ st \in STATEMENTS
  BY DEF Steps
<1>2. /\ x.todo \in Seq(STATEMENTS) /\ y.todo \in Seq(STATEMENTS)
      /\ x.locks \in [LinkTasks -> MODES] /\ y.locks \in [LinkTasks -> MODES]
  BY <1>1 DEF Tx
<1>3. 1 \in DOMAIN x.todo /\ x.todo[1] = st
  BY <1>1, <1>2, EmptySeq
<1>4. st.do \in {"task", "accept", "to_trash", "restore", "foreign_key", "bare", "drop",
                 "cascade", "insert", "delete", "company", "unlink", "move"}
  BY <1>1 DEF STATEMENTS, OnTask
<1> QED BY <1>1, <1>2, <1>3, <1>4, StatementKinds

LEMMA AppendedAt ==
  ASSUME NEW d \in Seq(CHECKS), NEW do \in {"check", "judge"}, NEW t \in LinkTasks,
         NEW e, e = Append(d, Task(do, t)), NEW i \in DOMAIN e
  PROVE  e[i].t = t \/ (i \in DOMAIN d /\ e[i] = d[i])
<1>1. PICK c : c = Task(do, t)
  OBVIOUS
<1>2. c \in CHECKS /\ c.t = t
  BY <1>1 DEF CHECKS, Task
<1>3. e = Append(d, c)
  BY <1>1
<1>4. Len(e) = Len(d) + 1 /\ e[Len(d) + 1] = c /\ \A j \in 1 .. Len(d) : e[j] = d[j]
  BY <1>2, <1>3
<1>5. e \in Seq(CHECKS)
  BY <1>2, <1>3
<1> QED BY <1>2, <1>4, <1>5

LEMMA OneTaskTail ==
  ASSUME NEW x \in Tx, x.todo # <<>>, NEW t \in LinkTasks, OneTask(x, t),
         NEW y, y.todo = Tail(x.todo), y.companies = x.companies,
         \A u \in LinkTasks \ {t} : y.locks[u] = x.locks[u],
         \A l \in y.rows : l[1] = t,
         \A i \in DOMAIN y.deferred : y.deferred[i].t = t,
         Head(x.todo).do = "task" => y.locks[t] = "update",
         Len(x.todo) # 1 => y.rows = x.rows /\ y.locks[t] \in {"none", "update"}
  PROVE  OneTask(y, t)
<1>1. PICK w \in Seq(STATEMENTS) : w = x.todo
  BY DEF Tx
<1>2. PICK q : q = Tail(w)
  OBVIOUS
<1>8. w # <<>> /\ y.todo = q /\ Head(x.todo) = Head(w)
  BY <1>1, <1>2
<1>3. IsTail(w, q)
  BY <1>1, <1>2, <1>8, TailAt
<1>4. KeepsTo(w, x.locks[t], x.rows, t)
  BY <1>1 DEF OneTask
<1>5. ASSUME NEW i \in DOMAIN q
      PROVE  /\ q[i].do \in TaskDos \cup LinkDos /\ q[i].t = t
             /\ y.locks[t] \in {"none", "update"}
             /\ q[i].do = "task" => i = 1 /\ y.locks[t] = "none"
             /\ q[i].do = "drop" => IF i = 1 THEN y.locks[t] = "update" ELSE q[i - 1].do = "task"
             /\ q[i].do \in LinkDos \cup {"foreign_key"} => i = Len(q)
             /\ y.rows # {} => q[i].do = "foreign_key"
  <2>1. /\ i \in Nat \ {0} /\ i + 1 \in DOMAIN w /\ q[i] = w[i + 1] /\ i + 1 # 1
        /\ (i + 1) - 1 = i /\ (i = Len(q) <=> i + 1 = Len(w))
        /\ i # 1 => i - 1 \in DOMAIN q /\ q[i - 1] = w[i]
    BY <1>3 DEF IsTail
  <2>2. Len(w) # 1
    BY <1>3, <2>1 DEF IsTail
  <2>3. y.rows = x.rows /\ y.locks[t] \in {"none", "update"}
    BY <1>1, <2>2
  <2>4. /\ w[i + 1].do \in TaskDos \cup LinkDos /\ w[i + 1].t = t /\ w[i + 1].do # "task"
        /\ w[i + 1].do = "drop" => w[i].do = "task"
        /\ w[i + 1].do \in LinkDos \cup {"foreign_key"} => i + 1 = Len(w)
        /\ x.rows # {} => w[i + 1].do = "foreign_key"
    BY <1>4, <2>1 DEF KeepsTo
  <2>5. q[i].do = "drop" => IF i = 1 THEN y.locks[t] = "update" ELSE q[i - 1].do = "task"
    <3>1. CASE i = 1
      <4>1. w[i] = Head(w)
        BY <1>3, <3>1 DEF IsTail
      <4>2. q[i].do = "drop" => y.locks[t] = "update"
        BY <1>8, <2>1, <2>4, <4>1
      <4> QED BY <3>1, <4>2
    <3>2. CASE i # 1
      BY <2>1, <2>4, <3>2
    <3> QED BY <3>1, <3>2
  <2> QED BY <2>1, <2>3, <2>4, <2>5
<1>6. y.companies = {} /\ \A u \in LinkTasks \ {t} : y.locks[u] = "none"
  BY DEF OneTask
<1>7. KeepsTo(q, y.locks[t], y.rows, t)
  BY <1>5 DEF KeepsTo
<1> QED BY <1>6, <1>7, <1>8 DEF OneTask

LEMMA OneTaskKept ==
  ASSUME NEW x, NEW st, NEW y, Steps(x, st, y), NEW t \in LinkTasks, OneTask(x, t)
  PROVE  OneTask(y, t)
<1>1. x \in Tx /\ x.todo # <<>> /\ st = Head(x.todo) /\ x.deferred \in Seq(CHECKS)
  BY DEF Steps, Tx
<1>2. /\ x.todo \in Seq(STATEMENTS) /\ 1 \in DOMAIN x.todo /\ x.todo[1] = st
      /\ x.locks \in [LinkTasks -> MODES]
  BY KindOf
<1>3. /\ st.do \in TaskDos \cup LinkDos /\ st.t = t /\ x.locks[t] \in {"none", "update"}
      /\ st.do \in LinkDos \cup {"foreign_key"} => Len(x.todo) = 1
      /\ \A l \in x.rows : l[1] = t
      /\ \A i \in DOMAIN x.deferred : x.deferred[i].t = t
      /\ x.companies = {} /\ \A u \in LinkTasks \ {t} : x.locks[u] = "none"
  BY <1>2 DEF OneTask, KeepsTo
<1>4. ASSUME y.todo = Tail(x.todo), y.companies = x.companies,
             \A u \in LinkTasks \ {t} : y.locks[u] = x.locks[u],
             \A l \in y.rows : l[1] = t,
             \A i \in DOMAIN y.deferred : y.deferred[i].t = t,
             st.do = "task" => y.locks[t] = "update",
             Len(x.todo) # 1 => y.rows = x.rows /\ y.locks[t] \in {"none", "update"}
      PROVE  OneTask(y, t)
  BY <1>1, <1>4, OneTaskTail
<1>5. CASE st.do = "task" /\ TakesTask(x, st, y)
  BY <1>2, <1>3, <1>4, <1>5 DEF TakesTask, SameHolds
<1>6. ASSUME NEW do \in {"check", "judge"}, y.deferred = Append(x.deferred, Task(do, t))
      PROVE  \A i \in DOMAIN y.deferred : y.deferred[i].t = t
  BY <1>1, <1>3, <1>6, AppendedAt
<1>7. CASE st.do = "accept" /\ Checks(x, st, y)
  <2>1. \A i \in DOMAIN y.deferred : y.deferred[i].t = t
    BY <1>3, <1>6, <1>7 DEF Checks
  <2> QED BY <1>3, <1>4, <1>7, <2>1 DEF Checks, SameHolds
<1>8. CASE st.do \in {"to_trash", "restore"} /\ Marks(x, st, y)
  <2>1. \A i \in DOMAIN y.deferred : y.deferred[i].t = t
    BY <1>3, <1>6, <1>8 DEF Marks
  <2>2. y.locks = x.locks /\ y.rows = x.rows /\ y.companies = x.companies /\ y.todo = Tail(x.todo)
    BY <1>8 DEF Marks, SameHolds
  <2> QED BY <1>3, <1>4, <1>8, <2>1, <2>2
<1>9. CASE st.do = "foreign_key" /\ Meets(x, st, y)
  <2>1. \A i \in DOMAIN y.deferred : y.deferred[i].t = t
    BY <1>3, <1>6, <1>9 DEF Meets
  <2>2. /\ y.rows = x.rows /\ y.companies = x.companies /\ y.todo = Tail(x.todo)
        /\ \A u \in LinkTasks \ {t} : y.locks[u] = x.locks[u]
    BY <1>2, <1>3, <1>9 DEF Meets, SameHolds
  <2> QED BY <1>3, <1>4, <1>9, <2>1, <2>2
<1>10. CASE SkipsOn(x, y) /\ st.do # "task"
  BY <1>3, <1>4, <1>10 DEF SkipsOn, SameHolds, SameChecks
<1>11. CASE st.do = "insert" /\ Inserts(x, st, y)
  <2>1. PICK P : P = <<Task("foreign_key", t)>>
    OBVIOUS
  <2>2. y.todo = P \o Tail(x.todo) /\ Pushes(P, t)
    BY <1>3, <1>11, <2>1 DEF Inserts, Pushes
  <2>8. PICK w, q : w = x.todo /\ q = P \o Tail(w)
    OBVIOUS
  <2>9. w \in Seq(STATEMENTS) /\ w # <<>> /\ y.todo = q
    BY <1>1, <1>2, <2>2, <2>8
  <2>3. PICK n : IsPushed(w, P, q, n)
    BY <2>2, <2>8, <2>9, PushAt
  <2>4. Len(P) = 1 /\ P[1] = Task("foreign_key", t)
    BY <2>1
  <2>5. DOMAIN y.todo = 1 .. 1 /\ Len(y.todo) = 1 /\ y.todo[1] = Task("foreign_key", t)
    <3>1. Len(w) = 1 /\ n = 1
      BY <1>3, <1>11, <2>3, <2>4, <2>8 DEF LinkDos, IsPushed
    <3> QED BY <2>3, <2>4, <2>9, <3>1 DEF IsPushed
  <2>6. \A i \in DOMAIN y.todo : i = 1 /\ y.todo[i].do = "foreign_key" /\ y.todo[i].t = t
    BY <2>5 DEF Task
  <2>7. /\ y.locks = x.locks /\ y.companies = x.companies /\ y.deferred = x.deferred
        /\ \A l \in y.rows : l[1] = t
    BY <1>3, <1>11 DEF Inserts, SameChecks
  <2>10. KeepsTo(y.todo, y.locks[t], y.rows, t)
    BY <1>3, <2>5, <2>6, <2>7 DEF KeepsTo, TaskDos, LinkDos
  <2> QED BY <1>3, <2>7, <2>10 DEF OneTask
<1>12. CASE st.do = "delete" /\ Deletes(x, st, y)
  <2>1. \A i \in DOMAIN y.deferred : y.deferred[i].t = t
    BY <1>3, <1>6, <1>12 DEF Deletes
  <2>2. /\ y.locks = x.locks /\ y.companies = x.companies /\ y.todo = Tail(x.todo)
        /\ \A l \in y.rows : l[1] = t
    BY <1>3, <1>12 DEF Deletes
  <2> QED BY <1>3, <1>4, <1>12, <2>1, <2>2 DEF LinkDos
<1>13. CASE st.do = "drop" /\ DropsIt(x, st, y)
  <2>1. /\ y.rows = x.rows /\ y.companies = x.companies /\ y.todo = Tail(x.todo)
        /\ y.deferred = x.deferred /\ y.locks[t] = "update"
        /\ \A u \in LinkTasks \ {t} : y.locks[u] = x.locks[u]
    BY <1>2, <1>3, <1>13 DEF DropsIt, SameHolds
  <2> QED BY <1>3, <1>4, <1>13, <2>1
<1>14. CASE st.do = "cascade" /\ LosesLinks(x, st, y)
  BY <1>3, <1>4, <1>14 DEF LosesLinks, SameHolds, SameChecks
<1>15. st.do \notin {"company", "move", "unlink", "bare"}
  BY <1>3 DEF TaskDos, LinkDos
<1> QED
  BY <1>5, <1>7, <1>8, <1>9, <1>10, <1>11, <1>12, <1>13, <1>14, <1>15
  DEF Steps, Effect

(* What the lists of a merge and of a purge hold.                           *)
LEMMA MovesAre ==
  ASSUME NEW o, NEW keep, NEW gone, Len(o) \in Nat, NEW m, m = Moves(o, keep, gone),
         NEW i \in DOMAIN m
  PROVE  m[i].do \in LinkDos /\ m[i].r \in {keep, gone}
<1>1. i \in 1 .. (2 * Len(o))
  BY DEF Moves
<1>2. CASE i % 2 = 1
  <2>1. m[i] = Link("insert", o[(i + 1) \div 2], keep, FALSE)
    BY <1>1, <1>2 DEF Moves
  <2> QED BY <2>1 DEF Link, LinkDos
<1>3. CASE i % 2 # 1
  <2>1. m[i] = Link("delete", o[i \div 2], gone, FALSE)
    BY <1>1, <1>3 DEF Moves
  <2> QED BY <2>1 DEF Link, LinkDos
<1> QED BY <1>2, <1>3

LEMMA UnlinksAre ==
  ASSUME NEW o, NEW r \in Records, Len(o) \in Nat, DOMAIN o = 1 .. Len(o),
         \A i \in 1 .. Len(o) : o[i] \in LinkTasks, NEW m, m = Unlinks(o, r),
         NEW i \in DOMAIN m
  PROVE  \/ m[i].do = "bare"
         \/ m[i].do = "delete" /\ m[i].r = r /\ \A j \in 1 .. i : m[j].do = "delete"
<1>1. PICK n \in Nat : n = Len(o)
  OBVIOUS
<1>2. PICK a : a = [k \in DOMAIN o |-> Link("delete", o[k], r, FALSE)]
  OBVIOUS
<1>3. PICK b : b = [k \in DOMAIN o |-> Task("bare", o[k])]
  OBVIOUS
<1>4. \A k \in 1 .. n : a[k] \in STATEMENTS /\ a[k].do = "delete" /\ a[k].r = r
  BY <1>1, <1>2 DEF Link, STATEMENTS
<1>5. \A k \in 1 .. n : b[k] \in STATEMENTS /\ b[k].do = "bare"
  BY <1>1, <1>3 DEF Task, STATEMENTS, OnTask
<1>6. a \in Seq(STATEMENTS) /\ b \in Seq(STATEMENTS) /\ Len(a) = n /\ Len(b) = n
  <2>1. a \in [1 .. n -> STATEMENTS] /\ b \in [1 .. n -> STATEMENTS]
    BY <1>1, <1>2, <1>3, <1>4, <1>5
  <2> QED BY <2>1
<1>7. PICK c : c = a \o b
  OBVIOUS
<1>8. m = c
  BY <1>2, <1>3, <1>7 DEF Unlinks
<1>9. /\ c \in Seq(STATEMENTS) /\ Len(c) = Len(a) + Len(b)
      /\ \A k \in 1 .. Len(a) + Len(b) : c[k] = IF k <= Len(a) THEN a[k] ELSE b[k - Len(a)]
  BY <1>6, <1>7, ConcatProperties
<1>10. /\ DOMAIN c = 1 .. (n + n)
       /\ \A k \in 1 .. (n + n) : c[k] = IF k <= n THEN a[k] ELSE b[k - n]
  BY <1>6, <1>9
<1>11. CASE i <= n
  <2>1. i \in 1 .. n /\ \A j \in 1 .. i : j \in 1 .. n /\ j \in 1 .. (n + n) /\ j <= n
    BY <1>8, <1>10, <1>11
  <2>2. \A j \in 1 .. i : c[j].do = "delete"
    BY <1>4, <1>10, <2>1
  <2>3. c[i].do = "delete" /\ c[i].r = r
    BY <1>4, <1>8, <1>10, <1>11, <2>1
  <2> QED BY <1>8, <2>2, <2>3
<1>12. CASE ~(i <= n)
  <2>1. i - n \in 1 .. n /\ i \in 1 .. (n + n)
    BY <1>8, <1>10, <1>12
  <2> QED BY <1>5, <1>8, <1>10, <1>12, <2>1
<1> QED BY <1>11, <1>12

LEMMA MergesKept ==
  ASSUME NEW x, NEW st, NEW y, Steps(x, st, y), Merges(x)
  PROVE  Merges(y)
<1>1. x \in Tx /\ x.todo # <<>> /\ st = Head(x.todo)
  BY DEF Steps
<1>2. PICK w : w = x.todo
  OBVIOUS
<1>3. /\ w \in Seq(STATEMENTS) /\ 1 \in DOMAIN w /\ w[1] = st /\ w # <<>>
      /\ x.locks \in [LinkTasks -> MODES]
      /\ st.do \notin {"company", "unlink", "move"} => st.t \in LinkTasks
  BY <1>1, <1>2, KindOf
<1>4. /\ st.do \in LinkDos \cup {"foreign_key"}
      /\ st.do \in LinkDos => st.r \in x.companies
      /\ \A u \in LinkTasks : x.locks[u] \in {"none", "key_share"}
      /\ x.companies # {} /\ \A l \in x.rows : l[2] \in x.companies
      /\ \A i \in DOMAIN w : /\ w[i].do \in LinkDos \cup {"foreign_key"}
                             /\ w[i].do \in LinkDos => w[i].r \in x.companies
  BY <1>2, <1>3 DEF Merges
<1>5. ASSUME y.todo = Tail(w), y.companies = x.companies,
             \A l \in y.rows : l[2] \in x.companies,
             \A u \in LinkTasks : y.locks[u] \in {"none", "key_share"}
      PROVE  Merges(y)
  <2>1. PICK q : q = Tail(w)
    OBVIOUS
  <2>2. IsTail(w, q)
    BY <1>3, <2>1, TailAt
  <2>3. \A i \in DOMAIN q : /\ q[i].do \in LinkDos \cup {"foreign_key"}
                            /\ q[i].do \in LinkDos => q[i].r \in x.companies
    BY <1>4, <2>2 DEF IsTail
  <2> QED BY <1>4, <1>5, <2>1, <2>3 DEF Merges
<1>6. CASE SkipsOn(x, y)
  BY <1>2, <1>4, <1>5, <1>6 DEF SkipsOn, SameHolds, SameChecks
<1>7. CASE st.do = "insert" /\ Inserts(x, st, y)
  <2>1. PICK P, q : P = <<Task("foreign_key", st.t)>> /\ q = P \o Tail(w)
    OBVIOUS
  <2>2. Pushes(P, st.t) /\ y.todo = q /\ st.t \in LinkTasks
    BY <1>2, <1>3, <1>7, <2>1 DEF Inserts, Pushes
  <2>3. PICK n : IsPushed(w, P, q, n)
    BY <1>3, <2>1, <2>2, PushAt
  <2>4. Len(P) = 1 /\ P[1] = Task("foreign_key", st.t) /\ P[1].do = "foreign_key"
    BY <2>1 DEF Task
  <2>5. n = 1
    BY <2>3, <2>4 DEF IsPushed
  <2>6. ASSUME NEW i \in DOMAIN q
        PROVE  /\ q[i].do \in LinkDos \cup {"foreign_key"}
               /\ q[i].do \in LinkDos => q[i].r \in x.companies
    <3>1. CASE i = 1
      <4>1. q[i].do = "foreign_key"
        BY <2>3, <2>4, <2>5, <3>1 DEF IsPushed
      <4> QED BY <4>1 DEF LinkDos
    <3>2. CASE i # 1
      <4>1. i \in (n + 1) .. Len(q)
        BY <2>3, <2>5, <2>6, <3>2 DEF IsPushed
      <4>2. (i - n) + 1 \in DOMAIN w /\ q[i] = w[(i - n) + 1]
        BY <2>3, <4>1 DEF IsPushed
      <4> QED BY <1>4, <4>2
    <3> QED BY <3>1, <3>2
  <2>7. y.companies = x.companies /\ y.locks = x.locks /\ \A l \in y.rows : l[2] \in x.companies
    BY <1>4, <1>7 DEF Inserts, SameChecks, LinkDos
  <2> QED BY <1>4, <2>2, <2>6, <2>7 DEF Merges
<1>8. CASE st.do = "delete" /\ Deletes(x, st, y)
  <2>1. y.companies = x.companies /\ y.locks = x.locks /\ \A l \in y.rows : l[2] \in x.companies
    BY <1>4, <1>8 DEF Deletes, LinkDos
  <2> QED BY <1>2, <1>4, <1>5, <1>8, <2>1 DEF Deletes
<1>9. CASE st.do = "foreign_key" /\ Meets(x, st, y)
  <2>1. \A u \in LinkTasks : y.locks[u] \in {"none", "key_share"}
    <3>1. y.locks = [x.locks EXCEPT ![st.t] = Stronger(x.locks[st.t], "key_share")]
      BY <1>9 DEF Meets
    <3>2. st.t \in LinkTasks /\ Stronger(x.locks[st.t], "key_share") = "key_share"
      BY <1>3, <1>4, <1>9 DEF Stronger
    <3> QED BY <1>3, <1>4, <3>1, <3>2
  <2> QED BY <1>2, <1>4, <1>5, <1>9, <2>1 DEF Meets, SameHolds
<1>10. st.do \notin {"task", "accept", "to_trash", "restore", "bare", "company", "move", "unlink",
                     "drop", "cascade"}
  BY <1>4 DEF LinkDos
<1> QED BY <1>6, <1>7, <1>8, <1>9, <1>10 DEF Steps, Effect

LEMMA PurgesKept ==
  ASSUME NEW x, NEW st, NEW y, Steps(x, st, y), Purges(x)
  PROVE  Purges(y)
<1>1. x \in Tx /\ x.todo # <<>> /\ st = Head(x.todo)
  BY DEF Steps
<1>2. PICK w : w = x.todo
  OBVIOUS
<1>3. /\ w \in Seq(STATEMENTS) /\ 1 \in DOMAIN w /\ w[1] = st /\ w # <<>>
      /\ x.locks \in [LinkTasks -> MODES] /\ DOMAIN w = 1 .. Len(w) /\ Len(w) \in Nat
      /\ st.do \notin {"company", "unlink", "move"} => st.t \in LinkTasks
  BY <1>1, <1>2, KindOf
<1>4. /\ st.do \in {"delete", "bare", "drop", "cascade"}
      /\ st.do = "delete" => st.r \in x.companies /\ \A u \in LinkTasks : x.locks[u] = "none"
      /\ \A u \in LinkTasks : x.locks[u] \in {"none", "update"}
      /\ x.companies # {} /\ \A l \in x.rows : l[2] \in x.companies
  BY <1>2, <1>3 DEF Purges
<1>5. \A i \in DOMAIN w :
        /\ w[i].do \in {"delete", "bare", "drop", "cascade"}
        /\ w[i].do = "delete" => /\ w[i].r \in x.companies
                                 /\ \A u \in LinkTasks : x.locks[u] = "none"
                                 /\ \A j \in 1 .. i : w[j].do = "delete"
  BY <1>2 DEF Purges
<1>6. st.do # "delete" => \A i \in DOMAIN w : w[i].do # "delete"
  BY <1>3, <1>5
<1>7. ASSUME y.todo = Tail(w), y.companies = x.companies,
             \A l \in y.rows : l[2] \in x.companies,
             st.do = "delete" => y.locks = x.locks,
             \A u \in LinkTasks : y.locks[u] \in {"none", "update"}
      PROVE  Purges(y)
  <2>1. PICK q : q = Tail(w)
    OBVIOUS
  <2>2. IsTail(w, q)
    BY <1>3, <2>1, TailAt
  <2>3. ASSUME NEW i \in DOMAIN q
        PROVE  /\ q[i].do \in {"delete", "bare", "drop", "cascade"}
               /\ q[i].do = "delete" => /\ q[i].r \in x.companies
                                        /\ \A u \in LinkTasks : y.locks[u] = "none"
                                        /\ \A j \in 1 .. i : q[j].do = "delete"
    <3>1. i + 1 \in DOMAIN w /\ q[i] = w[i + 1] /\ i \in Nat
      BY <2>2, <2>3 DEF IsTail
    <3>2. \A j \in 1 .. i : j + 1 \in 1 .. (i + 1) /\ j \in DOMAIN q
      BY <2>2, <2>3 DEF IsTail
    <3>3. \A j \in 1 .. i : q[j] = w[j + 1]
      BY <2>2, <3>2 DEF IsTail
    <3>4. q[i].do = "delete" => st.do = "delete"
      BY <1>6, <3>1
    <3> QED BY <1>5, <1>7, <3>1, <3>2, <3>3, <3>4
  <2> QED BY <1>4, <1>7, <2>1, <2>3 DEF Purges
<1>8. CASE SkipsOn(x, y)
  BY <1>2, <1>4, <1>7, <1>8 DEF SkipsOn, SameHolds, SameChecks
<1>9. CASE st.do = "delete" /\ Deletes(x, st, y)
  <2>1. y.companies = x.companies /\ y.locks = x.locks /\ \A l \in y.rows : l[2] \in x.companies
    BY <1>4, <1>9 DEF Deletes
  <2> QED BY <1>2, <1>4, <1>7, <1>9, <2>1 DEF Deletes
<1>10. CASE st.do = "bare" /\ FoundBare(x, st, y)
  <2>1. PICK P, q : P = <<Task("drop", st.t), Task("cascade", st.t)>> /\ q = P \o Tail(w)
    OBVIOUS
  <2>2. Pushes(P, st.t) /\ y.todo = q /\ st.t \in LinkTasks
    BY <1>2, <1>3, <1>10, <2>1 DEF FoundBare, SetsOut, Pushes
  <2>3. PICK n : IsPushed(w, P, q, n)
    BY <1>3, <2>1, <2>2, PushAt
  <2>4. Len(P) = 2 /\ P[1].do = "drop" /\ P[2].do = "cascade"
    BY <2>1 DEF Task
  <2>5. n = 2
    BY <2>3, <2>4 DEF IsPushed
  <2>6. ASSUME NEW i \in DOMAIN q
        PROVE  q[i].do \in {"bare", "drop", "cascade"}
    <3>1. CASE i \in 1 .. n
      <4>1. q[i] = P[i] /\ i \in {1, 2}
        BY <2>3, <2>5, <3>1 DEF IsPushed
      <4> QED BY <2>4, <4>1
    <3>2. CASE i \notin 1 .. n
      <4>1. i \in (n + 1) .. Len(q)
        BY <2>3, <2>5, <2>6, <3>2 DEF IsPushed
      <4>2. (i - n) + 1 \in DOMAIN w /\ q[i] = w[(i - n) + 1]
        BY <2>3, <4>1 DEF IsPushed
      <4> QED BY <1>5, <1>6, <1>10, <4>2
    <3> QED BY <3>1, <3>2
  <2>7. y.companies = x.companies /\ y.locks = x.locks /\ y.rows = x.rows
    BY <1>10 DEF FoundBare, SetsOut, SameHolds, SameChecks
  <2> QED BY <1>4, <2>2, <2>6, <2>7 DEF Purges
<1>11. CASE st.do = "drop" /\ DropsIt(x, st, y)
  <2>1. \A u \in LinkTasks : y.locks[u] \in {"none", "update"}
    BY <1>3, <1>4, <1>11 DEF DropsIt
  <2> QED BY <1>2, <1>4, <1>7, <1>11, <2>1 DEF DropsIt, SameHolds
<1>12. CASE st.do = "cascade" /\ LosesLinks(x, st, y)
  BY <1>2, <1>4, <1>7, <1>12 DEF LosesLinks, SameHolds, SameChecks
<1>13. st.do \notin {"task", "accept", "to_trash", "restore", "foreign_key", "insert", "company",
                     "move", "unlink"}
  BY <1>4
<1> QED BY <1>8, <1>9, <1>10, <1>11, <1>12, <1>13 DEF Steps, Effect

LEMMA BothTaken ==
  ASSUME NEW x, NEW a, NEW b, NEW m, TakesBoth(x, a, b, m)
  PROVE  /\ x.todo # <<>>
         /\ \/ /\ Head(x.todo) = Company(a) /\ Tail(x.todo) = <<Company(b), m>>
               /\ x.companies = {}
            \/ /\ Head(x.todo) = Company(b) /\ Tail(x.todo) = <<m>> /\ x.companies = {a}
            \/ Head(x.todo) = m /\ x.companies = {a, b}
<1>1. PICK p, q : p = Company(a) /\ q = Company(b)
  OBVIOUS
<1>2. CASE x.todo = <<p, q, m>> /\ x.companies = {}
  BY <1>1, <1>2
<1>3. CASE x.todo = <<q, m>> /\ x.companies = {a}
  BY <1>1, <1>3
<1>4. CASE x.todo = <<m>> /\ x.companies = {a, b}
  BY <1>4
<1> QED BY <1>1, <1>2, <1>3, <1>4 DEF TakesBoth

LEMMA OneTaken ==
  ASSUME NEW x, NEW m, TakesOne(x, m)
  PROVE  /\ x.todo # <<>>
         /\ \/ Head(x.todo) = Company(m.r) /\ Tail(x.todo) = <<m>> /\ x.companies = {}
            \/ Head(x.todo) = m /\ x.companies = {m.r}
<1>1. PICK p : p = Company(m.r)
  OBVIOUS
<1>2. CASE x.todo = <<p, m>> /\ x.companies = {}
  BY <1>1, <1>2
<1>3. CASE x.todo = <<m>> /\ x.companies = {m.r}
  BY <1>3
<1> QED BY <1>1, <1>2, <1>3 DEF TakesOne

LEMMA CollectsKept ==
  ASSUME NEW x, NEW st, NEW y, Steps(x, st, y), Collects(x)
  PROVE  Shaped(y)
<1>1. x \in Tx /\ x.todo # <<>> /\ st = Head(x.todo) /\ st \in STATEMENTS
  BY DEF Steps
<1>2. \A u \in LinkTasks : x.locks[u] = "none"
  BY DEF Collects
<1>3. x.rows = {} /\ x.deferred = <<>>
  BY DEF Collects
<1>4. \A r : Company(r).do = "company" /\ Company(r).r = r
  BY DEF Company
<1>5. ASSUME st.do = "company"
      PROVE  /\ \A u \in LinkTasks : y.locks[u] = "none"
             /\ y.rows = {} /\ y.deferred = <<>>
             /\ y.todo = Tail(x.todo) /\ y.companies = x.companies \cup {st.r}
  BY <1>2, <1>3, <1>5 DEF Steps, Effect, TakesCompany, SameChecks
<1>6. ASSUME st.do \in {"move", "unlink"}
      PROVE  \E o : /\ Len(o) \in Nat /\ DOMAIN o = 1 .. Len(o)
                    /\ \A i \in 1 .. Len(o) : o[i] \in LinkTasks
                    /\ y.todo = IF st.do = "move" THEN Moves(o, st.keep, st.gone)
                                ELSE Unlinks(o, st.r)
                    /\ y.rows = {} /\ y.companies = x.companies
                    /\ \A u \in LinkTasks : y.locks[u] = "none"
  <2>1. Loops(x, st, y)
    BY <1>6 DEF Steps, Effect
  <2>2. PICK o : /\ Len(o) \in Nat /\ DOMAIN o = 1 .. Len(o)
                 /\ \A i \in 1 .. Len(o) : o[i] \in LinkTasks
                 /\ SetsOut(x, y, IF st.do = "move" THEN Moves(o, st.keep, st.gone)
                                  ELSE Unlinks(o, st.r))
    BY <2>1 DEF Loops
  <2>3. /\ y.rows = {} /\ y.companies = x.companies /\ \A u \in LinkTasks : y.locks[u] = "none"
        /\ y.todo = IF st.do = "move" THEN Moves(o, st.keep, st.gone) ELSE Unlinks(o, st.r)
    BY <1>2, <1>3, <2>2 DEF SetsOut, SameHolds, SameChecks
  <2> QED BY <2>2, <2>3
<1>7. ASSUME NEW a \in Records, NEW b \in Records, NEW m, TakesBoth(x, a, b, m)
      PROVE  Shaped(y)
  <2>1. m.do = "move" /\ {m.keep, m.gone} = {a, b} /\ a < b
    BY <1>7 DEF TakesBoth
  <2>2. CASE /\ Head(x.todo) = Company(a) /\ Tail(x.todo) = <<Company(b), m>>
             /\ x.companies = {}
    <3>1. y.todo = <<Company(b), m>> /\ y.companies = {a}
      BY <1>1, <1>4, <1>5, <2>2
    <3>2. TakesBoth(y, a, b, m)
      BY <2>1, <3>1 DEF TakesBoth
    <3>3. st.do = "company"
      BY <1>1, <1>4, <2>2
    <3>4. Collects(y)
      BY <1>5, <3>2, <3>3 DEF Collects
    <3> QED BY <3>4 DEF Shaped
  <2>3. CASE Head(x.todo) = Company(b) /\ Tail(x.todo) = <<m>> /\ x.companies = {a}
    <3>5. st.do = "company" /\ st.r = b
      BY <1>1, <1>4, <2>3
    <3>6. y.todo = <<m>> /\ y.companies = {a} \cup {b}
      BY <1>5, <2>3, <3>5
    <3>1. y.todo = <<m>> /\ y.companies = {a, b}
      BY <3>6
    <3>2. TakesBoth(y, a, b, m)
      BY <2>1, <3>1 DEF TakesBoth
    <3>3. st.do = "company"
      BY <1>1, <1>4, <2>3
    <3>4. Collects(y)
      BY <1>5, <3>2, <3>3 DEF Collects
    <3> QED BY <3>4 DEF Shaped
  <2>4. CASE Head(x.todo) = m /\ x.companies = {a, b}
    <3>1. st = m /\ st.do = "move"
      BY <1>1, <2>1, <2>4
    <3>2. PICK o : /\ Len(o) \in Nat /\ y.todo = Moves(o, st.keep, st.gone)
                   /\ y.rows = {} /\ y.companies = x.companies
                   /\ \A u \in LinkTasks : y.locks[u] = "none"
      BY <1>6, <3>1
    <3>3. y.companies = {st.keep, st.gone}
      BY <2>1, <2>4, <3>1, <3>2
    <3>4. PICK l : l = Moves(o, st.keep, st.gone)
      OBVIOUS
    <3>5. \A i \in DOMAIN l : l[i].do \in LinkDos /\ l[i].r \in y.companies
      BY <3>2, <3>3, <3>4, MovesAre
    <3>6. y.todo = l
      BY <3>2, <3>4
    <3>7. Merges(y)
      BY <3>2, <3>3, <3>5, <3>6 DEF Merges
    <3> QED BY <3>7 DEF Shaped
  <2> QED BY <1>7, <2>2, <2>3, <2>4, BothTaken
<1>8. ASSUME NEW m, TakesOne(x, m)
      PROVE  Shaped(y)
  <2>1. m.do = "unlink" /\ m.r \in Records
    BY <1>8 DEF TakesOne
  <2>2. CASE Head(x.todo) = Company(m.r) /\ Tail(x.todo) = <<m>> /\ x.companies = {}
    <3>1. y.todo = <<m>> /\ y.companies = {m.r}
      BY <1>1, <1>4, <1>5, <2>2
    <3>2. TakesOne(y, m)
      BY <2>1, <3>1 DEF TakesOne
    <3>3. st.do = "company"
      BY <1>1, <1>4, <2>2
    <3>4. Collects(y)
      BY <1>5, <3>2, <3>3 DEF Collects
    <3> QED BY <3>4 DEF Shaped
  <2>3. CASE Head(x.todo) = m /\ x.companies = {m.r}
    <3>1. st = m /\ st.do = "unlink"
      BY <1>1, <2>1, <2>3
    <3>2. PICK o : /\ Len(o) \in Nat /\ DOMAIN o = 1 .. Len(o)
                   /\ \A i \in 1 .. Len(o) : o[i] \in LinkTasks
                   /\ y.todo = Unlinks(o, st.r)
                   /\ y.rows = {} /\ y.companies = x.companies
                   /\ \A u \in LinkTasks : y.locks[u] = "none"
      BY <1>6, <3>1
    <3>3. y.companies = {st.r} /\ st.r \in Records
      BY <2>1, <2>3, <3>1, <3>2
    <3>4. PICK l : l = Unlinks(o, st.r)
      OBVIOUS
    <3>5. \A i \in DOMAIN l : \/ l[i].do = "bare"
                              \/ /\ l[i].do = "delete" /\ l[i].r = st.r
                                 /\ \A j \in 1 .. i : l[j].do = "delete"
      BY <3>2, <3>3, <3>4, UnlinksAre
    <3>6. y.todo = l
      BY <3>2, <3>4
    <3>7. Purges(y)
      BY <3>2, <3>3, <3>5, <3>6 DEF Purges
    <3> QED BY <3>7 DEF Shaped
  <2> QED BY <1>8, <2>2, <2>3, OneTaken
<1> QED BY <1>7, <1>8 DEF Collects

LEMMA ShapeKept ==
  ASSUME NEW x, NEW st, NEW y, Steps(x, st, y), Shaped(x)
  PROVE  Shaped(y)
<1>1. ASSUME NEW t \in LinkTasks, OneTask(x, t) PROVE OneTask(y, t)
  BY <1>1, OneTaskKept
<1> QED BY <1>1, MergesKept, PurgesKept, CollectsKept DEF Shaped

-----------------------------------------------------------------------------
(* What goes with the list of statements                                    *)

ListGoesOn(x, st, y) ==
  \/ y.todo = Tail(x.todo)
  \/ \E P : Pushes(P, st.t) /\ y.todo = P \o Tail(x.todo) /\ st.do \in {"insert", "bare"}
  \/ \A i \in DOMAIN y.todo : y.todo[i].do \in {"insert", "delete", "bare"}

LEMMA ListStep ==
  ASSUME NEW x, NEW st, NEW y, Steps(x, st, y)
  PROVE  ListGoesOn(x, st, y)
<1>1. st \in STATEMENTS /\ Effect(x, st, y)
  BY DEF Steps
<1>2. CASE st.do \in {"move", "unlink"} /\ Loops(x, st, y)
  <2>1. PICK o : /\ Len(o) \in Nat /\ DOMAIN o = 1 .. Len(o)
                 /\ \A i \in 1 .. Len(o) : o[i] \in LinkTasks
                 /\ y.todo = IF st.do = "move" THEN Moves(o, st.keep, st.gone)
                             ELSE Unlinks(o, st.r)
    BY <1>2 DEF Loops, SetsOut
  <2>2. PICK m : m = y.todo
    OBVIOUS
  <2>3. \A i \in DOMAIN m : m[i].do \in {"insert", "delete", "bare"}
    <3>1. CASE st.do = "move"
      BY <2>1, <2>2, <3>1, MovesAre DEF LinkDos
    <3>2. CASE st.do = "unlink"
      <4>1. st.r \in Records
        BY <1>1, <3>2, StatementKinds
      <4> QED BY <2>1, <2>2, <3>2, <4>1, UnlinksAre
    <3> QED BY <1>2, <3>1, <3>2
  <2> QED BY <2>2, <2>3 DEF ListGoesOn
<1>3. CASE st.do = "insert" /\ Inserts(x, st, y)
  BY <1>3 DEF ListGoesOn, Inserts, Pushes
<1>4. CASE st.do = "bare" /\ FoundBare(x, st, y)
  BY <1>4 DEF ListGoesOn, FoundBare, SetsOut, Pushes
<1>5. CASE y.todo = Tail(x.todo)
  BY <1>5 DEF ListGoesOn
<1> QED BY <1>1, <1>2, <1>3, <1>4, <1>5
     DEF Effect, TakesTask, Checks, Marks, Meets, SkipsOn, Deletes, TakesCompany, DropsIt,
         LosesLinks

LEMMA DropsKept ==
  ASSUME NEW x, NEW st, NEW y, Steps(x, st, y), DropsLinks(x)
  PROVE  DropsLinks(y)
<1>1. PICK w, q : w = x.todo /\ q = y.todo
  OBVIOUS
<1>2. /\ w \in Seq(STATEMENTS) /\ w # <<>> /\ 1 \in DOMAIN w /\ w[1] = st
      /\ st.do \notin {"company", "unlink", "move"} => st.t \in LinkTasks
  BY <1>1, KindOf DEF Steps
<1>3. \A i \in DOMAIN w :
        w[i].do = "drop" => i + 1 \in DOMAIN w /\ w[i + 1] = Task("cascade", w[i].t)
  BY <1>1 DEF DropsLinks
<1>4. SUFFICES ASSUME NEW i \in DOMAIN q, q[i].do = "drop"
               PROVE  i + 1 \in DOMAIN q /\ q[i + 1] = Task("cascade", q[i].t)
  BY <1>1 DEF DropsLinks
<1>5. CASE q = Tail(w)
  <2>1. IsTail(w, q)
    BY <1>2, <1>5, TailAt
  <2>2. i \in Nat /\ i + 1 \in DOMAIN w /\ q[i] = w[i + 1]
    BY <2>1 DEF IsTail
  <2>3. (i + 1) + 1 \in DOMAIN w /\ w[(i + 1) + 1] = Task("cascade", q[i].t)
    BY <1>3, <1>4, <2>2
  <2>4. i + 1 \in DOMAIN q
    BY <2>1, <2>2, <2>3 DEF IsTail
  <2>5. q[i + 1] = w[(i + 1) + 1]
    BY <2>1, <2>4 DEF IsTail
  <2> QED BY <2>3, <2>4, <2>5
<1>6. ASSUME NEW P, Pushes(P, st.t), q = P \o Tail(w), st.t \in LinkTasks
      PROVE  i + 1 \in DOMAIN q /\ q[i + 1] = Task("cascade", q[i].t)
  <2>1. PICK n : IsPushed(w, P, q, n)
    BY <1>2, <1>6, PushAt
  <2>2. n \in {1, 2} /\ Len(q) \in Nat
    BY <2>1 DEF IsPushed
  <2>3. CASE i \in 1 .. n
    <3>1. q[i] = P[i]
      BY <2>1, <2>3 DEF IsPushed
    <3>2. CASE P = <<Task("foreign_key", st.t)>>
      <4>1. n = 1 /\ P[1].do = "foreign_key"
        BY <2>1, <3>2 DEF IsPushed, Task
      <4> QED BY <1>4, <2>3, <3>1, <4>1
    <3>3. CASE P = <<Task("drop", st.t), Task("cascade", st.t)>>
      <4>1. n = 2 /\ P[1].t = st.t /\ P[2] = Task("cascade", st.t) /\ P[2].do # "drop"
        BY <2>1, <3>3 DEF IsPushed, Task
      <4>2. i = 1
        BY <1>4, <2>3, <3>1, <4>1
      <4>3. 2 \in DOMAIN q /\ q[2] = P[2]
        BY <2>1, <4>1 DEF IsPushed
      <4> QED BY <3>1, <4>1, <4>2, <4>3
    <3> QED BY <1>6, <3>2, <3>3 DEF Pushes
  <2>4. CASE i \notin 1 .. n
    <3>1. i \in (n + 1) .. Len(q)
      BY <2>1, <2>2, <2>4 DEF IsPushed
    <3>2. PICK k : k = (i - n) + 1
      OBVIOUS
    <3>3. k \in DOMAIN w /\ q[i] = w[k]
      BY <2>1, <3>1, <3>2 DEF IsPushed
    <3>4. k + 1 \in DOMAIN w /\ w[k + 1] = Task("cascade", q[i].t)
      BY <1>3, <1>4, <3>3
    <3>5. k \in Nat /\ k + 1 # 1 /\ ((k + 1) - 1) + n = i + 1
      BY <2>2, <3>1, <3>2
    <3>6. i + 1 \in DOMAIN q /\ q[i + 1] = w[k + 1]
      BY <2>1, <3>4, <3>5 DEF IsPushed
    <3> QED BY <3>4, <3>6
  <2> QED BY <2>3, <2>4
<1>7. CASE \A k \in DOMAIN q : q[k].do \in {"insert", "delete", "bare"}
  BY <1>4, <1>7
<1> QED BY <1>1, <1>2, <1>5, <1>6, <1>7, ListStep DEF ListGoesOn

LEMMA PutsKept ==
  ASSUME NEW x, NEW st, NEW y, Steps(x, st, y), Sound(x, links, task), NEW t \in LinkTasks,
         PutsWhereHeld(x, task, t)
  PROVE  PutsWhereHeld(y, task, t)
<1>1. /\ x.todo # <<>> /\ st = Head(x.todo) /\ Effect(x, st, y)
      /\ x.locks \in [LinkTasks -> MODES]
      /\ st.do \notin {"company", "unlink", "move"} => st.t \in LinkTasks
  BY KindOf DEF Steps
<1>2. MeetsNext(x, t) => st.do = "foreign_key" /\ st.t = t
  BY <1>1 DEF MeetsNext, Task
<1>3. ASSUME y.inserted \subseteq x.inserted, st.do # "foreign_key",
             x.locks[t] # "none" => y.locks[t] # "none"
      PROVE  PutsWhereHeld(y, task, t)
  BY <1>2, <1>3 DEF PutsWhereHeld
<1>4. CASE st.do = "task" /\ TakesTask(x, st, y)
  <2>1. x.locks[t] # "none" => y.locks[t] # "none"
    BY <1>1, <1>4 DEF TakesTask
  <2> QED BY <1>3, <1>4, <2>1 DEF TakesTask, SameWork
<1>5. CASE st.do = "drop" /\ DropsIt(x, st, y)
  <2>1. x.locks[t] # "none" => y.locks[t] # "none"
    BY <1>1, <1>5 DEF DropsIt
  <2> QED BY <1>3, <1>5, <2>1 DEF DropsIt
<1>6. CASE st.do = "foreign_key" /\ Meets(x, st, y)
  <2>1. y.inserted = x.inserted /\ TaskIn(x, task, st.t) # "gone"
    BY <1>6 DEF Meets, SameWork
  <2>2. st.t = t => y.locks[t] # "none"
    BY <1>1, <1>6 DEF Meets, Stronger
  <2>3. st.t # t => y.locks[t] = x.locks[t]
    BY <1>1, <1>6 DEF Meets
  <2>4. st.t = t => task[t] # "gone"
    BY <2>1 DEF Sound, WrittenLocked, TaskIn
  <2> QED BY <1>2, <2>1, <2>2, <2>3, <2>4 DEF PutsWhereHeld
<1>7. CASE st.do = "insert" /\ Inserts(x, st, y)
  <2>1. CASE st.t = t
    <3>1. PICK P, f : f = Task("foreign_key", t) /\ P = <<f>>
      OBVIOUS
    <3>2. y.todo = P \o Tail(x.todo) /\ Pushes(P, t)
      BY <1>7, <2>1, <3>1 DEF Inserts, Pushes
    <3>3. PICK w, q : w = x.todo /\ q = P \o Tail(w)
      OBVIOUS
    <3>4. w \in Seq(STATEMENTS) /\ w # <<>> /\ y.todo = q
      BY <1>1, <3>2, <3>3, KindOf
    <3>5. PICK n : IsPushed(w, P, q, n)
      BY <3>2, <3>3, <3>4, PushAt
    <3>6. Len(P) = 1 /\ P[1] = f
      BY <3>1
    <3>7. q \in Seq(STATEMENTS) /\ 1 \in DOMAIN q /\ q[1] = f
      BY <3>5, <3>6 DEF IsPushed
    <3>8. q # <<>> /\ Head(q) = f
      BY <3>7
    <3> QED BY <3>1, <3>4, <3>8 DEF PutsWhereHeld, MeetsNext
  <2>2. CASE st.t # t
    <3>1. (\E l \in y.inserted : l[1] = t) => \E l \in x.inserted : l[1] = t
      BY <1>7, <2>2 DEF Inserts
    <3>2. y.locks = x.locks
      BY <1>7 DEF Inserts, SameChecks
    <3> QED BY <1>2, <1>7, <3>1, <3>2 DEF PutsWhereHeld
  <2> QED BY <2>1, <2>2
<1>8. CASE y.inserted \subseteq x.inserted /\ st.do # "foreign_key" /\ y.locks = x.locks
  BY <1>3, <1>8
<1> QED BY <1>1, <1>4, <1>5, <1>6, <1>7, <1>8
     DEF Effect, Checks, Marks, SkipsOn, Deletes, TakesCompany, Loops, SetsOut, FoundBare,
         LosesLinks, SameWork, SameChecks

(* A statement waiting behind the head is still there after it.             *)
LEMMA StaysListed ==
  ASSUME NEW x, NEW st, NEW y, Steps(x, st, y), NEW c, c # st,
         \E i \in DOMAIN x.todo : x.todo[i] = c,
         st.do \notin {"move", "unlink"}
  PROVE  \E i \in DOMAIN y.todo : y.todo[i] = c
<1>1. PICK w, q : w = x.todo /\ q = y.todo
  OBVIOUS
<1>2. /\ w \in Seq(STATEMENTS) /\ w # <<>> /\ 1 \in DOMAIN w /\ w[1] = st
      /\ st.do \notin {"company", "unlink", "move"} => st.t \in LinkTasks
  BY <1>1, KindOf DEF Steps
<1>3. PICK i \in DOMAIN w \ {1} : w[i] = c
  BY <1>1, <1>2
<1>4. CASE q = Tail(w)
  <2>1. IsTail(w, q)
    BY <1>2, <1>4, TailAt
  <2>2. i - 1 \in DOMAIN q /\ (i - 1) + 1 = i
    BY <1>3, <2>1 DEF IsTail
  <2>3. q[i - 1] = w[i]
    BY <2>1, <2>2 DEF IsTail
  <2> QED BY <1>1, <1>3, <2>2, <2>3
<1>5. ASSUME NEW P, Pushes(P, st.t), q = P \o Tail(w), st.t \in LinkTasks
      PROVE  \E k \in DOMAIN y.todo : y.todo[k] = c
  <2>1. PICK n : IsPushed(w, P, q, n)
    BY <1>2, <1>5, PushAt
  <2>2. (i - 1) + n \in DOMAIN q /\ q[(i - 1) + n] = w[i]
    BY <1>3, <2>1 DEF IsPushed
  <2> QED BY <1>1, <1>3, <2>2
<1>6. \/ y.todo = Tail(x.todo)
      \/ \E P : Pushes(P, st.t) /\ y.todo = P \o Tail(x.todo) /\ st.do \in {"insert", "bare"}
  <2>1. CASE st.do = "insert" /\ Inserts(x, st, y)
    BY <2>1 DEF Inserts, Pushes
  <2>2. CASE st.do = "bare" /\ FoundBare(x, st, y)
    BY <2>2 DEF FoundBare, SetsOut, Pushes
  <2>3. CASE y.todo = Tail(x.todo)
    BY <2>3
  <2> QED BY <2>1, <2>2, <2>3
       DEF Steps, Effect, TakesTask, Checks, Marks, Meets, SkipsOn, Deletes, TakesCompany,
           DropsIt, LosesLinks
<1> QED BY <1>1, <1>2, <1>4, <1>5, <1>6

LEMMA LoopsUnlocked ==
  ASSUME NEW x, NEW st, NEW y, Steps(x, st, y), Shaped(x), st.do \in {"move", "unlink"}
  PROVE  \A u \in LinkTasks : x.locks[u] = "none"
<1>1. 1 \in DOMAIN x.todo /\ x.todo[1] = st
  BY KindOf
<1>2. (\E t \in LinkTasks : OneTask(x, t)) => FALSE
  BY <1>1 DEF OneTask, KeepsTo, TaskDos, LinkDos
<1>3. Merges(x) => FALSE
  BY <1>1 DEF Merges, LinkDos
<1>4. Purges(x) => FALSE
  BY <1>1 DEF Purges
<1> QED BY <1>2, <1>3, <1>4 DEF Shaped, Collects

LEMMA BareKept ==
  ASSUME NEW x, NEW st, NEW y, Steps(x, st, y), Sound(x, links, task), Shaped(x),
         DropsLinks(x), NEW t \in LinkTasks, GoesBare(x, links, t)
  PROVE  GoesBare(y, links, t)
<1> SUFFICES ASSUME t \in DOMAIN y.writes, y.writes[t] = "gone"
             PROVE  \/ \E i \in DOMAIN y.todo : y.todo[i] = Task("cascade", t)
                    \/ MeetsNext(y, t)
                    \/ \A l \in LinksIn(y, links) : l[1] # t
  BY DEF GoesBare
<1>1. /\ x.todo # <<>> /\ st = Head(x.todo) /\ Effect(x, st, y) /\ 1 \in DOMAIN x.todo
      /\ x.todo \in Seq(STATEMENTS) /\ x.todo[1] = st
      /\ x.locks \in [LinkTasks -> MODES] /\ st \in STATEMENTS
      /\ st.do \notin {"company", "unlink", "move"} => st.t \in LinkTasks
  BY KindOf DEF Steps
<1>2. CASE st.do \in {"drop"} /\ DropsIt(x, st, y) /\ st.t = t
  <2>1. PICK w, q : w = x.todo /\ q = Tail(w)
    OBVIOUS
  <2>2. IsTail(w, q)
    BY <1>1, <2>1, TailAt
  <2>3. 1 + 1 \in DOMAIN w /\ w[1 + 1] = Task("cascade", t)
    BY <1>1, <1>2, <2>1 DEF DropsLinks
  <2>4. 1 \in DOMAIN q
    BY <2>2, <2>3 DEF IsTail
  <2>5. q[1] = w[1 + 1]
    BY <2>2, <2>4 DEF IsTail
  <2>6. y.todo = q
    BY <1>2, <2>1 DEF DropsIt
  <2> QED BY <2>3, <2>4, <2>5, <2>6
<1>3. CASE t \notin DOMAIN x.writes \/ x.writes[t] # "gone"
  <2>1. \/ st.do = "drop" /\ DropsIt(x, st, y)
        \/ st.do \in {"to_trash", "restore"} /\ Marks(x, st, y)
        \/ y.writes = x.writes
    BY <1>1
    DEF Effect, TakesTask, Checks, Meets, SkipsOn, Inserts, Deletes, TakesCompany, Loops,
        SetsOut, FoundBare, LosesLinks, SameWork
  <2>2. st.t = t /\ st.do = "drop" /\ DropsIt(x, st, y)
    BY <1>3, <2>1 DEF DropsIt, Marks
  <2> QED BY <1>2, <2>2
<1>4. CASE t \in DOMAIN x.writes /\ x.writes[t] = "gone"
  <2>1. x.locks[t] = "update" /\ TaskIn(x, task, t) = "gone"
    BY <1>4 DEF Sound, WrittenLocked, TaskIn
  <2>2. st.do \notin {"move", "unlink"}
    BY <2>1, LoopsUnlocked
  <2>3. ~(st.do = "foreign_key" /\ st.t = t)
    BY <1>1, <2>1 DEF Effect, Meets
  <2>4. ~MeetsNext(x, t)
    BY <1>1, <2>3 DEF MeetsNext, Task
  <2>5. CASE (\E i \in DOMAIN x.todo : x.todo[i] = Task("cascade", t)) /\ st # Task("cascade", t)
    BY <2>2, <2>5, StaysListed
  <2>6. CASE st = Task("cascade", t)
    <3>1. st.do = "cascade" /\ st.t = t
      BY <2>6 DEF Task
    <3>2. LosesLinks(x, st, y)
      BY <1>1, <3>1 DEF Effect
    <3>3. \A l \in LinksIn(y, links) : l[1] # t
      BY <3>1, <3>2 DEF LosesLinks, LinksIn, Of
    <3> QED BY <3>3
  <2>7. CASE \A l \in LinksIn(x, links) : l[1] # t
    <3>1. CASE st.do = "insert" /\ Inserts(x, st, y) /\ st.t = t
      <4>1. (\E l \in y.inserted : l[1] = t)
        <5>1. <<st.t, st.r>> \in y.inserted /\ <<st.t, st.r>>[1] = t
          BY <3>1 DEF Inserts
        <5> QED BY <5>1
      <4>2. PICK P, f : f = Task("foreign_key", t) /\ P = <<f>>
        OBVIOUS
      <4>3. y.todo = P \o Tail(x.todo) /\ Pushes(P, t)
        BY <3>1, <4>2 DEF Inserts, Pushes
      <4>4. PICK w, q : w = x.todo /\ q = P \o Tail(w)
        OBVIOUS
      <4>5. w \in Seq(STATEMENTS) /\ w # <<>> /\ y.todo = q
        BY <1>1, <4>3, <4>4
      <4>6. PICK n : IsPushed(w, P, q, n)
        BY <4>3, <4>4, <4>5, PushAt
      <4>7. Len(P) = 1 /\ P[1] = f
        BY <4>2
      <4>8. q \in Seq(STATEMENTS) /\ 1 \in DOMAIN q /\ q[1] = f
        BY <4>6, <4>7 DEF IsPushed
      <4>9. q # <<>> /\ Head(q) = f
        BY <4>8
      <4> QED BY <4>2, <4>5, <4>9 DEF MeetsNext
    <3>2. CASE st.do = "insert" /\ Inserts(x, st, y) /\ st.t # t
      <4>1. y.deleted = x.deleted /\ y.inserted = x.inserted \cup {<<st.t, st.r>>}
        BY <3>2 DEF Inserts
      <4>2. \A l \in LinksIn(y, links) : l[1] # t
        BY <2>7, <3>2, <4>1 DEF LinksIn
      <4> QED BY <4>2
    <3>3. CASE y.inserted \subseteq x.inserted /\ x.deleted \subseteq y.deleted
      <4>1. \A l \in LinksIn(y, links) : l[1] # t
        BY <2>7, <3>3 DEF LinksIn
      <4> QED BY <4>1
    <3> QED BY <1>1, <3>1, <3>2, <3>3
         DEF Effect, TakesTask, Checks, Marks, Meets, SkipsOn, Deletes, TakesCompany, Loops,
             SetsOut, FoundBare, DropsIt, LosesLinks, SameWork
  <2> QED BY <1>4, <2>4, <2>5, <2>6, <2>7 DEF GoesBare
<1> QED BY <1>3, <1>4

LEMMA OrderlyOn ==
  ASSUME NEW x, NEW st, NEW y, Steps(x, st, y), Sound(x, links, task),
         Orderly(x, links, task)
  PROVE  Orderly(y, links, task)
<1>1. Shaped(y) /\ DropsLinks(y)
  BY ShapeKept, DropsKept DEF Orderly
<1>2. \A t \in LinkTasks : PutsWhereHeld(y, task, t) /\ GoesBare(y, links, t)
  BY PutsKept, BareKept DEF Orderly
<1> QED BY <1>1, <1>2 DEF Orderly

-----------------------------------------------------------------------------
(* WaitInv, step by step                                                    *)

Aside(s, y) == \A o \in Connections \ {s} : tx[o].open => Disjoint(y, tx[o])

LEMMA SessionOrderly ==
  ASSUME WaitInv, LinksInv', NEW s \in Connections, NEW y, tx' = [tx EXCEPT ![s] = y],
         UNCHANGED <<links, task>>, y.open => Orderly(y, links, task) /\ Aside(s, y)
  PROVE  WaitInv'
<1>1. tx'[s] = y /\ \A o \in Connections \ {s} : tx'[o] = tx[o]
  BY DEF WaitInv, LinksInv, LinksType
<1>2. links' = links /\ task' = task
  OBVIOUS
<1>3. ASSUME NEW o \in Connections, tx'[o].open
      PROVE  Orderly(tx'[o], links', task')
  <2>1. CASE o = s
    BY <1>1, <1>2, <1>3, <2>1
  <2>2. CASE o # s
    BY <1>1, <1>2, <1>3, <2>2 DEF WaitInv
  <2> QED BY <2>1, <2>2
<1>4. ASSUME NEW a \in Connections, NEW b \in Connections, a # b, tx'[a].open, tx'[b].open
      PROVE  Disjoint(tx'[a], tx'[b])
  <2>1. CASE a # s /\ b # s
    BY <1>1, <1>4, <2>1 DEF WaitInv
  <2>2. CASE a = s
    BY <1>1, <1>4, <2>2 DEF Aside
  <2>3. CASE b = s
    BY <1>1, <1>4, <2>3 DEF Aside, Disjoint
  <2> QED BY <2>1, <2>2, <2>3
<1>5. GoneBare(links', task')
  BY <1>2 DEF WaitInv
<1> QED BY <1>3, <1>4, <1>5 DEF WaitInv

LEMMA EndsOrderly ==
  ASSUME WaitInv, NEW s \in Connections, tx' = [tx EXCEPT ![s] = NoTx],
         UNCHANGED <<links, task>>
  PROVE  WaitInv'
<1>1. LinksInv'
  BY SessionEnds DEF WaitInv
<1>2. ~NoTx.open
  BY DEF NoTx
<1>3. PICK y : y = NoTx
  OBVIOUS
<1> QED BY <1>1, <1>2, <1>3, SessionOrderly

LEMMA AsideKept ==
  ASSUME NEW s \in Connections, NEW x, NEW st, NEW y, Steps(x, st, y), WaitsFor(s, st) = {},
         Aside(s, x)
  PROVE  Aside(s, y)
<1>1. Effect(x, st, y)
  BY DEF Steps
<1>2. ASSUME y.rows = x.rows, y.companies = x.companies
      PROVE  Aside(s, y)
  BY <1>2 DEF Aside, Disjoint
<1>3. CASE st.do \in {"insert", "delete"} /\ y.rows = x.rows \cup {<<st.t, st.r>>}
           /\ y.companies = x.companies
  <2>1. RowHolders(s, {<<st.t, st.r>>}) = {}
    BY <1>3 DEF WaitsFor
  <2>2. \A o \in Connections \ {s} : tx[o].open => <<st.t, st.r>> \notin tx[o].rows
    BY <2>1 DEF RowHolders, Others
  <2> QED BY <1>3, <2>2 DEF Aside, Disjoint
<1>4. CASE st.do = "company" /\ TakesCompany(x, st, y)
  <2>1. \A o \in Connections \ {s} : tx[o].open => st.r \notin tx[o].companies
    BY <1>4 DEF WaitsFor, Others
  <2>2. y.rows = x.rows /\ y.companies = x.companies \cup {st.r}
    BY <1>4 DEF TakesCompany
  <2> QED BY <2>1, <2>2 DEF Aside, Disjoint
<1> QED BY <1>1, <1>2, <1>3, <1>4
     DEF Effect, TakesTask, Checks, Marks, Meets, SkipsOn, Inserts, Deletes, Loops, SetsOut,
         FoundBare, DropsIt, LosesLinks, SameHolds

LEMMA OpenOrderly ==
  ASSUME WaitInv, NEW s \in Connections, tx[s].open
  PROVE  /\ tx[s] \in Tx /\ Sound(tx[s], links, task) /\ Compatible(s, tx[s])
         /\ Orderly(tx[s], links, task) /\ Aside(s, tx[s])
<1>1. /\ tx[s] \in Tx /\ Sound(tx[s], links, task) /\ Compatible(s, tx[s])
  BY OpenTx DEF WaitInv
<1>2. Orderly(tx[s], links, task)
  BY DEF WaitInv
<1>3. Aside(s, tx[s])
  BY DEF WaitInv, Aside
<1> QED BY <1>1, <1>2, <1>3

LEMMA statementOrderly ==
  ASSUME WaitInv, NEW s \in Connections, statement(s)
  PROVE  WaitInv'
<1>1. PICK x : x = tx[s]
  OBVIOUS
<1>2. PICK st : st = Head(x.todo)
  OBVIOUS
<1>3. /\ x.open /\ x.todo # <<>> /\ WaitsFor(s, st) = {} /\ UNCHANGED <<links, task>>
  BY <1>1, <1>2 DEF statement
<1>4. /\ x \in Tx /\ Sound(x, links, task) /\ Compatible(s, x)
      /\ Orderly(x, links, task) /\ Aside(s, x)
  BY <1>1, <1>3, OpenOrderly
<1>5. CASE After(Rest(x), st) = {}
  <2>1. tx' = [tx EXCEPT ![s] = NoTx]
    BY <1>1, <1>2, <1>5 DEF statement
  <2> QED BY <1>3, <2>1, EndsOrderly
<1>6. CASE After(Rest(x), st) # {}
  <2>1. PICK y \in After(Rest(x), st) : tx' = [tx EXCEPT ![s] = y]
    BY <1>1, <1>2, <1>6 DEF statement
  <2>2. Ready(s, x) /\ LinksInv
    BY <1>3, <1>4, SoundGoing DEF Ready, WaitInv
  <2>3. st \in STATEMENTS
    BY <1>2, <2>2, ReadyHead
  <2>4. y \in Tx
    BY <1>2, <1>3, <2>1, <2>2, StatementOnward DEF Onward
  <2>5. Effect(x, st, y)
    BY <1>2, <1>3, <1>4, <2>1, <2>2, <2>3, StatementEffect
  <2>6. Steps(x, st, y)
    BY <1>2, <1>3, <1>4, <2>3, <2>4, <2>5 DEF Steps
  <2>7. Orderly(y, links, task) /\ Aside(s, y)
    BY <1>3, <1>4, <2>6, OrderlyOn, AsideKept
  <2>8. LinksInv'
    BY <2>2, statementSound
  <2> QED BY <1>3, <2>1, <2>7, <2>8, SessionOrderly
<1> QED BY <1>5, <1>6

(* Once its statements are run, only checks are left of a transaction.      *)
LEMMA ChecksOrderly ==
  ASSUME NEW s, NEW x \in Tx, x.todo = <<>>, x.deferred # <<>>,
         Orderly(x, links, task), Aside(s, x),
         NEW y, y.todo = <<>>, y.deferred = Tail(x.deferred), y.inserted = x.inserted,
         y.deleted = x.deleted, y.writes = x.writes, y.rows = x.rows,
         y.companies = x.companies,
         y.locks = x.locks \/ y.locks = [x.locks EXCEPT ![Head(x.deferred).t] = Stronger(@, "no_key")]
  PROVE  Orderly(y, links, task) /\ Aside(s, y)
<1>1. Aside(s, y)
  BY DEF Aside, Disjoint
<1>2. /\ x.deferred \in Seq(CHECKS) /\ Head(x.deferred) = x.deferred[1] /\ 1 \in DOMAIN x.deferred
      /\ x.locks \in [LinkTasks -> MODES]
  BY EmptySeq DEF Tx
<1>3. \A i \in DOMAIN y.deferred : i + 1 \in DOMAIN x.deferred /\ y.deferred[i] = x.deferred[i + 1]
  BY <1>2, HeadTailProperties
<1>4. \A u \in LinkTasks : /\ u # Head(x.deferred).t => y.locks[u] = x.locks[u]
                           /\ x.locks[u] # "none" => y.locks[u] # "none"
  BY <1>2 DEF Stronger
<1>5. ASSUME NEW t \in LinkTasks, OneTask(x, t)
      PROVE  OneTask(y, t)
  <2>1. Head(x.deferred).t = t /\ \A i \in DOMAIN y.deferred : y.deferred[i].t = t
    BY <1>2, <1>3, <1>5 DEF OneTask
  <2>2. KeepsTo(y.todo, y.locks[t], y.rows, t)
    BY DEF KeepsTo
  <2> QED BY <1>4, <1>5, <2>1, <2>2 DEF OneTask
<1>6. ~Collects(x)
  BY BothTaken, OneTaken DEF Collects
<1>7. Shaped(y)
  BY <1>5, <1>6 DEF Orderly, Shaped, Merges, Purges
<1>8. DropsLinks(y)
  BY DEF DropsLinks
<1>9. ASSUME NEW t \in LinkTasks
      PROVE  PutsWhereHeld(y, task, t) /\ GoesBare(y, links, t)
  <2>1. PutsWhereHeld(x, task, t) /\ GoesBare(x, links, t)
    BY DEF Orderly
  <2>2. PutsWhereHeld(y, task, t)
    BY <1>4, <2>1 DEF PutsWhereHeld, MeetsNext
  <2>3. GoesBare(y, links, t)
    BY <2>1 DEF GoesBare, MeetsNext, LinksIn
  <2> QED BY <2>2, <2>3
<1> QED BY <1>1, <1>7, <1>8, <1>9 DEF Orderly

LEMMA checkOrderly ==
  ASSUME WaitInv, NEW s \in Connections, tasks_workspace_check(s)
  PROVE  WaitInv'
<1>1. PICK x : x = tx[s]
  OBVIOUS
<1>2. PICK st : st = Head(x.deferred)
  OBVIOUS
<1>3. /\ x.open /\ x.todo = <<>> /\ x.deferred # <<>> /\ UNCHANGED <<links, task>>
  BY <1>1, <1>2 DEF tasks_workspace_check
<1>4. x \in Tx /\ Orderly(x, links, task) /\ Aside(s, x)
  BY <1>1, <1>3, OpenOrderly
<1>5. LinksInv'
  BY checkSound DEF WaitInv
<1>6. PICK k : k = [x EXCEPT !.deferred = Tail(@)]
  OBVIOUS
<1>7. /\ k.todo = <<>> /\ k.deferred = Tail(x.deferred) /\ k.inserted = x.inserted
      /\ k.deleted = x.deleted /\ k.writes = x.writes /\ k.rows = x.rows
      /\ k.companies = x.companies /\ k.locks = x.locks
  BY <1>3, <1>4, <1>6 DEF Tx
<1>8. PICK z : z = Locks(k, st.t, "no_key")
  OBVIOUS
<1>9. /\ z.todo = <<>> /\ z.deferred = Tail(x.deferred) /\ z.inserted = x.inserted
      /\ z.deleted = x.deleted /\ z.writes = x.writes /\ z.rows = x.rows
      /\ z.companies = x.companies
      /\ z.locks = [x.locks EXCEPT ![Head(x.deferred).t] = Stronger(@, "no_key")]
  <2>1. k \in [DOMAIN x -> UNION {{k[f]} : f \in DOMAIN x}] /\ DOMAIN k = DOMAIN x
    BY <1>6
  <2>2. DOMAIN x = {"open", "todo", "deferred", "inserted", "deleted", "writes", "merging",
                    "locks", "rows", "companies"}
    BY <1>4 DEF Tx
  <2>3. z = [k EXCEPT !.locks = [k.locks EXCEPT ![st.t] = Stronger(@, "no_key")]]
    BY <1>8 DEF Locks
  <2> QED BY <1>2, <1>7, <2>1, <2>2, <2>3
<1>10. tx' = [tx EXCEPT ![s] = NoTx] \/ tx' = [tx EXCEPT ![s] = k] \/ tx' = [tx EXCEPT ![s] = z]
  BY <1>1, <1>2, <1>6, <1>8 DEF tasks_workspace_check, Judging
<1>11. CASE tx' = [tx EXCEPT ![s] = NoTx]
  BY <1>3, <1>11, EndsOrderly
<1>12. CASE tx' = [tx EXCEPT ![s] = k]
  <2>1. Orderly(k, links, task) /\ Aside(s, k)
    BY <1>3, <1>4, <1>7, ChecksOrderly
  <2> QED BY <1>3, <1>5, <1>12, <2>1, SessionOrderly
<1>13. CASE tx' = [tx EXCEPT ![s] = z]
  <2>1. Orderly(z, links, task) /\ Aside(s, z)
    BY <1>3, <1>4, <1>9, ChecksOrderly
  <2> QED BY <1>3, <1>5, <1>13, <2>1, SessionOrderly
<1> QED BY <1>10, <1>11, <1>12, <1>13

(* The lock a commit gives up has kept the others off what it changes.      *)
LEMMA OthersOrderly ==
  ASSUME NEW x \in Tx, Sound(x, links, task), x.todo = <<>>, Orderly(x, links, task),
         NEW z \in Tx, Sound(z, links, task), Orderly(z, links, task),
         \A t \in LinkTasks : ~Conflicts(z.locks[t], x.locks[t]),
         NEW ls, ls = LinksIn(x, links),
         NEW tk, tk = [t \in LinkTasks |-> TaskIn(x, task, t)]
  PROVE  Orderly(z, ls, tk)
<1>1. ASSUME NEW t \in LinkTasks
      PROVE  PutsWhereHeld(z, tk, t) /\ GoesBare(z, ls, t)
  <2>1. /\ WrittenLocked(x, task, t) /\ WrittenLocked(z, task, t)
        /\ PutsWhereHeld(x, task, t) /\ PutsWhereHeld(z, task, t) /\ GoesBare(z, links, t)
    BY DEF Sound, Orderly
  <2>2. ~Conflicts(z.locks[t], x.locks[t])
    OBVIOUS
  <2>3. z.locks[t] # "none" => tk[t] = task[t]
    BY <2>1, <2>2 DEF WrittenLocked, Conflicts, TaskIn
  <2>4. PutsWhereHeld(z, tk, t)
    BY <2>1, <2>3 DEF PutsWhereHeld
  <2>5. ASSUME z.locks[t] = "update"
        PROVE  \A l \in x.inserted : l[1] # t
    <3>1. x.locks[t] = "none"
      BY <2>2, <2>5 DEF Conflicts
    <3> QED BY <2>1, <3>1 DEF PutsWhereHeld, MeetsNext
  <2>6. z.locks[t] = "update" /\ (\A l \in LinksIn(z, links) : l[1] # t)
          => \A l \in LinksIn(z, ls) : l[1] # t
    BY <2>5 DEF LinksIn
  <2>7. GoesBare(z, ls, t)
    BY <2>1, <2>6 DEF GoesBare, WrittenLocked
  <2> QED BY <2>4, <2>7
<1> QED BY <1>1 DEF Orderly

LEMMA commitOrderly ==
  ASSUME WaitInv, NEW s \in Connections, commit(s)
  PROVE  WaitInv'
<1>1. PICK x : x = tx[s]
  OBVIOUS
<1>2. /\ x.open /\ x.todo = <<>> /\ x.deferred = <<>>
      /\ links' = LinksIn(x, links)
      /\ task' = [t \in LinkTasks |-> TaskIn(x, task, t)]
      /\ tx' = [tx EXCEPT ![s] = NoTx]
  BY <1>1 DEF commit, Seen, SeenTask, LinksIn, TaskIn
<1>3. x \in Tx /\ Sound(x, links, task) /\ Compatible(s, x) /\ Orderly(x, links, task)
  BY <1>1, <1>2, OpenOrderly
<1>4. tx'[s] = NoTx /\ \A o \in Connections \ {s} : tx'[o] = tx[o]
  BY <1>2 DEF WaitInv, LinksInv, LinksType
<1>5. ~NoTx.open
  BY DEF NoTx
<1>6. LinksInv'
  BY commitSound DEF WaitInv
<1>7. ASSUME NEW o \in Connections, tx'[o].open
      PROVE  Orderly(tx'[o], links', task')
  <2>1. o # s /\ tx'[o] = tx[o] /\ tx[o].open
    BY <1>4, <1>5, <1>7
  <2>2. tx[o] \in Tx /\ Sound(tx[o], links, task) /\ Orderly(tx[o], links, task)
    BY <2>1, OpenOrderly
  <2>3. \A t \in LinkTasks : ~Conflicts(tx[o].locks[t], x.locks[t])
    BY <1>3, <2>1 DEF Compatible
  <2> QED BY <1>2, <1>3, <2>1, <2>2, <2>3, OthersOrderly
<1>8. \A a, b \in Connections :
        a # b /\ tx'[a].open /\ tx'[b].open => Disjoint(tx'[a], tx'[b])
  BY <1>4, <1>5 DEF WaitInv
<1>9. GoneBare(links', task')
  <2> SUFFICES ASSUME NEW t \in LinkTasks, TaskIn(x, task, t) = "gone",
                      NEW l \in LinksIn(x, links), l[1] = t
               PROVE  FALSE
    BY <1>2 DEF GoneBare
  <2>1. GoesBare(x, links, t) /\ PutsWhereHeld(x, task, t)
    BY <1>3 DEF Orderly
  <2>2. CASE t \in DOMAIN x.writes /\ x.writes[t] = "gone"
    BY <1>2, <2>1, <2>2 DEF GoesBare, MeetsNext
  <2>3. CASE ~(t \in DOMAIN x.writes /\ x.writes[t] = "gone")
    <3>1. task[t] = "gone"
      BY <2>3 DEF TaskIn
    <3>2. l \notin links
      BY <3>1 DEF WaitInv, GoneBare
    <3>3. l \in x.inserted
      BY <3>2 DEF LinksIn
    <3> QED BY <1>2, <2>1, <3>1, <3>3 DEF PutsWhereHeld, MeetsNext
  <2> QED BY <2>2, <2>3
<1> QED BY <1>6, <1>7, <1>8, <1>9 DEF WaitInv

-----------------------------------------------------------------------------
(* The transactions as they open                                            *)

LEMMA OpensOrderly ==
  ASSUME WaitInv, LinksInv', NEW s \in Connections, NEW todo, Opens(s, todo),
         \A i \in DOMAIN todo :
           todo[i].do = "drop" => i + 1 \in DOMAIN todo /\ todo[i + 1] = Task("cascade", todo[i].t),
         \/ \E t \in LinkTasks : KeepsTo(todo, "none", {}, t)
         \/ \E a, b \in Records : \E m :
              /\ m.do = "move" /\ {m.keep, m.gone} = {a, b} /\ a < b
              /\ todo = <<Company(a), Company(b), m>>
         \/ \E m : m.do = "unlink" /\ m.r \in Records /\ todo = <<Company(m.r), m>>
  PROVE  WaitInv'
<1>1. PICK y : y = [open |-> TRUE, todo |-> todo, deferred |-> <<>>,
                    inserted |-> {}, deleted |-> {}, writes |-> [t \in {} |-> "live"],
                    merging |-> {}, locks |-> [t \in LinkTasks |-> "none"], rows |-> {},
                    companies |-> {}]
  OBVIOUS
<1>2. tx' = [tx EXCEPT ![s] = y] /\ UNCHANGED <<links, task>>
  BY <1>1 DEF Opens
<1>3. /\ y.todo = todo /\ y.deferred = <<>> /\ y.inserted = {} /\ DOMAIN y.writes = {}
      /\ y.rows = {} /\ y.companies = {} /\ \A t \in LinkTasks : y.locks[t] = "none"
  BY <1>1
<1>4. Shaped(y)
  <2>1. ASSUME NEW t \in LinkTasks, KeepsTo(todo, "none", {}, t)
        PROVE  OneTask(y, t)
    BY <1>3, <2>1 DEF OneTask
  <2>2. ASSUME NEW a \in Records, NEW b \in Records, NEW m, m.do = "move",
               {m.keep, m.gone} = {a, b}, a < b, todo = <<Company(a), Company(b), m>>
        PROVE  Collects(y)
    <3>1. TakesBoth(y, a, b, m)
      BY <1>3, <2>2 DEF TakesBoth
    <3> QED BY <1>3, <3>1 DEF Collects
  <2>3. ASSUME NEW m, m.do = "unlink", m.r \in Records, todo = <<Company(m.r), m>>
        PROVE  Collects(y)
    <3>1. TakesOne(y, m)
      BY <1>3, <2>3 DEF TakesOne
    <3> QED BY <1>3, <3>1 DEF Collects
  <2> QED BY <2>1, <2>2, <2>3 DEF Shaped
<1>5. DropsLinks(y)
  BY <1>3 DEF DropsLinks
<1>6. Orderly(y, links, task)
  BY <1>3, <1>4, <1>5 DEF Orderly, PutsWhereHeld, GoesBare
<1>7. Aside(s, y)
  BY <1>3 DEF Aside, Disjoint
<1> QED BY <1>2, <1>6, <1>7, SessionOrderly

LEMMA ListOfThree ==
  ASSUME NEW a, NEW b, NEW c, NEW q, q = <<a, b, c>>
  PROVE  DOMAIN q = {1, 2, 3} /\ Len(q) = 3 /\ q[1] = a /\ q[2] = b /\ q[3] = c
OBVIOUS

LEMMA ListOfOne ==
  ASSUME NEW a, NEW q, q = <<a>>
  PROVE  DOMAIN q = {1} /\ Len(q) = 1 /\ q[1] = a
OBVIOUS

NoDrop(todo) == \A i \in DOMAIN todo : todo[i].do # "drop"

LEMMA LinkKept ==
  ASSUME NEW t \in LinkTasks, NEW r \in Records, NEW accepts \in BOOLEAN, NEW do \in LinkDos,
         NEW todo, todo = Accepting(accepts, t) \o <<Link(do, t, r, TRUE)>>
  PROVE  KeepsTo(todo, "none", {}, t) /\ NoDrop(todo)
<1>1. PICK l : l = Link(do, t, r, TRUE)
  OBVIOUS
<1>2. l \in STATEMENTS /\ l.do = do /\ l.t = t
  BY <1>1 DEF Link, STATEMENTS, LinkDos
<1>3. PICK a, b : a = Task("task", t) /\ b = Task("accept", t)
  OBVIOUS
<1>4. a.do = "task" /\ b.do = "accept" /\ a.t = t /\ b.t = t
  BY <1>3, TaskIs
<1>5. todo = IF accepts THEN <<a, b, l>> ELSE <<l>>
  BY <1>1, <1>2, <1>3, AcceptedList
<1>6. CASE accepts
  <2>1. PICK q : q = <<a, b, l>>
    OBVIOUS
  <2>2. DOMAIN q = {1, 2, 3} /\ Len(q) = 3 /\ q[1] = a /\ q[2] = b /\ q[3] = l
    BY <2>1
  <2>3. todo = q
    BY <1>5, <1>6, <2>1
  <2>4. KeepsTo(q, "none", {}, t) /\ NoDrop(q)
    BY <1>2, <1>4, <2>2 DEF KeepsTo, NoDrop, TaskDos, LinkDos
  <2> QED BY <2>3, <2>4
<1>7. CASE ~accepts
  <2>1. todo = <<l>>
    BY <1>5, <1>7
  <2>2. DOMAIN todo = {1} /\ Len(todo) = 1 /\ todo[1] = l
    BY <2>1, ListOfOne
  <2> QED BY <1>2, <2>2 DEF KeepsTo, NoDrop, TaskDos, LinkDos
<1> QED BY <1>6, <1>7

LEMMA TrashKept ==
  ASSUME NEW t \in LinkTasks, NEW do \in {"to_trash", "restore"},
         NEW todo, todo = <<Task("task", t), Task(do, t)>>
  PROVE  KeepsTo(todo, "none", {}, t) /\ NoDrop(todo)
<1>1. DOMAIN todo = {1, 2} /\ Len(todo) = 2 /\ todo[1] = Task("task", t) /\ todo[2] = Task(do, t)
  OBVIOUS
<1>2. todo[1].do = "task" /\ todo[1].t = t /\ todo[2].do = do /\ todo[2].t = t
  BY <1>1, TaskIs
<1> QED BY <1>1, <1>2 DEF KeepsTo, NoDrop, TaskDos, LinkDos

DropCascades(todo) ==
  \A i \in DOMAIN todo :
    todo[i].do = "drop" => i + 1 \in DOMAIN todo /\ todo[i + 1] = Task("cascade", todo[i].t)

LEMMA PurgeKept ==
  ASSUME NEW t \in LinkTasks,
         NEW todo, todo = <<Task("task", t), Task("drop", t), Task("cascade", t)>>
  PROVE  KeepsTo(todo, "none", {}, t) /\ DropCascades(todo)
<1>1. PICK a, b, c : a = Task("task", t) /\ b = Task("drop", t) /\ c = Task("cascade", t)
  OBVIOUS
<1>2. todo = <<a, b, c>>
  BY <1>1
<1>3. /\ DOMAIN todo = {1, 2, 3} /\ Len(todo) = 3
      /\ todo[1] = a /\ todo[2] = b /\ todo[3] = c
  BY <1>2
<1>4. a.do = "task" /\ b.do = "drop" /\ c.do = "cascade" /\ a.t = t /\ b.t = t /\ c.t = t
  BY <1>1, TaskIs
<1>5. KeepsTo(todo, "none", {}, t)
  BY <1>3, <1>4 DEF KeepsTo, TaskDos, LinkDos
<1>6. DropCascades(todo)
  BY <1>1, <1>3, <1>4 DEF DropCascades
<1> QED BY <1>5, <1>6

LEMMA MinMaxOrdered ==
  ASSUME NEW a \in Records, NEW b \in Records, a # b,
         NEW lo, lo = Min({a, b}), NEW hi, hi = Max({a, b})
  PROVE  lo \in Records /\ hi \in Records /\ lo < hi /\ {a, b} = {lo, hi}
<1>1. a \in Int /\ b \in Int
  BY LinksAssumption
<1>2. \E x \in {a, b} : \A y \in {a, b} : x <= y
  BY <1>1
<1>3. \E x \in {a, b} : \A y \in {a, b} : x >= y
  BY <1>1
<1>4. lo \in {a, b} /\ \A y \in {a, b} : lo <= y
  BY <1>2 DEF Min
<1>5. hi \in {a, b} /\ \A y \in {a, b} : hi >= y
  BY <1>3 DEF Max
<1> QED BY <1>1, <1>4, <1>5

LEMMA NothingDropped ==
  ASSUME NEW todo, NoDrop(todo)
  PROVE  DropCascades(todo)
BY DEF NoDrop, DropCascades

LEMMA BeginsOrderly ==
  ASSUME WaitInv, NEW s \in Connections, Begins(s)
  PROVE  WaitInv'
<1>1. LinksInv'
  BY BeginsSound DEF WaitInv
<1>2. ASSUME NEW todo, Opens(s, todo), NEW t \in LinkTasks,
             KeepsTo(todo, "none", {}, t), DropCascades(todo)
      PROVE  WaitInv'
  <2>1. \A i \in DOMAIN todo :
          todo[i].do = "drop" =>
            i + 1 \in DOMAIN todo /\ todo[i + 1] = Task("cascade", todo[i].t)
    BY <1>2 DEF DropCascades
  <2> QED BY <1>1, <1>2, <2>1, OpensOrderly
<1>3. ASSUME NEW t \in LinkTasks, NEW r \in Records, NEW a \in BOOLEAN,
             add_link(s, t, r, a) \/ remove_link(s, t, r, a)
      PROVE  WaitInv'
  <2>1. PICK do \in LinkDos : Opens(s, Accepting(a, t) \o <<Link(do, t, r, TRUE)>>)
    BY <1>3 DEF add_link, remove_link, LinkDos
  <2>2. PICK todo : todo = Accepting(a, t) \o <<Link(do, t, r, TRUE)>>
    OBVIOUS
  <2>3. KeepsTo(todo, "none", {}, t) /\ NoDrop(todo)
    BY <2>2, LinkKept
  <2> QED BY <1>2, <2>1, <2>2, <2>3, NothingDropped
<1>4. ASSUME NEW t \in LinkTasks, trash_task(s, t) \/ untrash_task(s, t)
      PROVE  WaitInv'
  <2>1. PICK do \in {"to_trash", "restore"} : Opens(s, <<Task("task", t), Task(do, t)>>)
    BY <1>4 DEF trash_task, untrash_task
  <2>2. PICK todo : todo = <<Task("task", t), Task(do, t)>>
    OBVIOUS
  <2>3. KeepsTo(todo, "none", {}, t) /\ NoDrop(todo)
    BY <2>2, TrashKept
  <2> QED BY <1>2, <2>1, <2>2, <2>3, NothingDropped
<1>5. ASSUME NEW t \in LinkTasks, purge_task(s, t)
      PROVE  WaitInv'
  <2>1. PICK todo : todo = <<Task("task", t), Task("drop", t), Task("cascade", t)>>
    OBVIOUS
  <2>2. KeepsTo(todo, "none", {}, t) /\ DropCascades(todo)
    BY <2>1, PurgeKept
  <2> QED BY <1>2, <1>5, <2>1, <2>2 DEF purge_task
<1>6. ASSUME NEW keep \in Records, NEW gone \in Records, merge(s, keep, gone)
      PROVE  WaitInv'
  <2>1. PICK m : m = [do |-> "move", keep |-> keep, gone |-> gone]
    OBVIOUS
  <2>2. PICK lo, hi : lo = Min({keep, gone}) /\ hi = Max({keep, gone})
    OBVIOUS
  <2>3. keep # gone
    BY <1>6 DEF merge
  <2>4. lo \in Records /\ hi \in Records /\ lo < hi /\ {m.keep, m.gone} = {lo, hi} /\ m.do = "move"
    BY <2>1, <2>2, <2>3, MinMaxOrdered
  <2>5. PICK p, q : p = Company(lo) /\ q = Company(hi)
    OBVIOUS
  <2>6. PICK todo : todo = <<p, q, m>>
    OBVIOUS
  <2>7. Opens(s, todo)
    BY <1>6, <2>1, <2>2, <2>5, <2>6 DEF merge
  <2>8. DOMAIN todo = {1, 2, 3} /\ todo[1] = p /\ todo[2] = q /\ todo[3] = m
    BY <2>6
  <2>9. p.do = "company" /\ q.do = "company"
    BY <2>5 DEF Company
  <2>10. \A i \in DOMAIN todo :
           todo[i].do = "drop" =>
             i + 1 \in DOMAIN todo /\ todo[i + 1] = Task("cascade", todo[i].t)
    BY <2>4, <2>8, <2>9
  <2> QED BY <1>1, <2>4, <2>5, <2>6, <2>7, <2>10, OpensOrderly
<1>7. ASSUME NEW r \in Records, purge_record(s, r)
      PROVE  WaitInv'
  <2>1. PICK m : m = [do |-> "unlink", r |-> r]
    OBVIOUS
  <2>2. m.do = "unlink" /\ m.r \in Records /\ m.r = r
    BY <2>1
  <2>3. PICK p : p = Company(r)
    OBVIOUS
  <2>4. PICK todo : todo = <<p, m>>
    OBVIOUS
  <2>5. Opens(s, todo)
    BY <1>7, <2>1, <2>3, <2>4 DEF purge_record
  <2>6. DOMAIN todo = {1, 2} /\ todo[1] = p /\ todo[2] = m /\ p.do = "company"
    BY <2>3, <2>4 DEF Company
  <2>7. \A i \in DOMAIN todo :
           todo[i].do = "drop" =>
             i + 1 \in DOMAIN todo /\ todo[i + 1] = Task("cascade", todo[i].t)
    BY <2>2, <2>6
  <2> QED BY <1>1, <2>2, <2>3, <2>4, <2>5, <2>7, OpensOrderly
<1> QED BY <1>3, <1>4, <1>5, <1>6, <1>7 DEF Begins

(* What the statements to come of each open transaction can still reach for, *)
(* which links and companies it holds against the others, and that a task   *)
(* that went took its links along.                                          *)
THEOREM WaitInvariant == LinksSpec => []WaitInv
<1>1. LinksInit => WaitInv
  <2> SUFFICES ASSUME LinksInit
               PROVE  WaitInv
    OBVIOUS
  <2>1. LinksInv
    BY LinksStart
  <2>2. \A s \in Connections : ~tx[s].open
    BY DEF LinksInit, NoTx
  <2>3. GoneBare(links, task)
    BY DEF LinksInit, GoneBare
  <2> QED BY <2>1, <2>2, <2>3 DEF WaitInv
<1>2. WaitInv /\ [LinksNext]_linkVars => WaitInv'
  <2> SUFFICES ASSUME WaitInv, [LinksNext]_linkVars
               PROVE  WaitInv'
    OBVIOUS
  <2>1. ASSUME NEW s \in Connections, deadlock_detected(s)
        PROVE  WaitInv'
    BY <2>1, EndsOrderly DEF deadlock_detected
  <2>2. CASE UNCHANGED linkVars
    <3>1. links' = links /\ task' = task /\ tx' = tx
      BY <2>2 DEF linkVars
    <3>2. LinksInv'
      BY <3>1 DEF WaitInv, LinksInv, LinksType, Exclusive, AllSound, KeepsLink
    <3>3. ASSUME NEW s \in Connections, tx'[s].open
          PROVE  Orderly(tx'[s], links', task')
      BY <3>1, <3>3 DEF WaitInv
    <3>4. \A s, o \in Connections : s # o /\ tx'[s].open /\ tx'[o].open => Disjoint(tx'[s], tx'[o])
      BY <3>1 DEF WaitInv
    <3>5. GoneBare(links', task')
      BY <3>1 DEF WaitInv
    <3> QED BY <3>2, <3>3, <3>4, <3>5 DEF WaitInv
  <2> QED BY <2>1, <2>2, BeginsOrderly, statementOrderly, checkOrderly, commitOrderly
       DEF LinksNext
<1> QED BY <1>1, <1>2, PTL DEF LinksSpec

-----------------------------------------------------------------------------
(* Two sessions that wait for each other                                    *)

(* What a session is about to do: its next statement, or once those are run *)
(* its next check.                                                          *)
IsNext(x, st) ==
  \/ x.todo # <<>> /\ st = Head(x.todo) /\ 1 \in DOMAIN x.todo /\ st = x.todo[1]
     /\ st \in STATEMENTS
  \/ x.todo = <<>> /\ 1 \in DOMAIN x.deferred /\ st = x.deferred[1] /\ st \in CHECKS

(* That it waits for what z holds.                                          *)
StuckOn(st, z) ==
  \/ st.do \in {"task", "drop"} /\ st.t \in LinkTasks /\ Conflicts(z.locks[st.t], "update")
  \/ st.do = "foreign_key" /\ st.t \in LinkTasks /\ Conflicts(z.locks[st.t], "key_share")
  \/ st.do = "judge" /\ st.t \in LinkTasks /\ Conflicts(z.locks[st.t], "no_key")
  \/ st.do \in LinkDos /\ st.t \in LinkTasks /\ st.r \in Records /\ <<st.t, st.r>> \in z.rows
  \/ st.do = "cascade" /\ st.t \in LinkTasks /\ \E l \in links : l[1] = st.t
  \/ st.do = "company" /\ st.r \in z.companies

(* It reaches for a link of a task whose row it took.                       *)
HeldFirst(x, st) == st.do \in {"insert", "delete", "cascade"} /\ x.locks[st.t] = "update"

Facing(x, st, z) ==
  /\ x \in Tx /\ z \in Tx /\ Sound(x, links, task) /\ Orderly(x, links, task)
  /\ IsNext(x, st) /\ StuckOn(st, z) /\ ~HeldFirst(x, st)
  /\ Disjoint(x, z) /\ \A t \in LinkTasks : ~Conflicts(x.locks[t], z.locks[t])

(* x about to do a, and z about to do b, wait for each other.               *)
Meeting(x, a, z, b) == Facing(x, a, z) /\ Facing(z, b, x) /\ GoneBare(links, task)

LEMMA NextKind ==
  ASSUME NEW x, NEW st, IsNext(x, st)
  PROVE  /\ st.do \notin {"company", "unlink", "move"} => st.t \in LinkTasks
         /\ st.do \in {"insert", "delete", "company", "unlink"} => st.r \in Records
         /\ x.todo # <<>> => st.do # "judge"
         /\ x.todo = <<>> => st.do \in {"check", "judge"}
<1>1. CASE st \in STATEMENTS /\ x.todo # <<>>
  <2>1. st.do \in {"task", "accept", "to_trash", "restore", "foreign_key", "bare", "drop",
                   "cascade", "insert", "delete", "company", "unlink", "move"}
    BY <1>1 DEF STATEMENTS, OnTask
  <2> QED BY <1>1, <2>1, StatementKinds
<1>2. CASE st \in CHECKS /\ x.todo = <<>>
  BY <1>2 DEF CHECKS
<1> QED BY <1>1, <1>2 DEF IsNext

LEMMA StuckAt ==
  ASSUME NEW s \in Connections, NEW o \in Connections, NEW x, NEW st, IsNext(x, st),
         o \in WaitsFor(s, st)
  PROVE  o # s /\ tx[o].open /\ StuckOn(st, tx[o])
<1>1. o \in Others(s)
  BY DEF WaitsFor, TaskHolders, RowHolders
<1>2. o # s /\ tx[o].open
  BY <1>1 DEF Others
<1>3. /\ st.do \notin {"company", "unlink", "move"} => st.t \in LinkTasks
      /\ st.do \in {"insert", "delete", "company", "unlink"} => st.r \in Records
  BY NextKind
<1>4. CASE st.do \in {"task", "drop"}
  BY <1>2, <1>3, <1>4 DEF WaitsFor, TaskHolders, StuckOn
<1>5. CASE st.do = "foreign_key"
  BY <1>2, <1>3, <1>5 DEF WaitsFor, TaskHolders, StuckOn
<1>6. CASE st.do = "judge"
  BY <1>2, <1>3, <1>6 DEF WaitsFor, TaskHolders, StuckOn, Judging
<1>7. CASE st.do \in {"insert", "delete"}
  <2>1. o \in RowHolders(s, {<<st.t, st.r>>})
    BY <1>7 DEF WaitsFor
  <2> QED BY <1>2, <1>3, <1>7, <2>1 DEF RowHolders, StuckOn, LinkDos
<1>8. CASE st.do = "cascade"
  <2>1. Of(st.t) # {}
    BY <1>8 DEF WaitsFor, RowHolders
  <2> QED BY <1>2, <1>3, <1>8, <2>1 DEF Of, StuckOn
<1>9. CASE st.do = "company"
  BY <1>2, <1>9 DEF WaitsFor, StuckOn
<1>10. CASE st.do \notin {"task", "drop", "foreign_key", "judge", "insert", "delete", "cascade",
                          "company"}
  BY <1>10 DEF WaitsFor
<1> QED BY <1>2, <1>4, <1>5, <1>6, <1>7, <1>8, <1>9, <1>10

(* The links of a task that goes are nobody's but under the task's own row. *)
LEMMA CascadeFirst ==
  ASSUME GoneBare(links, task), NEW x, NEW st, NEW z, Facing(x, st, z)
  PROVE  st.do # "cascade"
<1> SUFFICES ASSUME st.do = "cascade"
             PROVE  FALSE
  OBVIOUS
<1>1. x.todo # <<>> /\ 1 \in DOMAIN x.todo /\ st = x.todo[1] /\ st \in STATEMENTS
  BY NextKind DEF Facing, IsNext
<1>2. st \in OnTask /\ st.t \in LinkTasks
  BY <1>1 DEF STATEMENTS, OnTask
<1>3. st = Task("cascade", st.t)
  BY <1>2 DEF OnTask, Task
<1>4. InOrder(x, task, st.t) /\ WrittenLocked(x, task, st.t)
  BY <1>2 DEF Facing, Sound
<1>5. TaskIn(x, task, st.t) = "gone"
  BY <1>1, <1>3, <1>4 DEF InOrder
<1>6. CASE st.t \in DOMAIN x.writes
  BY <1>4, <1>6 DEF WrittenLocked, Facing, HeldFirst
<1>7. CASE st.t \notin DOMAIN x.writes
  <2>1. task[st.t] = "gone"
    BY <1>5, <1>7 DEF TaskIn
  <2>2. \A l \in links : l[1] # st.t
    BY <1>2, <2>1 DEF GoneBare
  <2> QED BY <2>2 DEF Facing, StuckOn, LinkDos
<1> QED BY <1>6, <1>7

(* Whoever is waited for holds something. *)
Idle(x) == x.companies = {} /\ x.rows = {} /\ \A t \in LinkTasks : x.locks[t] = "none"

LEMMA IdleBlocksNobody ==
  ASSUME NEW st, NEW x, StuckOn(st, x), st.do # "cascade"
  PROVE  ~Idle(x)
BY DEF StuckOn, Idle, Conflicts

(* Who still collects the companies waits for no more than the greater one, *)
(* and keeps nobody off anything but the lesser.                            *)
LEMMA CollectorWaits ==
  ASSUME NEW x, NEW st, NEW z, Collects(x), IsNext(x, st), StuckOn(st, z), x.companies # {}
  PROVE  \E a, b \in Records : a < b /\ x.companies = {a} /\ st = Company(b)
<1>1. x.todo # <<>> /\ st = Head(x.todo)
  BY BothTaken, OneTaken DEF Collects, IsNext
<1>2. ASSUME NEW m, m.do \in {"move", "unlink"}
      PROVE  st # m
  BY <1>2 DEF StuckOn, LinkDos
<1>3. ASSUME NEW a \in Records, NEW b \in Records, NEW m, TakesBoth(x, a, b, m)
      PROVE  a < b /\ x.companies = {a} /\ st = Company(b)
  <2>1. m.do = "move" /\ a < b
    BY <1>3 DEF TakesBoth
  <2> QED BY <1>1, <1>2, <1>3, <2>1, BothTaken
<1>4. ASSUME NEW m, TakesOne(x, m)
      PROVE  FALSE
  <2>1. m.do = "unlink"
    BY <1>4 DEF TakesOne
  <2> QED BY <1>1, <1>2, <1>4, <2>1, OneTaken
<1> QED BY <1>3, <1>4 DEF Collects

LEMMA OnlyCompanies ==
  ASSUME NEW x, NEW st, Collects(x), StuckOn(st, x), st.do # "cascade"
  PROVE  st.do = "company" /\ st.r \in x.companies
BY DEF Collects, StuckOn, Conflicts

LEMMA CompanyCollects ==
  ASSUME NEW x, NEW st, IsNext(x, st), Shaped(x), st.do = "company"
  PROVE  Collects(x)
<1>1. 1 \in DOMAIN x.todo /\ x.todo[1].do = "company"
  BY NextKind DEF IsNext
<1> QED BY <1>1 DEF Shaped, OneTask, KeepsTo, Merges, Purges, TaskDos, LinkDos

LEMMA NoneCollects ==
  ASSUME NEW x, NEW a, NEW z, NEW b, Meeting(x, a, z, b)
  PROVE  ~Collects(x) /\ a.do # "company"
<1>1. a.do # "cascade" /\ b.do # "cascade"
  BY CascadeFirst DEF Meeting
<1>2. IsNext(x, a) /\ IsNext(z, b) /\ Shaped(x) /\ Shaped(z) /\ StuckOn(a, z) /\ StuckOn(b, x)
  BY DEF Meeting, Facing, Orderly
<1>3. a.do = "company" => Collects(x)
  BY <1>2, CompanyCollects
<1> SUFFICES ASSUME Collects(x)
             PROVE  FALSE
  BY <1>3
<1>4. b.do = "company" /\ b.r \in x.companies
  BY <1>1, <1>2, OnlyCompanies
<1>5. Collects(z)
  BY <1>2, <1>4, CompanyCollects
<1>6. a.do = "company" /\ a.r \in z.companies
  BY <1>1, <1>2, <1>5, OnlyCompanies
<1>7. PICK p, q \in Records : p < q /\ x.companies = {p} /\ a = Company(q)
  BY <1>2, <1>4, CollectorWaits
<1>8. PICK u, v \in Records : u < v /\ z.companies = {u} /\ b = Company(v)
  BY <1>2, <1>5, <1>6, CollectorWaits
<1>9. q = u /\ v = p
  BY <1>4, <1>6, <1>7, <1>8 DEF Company
<1> QED BY <1>7, <1>8, <1>9, LinksAssumption

(* A task's row is waited for only before anything is held.                 *)
LEMMA NoneTakesTask ==
  ASSUME NEW x, NEW a, NEW z, NEW b, Meeting(x, a, z, b)
  PROVE  a.do # "task"
<1> SUFFICES ASSUME a.do = "task"
             PROVE  FALSE
  OBVIOUS
<1>1. b.do # "cascade" /\ StuckOn(b, x)
  BY CascadeFirst DEF Meeting, Facing
<1>2. 1 \in DOMAIN x.todo /\ x.todo[1].do = "task"
  BY NextKind DEF Meeting, Facing, IsNext
<1>3. PICK t \in LinkTasks : OneTask(x, t)
  BY <1>2, NoneCollects DEF Meeting, Facing, Orderly, Shaped, Merges, Purges, LinkDos
<1>4. x.locks[t] = "none" /\ x.rows = {}
  BY <1>2, <1>3 DEF OneTask, KeepsTo
<1>5. Idle(x)
  BY <1>3, <1>4 DEF Idle, OneTask
<1> QED BY <1>1, <1>5, IdleBlocksNobody

(* A link is waited for only by who holds nothing that keeps its holder.    *)
LEMMA NoneTakesLink ==
  ASSUME NEW x, NEW a, NEW z, NEW b, Meeting(x, a, z, b)
  PROVE  a.do \notin LinkDos
<1> SUFFICES ASSUME a.do \in LinkDos
             PROVE  FALSE
  OBVIOUS
<1>1. b.do # "cascade" /\ StuckOn(b, x) /\ IsNext(z, b)
  BY CascadeFirst DEF Meeting, Facing
<1>2. 1 \in DOMAIN x.todo /\ x.todo[1] = a /\ a.t \in LinkTasks
  BY NextKind DEF Meeting, Facing, IsNext, LinkDos
<1>3. <<a.t, a.r>> \in z.rows
  BY DEF Meeting, Facing, StuckOn, LinkDos
<1>4. x.locks \in [LinkTasks -> MODES] /\ x.locks[a.t] # "update"
  BY DEF Meeting, Facing, HeldFirst, LinkDos, Tx
<1>5. ASSUME NEW t \in LinkTasks, OneTask(x, t)
      PROVE  FALSE
  <2>1. a.t = t /\ x.locks[t] \in {"none", "update"} /\ x.rows = {}
    BY <1>2, <1>5 DEF OneTask, KeepsTo, LinkDos
  <2>2. Idle(x)
    BY <1>4, <1>5, <2>1 DEF Idle, OneTask
  <2> QED BY <1>1, <2>2, IdleBlocksNobody
<1>6. CASE Merges(x) \/ Purges(x)
  <2>1. a.r \in x.companies /\ x.locks[a.t] \in {"none", "key_share"}
    BY <1>2, <1>6 DEF Merges, Purges, LinkDos
  <2>2. a.r \notin z.companies
    BY <2>1 DEF Meeting, Facing, Disjoint
  <2>3. PICK t \in LinkTasks : OneTask(z, t)
    <3>1. ~Collects(z)
      BY <1>3 DEF Collects
    <3>2. ~Merges(z) /\ ~Purges(z)
      BY <1>3, <2>2 DEF Merges, Purges
    <3> QED BY <3>1, <3>2 DEF Meeting, Facing, Orderly, Shaped
  <2>4. a.t = t
    BY <1>3, <2>3 DEF OneTask
  <2>5. CASE z.todo # <<>>
    <3>1. 1 \in DOMAIN z.todo /\ z.todo[1] = b
      BY <1>1, <2>5 DEF IsNext
    <3>2. b.do = "foreign_key" /\ b.t = t
      BY <1>3, <2>3, <3>1 DEF OneTask, KeepsTo
    <3> QED BY <1>1, <2>1, <2>4, <3>2 DEF StuckOn, Conflicts, LinkDos
  <2>6. CASE z.todo = <<>>
    <3>1. b.t = t /\ b.do \in {"check", "judge"}
      BY <1>1, <2>3, <2>6, NextKind DEF IsNext, OneTask
    <3> QED BY <1>1, <2>1, <2>4, <3>1 DEF StuckOn, Conflicts, LinkDos
  <2> QED BY <2>5, <2>6
<1>7. Shaped(x)
  BY DEF Meeting, Facing, Orderly
<1> QED BY <1>5, <1>6, <1>7, NoneCollects DEF Shaped

(* What is left: a task to drop, to meet or to judge.                       *)
LEMMA WaitAtTasks ==
  ASSUME NEW x, NEW a, NEW z, NEW b, Meeting(x, a, z, b)
  PROVE  /\ a.do \in {"drop", "foreign_key", "judge"} /\ a.t \in LinkTasks
         /\ z.locks[a.t] # "none"
<1>1. a.do # "cascade" /\ StuckOn(a, z)
  BY CascadeFirst DEF Meeting, Facing
<1> QED BY <1>1, NoneCollects, NoneTakesTask, NoneTakesLink DEF StuckOn, Conflicts

LEMMA BothWays ==
  ASSUME NEW x, NEW a, NEW z, NEW b, Meeting(x, a, z, b)
  PROVE  Meeting(z, b, x, a)
BY DEF Meeting

LEMMA NotForDrop ==
  ASSUME NEW x, NEW a, NEW z, NEW b, Meeting(x, a, z, b), a.do = "drop", a.t = b.t
  PROVE  FALSE
<1>1. a.t \in LinkTasks /\ z.locks[a.t] # "none" /\ x.locks[a.t] # "none"
  BY WaitAtTasks, BothWays
<1>2. 1 \in DOMAIN x.todo /\ x.todo[1] = a
  BY NextKind DEF Meeting, Facing, IsNext
<1>3. x.locks[a.t] = "update"
  <2>1. ASSUME NEW t \in LinkTasks, OneTask(x, t)
        PROVE  x.locks[a.t] = "update"
    BY <1>2, <2>1 DEF OneTask, KeepsTo
  <2>2. ~Merges(x)
    BY <1>2 DEF Merges, LinkDos
  <2>3. Purges(x) => x.locks[a.t] = "update"
    BY <1>1, <1>2 DEF Purges
  <2> QED BY <2>1, <2>2, <2>3, NoneCollects DEF Meeting, Facing, Orderly, Shaped
<1>4. ~Conflicts(x.locks[a.t], z.locks[a.t])
  BY <1>1 DEF Meeting, Facing
<1> QED BY <1>1, <1>3, <1>4 DEF Conflicts

LEMMA AtTwoTasks ==
  ASSUME NEW x, NEW a, NEW z, NEW b, Meeting(x, a, z, b)
  PROVE  a.t # b.t
<1> SUFFICES ASSUME a.t = b.t
             PROVE  FALSE
  OBVIOUS
<1>1. a.do \in {"foreign_key", "judge"} /\ b.do \in {"foreign_key", "judge"}
  BY WaitAtTasks, BothWays, NotForDrop
<1>2. a.t \in LinkTasks /\ StuckOn(a, z) /\ StuckOn(b, x)
      /\ ~Conflicts(x.locks[a.t], z.locks[a.t]) /\ ~Conflicts(z.locks[a.t], x.locks[a.t])
  BY WaitAtTasks DEF Meeting, Facing
<1> QED BY <1>1, <1>2 DEF StuckOn, Conflicts, LinkDos

(* Who keeps to one task holds and waits for nothing elsewhere.             *)
LEMMA ManyAtTwo ==
  ASSUME NEW x, NEW a, NEW z, NEW b, Meeting(x, a, z, b)
  PROVE  x.companies # {}
<1>1. ASSUME NEW t \in LinkTasks, OneTask(x, t)
      PROVE  FALSE
  <2>1. a.t = t
    BY <1>1 DEF Meeting, Facing, IsNext, OneTask, KeepsTo
  <2>2. b.t \in LinkTasks /\ x.locks[b.t] # "none"
    BY BothWays, WaitAtTasks
  <2>3. b.t = t
    BY <1>1, <2>2 DEF OneTask
  <2> QED BY <2>1, <2>3, AtTwoTasks
<1>2. Shaped(x)
  BY DEF Meeting, Facing, Orderly
<1> QED BY <1>1, <1>2, NoneCollects DEF Shaped, Merges, Purges

(* Who waits is about to do something. *)
LEMMA WaitingNext ==
  ASSUME NEW s \in Connections, tx[s] \in Tx, NEW o, o \in Waiting(s)
  PROVE  tx[s].open /\ IsNext(tx[s], Upcoming(s)) /\ o \in WaitsFor(s, Upcoming(s))
<1>1. PICK x : x = tx[s]
  OBVIOUS
<1>2. x.todo \in Seq(STATEMENTS) /\ x.deferred \in Seq(CHECKS)
  BY <1>1 DEF Tx
<1>3. /\ x.open /\ (x.todo # <<>> \/ x.deferred # <<>>)
      /\ o \in WaitsFor(s, Upcoming(s))
  BY <1>1 DEF Waiting
<1>4. CASE x.todo # <<>>
  <2>1. Upcoming(s) = Head(x.todo)
    BY <1>1, <1>4 DEF Upcoming
  <2>2. 1 \in DOMAIN x.todo /\ Head(x.todo) = x.todo[1] /\ x.todo[1] \in STATEMENTS
    BY <1>2, <1>4, EmptySeq
  <2> QED BY <1>1, <1>3, <1>4, <2>1, <2>2 DEF IsNext
<1>5. CASE x.todo = <<>>
  <2>1. Upcoming(s) = Head(x.deferred) /\ x.deferred # <<>>
    BY <1>1, <1>3, <1>5 DEF Upcoming
  <2>2. 1 \in DOMAIN x.deferred /\ Head(x.deferred) = x.deferred[1] /\ x.deferred[1] \in CHECKS
    BY <1>2, <2>1, EmptySeq
  <2> QED BY <1>1, <1>3, <1>5, <2>1, <2>2 DEF IsNext
<1> QED BY <1>4, <1>5

LEMMA DeadlockMeets ==
  ASSUME WaitInv, NEW s \in Connections, NEW o \in Connections, Deadlocked(s, o),
         ~TaskFirst(s), ~TaskFirst(o)
  PROVE  Meeting(tx[s], Upcoming(s), tx[o], Upcoming(o))
<1>1. tx[s].open /\ tx[o].open
  BY DEF Deadlocked, Waiting
<1>2. /\ tx[s] \in Tx /\ Sound(tx[s], links, task) /\ Orderly(tx[s], links, task)
      /\ Compatible(s, tx[s])
  BY <1>1, OpenOrderly
<1>3. /\ tx[o] \in Tx /\ Sound(tx[o], links, task) /\ Orderly(tx[o], links, task)
      /\ Compatible(o, tx[o])
  BY <1>1, OpenOrderly
<1>4. IsNext(tx[s], Upcoming(s)) /\ o \in WaitsFor(s, Upcoming(s))
  BY <1>2, WaitingNext DEF Deadlocked
<1>5. IsNext(tx[o], Upcoming(o)) /\ s \in WaitsFor(o, Upcoming(o))
  BY <1>3, WaitingNext DEF Deadlocked
<1>6. o # s /\ StuckOn(Upcoming(s), tx[o])
  BY <1>4, StuckAt
<1>7. StuckOn(Upcoming(o), tx[s])
  BY <1>5, StuckAt
<1>8. Disjoint(tx[s], tx[o]) /\ Disjoint(tx[o], tx[s]) /\ GoneBare(links, task)
  BY <1>1, <1>6 DEF WaitInv
<1>9. \A t \in LinkTasks : /\ ~Conflicts(tx[o].locks[t], tx[s].locks[t])
                           /\ ~Conflicts(tx[s].locks[t], tx[o].locks[t])
  BY <1>1, <1>2, <1>3, <1>6 DEF Compatible
<1>10. ~HeldFirst(tx[s], Upcoming(s)) /\ ~HeldFirst(tx[o], Upcoming(o))
  BY DEF TaskFirst, HeldFirst
<1>11. Facing(tx[s], Upcoming(s), tx[o])
  BY <1>2, <1>3, <1>4, <1>6, <1>8, <1>9, <1>10 DEF Facing
<1>12. Facing(tx[o], Upcoming(o), tx[s])
  BY <1>2, <1>3, <1>5, <1>7, <1>8, <1>9, <1>10 DEF Facing
<1> QED BY <1>8, <1>11, <1>12 DEF Meeting

(* Migration 057, for any number of sessions: two transactions wait for each *)
(* other only if one reaches for a link of a task whose row it took before, *)
(* or if both go through many tasks and are at two different ones.          *)
THEOREM DeadlocksAreKnown == LinksSpec => []OnlyKnownDeadlocks
<1>1. WaitInv => OnlyKnownDeadlocks
  <2> SUFFICES ASSUME WaitInv, NEW s \in Connections, NEW o \in Connections, Deadlocked(s, o),
                      ~TaskFirst(s), ~TaskFirst(o)
               PROVE  ManyTasks(s) /\ ManyTasks(o) /\ Upcoming(s).t # Upcoming(o).t
    BY DEF OnlyKnownDeadlocks
  <2>1. Meeting(tx[s], Upcoming(s), tx[o], Upcoming(o))
    BY DeadlockMeets
  <2>2. Meeting(tx[o], Upcoming(o), tx[s], Upcoming(s))
    BY <2>1, BothWays
  <2>3. tx[s].companies # {} /\ tx[o].companies # {} /\ Upcoming(s).t # Upcoming(o).t
    BY <2>1, <2>2, ManyAtTwo, AtTwoTasks
  <2> QED BY <2>3 DEF ManyTasks
<1> QED BY <1>1, WaitInvariant, PTL

-----------------------------------------------------------------------------
(* II. The shared table and its write path (Tasks)                          *)

(* A value of a changed column, as a handler puts it together.              *)
Typed(f, value) ==
  \/ Sendable(f, value)
  \/ f \in {"by", "accepted"} /\ value \in Users \cup {Nobody}
  \/ f = "series" /\ value \in TaskId
  \/ f = "spawned" /\ value = TRUE
  \/ f = "deleted" /\ value \in BOOLEAN
TypedChanges(changes) == \A f \in DOMAIN changes : Typed(f, changes[f])

(* A request between its read and its write.                                *)
Flight(q) ==
  /\ DOMAIN q = {"step", "user", "task", "changes", "following", "expects", "stale"}
  /\ q.step = "apply" /\ q.user \in Users /\ q.task \in TaskId
  /\ q.expects \in BOOLEAN /\ q.stale \in BOOLEAN
  /\ TypedChanges(q.changes)
  /\ q.following = {} \/ \E n \in q.following : n \in TaskRow /\ q.following = {n}

(* Type correctness.                                                        *)
TasksTypeOK ==
  /\ tasks \in [TaskId -> TaskRow \cup {NoTask, Purged}]
  /\ DOMAIN requests = Requests
  /\ \A r \in Requests : requests[r] = NoRequest \/ Flight(requests[r])
  /\ made_from \in [TaskId -> TaskId \cup {0}]
  /\ contested \in SUBSET TaskId

-----------------------------------------------------------------------------
(* The inductive invariant *)

(* A row by itself: who took a task up, and the series of what recurs.      *)
TakenUp(row) == ~row.crm => row.accepted \in {Nobody, row.assignee, row.creator}
RowsStand ==
  \A t \in TaskId : Exists(tasks, t) =>
    TakenUp(tasks[t]) /\ (tasks[t].recurs => tasks[t].series # 0)

(* An occurrence whose successor was made knows that it has one.            *)
SuccessorsKnown ==
  \A a \in TaskId : made_from[a] # 0 =>
    /\ made_from[a] # a /\ tasks[a] # NoTask /\ tasks[made_from[a]] # NoTask
    /\ Exists(tasks, made_from[a]) => tasks[made_from[a]].spawned

(* What a request has decided on, whatever becomes of its task.             *)
Sends(q) ==
  LET c == q.changes IN
  /\ "series" \in DOMAIN c => c.series = q.task
  /\ "assignee" \in DOMAIN c => "accepted" \in DOMAIN c /\ c.accepted = Nobody
  /\ "accepted" \in DOMAIN c => c.accepted \in {Nobody, q.user}
  /\ q.following # {} => "spawned" \in DOMAIN c
  /\ \A n \in q.following :
       /\ TakenUp(n) /\ ~n.deleted /\ n.recurs /\ n.series # 0
       /\ "due" \in DOMAIN c => n.due = c.due + 1
       /\ "series" \in DOMAIN c => n.series = q.task

(* What it read still fits the row it is about to write: the series is the  *)
(* one it saw, and a closing of the version it named is stale once another  *)
(* has closed the occurrence.                                               *)
Fits(q, row) ==
  LET c == q.changes IN
  /\ "series" \in DOMAIN c => row.series \in {0, q.task}
  /\ "recurs" \in DOMAIN c /\ c.recurs => "series" \in DOMAIN c \/ row.series # 0
  /\ \A n \in q.following : "series" \notin DOMAIN c => row.series = n.series
  /\ q.following # {} /\ q.expects /\ row.spawned => q.stale

(* As long as an occurrence is not contested, a request that closes it is   *)
(* about to insert what the index on dates knows it has already.            *)
Follows(tab, a, o) ==
  /\ Exists(tab, a) /\ ~tab[a].deleted
  /\ tab[a].series = tab[o].series /\ tab[a].series # 0
  /\ tab[a].due = tab[o].due + 1
ToldApart(q, tab, made) ==
  q.following # {} =>
    /\ \A n \in q.following : "due" \notin DOMAIN q.changes => n.due = tab[q.task].due + 1
    /\ \A a \in TaskId : made[a] = q.task => Follows(tab, a, q.task)

FlightStands(q) ==
  /\ tasks[q.task] # NoTask /\ Sends(q)
  /\ Exists(tasks, q.task) =>
       /\ Fits(q, tasks[q.task])
       /\ q.task \in contested \/ ToldApart(q, tasks, made_from)
FlightsStand == \A r \in Requests : requests[r].step = "apply" => FlightStands(requests[r])

(* The inductive invariant: the rows, what the requests in flight are about *)
(* to write and still find, and that an occurrence makes its next one once. *)
TasksInv == TasksTypeOK /\ RowsStand /\ SuccessorsKnown /\ FlightsStand /\ OneSuccessor

-----------------------------------------------------------------------------
(* Rows and changes                                                         *)

(* What a change makes of a row.                                            *)
Merged(row, c, new) ==
  /\ new \in TaskRow /\ new.crm = row.crm /\ new.creator = row.creator
  /\ new.assignee = IF "assignee" \in DOMAIN c THEN c.assignee ELSE row.assignee
  /\ new.accepted = IF "accepted" \in DOMAIN c THEN c.accepted ELSE row.accepted
  /\ new.status = IF "status" \in DOMAIN c THEN c.status ELSE row.status
  /\ new.due = IF "due" \in DOMAIN c THEN c.due ELSE row.due
  /\ new.recurs = IF "recurs" \in DOMAIN c THEN c.recurs ELSE row.recurs
  /\ new.series = IF "series" \in DOMAIN c THEN c.series ELSE row.series
  /\ new.spawned = IF "spawned" \in DOMAIN c THEN TRUE ELSE row.spawned
  /\ new.deleted = IF "deleted" \in DOMAIN c THEN c.deleted ELSE row.deleted

LEMMA ChangedAt ==
  ASSUME NEW row \in TaskRow, NEW c, TypedChanges(c), NEW new, new = Changed(row, c)
  PROVE  Merged(row, c, new)
<1>1. /\ "crm" \notin DOMAIN c /\ "creator" \notin DOMAIN c
      /\ "assignee" \in DOMAIN c => c.assignee \in Users
      /\ "by" \in DOMAIN c => c.by \in Users \cup {Nobody}
      /\ "accepted" \in DOMAIN c => c.accepted \in Users \cup {Nobody}
      /\ "status" \in DOMAIN c => c.status \in {"open", "waiting"} \cup Closed
      /\ "due" \in DOMAIN c => c.due \in Int
      /\ "recurs" \in DOMAIN c => c.recurs \in BOOLEAN
      /\ "series" \in DOMAIN c => c.series \in TaskId
      /\ "spawned" \in DOMAIN c => c.spawned = TRUE
      /\ "deleted" \in DOMAIN c => c.deleted \in BOOLEAN
  BY DEF TypedChanges, Typed, Sendable
<1>2. TaskId \subseteq Int
  BY DEF TaskId
<1>3. /\ DOMAIN new = Fields
      /\ \A f \in Fields : new[f] = IF f \in DOMAIN c THEN c[f] ELSE row[f]
  BY DEF Changed
<1>4. /\ new.crm = row.crm /\ new.creator = row.creator
      /\ new.assignee = IF "assignee" \in DOMAIN c THEN c.assignee ELSE row.assignee
      /\ new.by = IF "by" \in DOMAIN c THEN c.by ELSE row.by
      /\ new.accepted = IF "accepted" \in DOMAIN c THEN c.accepted ELSE row.accepted
      /\ new.status = IF "status" \in DOMAIN c THEN c.status ELSE row.status
      /\ new.due = IF "due" \in DOMAIN c THEN c.due ELSE row.due
      /\ new.recurs = IF "recurs" \in DOMAIN c THEN c.recurs ELSE row.recurs
      /\ new.series = IF "series" \in DOMAIN c THEN c.series ELSE row.series
      /\ new.spawned = IF "spawned" \in DOMAIN c THEN c.spawned ELSE row.spawned
      /\ new.deleted = IF "deleted" \in DOMAIN c THEN c.deleted ELSE row.deleted
  BY <1>1, <1>3 DEF Fields
<1>5. new = [crm |-> new.crm, creator |-> new.creator, assignee |-> new.assignee,
             by |-> new.by, accepted |-> new.accepted, status |-> new.status,
             due |-> new.due, recurs |-> new.recurs, series |-> new.series,
             spawned |-> new.spawned, deleted |-> new.deleted]
  BY <1>3 DEF Fields, Changed
<1>6. new \in TaskRow
  BY <1>1, <1>2, <1>4, <1>5 DEF TaskRow
<1> QED BY <1>1, <1>4, <1>6 DEF Merged

LEMMA AlsoAt ==
  ASSUME NEW c, NEW d
  PROVE  /\ DOMAIN Also(c, d) = DOMAIN c \cup DOMAIN d
         /\ \A f \in DOMAIN c : Also(c, d)[f] = c[f]
         /\ \A f \in DOMAIN d \ DOMAIN c : Also(c, d)[f] = d[f]
         /\ TypedChanges(c) /\ TypedChanges(d) => TypedChanges(Also(c, d))
BY DEF Also, TypedChanges

LEMMA RowAt ==
  ASSUME TasksTypeOK, NEW t \in TaskId, Exists(tasks, t)
  PROVE  /\ tasks[t] \in TaskRow /\ tasks[t] # NoTask
         /\ tasks[t].crm \in BOOLEAN /\ tasks[t].creator \in Users /\ tasks[t].assignee \in Users
         /\ tasks[t].accepted \in Users \cup {Nobody}
         /\ tasks[t].due \in Int /\ tasks[t].series \in Int /\ tasks[t].recurs \in BOOLEAN
         /\ tasks[t].spawned \in BOOLEAN /\ tasks[t].deleted \in BOOLEAN
<1>1. tasks[t] \in TaskRow
  BY DEF TasksTypeOK, Exists
<1> QED BY <1>1, TasksAssumption DEF TaskRow

LEMMA FlightAt ==
  ASSUME TasksTypeOK, NEW r \in Requests, requests[r].step = "apply"
  PROVE  Flight(requests[r]) /\ requests[r] # NoRequest
<1>1. NoRequest.step = "idle"
  BY DEF NoRequest
<1> QED BY <1>1 DEF TasksTypeOK

-----------------------------------------------------------------------------
(* Planning a write                                                         *)

(* What a handler decides on, from the row it has read.                     *)
Planned(u, t, c) ==
  /\ TypedChanges(c) /\ "spawned" \notin DOMAIN c
  /\ "series" \in DOMAIN c => c.series = t /\ tasks[t].series = 0
  /\ "recurs" \in DOMAIN c /\ c.recurs => "series" \in DOMAIN c \/ tasks[t].series # 0
  /\ "assignee" \in DOMAIN c => "accepted" \in DOMAIN c /\ c.accepted = Nobody
  /\ "accepted" \in DOMAIN c =>
       c.accepted = Nobody \/ (c.accepted = u /\ tasks[t].assignee = u)
  /\ "status" \in DOMAIN c => "deleted" \notin DOMAIN c /\ ~tasks[t].deleted

LEMMA NextOf ==
  ASSUME NEW row \in TaskRow, NEW after \in TaskRow, NEW n \in next_occurrence(row, after)
  PROVE  /\ MakesNext(row, after) /\ n \in TaskRow /\ next_occurrence(row, after) = {n}
         /\ n.due = after.due + 1 /\ n.creator = row.creator /\ n.crm = after.crm
         /\ n.assignee = after.assignee /\ n.accepted = after.accepted
         /\ n.recurs = after.recurs /\ n.series = after.series /\ n.deleted = after.deleted
<1>1. /\ MakesNext(row, after)
      /\ n = [after EXCEPT !.status = "open", !.due = after.due + 1, !.spawned = FALSE,
                           !.creator = row.creator]
      /\ next_occurrence(row, after) = {n}
  BY DEF next_occurrence
<1>2. row.creator \in Users /\ after.due + 1 \in Int
  BY DEF TaskRow
<1> QED BY <1>1, <1>2 DEF TaskRow

LEMMA ClosingAt ==
  ASSUME NEW row, NEW c, TypedChanges(c), "spawned" \notin DOMAIN c,
         NEW closing, closing = Closing(row, c)
  PROVE  /\ TypedChanges(closing)
         /\ MakesNext(row, Changed(row, c)) => "spawned" \in DOMAIN closing
         /\ \A f : f # "spawned" => (f \in DOMAIN closing <=> f \in DOMAIN c)
         /\ \A f \in DOMAIN c : closing[f] = c[f]
<1> DEFINE mark == [spawned |-> TRUE]
<1>1. DOMAIN mark = {"spawned"} /\ TypedChanges(mark)
  BY DEF TypedChanges, Typed
<1> HIDE DEF mark
<1>2. CASE MakesNext(row, Changed(row, c))
  <2>1. closing = Also(c, mark)
    BY <1>2 DEF Closing, mark
  <2>2. DOMAIN closing = DOMAIN c \cup {"spawned"} /\ \A f \in DOMAIN c : closing[f] = c[f]
    BY <1>1, <2>1 DEF Also
  <2>3. TypedChanges(closing)
    BY <1>1, <2>1 DEF Also, TypedChanges
  <2> QED BY <2>2, <2>3
<1>3. CASE ~MakesNext(row, Changed(row, c))
  <2>1. closing = c
    BY <1>3 DEF Closing
  <2> QED BY <1>3, <2>1
<1> QED BY <1>2, <1>3

LEMMA WritesStands ==
  ASSUME TasksInv, NEW r \in Requests, NEW u \in Users, NEW t \in TaskId, NEW c,
         NEW expects \in BOOLEAN, Exists(tasks, t), Planned(u, t, c),
         Writes(r, u, t, c, expects)
  PROVE  TasksInv'
<1> DEFINE row == tasks[t]
<1>0. PICK after : after = Changed(row, c)
  OBVIOUS
<1>1. PICK closing : closing = Closing(row, c)
  OBVIOUS
<1>2. PICK q : q = [step |-> "apply", user |-> u, task |-> t, changes |-> closing,
                    following |-> next_occurrence(row, after), expects |-> expects,
                    stale |-> FALSE]
  OBVIOUS
<1>3. /\ requests' = [requests EXCEPT ![r] = q]
      /\ UNCHANGED <<tasks, made_from, contested>>
  BY <1>0, <1>1, <1>2 DEF Writes
<1>4. /\ TasksTypeOK /\ row \in TaskRow /\ TypedChanges(c) /\ "spawned" \notin DOMAIN c
      /\ row # NoTask /\ TakenUp(row) /\ (row.recurs => row.series # 0)
  BY RowAt DEF TasksInv, Planned, RowsStand
<1>5. /\ after \in TaskRow /\ after.crm = row.crm /\ after.creator = row.creator
      /\ after.assignee = IF "assignee" \in DOMAIN c THEN c.assignee ELSE row.assignee
      /\ after.accepted = IF "accepted" \in DOMAIN c THEN c.accepted ELSE row.accepted
      /\ after.status = IF "status" \in DOMAIN c THEN c.status ELSE row.status
      /\ after.due = IF "due" \in DOMAIN c THEN c.due ELSE row.due
      /\ after.recurs = IF "recurs" \in DOMAIN c THEN c.recurs ELSE row.recurs
      /\ after.series = IF "series" \in DOMAIN c THEN c.series ELSE row.series
      /\ after.deleted = IF "deleted" \in DOMAIN c THEN c.deleted ELSE row.deleted
  <2>1. Merged(row, c, after)
    BY <1>0, <1>4, ChangedAt
  <2> QED BY <2>1 DEF Merged
<1>6. /\ TypedChanges(closing)
      /\ MakesNext(row, after) => "spawned" \in DOMAIN closing
      /\ \A f : f # "spawned" => (f \in DOMAIN closing <=> f \in DOMAIN c)
      /\ \A f \in DOMAIN c : closing[f] = c[f]
  BY <1>0, <1>1, <1>4, ClosingAt
<1>7. \A n \in q.following :
        /\ MakesNext(row, after) /\ n \in TaskRow /\ q.following = {n}
        /\ n.due = after.due + 1 /\ n.creator = row.creator /\ n.crm = after.crm
        /\ n.assignee = after.assignee /\ n.accepted = after.accepted
        /\ n.recurs = after.recurs /\ n.series = after.series /\ n.deleted = after.deleted
  BY <1>2, <1>4, <1>5, NextOf
<1>8. Flight(q)
  <2>1. /\ DOMAIN q = {"step", "user", "task", "changes", "following", "expects", "stale"}
        /\ q.step = "apply" /\ q.user = u /\ q.task = t /\ q.changes = closing
        /\ q.expects = expects /\ q.stale = FALSE
    BY <1>2
  <2> QED BY <1>6, <1>7, <2>1 DEF Flight
<1>9. TasksTypeOK'
  BY <1>3, <1>4, <1>8 DEF TasksTypeOK
<1>10. ASSUME NEW n \in q.following
       PROVE  /\ TakenUp(n) /\ ~n.deleted /\ n.recurs /\ n.series # 0 /\ ~row.spawned
              /\ "spawned" \in DOMAIN closing
  <2>1. /\ after.recurs /\ ~row.spawned /\ "spawned" \in DOMAIN closing
        /\ row.status \notin Closed /\ after.status \in Closed /\ "status" \in DOMAIN c
    BY <1>5, <1>6, <1>7 DEF MakesNext
  <2>2. ~n.deleted
    BY <1>5, <1>7, <2>1 DEF Planned
  <2>3. after.series # 0
    <3>1. "series" \in DOMAIN c => c.series = t /\ t # 0
      BY DEF Planned, TaskId
    <3> QED BY <1>4, <1>5, <2>1, <3>1 DEF Planned
  <2>4. TakenUp(n)
    BY <1>4, <1>5, <1>7 DEF TakenUp, Planned
  <2> QED BY <1>7, <2>1, <2>2, <2>3, <2>4
<1>11. Sends(q)
  <2>1. q.changes = closing /\ q.task = t /\ q.user = u
    BY <1>2
  <2>2. \A f \in {"series", "assignee", "accepted", "due"} :
          (f \in DOMAIN closing <=> f \in DOMAIN c) /\ (f \in DOMAIN c => closing[f] = c[f])
    BY <1>6
  <2>3. /\ "series" \in DOMAIN closing => closing.series = t
        /\ "assignee" \in DOMAIN closing =>
             "accepted" \in DOMAIN closing /\ closing.accepted = Nobody
        /\ "accepted" \in DOMAIN closing => closing.accepted \in {Nobody, u}
    BY <2>2 DEF Planned
  <2>4. ASSUME NEW n \in q.following
        PROVE  /\ "due" \in DOMAIN closing => n.due = closing.due + 1
               /\ "series" \in DOMAIN closing => n.series = t
    BY <1>5, <1>7, <2>2 DEF Planned
  <2> QED BY <1>10, <2>1, <2>3, <2>4 DEF Sends
<1>12. Fits(q, row) /\ ToldApart(q, tasks, made_from)
  <2>1. q.changes = closing /\ q.task = t /\ q.expects = expects
    BY <1>2
  <2>2. \A f \in {"series", "recurs", "due"} :
          (f \in DOMAIN closing <=> f \in DOMAIN c) /\ (f \in DOMAIN c => closing[f] = c[f])
    BY <1>6
  <2>3. Fits(q, row)
    <3>1. \A n \in q.following : "series" \notin DOMAIN closing => row.series = n.series
      BY <1>5, <1>7, <2>2
    <3>2. "series" \in DOMAIN closing => row.series \in {0, t}
      BY <2>2 DEF Planned
    <3>3. "recurs" \in DOMAIN closing /\ closing.recurs =>
            "series" \in DOMAIN closing \/ row.series # 0
      BY <2>2 DEF Planned
    <3>4. q.following # {} => ~row.spawned
      BY <1>10
    <3> QED BY <2>1, <3>1, <3>2, <3>3, <3>4 DEF Fits
  <2>4. ASSUME NEW n \in q.following PROVE "due" \notin DOMAIN closing => n.due = row.due + 1
    BY <1>5, <1>7, <2>2
  <2>5. q.following # {} => \A a \in TaskId : made_from[a] # t
    <3>1. t # 0
      BY DEF TaskId
    <3> QED BY <1>10, <3>1 DEF TasksInv, SuccessorsKnown
  <2> QED BY <2>1, <2>3, <2>4, <2>5 DEF ToldApart
<1>13. FlightStands(q)
  BY <1>2, <1>4, <1>11, <1>12 DEF FlightStands
<1>14. FlightsStand'
  <2> SUFFICES ASSUME NEW x \in Requests, requests'[x].step = "apply"
               PROVE  FlightStands(requests[x])'
    BY DEF FlightsStand
  <2>1. CASE x = r
    <3>1. requests'[x] = q
      BY <1>3, <1>4, <2>1 DEF TasksTypeOK
    <3> QED BY <1>3, <1>13, <3>1 DEF FlightStands, Exists, ToldApart, Follows
  <2>2. CASE x # r
    <3>1. requests'[x] = requests[x]
      BY <1>3, <1>4, <2>2 DEF TasksTypeOK
    <3>2. FlightStands(requests[x])
      BY <3>1 DEF TasksInv, FlightsStand
    <3> QED BY <1>3, <3>1, <3>2 DEF FlightStands, Exists, ToldApart, Follows
  <2> QED BY <2>1, <2>2
<1>15. RowsStand' /\ SuccessorsKnown' /\ OneSuccessor'
  BY <1>3 DEF TasksInv, RowsStand, SuccessorsKnown, OneSuccessor, Exists
<1> QED BY <1>9, <1>14, <1>15 DEF TasksInv

LEMMA AcceptingAt ==
  ASSUME TasksInv, NEW u \in Users, NEW t \in TaskId, Exists(tasks, t),
         NEW c, c = accepting(tasks[t], u)
  PROVE  /\ DOMAIN c \subseteq {"accepted"} /\ TypedChanges(c)
         /\ "accepted" \in DOMAIN c => c.accepted = u /\ tasks[t].assignee = u
<1>1. CASE is_new(tasks[t]) /\ tasks[t].assignee = u
  <2>1. c = [accepted |-> u]
    BY <1>1 DEF accepting
  <2> QED BY <1>1, <2>1 DEF TypedChanges, Typed
<1>2. CASE ~(is_new(tasks[t]) /\ tasks[t].assignee = u)
  <2>1. DOMAIN c = {}
    BY <1>2 DEF accepting, Nothing
  <2> QED BY <2>1 DEF TypedChanges
<1> QED BY <1>1, <1>2

LEMMA UpdatePlanned ==
  ASSUME TasksInv, NEW r \in Requests, NEW u \in Users, NEW t \in TaskId, NEW p \in Patches,
         Exists(tasks, t), update_task(r, u, t, p.values, p.expects)
  PROVE  TasksInv'
<1> DEFINE row == tasks[t]
           patch == p.values
<1>1. PICK sent : sent = {f \in DOMAIN patch : patch[f] # row[f]}
  OBVIOUS
<1>2. PICK values : values = [f \in sent |-> patch[f]]
  OBVIOUS
<1>3. PICK series : series = IF "recurs" \in sent /\ patch.recurs /\ row.series = 0
                             THEN [series |-> t] ELSE Nothing
  OBVIOUS
<1>4. PICK handed : handed = IF "assignee" \in sent THEN assignment(patch.assignee, u)
                             ELSE accepting(row, u)
  OBVIOUS
<1>5. PICK c : c = Also(values, Also(series, handed))
  OBVIOUS
<1>6. Writes(r, u, t, c, p.expects) /\ row.deleted = FALSE
  BY <1>1, <1>2, <1>3, <1>4, <1>5 DEF update_task, Reads
<1>7. \A f \in DOMAIN patch : Sendable(f, patch[f])
  BY TasksAssumption
<1>8. p.expects \in BOOLEAN
  BY TasksAssumption
<1>9. /\ DOMAIN values = sent /\ \A f \in sent : values[f] = patch[f] /\ Sendable(f, values[f])
      /\ sent \subseteq {"assignee", "status", "due", "recurs"}
  BY <1>1, <1>2, <1>7 DEF Sendable
<1>10. /\ DOMAIN series \subseteq {"series"}
       /\ "series" \in DOMAIN series => series.series = t /\ row.series = 0
       /\ "recurs" \in sent /\ values.recurs => "series" \in DOMAIN series \/ row.series # 0
  <2>1. CASE "recurs" \in sent /\ patch.recurs /\ row.series = 0
    <3>1. series = [series |-> t]
      BY <1>3, <2>1
    <3> QED BY <2>1, <3>1
  <2>2. CASE ~("recurs" \in sent /\ patch.recurs /\ row.series = 0)
    <3>1. DOMAIN series = {}
      BY <1>3, <2>2 DEF Nothing
    <3> QED BY <1>9, <2>2, <3>1
  <2> QED BY <2>1, <2>2
<1>11. /\ DOMAIN handed \subseteq {"by", "accepted"} /\ TypedChanges(handed)
       /\ "assignee" \in sent => "accepted" \in DOMAIN handed /\ handed.accepted = Nobody
       /\ "accepted" \in DOMAIN handed =>
            handed.accepted = Nobody \/ (handed.accepted = u /\ row.assignee = u)
  <2>1. CASE "assignee" \in sent
    <3>1. handed = [by |-> IF patch.assignee = u THEN Nobody ELSE u, accepted |-> Nobody]
      BY <1>4, <2>1 DEF assignment
    <3> QED BY <3>1 DEF TypedChanges, Typed
  <2>2. CASE "assignee" \notin sent
    <3>1. handed = accepting(row, u)
      BY <1>4, <2>2
    <3>2. /\ DOMAIN handed \subseteq {"accepted"} /\ TypedChanges(handed)
          /\ "accepted" \in DOMAIN handed => handed.accepted = u /\ tasks[t].assignee = u
      BY <3>1, AcceptingAt
    <3> QED BY <2>2, <3>2
  <2> QED BY <2>1, <2>2
<1>12. /\ DOMAIN c = sent \cup DOMAIN series \cup DOMAIN handed
       /\ \A f \in sent : c[f] = values[f]
       /\ \A f \in DOMAIN series : c[f] = series[f]
       /\ \A f \in DOMAIN handed : c[f] = handed[f]
  BY <1>5, <1>9, <1>10, <1>11 DEF Also
<1>13. TypedChanges(c)
  <2>1. \A f \in sent : Typed(f, c[f])
    BY <1>9, <1>12 DEF Typed
  <2>2. \A f \in DOMAIN series : Typed(f, c[f])
    BY <1>10, <1>12 DEF Typed
  <2>3. \A f \in DOMAIN handed : Typed(f, c[f])
    BY <1>11, <1>12 DEF TypedChanges
  <2> QED BY <1>12, <2>1, <2>2, <2>3 DEF TypedChanges
<1>14. Planned(u, t, c)
  <2>1. /\ "spawned" \notin DOMAIN c /\ "deleted" \notin DOMAIN c
        /\ "series" \in DOMAIN c <=> "series" \in DOMAIN series
        /\ "recurs" \in DOMAIN c <=> "recurs" \in sent
        /\ "assignee" \in DOMAIN c <=> "assignee" \in sent
        /\ "accepted" \in DOMAIN c <=> "accepted" \in DOMAIN handed
    BY <1>9, <1>10, <1>11, <1>12
  <2>2. "series" \in DOMAIN c => c.series = t /\ row.series = 0
    BY <1>10, <1>12, <2>1
  <2>3. "recurs" \in DOMAIN c /\ c.recurs => "series" \in DOMAIN c \/ row.series # 0
    BY <1>10, <1>12, <2>1
  <2>4. /\ "assignee" \in DOMAIN c => "accepted" \in DOMAIN c /\ c.accepted = Nobody
        /\ "accepted" \in DOMAIN c =>
             c.accepted = Nobody \/ (c.accepted = u /\ row.assignee = u)
    BY <1>11, <1>12, <2>1
  <2> QED BY <1>6, <1>13, <2>1, <2>2, <2>3, <2>4 DEF Planned
<1> QED BY <1>6, <1>8, <1>14, WritesStands

(* The other handlers write a status, an acceptance, or the Trash.          *)
LEMMA StatusPlanned ==
  ASSUME TasksInv, NEW u \in Users, NEW t \in TaskId, NEW status \in {"open", "done"},
         Exists(tasks, t), ~tasks[t].deleted
  PROVE  Planned(u, t, Also([status |-> status], accepting(tasks[t], u)))
<1>1. PICK d : d = accepting(tasks[t], u)
  OBVIOUS
<1>2. PICK s : s = [status |-> status]
  OBVIOUS
<1>3. /\ DOMAIN d \subseteq {"accepted"} /\ TypedChanges(d)
      /\ "accepted" \in DOMAIN d => d.accepted = u /\ tasks[t].assignee = u
  BY <1>1, AcceptingAt
<1>4. DOMAIN s = {"status"} /\ s["status"] = status
  BY <1>2
<1>5. PICK c : c = Also(s, d)
  OBVIOUS
<1>6. /\ DOMAIN c = {"status"} \cup DOMAIN d /\ c["status"] = status
      /\ \A f \in DOMAIN d : c[f] = d[f]
  BY <1>3, <1>4, <1>5 DEF Also
<1>7. TypedChanges(c)
  <2>1. Typed("status", c["status"])
    BY <1>6 DEF Typed, Sendable, Closed
  <2>2. \A f \in DOMAIN d : Typed(f, c[f])
    BY <1>3, <1>6 DEF TypedChanges
  <2> QED BY <1>6, <2>1, <2>2 DEF TypedChanges
<1>8. Planned(u, t, c)
  BY <1>3, <1>6, <1>7 DEF Planned
<1> QED BY <1>1, <1>2, <1>5, <1>8

LEMMA OthersPlanned ==
  ASSUME TasksInv, NEW u \in Users, NEW t \in TaskId, Exists(tasks, t)
  PROVE  /\ Planned(u, t, accepting(tasks[t], u))
         /\ tasks[t].creator \in Users => Planned(u, t, hand_back_plan(tasks[t], u))
         /\ Planned(u, t, [deleted |-> TRUE]) /\ Planned(u, t, [deleted |-> FALSE])
<1>1. Planned(u, t, accepting(tasks[t], u))
  <2>1. PICK d : d = accepting(tasks[t], u)
    OBVIOUS
  <2>2. /\ DOMAIN d \subseteq {"accepted"} /\ TypedChanges(d)
        /\ "accepted" \in DOMAIN d => d.accepted = u /\ tasks[t].assignee = u
    BY <2>1, AcceptingAt
  <2>3. Planned(u, t, d)
    BY <2>2 DEF Planned
  <2> QED BY <2>1, <2>3
<1>2. ASSUME tasks[t].creator \in Users PROVE Planned(u, t, hand_back_plan(tasks[t], u))
  <2>1. PICK d : d = hand_back_plan(tasks[t], u)
    OBVIOUS
  <2>2. /\ DOMAIN d = {"assignee", "by", "accepted"} /\ d.assignee = tasks[t].creator
        /\ d.by = u /\ d.accepted = Nobody
    BY <2>1 DEF hand_back_plan
  <2>3. TypedChanges(d)
    BY <1>2, <2>2 DEF TypedChanges, Typed, Sendable
  <2>4. Planned(u, t, d)
    BY <2>2, <2>3 DEF Planned
  <2> QED BY <2>1, <2>4
<1>3. ASSUME NEW b \in BOOLEAN PROVE Planned(u, t, [deleted |-> b])
  <2>1. PICK d : d = [deleted |-> b]
    OBVIOUS
  <2>2. DOMAIN d = {"deleted"} /\ TypedChanges(d)
    BY <2>1 DEF TypedChanges, Typed
  <2>3. Planned(u, t, d)
    BY <2>2 DEF Planned
  <2> QED BY <2>1, <2>3
<1> QED BY <1>1, <1>2, <1>3

LEMMA HandlersStep ==
  ASSUME TasksInv, NEW r \in Requests, NEW u \in Users, NEW t \in TaskId, Handlers(r, u, t)
  PROVE  TasksInv'
<1>1. ASSUME NEW p \in Patches, Exists(tasks, t), update_task(r, u, t, p.values, p.expects)
      PROVE  TasksInv'
  BY <1>1, UpdatePlanned
<1>2. ASSUME complete_task(r, u, t) \/ reopen_task(r, u, t) PROVE TasksInv'
  <2>1. PICK status \in {"open", "done"} :
          Writes(r, u, t, Also([status |-> status], accepting(tasks[t], u)), FALSE)
    BY <1>2 DEF complete_task, reopen_task
  <2>2. Exists(tasks, t) /\ ~tasks[t].deleted
    BY <1>2 DEF complete_task, reopen_task, Reads
  <2> QED BY <2>1, <2>2, StatusPlanned, WritesStands
<1>3. ASSUME accept_task(r, u, t) \/ add_comment(r, u, t) PROVE TasksInv'
  <2>1. Writes(r, u, t, accepting(tasks[t], u), FALSE) /\ Exists(tasks, t)
    BY <1>3 DEF accept_task, add_comment, Reads
  <2> QED BY <2>1, OthersPlanned, WritesStands
<1>4. ASSUME hand_back(r, u, t) PROVE TasksInv'
  <2>1. Writes(r, u, t, hand_back_plan(tasks[t], u), FALSE) /\ Exists(tasks, t)
    BY <1>4 DEF hand_back, Reads
  <2>2. tasks[t].creator \in Users
    BY <2>1, RowAt DEF TasksInv
  <2> QED BY <2>1, <2>2, OthersPlanned, WritesStands
<1>5. ASSUME delete_task(r, u, t) \/ restore_task(r, u, t) PROVE TasksInv'
  <2>1. /\ Writes(r, u, t, [deleted |-> TRUE], FALSE)
             \/ Writes(r, u, t, [deleted |-> FALSE], FALSE)
        /\ Exists(tasks, t)
    BY <1>5 DEF delete_task, restore_task, Reads
  <2> QED BY <2>1, OthersPlanned, WritesStands
<1> QED BY <1>1, <1>2, <1>3, <1>4, <1>5 DEF Handlers

-----------------------------------------------------------------------------
(* Creating a task, and a flight that a step leaves alone                   *)

LEMMA LeftAlone ==
  ASSUME NEW q, FlightStands(q), tasks'[q.task] = tasks[q.task], contested \subseteq contested',
         q.task \in contested' \/ q.following = {}
           \/ \A a \in TaskId : made_from'[a] = q.task =>
                made_from[a] = q.task /\ tasks'[a] = tasks[a]
  PROVE  FlightStands(q)'
<1>1. /\ tasks[q.task] # NoTask /\ Sends(q)
      /\ Exists(tasks, q.task)' => Exists(tasks, q.task)
  BY DEF FlightStands, Exists
<1>2. ASSUME Exists(tasks, q.task)'
      PROVE  Fits(q, tasks'[q.task]) /\ (q.task \in contested' \/ ToldApart(q, tasks', made_from'))
  <2>1. Fits(q, tasks[q.task]) /\ (q.task \in contested \/ ToldApart(q, tasks, made_from))
    BY <1>1, <1>2 DEF FlightStands
  <2> QED BY <2>1 DEF ToldApart, Follows, Exists
<1> QED BY <1>1, <1>2 DEF FlightStands, Sends

LEMMA FreeAt ==
  ASSUME NEW tab, NEW t \in NextFree(tab)
  PROVE  t \in TaskId /\ tab[t] = NoTask /\ NextFree(tab) = {t}
<1>1. /\ t \in TaskId /\ tab[t] = NoTask /\ MaxTask \in Nat
      /\ \A x \in 1 .. (t - 1) : tab[x] # NoTask
  BY TasksAssumption DEF NextFree
<1>2. ASSUME NEW y \in NextFree(tab) PROVE y = t
  <2>1. /\ y \in TaskId /\ tab[y] = NoTask /\ \A x \in 1 .. (y - 1) : tab[x] # NoTask
    BY DEF NextFree
  <2>2. y \in Nat /\ t \in Nat /\ y >= 1 /\ t >= 1
    BY <1>1, <2>1 DEF TaskId
  <2>3. ~(y < t) /\ ~(t < y)
    BY <1>1, <2>1, <2>2
  <2> QED BY <2>2, <2>3
<1> QED BY <1>1, <1>2

LEMMA CreateStep ==
  ASSUME TasksInv, NEW c \in Creations, create_task(c.creator, c.crm, c.assignee)
  PROVE  TasksInv'
<1>1. c.crm \in BOOLEAN /\ c.creator \in Users /\ c.assignee \in Users
  BY TasksAssumption
<1>2. PICK row : row =
        [crm |-> c.crm, creator |-> c.creator, assignee |-> c.assignee,
         by |-> assignment(c.assignee, c.creator).by, accepted |-> Nobody, status |-> "open",
         due |-> 0, recurs |-> FALSE, series |-> 0, spawned |-> FALSE, deleted |-> FALSE]
  OBVIOUS
<1>3. PICK t \in NextFree(tasks) : tasks' = [tasks EXCEPT ![t] = row]
  BY <1>2 DEF create_task
<1>4. UNCHANGED <<requests, made_from, contested>>
  BY DEF create_task
<1>5. t \in TaskId /\ tasks[t] = NoTask
  BY FreeAt
<1>6. row \in TaskRow /\ row.accepted = Nobody /\ ~row.recurs
  <2>1. assignment(c.assignee, c.creator).by \in Users \cup {Nobody}
    BY <1>1 DEF assignment
  <2> QED BY <1>1, <1>2, <2>1 DEF TaskRow
<1>7. row # NoTask
  BY <1>6, TasksAssumption
<1>8. TasksTypeOK
  BY DEF TasksInv
<1>9. tasks'[t] = row /\ \A x \in TaskId \ {t} : tasks'[x] = tasks[x]
  BY <1>3, <1>5, <1>8 DEF TasksTypeOK
<1>10. TasksTypeOK'
  BY <1>3, <1>4, <1>6, <1>8 DEF TasksTypeOK
<1>11. RowsStand'
  BY <1>6, <1>9 DEF TasksInv, RowsStand, TakenUp, Exists
<1>12. \A a \in TaskId : made_from[a] # 0 => a # t /\ made_from[a] # t /\ made_from[a] \in TaskId
  BY <1>5, <1>8 DEF TasksInv, SuccessorsKnown, TasksTypeOK
<1>13. SuccessorsKnown'
  BY <1>4, <1>9, <1>12 DEF TasksInv, SuccessorsKnown, Exists
<1>14. FlightsStand'
  <2> SUFFICES ASSUME NEW x \in Requests, requests'[x].step = "apply"
               PROVE  FlightStands(requests[x])'
    BY DEF FlightsStand
  <2>1. PICK q : q = requests[x] /\ q = requests'[x]
    BY <1>4
  <2>2. FlightStands(q) /\ q.task \in TaskId
    BY <1>8, <2>1, FlightAt DEF TasksInv, FlightsStand, Flight
  <2>3. q.task # t /\ q.task # 0
    BY <1>5, <2>2 DEF FlightStands, TaskId
  <2>4. \A a \in TaskId : made_from'[a] = q.task => made_from[a] = q.task /\ tasks'[a] = tasks[a]
    BY <1>4, <1>9, <1>12, <2>3
  <2>5. FlightStands(q)'
    BY <1>4, <1>9, <2>2, <2>3, <2>4, LeftAlone
  <2> QED BY <2>1, <2>5 DEF FlightStands, Sends, Fits, ToldApart
<1>15. OneSuccessor'
  BY <1>4 DEF TasksInv, OneSuccessor
<1> QED BY <1>10, <1>11, <1>13, <1>14, <1>15 DEF TasksInv

LEMMA PurgeStep ==
  ASSUME TasksInv, NEW t \in TaskId, purge_deleted(t)
  PROVE  TasksInv'
<1>1. /\ Exists(tasks, t) /\ tasks' = [tasks EXCEPT ![t] = Purged]
      /\ contested' = contested \cup {o \in {made_from[t]} \ {0} :
                                        \E q \in Requests : Closes(q, o)}
      /\ UNCHANGED <<requests, made_from>>
  BY DEF purge_deleted
<1>2. TasksTypeOK /\ Purged # NoTask
  BY TasksAssumption DEF TasksInv
<1>3. tasks'[t] = Purged /\ \A x \in TaskId \ {t} : tasks'[x] = tasks[x]
  BY <1>1, <1>2 DEF TasksTypeOK
<1>4. TasksTypeOK'
  <2>1. contested' \in SUBSET TaskId
    BY <1>1, <1>2 DEF TasksTypeOK
  <2> QED BY <1>1, <1>2, <2>1 DEF TasksTypeOK
<1>5. ~Exists(tasks, t)'
  BY <1>3 DEF Exists
<1>6. RowsStand'
  BY <1>3, <1>5 DEF TasksInv, RowsStand, Exists
<1>7. SuccessorsKnown'
  <2>1. \A a \in TaskId : made_from[a] # 0 => made_from[a] \in TaskId
    BY <1>2 DEF TasksTypeOK
  <2> QED BY <1>1, <1>2, <1>3, <1>5, <2>1 DEF TasksInv, SuccessorsKnown, Exists
<1>8. FlightsStand'
  <2> SUFFICES ASSUME NEW x \in Requests, requests'[x].step = "apply"
               PROVE  FlightStands(requests[x])'
    BY DEF FlightsStand
  <2>1. PICK q : q = requests[x] /\ q = requests'[x]
    BY <1>1
  <2>2. FlightStands(q) /\ q.task \in TaskId /\ q.step = "apply"
    BY <1>2, <2>1, FlightAt DEF TasksInv, FlightsStand, Flight
  <2>3. CASE q.task = t
    <3>1. Sends(q) /\ tasks'[q.task] # NoTask
      BY <1>2, <1>3, <2>2, <2>3 DEF FlightStands
    <3> QED BY <1>5, <2>1, <2>3, <3>1 DEF FlightStands, Sends
  <2>4. CASE q.task # t
    <3>1. q.task \in contested' \/ q.following = {} \/ made_from[t] # q.task
      <4>1. q.task # 0
        BY <2>2 DEF TaskId
      <4> QED BY <1>1, <2>1, <2>2, <4>1 DEF Closes
    <3>2. made_from[t] # q.task =>
            \A a \in TaskId : made_from'[a] = q.task =>
              made_from[a] = q.task /\ tasks'[a] = tasks[a]
      BY <1>1, <1>3
    <3>3. tasks'[q.task] = tasks[q.task] /\ contested \subseteq contested'
      BY <1>1, <1>3, <2>2, <2>4
    <3>4. FlightStands(q)'
      BY <2>2, <3>1, <3>2, <3>3, LeftAlone
    <3> QED BY <2>1, <3>4 DEF FlightStands, Sends, Fits, ToldApart
  <2> QED BY <2>3, <2>4
<1>9. OneSuccessor'
  BY <1>1 DEF TasksInv, OneSuccessor
<1> QED BY <1>4, <1>6, <1>7, <1>8, <1>9 DEF TasksInv

LEMMA RefusedStep ==
  ASSUME TasksInv, NEW r \in Requests, task_apply_refused(r)
  PROVE  TasksInv'
<1>1. /\ requests' = [requests EXCEPT ![r] = NoRequest]
      /\ UNCHANGED <<tasks, made_from, contested>>
  BY DEF task_apply_refused
<1>2. TasksTypeOK /\ NoRequest.step = "idle"
  BY DEF TasksInv, NoRequest
<1>3. TasksTypeOK'
  BY <1>1, <1>2 DEF TasksTypeOK
<1>4. FlightsStand'
  <2> SUFFICES ASSUME NEW x \in Requests, requests'[x].step = "apply"
               PROVE  FlightStands(requests[x])'
    BY DEF FlightsStand
  <2>1. requests'[x] = requests[x]
    BY <1>1, <1>2 DEF TasksTypeOK
  <2>2. FlightStands(requests[x])
    BY <2>1 DEF TasksInv, FlightsStand
  <2> QED BY <1>1, <2>1, <2>2 DEF FlightStands, Exists, ToldApart, Follows
<1>5. RowsStand' /\ SuccessorsKnown' /\ OneSuccessor'
  BY <1>1 DEF TasksInv, RowsStand, SuccessorsKnown, OneSuccessor, Exists
<1> QED BY <1>3, <1>4, <1>5 DEF TasksInv

-----------------------------------------------------------------------------
(* The write                                                                *)

(* The row that task_apply leaves, from the row it finds.                   *)
LEMMA AppliedRow ==
  ASSUME TasksInv, NEW q, Flight(q), FlightStands(q), Exists(tasks, q.task),
         Allowed(q.user, tasks[q.task]),
         NEW row, row = Changed(tasks[q.task], q.changes)
  PROVE  /\ row \in TaskRow /\ TakenUp(row) /\ (row.recurs => row.series # 0)
         /\ row.due \in Int /\ row.series \in Int
         /\ tasks[q.task].spawned => row.spawned
         /\ q.following # {} => row.spawned
         /\ "series" \in DOMAIN q.changes =>
              row.series = q.task /\ tasks[q.task].series \in {0, q.task}
         /\ "series" \notin DOMAIN q.changes => row.series = tasks[q.task].series
         /\ tasks[q.task].series # 0 => row.series = tasks[q.task].series
         /\ row.due = IF "due" \in DOMAIN q.changes THEN q.changes.due ELSE tasks[q.task].due
<1>1. PICK o : o = q.task
  OBVIOUS
<1>2. PICK old : old = tasks[o]
  OBVIOUS
<1>3. PICK c : c = q.changes
  OBVIOUS
<1>4. /\ old \in TaskRow /\ old.spawned \in BOOLEAN /\ TakenUp(old)
      /\ (old.recurs => old.series # 0) /\ o \in TaskId /\ o # 0
  <2>1. o \in TaskId
    BY <1>1 DEF Flight
  <2> QED BY <1>1, <1>2, <2>1, RowAt DEF TasksInv, RowsStand, TaskId
<1>5. Merged(old, c, row)
  BY <1>1, <1>2, <1>3, <1>4, ChangedAt DEF Flight
<1>6. Sends(q) /\ Fits(q, old)
  BY <1>1, <1>2 DEF FlightStands
<1>7. TakenUp(row)
  <2>1. ~old.crm => q.user \in {old.creator, old.assignee}
    BY <1>1, <1>2 DEF Allowed
  <2>2. /\ "assignee" \in DOMAIN c => "accepted" \in DOMAIN c /\ c.accepted = Nobody
        /\ "accepted" \in DOMAIN c => c.accepted \in {Nobody, q.user}
    BY <1>3, <1>6 DEF Sends
  <2> QED BY <1>4, <1>5, <2>1, <2>2 DEF TakenUp, Merged
<1>8. /\ "series" \in DOMAIN c => c.series = o /\ old.series \in {0, o}
      /\ "recurs" \in DOMAIN c /\ c.recurs => "series" \in DOMAIN c \/ old.series # 0
      /\ q.following # {} => "spawned" \in DOMAIN c
  BY <1>1, <1>3, <1>6 DEF Sends, Fits
<1>9. row \in TaskRow /\ row.due \in Int /\ row.series \in Int
  BY <1>5 DEF Merged, TaskRow
<1>10. row.recurs => row.series # 0
  BY <1>4, <1>5, <1>8 DEF Merged
<1>11. /\ old.spawned => row.spawned
       /\ q.following # {} => row.spawned
       /\ "series" \in DOMAIN c => row.series = o
       /\ "series" \notin DOMAIN c => row.series = old.series
       /\ row.due = IF "due" \in DOMAIN c THEN c.due ELSE old.due
  BY <1>4, <1>5, <1>8 DEF Merged
<1>12. old.series # 0 => row.series = old.series
  BY <1>8, <1>11
<1> QED BY <1>1, <1>2, <1>3, <1>7, <1>8, <1>9, <1>10, <1>11, <1>12

(* An occurrence not contested gets its second successor from nobody: the   *)
(* index on dates refuses it.                                               *)
LEMMA NoSecond ==
  ASSUME TasksInv, NEW r \in Requests, task_apply(r), requests[r].following # {},
         NEW b \in TaskId, made_from[b] = requests[r].task
  PROVE  requests[r].task \in contested'
<1>1. PICK q : q = requests[r]
  OBVIOUS
<1>2. PICK o : o = q.task
  OBVIOUS
<1>3. PICK old : old = tasks[o]
  OBVIOUS
<1>4. PICK row : row = Changed(old, q.changes)
  OBVIOUS
<1>5. /\ q.step = "apply" /\ Accepted(q)
      /\ contested' = contested \cup
           (IF row.due # old.due \/ row.deleted # old.deleted THEN Contests(r, o) ELSE {})
  BY <1>1, <1>2, <1>3, <1>4 DEF task_apply
<1>6. Flight(q) /\ FlightStands(q)
  BY <1>1, <1>5, FlightAt DEF TasksInv, FlightsStand
<1>7. Exists(tasks, o) /\ Allowed(q.user, old) /\ ~(q.expects /\ q.stale) /\ o \in TaskId
  BY <1>2, <1>3, <1>5, <1>6 DEF Accepted, Flight
<1>8. PICK n \in q.following : n \in TaskRow /\ q.following = {n}
  BY <1>1, <1>6 DEF Flight
<1>9. SUFFICES ASSUME o \notin contested' PROVE FALSE
  BY <1>1, <1>2
<1>10. Fits(q, old) /\ ToldApart(q, tasks, made_from) /\ Sends(q)
  BY <1>2, <1>3, <1>5, <1>6, <1>7, <1>9 DEF FlightStands
<1>11. /\ Follows(tasks, b, o) /\ b # o /\ old.spawned
       /\ "due" \notin DOMAIN q.changes => n.due = old.due + 1
  <2>1. o # 0
    BY <1>7 DEF TaskId
  <2> QED
    BY <1>1, <1>2, <1>3, <1>7, <1>8, <1>10, <2>1
    DEF TasksInv, SuccessorsKnown, ToldApart
<1>12. ~q.expects
  BY <1>7, <1>8, <1>10, <1>11 DEF Fits
<1>13. row.due = old.due
  <2>1. Closes(r, o)
    BY <1>1, <1>2, <1>5, <1>8 DEF Closes
  <2>2. o \in Contests(r, o)
    BY <1>1, <1>3, <1>11, <1>12, <2>1 DEF Contests
  <2> QED BY <1>5, <1>9, <2>2
<1>14. /\ row.due = IF "due" \in DOMAIN q.changes THEN q.changes.due ELSE old.due
       /\ "series" \in DOMAIN q.changes => old.series \in {0, o}
  BY <1>2, <1>3, <1>4, <1>6, <1>7, AppliedRow
<1>15. n.due = old.due + 1 /\ n.series = old.series /\ n.series # 0 /\ ~n.deleted
  <2>1. /\ "due" \in DOMAIN q.changes => n.due = q.changes.due + 1
        /\ "series" \in DOMAIN q.changes => n.series = o
        /\ n.series # 0 /\ ~n.deleted
    BY <1>2, <1>8, <1>10 DEF Sends
  <2>2. "series" \notin DOMAIN q.changes => old.series = n.series
    BY <1>8, <1>10 DEF Fits
  <2>3. old.series # 0
    BY <1>3, <1>11 DEF Follows
  <2> QED BY <1>11, <1>13, <1>14, <2>1, <2>2, <2>3
<1>16. PICK written : written = [tasks EXCEPT ![o] = row]
  OBVIOUS
<1>17. written[b] = tasks[b]
  BY <1>11, <1>16 DEF TasksInv, TasksTypeOK
<1>18. [n EXCEPT !.deleted = FALSE] = n
  BY <1>8, <1>15 DEF TaskRow
<1>19. ~series_due_taken(written, 0, n)
  <2>1. ~series_due_taken(written, 0, [n EXCEPT !.deleted = FALSE])
    BY <1>2, <1>3, <1>4, <1>5, <1>8, <1>16 DEF Accepted
  <2> QED BY <1>18, <2>1
<1>20. series_due_taken(written, 0, n)
  <2>1. b \in TaskId \ {0}
    BY DEF TaskId
  <2>2. Exists(written, b) /\ ~written[b].deleted
    BY <1>11, <1>17 DEF Follows, Exists
  <2>3. written[b].series = n.series /\ written[b].due = n.due
    BY <1>3, <1>11, <1>15, <1>17 DEF Follows
  <2> QED BY <1>15, <2>1, <2>2, <2>3 DEF series_due_taken
<1> QED BY <1>19, <1>20

(* Another request in flight, once this one's write is done.                *)
LEMMA OthersFit ==
  ASSUME TasksInv, NEW r \in Requests, task_apply(r), NEW x \in Requests \ {r},
         requests[x].step = "apply"
  PROVE  FlightStands(requests[x])' /\ Flight(requests'[x])
<1>1. PICK q : q = requests[r]
  OBVIOUS
<1>2. PICK o : o = q.task
  OBVIOUS
<1>3. PICK old : old = tasks[o]
  OBVIOUS
<1>4. PICK row : row = Changed(old, q.changes)
  OBVIOUS
<1>5. PICK new : new = IF q.following = {} THEN {} ELSE NextFree(tasks)
  OBVIOUS
<1>6. PICK moved : moved = (row.due # old.due \/ row.deleted # old.deleted)
  OBVIOUS
<1>7. /\ q.step = "apply" /\ Accepted(q)
      /\ tasks' = [t \in TaskId |-> IF t = o THEN row
                                    ELSE IF t \in new THEN CHOOSE n \in q.following : TRUE
                                    ELSE tasks[t]]
      /\ made_from' = [t \in TaskId |-> IF t \in new THEN o ELSE made_from[t]]
      /\ contested' = contested \cup (IF moved THEN Contests(r, o) ELSE {})
      /\ requests' = [y \in Requests |->
           IF y = r THEN NoRequest
           ELSE IF requests[y].step = "apply" /\ requests[y].task = o
           THEN [requests[y] EXCEPT !.stale = requests[y].expects] ELSE requests[y]]
  BY <1>1, <1>2, <1>3, <1>4, <1>5, <1>6 DEF task_apply
<1>8. Flight(q) /\ FlightStands(q)
  BY <1>1, <1>7, FlightAt DEF TasksInv, FlightsStand
<1>9. Exists(tasks, o) /\ Allowed(q.user, old) /\ o \in TaskId
  BY <1>2, <1>3, <1>7, <1>8 DEF Accepted, Flight
<1>10. PICK p : p = requests[x]
  OBVIOUS
<1>11. PICK s : s = IF p.task = o THEN p.expects ELSE p.stale
  OBVIOUS
<1>12. PICK z : z = requests'[x]
  OBVIOUS
<1>13. Flight(p) /\ FlightStands(p) /\ p.task \in TaskId /\ p.task # 0
  <2>1. Flight(p) /\ FlightStands(p)
    BY <1>10, FlightAt DEF TasksInv, FlightsStand
  <2> QED BY <2>1 DEF Flight, TaskId
<1>14. /\ Flight(z) /\ z.step = p.step /\ z.user = p.user /\ z.task = p.task
       /\ z.changes = p.changes /\ z.following = p.following /\ z.expects = p.expects
       /\ z.stale = s
  <2>1. CASE p.task = o
    <3>1. z = [p EXCEPT !.stale = p.expects]
      BY <1>7, <1>10, <1>12, <2>1
    <3>2. /\ DOMAIN z = DOMAIN p /\ z.step = p.step /\ z.user = p.user /\ z.task = p.task
          /\ z.changes = p.changes /\ z.following = p.following /\ z.expects = p.expects
          /\ z.stale = s
      BY <1>11, <1>13, <2>1, <3>1 DEF Flight
    <3> QED BY <1>11, <1>13, <2>1, <3>2 DEF Flight
  <2>2. CASE p.task # o
    <3>1. z = p
      BY <1>7, <1>10, <1>12, <2>2
    <3> QED BY <1>11, <1>13, <2>2, <3>1
  <2> QED BY <2>1, <2>2
<1>15. /\ row \in TaskRow
       /\ "series" \in DOMAIN q.changes => row.series = o
       /\ old.series # 0 => row.series = old.series
       /\ "series" \notin DOMAIN q.changes => row.series = old.series
       /\ row.due = IF "due" \in DOMAIN q.changes THEN q.changes.due ELSE old.due
  BY <1>2, <1>3, <1>4, <1>8, <1>9, AppliedRow
<1>16. row # NoTask /\ row # Purged
  BY <1>15, TasksAssumption
<1>17. \A a \in new : a \in TaskId /\ tasks[a] = NoTask /\ a # o
  BY <1>5, <1>9, FreeAt DEF Exists
<1>18. /\ tasks'[o] = row
       /\ \A a \in TaskId \ {o} : a \notin new => tasks'[a] = tasks[a]
       /\ \A a \in TaskId : a \notin new => made_from'[a] = made_from[a]
       /\ \A a \in new : made_from'[a] = o
  BY <1>7, <1>9, <1>17
<1>19. p.task \notin new /\ Sends(p) /\ tasks[p.task] # NoTask
  BY <1>13, <1>17 DEF FlightStands
<1>20. tasks'[p.task] # NoTask
  BY <1>13, <1>16, <1>18, <1>19
<1>21. p.following # {} => Closes(x, p.task)
  BY <1>10 DEF Closes
<1>22. CASE p.task = o
  <2>1. Fits(p, old) /\ (o \in contested \/ ToldApart(p, tasks, made_from))
    BY <1>3, <1>9, <1>13, <1>22 DEF FlightStands
  <2>2. Fits(z, row)
    <3>1. "series" \in DOMAIN p.changes => row.series \in {0, o}
      BY <1>15, <1>22, <2>1 DEF Fits
    <3>2. "recurs" \in DOMAIN p.changes /\ p.changes.recurs =>
            "series" \in DOMAIN p.changes \/ row.series # 0
      BY <1>15, <2>1 DEF Fits
    <3>3. \A n \in p.following : "series" \notin DOMAIN p.changes => row.series = n.series
      BY <1>15, <1>19, <2>1 DEF Fits, Sends
    <3>4. p.expects => s
      BY <1>11, <1>22
    <3> QED BY <1>14, <1>22, <3>1, <3>2, <3>3, <3>4 DEF Fits
  <2>3. ASSUME o \notin contested', p.following # {}
        PROVE  /\ \A n \in p.following : "due" \notin DOMAIN p.changes => n.due = row.due + 1
               /\ \A a \in TaskId : made_from'[a] = o => Follows(tasks', a, o)
    <3>1. row.due = old.due /\ row.deleted = old.deleted
      <4>1. o \in Contests(r, o)
        BY <1>9, <1>13, <1>21, <1>22, <2>3 DEF Contests
      <4> QED BY <1>6, <1>7, <2>3, <4>1
    <3>2. ToldApart(p, tasks, made_from)
      BY <1>7, <2>1, <2>3
    <3>3. \A n \in p.following : "due" \notin DOMAIN p.changes => n.due = row.due + 1
      BY <1>3, <1>22, <2>3, <3>1, <3>2 DEF ToldApart
    <3>4. ASSUME NEW a \in TaskId, made_from'[a] = o PROVE Follows(tasks', a, o)
      <4>1. CASE a \in new
        <5>1. PICK n \in q.following : n \in TaskRow /\ q.following = {n}
          BY <1>5, <1>8, <4>1 DEF Flight
        <5>2. tasks'[a] = n
          BY <1>7, <1>17, <4>1, <5>1
        <5>3. /\ "due" \in DOMAIN q.changes => n.due = q.changes.due + 1
              /\ "series" \in DOMAIN q.changes => n.series = o
              /\ n.series # 0 /\ ~n.deleted
          BY <1>2, <1>8, <5>1 DEF FlightStands, Sends
        <5>4. /\ "series" \notin DOMAIN q.changes => old.series = n.series
              /\ "due" \notin DOMAIN q.changes => n.due = old.due + 1
          <6>1. Fits(q, old) /\ ToldApart(q, tasks, made_from)
            BY <1>2, <1>3, <1>7, <1>8, <1>9, <2>3 DEF FlightStands
          <6> QED BY <1>2, <1>3, <5>1, <6>1 DEF Fits, ToldApart
        <5>5. n.series = row.series /\ n.due = row.due + 1
          BY <1>15, <5>3, <5>4
        <5>6. n # NoTask /\ n # Purged
          BY <5>1, TasksAssumption
        <5> QED BY <1>18, <5>2, <5>3, <5>5, <5>6 DEF Follows, Exists
      <4>2. CASE a \notin new
        <5>1. made_from[a] = o
          BY <1>18, <3>4, <4>2
        <5>2. a # o
          BY <1>9, <1>13, <1>22, <5>1 DEF TasksInv, SuccessorsKnown
        <5>3. Follows(tasks, a, o)
          BY <1>22, <2>3, <3>2, <5>1 DEF ToldApart
        <5>4. tasks'[a] = tasks[a]
          BY <1>18, <4>2, <5>2
        <5>5. row.series = old.series
          BY <1>3, <1>15, <5>3 DEF Follows
        <5> QED BY <1>3, <1>18, <3>1, <5>3, <5>4, <5>5 DEF Follows, Exists
      <4> QED BY <4>1, <4>2
    <3> QED BY <3>3, <3>4
  <2>4. o \in contested' \/ ToldApart(z, tasks', made_from')
    BY <1>14, <1>18, <1>22, <2>3 DEF ToldApart
  <2>5. FlightStands(requests[x])'
    BY <1>12, <1>14, <1>18, <1>19, <1>20, <1>22, <2>2, <2>4
    DEF FlightStands, Sends, Fits, ToldApart
  <2> QED BY <1>12, <1>14, <2>5
<1>23. CASE p.task # o
  <2>1. tasks'[p.task] = tasks[p.task]
    BY <1>13, <1>18, <1>19, <1>23
  <2>2. z.stale = p.stale
    BY <1>11, <1>14, <1>23
  <2>3. ASSUME Exists(tasks, p.task)
        PROVE  Fits(z, tasks[p.task]) /\
               (p.task \in contested' \/ ToldApart(z, tasks', made_from'))
    <3>1. Fits(p, tasks[p.task]) /\ (p.task \in contested \/ ToldApart(p, tasks, made_from))
      BY <1>13, <2>3 DEF FlightStands
    <3>2. Fits(z, tasks[p.task])
      BY <1>14, <2>2, <3>1 DEF Fits
    <3>3. ASSUME p.task \notin contested', p.following # {}, NEW a \in TaskId,
                 made_from'[a] = p.task
          PROVE  Follows(tasks', a, p.task)
      <4>1. a \notin new /\ made_from[a] = p.task
        BY <1>18, <1>23, <3>3
      <4>2. Follows(tasks, a, p.task)
        BY <1>7, <3>1, <3>3, <4>1 DEF ToldApart
      <4>3. CASE a # o
        BY <1>18, <2>1, <4>1, <4>2, <4>3 DEF Follows, Exists
      <4>4. CASE a = o
        <5>1. row.due = old.due /\ row.deleted = old.deleted
          <6>1. p.task \in Contests(r, o)
            BY <1>13, <1>21, <3>3, <4>1, <4>4 DEF Contests
          <6> QED BY <1>6, <1>7, <3>3, <6>1
        <5>2. row.series = old.series
          BY <1>3, <1>15, <4>2, <4>4 DEF Follows
        <5> QED BY <1>3, <1>16, <1>18, <2>1, <4>2, <4>4, <5>1, <5>2 DEF Follows, Exists
      <4> QED BY <4>3, <4>4
    <3>4. p.task \notin contested' => ToldApart(z, tasks', made_from')
      <4>1. p.task \notin contested' => ToldApart(p, tasks, made_from)
        BY <1>7, <3>1
      <4> QED BY <1>14, <2>1, <3>3, <4>1 DEF ToldApart
    <3> QED BY <3>2, <3>4
  <2>4. FlightStands(requests[x])'
    BY <1>12, <1>14, <1>19, <1>20, <2>1, <2>3
    DEF FlightStands, Sends, Fits, ToldApart, Exists
  <2> QED BY <1>12, <1>14, <2>4
<1> QED BY <1>22, <1>23

LEMMA ApplyStep ==
  ASSUME TasksInv, NEW r \in Requests, task_apply(r)
  PROVE  TasksInv'
<1>1. PICK q : q = requests[r]
  OBVIOUS
<1>2. PICK o : o = q.task
  OBVIOUS
<1>3. PICK row : row = Changed(tasks[o], q.changes)
  OBVIOUS
<1>4. PICK new : new = IF q.following = {} THEN {} ELSE NextFree(tasks)
  OBVIOUS
<1>5. /\ q.step = "apply" /\ Accepted(q)
      /\ tasks' = [t \in TaskId |-> IF t = o THEN row
                                    ELSE IF t \in new THEN CHOOSE n \in q.following : TRUE
                                    ELSE tasks[t]]
      /\ made_from' = [t \in TaskId |-> IF t \in new THEN o ELSE made_from[t]]
      /\ contested \subseteq contested' /\ contested' \subseteq contested \cup Contests(r, o)
  BY <1>1, <1>2, <1>3, <1>4 DEF task_apply
<1>6. requests' = [y \in Requests |->
           IF y = r THEN NoRequest
           ELSE IF requests[y].step = "apply" /\ requests[y].task = o
           THEN [requests[y] EXCEPT !.stale = requests[y].expects] ELSE requests[y]]
  BY <1>1, <1>2 DEF task_apply
<1>7. Flight(q) /\ FlightStands(q) /\ TasksTypeOK
  BY <1>1, <1>5, FlightAt DEF TasksInv, FlightsStand
<1>8. Exists(tasks, o) /\ Allowed(q.user, tasks[o]) /\ o \in TaskId /\ o # 0
  BY <1>2, <1>5, <1>7 DEF Accepted, Flight, TaskId
<1>9. /\ row \in TaskRow /\ TakenUp(row) /\ (row.recurs => row.series # 0)
      /\ tasks[o].spawned => row.spawned
      /\ q.following # {} => row.spawned
  BY <1>2, <1>3, <1>7, <1>8, AppliedRow
<1>10. row # NoTask /\ row # Purged
  BY <1>9, TasksAssumption
<1>11. \A a \in new : /\ a \in TaskId /\ tasks[a] = NoTask /\ a # o /\ new = {a}
                      /\ q.following # {}
  BY <1>4, <1>8, FreeAt DEF Exists
<1>12. /\ tasks'[o] = row
       /\ \A a \in TaskId \ {o} : a \notin new => tasks'[a] = tasks[a]
       /\ \A a \in TaskId : a \notin new => made_from'[a] = made_from[a]
       /\ \A a \in new : made_from'[a] = o
  BY <1>5, <1>8, <1>11
<1>13. ASSUME NEW a \in new
       PROVE  /\ tasks'[a] \in TaskRow /\ tasks'[a] # NoTask
              /\ TakenUp(tasks'[a]) /\ (tasks'[a].recurs => tasks'[a].series # 0)
  <2>1. PICK n \in q.following : n \in TaskRow /\ q.following = {n}
    BY <1>7, <1>11 DEF Flight
  <2>2. tasks'[a] = n
    BY <1>5, <1>11, <2>1
  <2>3. TakenUp(n) /\ n.series # 0
    BY <1>7, <2>1 DEF FlightStands, Sends
  <2> QED BY <2>1, <2>2, <2>3, TasksAssumption
<1>14. TasksTypeOK'
  <2>1. tasks' \in [TaskId -> TaskRow \cup {NoTask, Purged}]
    <3>1. \A t \in TaskId : tasks'[t] \in TaskRow \cup {NoTask, Purged}
      BY <1>7, <1>9, <1>12, <1>13 DEF TasksTypeOK
    <3> QED BY <1>5, <3>1
  <2>2. made_from' \in [TaskId -> TaskId \cup {0}]
    BY <1>5, <1>7, <1>8 DEF TasksTypeOK
  <2>3. contested' \in SUBSET TaskId
    BY <1>5, <1>7, <1>8 DEF TasksTypeOK, Contests
  <2>4. ASSUME NEW x \in Requests PROVE requests'[x] = NoRequest \/ Flight(requests'[x])
    <3>1. CASE x = r
      BY <1>6, <3>1
    <3>2. CASE x # r /\ requests[x].step = "apply"
      BY <3>2, OthersFit
    <3>3. CASE x # r /\ requests[x].step # "apply"
      BY <1>6, <1>7, <3>3 DEF TasksTypeOK
    <3> QED BY <3>1, <3>2, <3>3
  <2> QED BY <1>6, <2>1, <2>2, <2>3, <2>4 DEF TasksTypeOK
<1>15. RowsStand'
  <2> SUFFICES ASSUME NEW t \in TaskId, Exists(tasks, t)'
               PROVE  TakenUp(tasks'[t]) /\ (tasks'[t].recurs => tasks'[t].series # 0)
    BY DEF RowsStand, TakenUp
  <2>1. CASE t = o
    BY <1>9, <1>12, <2>1
  <2>2. CASE t \in new
    BY <1>13, <2>2
  <2>3. CASE t # o /\ t \notin new
    BY <1>12, <2>3 DEF TasksInv, RowsStand, Exists
  <2> QED BY <2>1, <2>2, <2>3
<1>16. SuccessorsKnown'
  <2> SUFFICES ASSUME NEW a \in TaskId, made_from'[a] # 0
               PROVE  /\ made_from'[a] # a /\ tasks'[a] # NoTask /\ tasks'[made_from'[a]] # NoTask
                      /\ tasks'[made_from'[a]] # Purged => tasks'[made_from'[a]].spawned
    BY DEF SuccessorsKnown, Exists
  <2>1. CASE a \in new
    BY <1>9, <1>10, <1>11, <1>12, <1>13, <2>1
  <2>2. CASE a \notin new
    <3>1. PICK m : m = made_from[a] /\ m = made_from'[a]
      BY <1>12, <2>2
    <3>2. /\ m # a /\ tasks[a] # NoTask /\ tasks[m] # NoTask /\ m \in TaskId
          /\ Exists(tasks, m) => tasks[m].spawned
      BY <1>7, <3>1 DEF TasksInv, SuccessorsKnown, TasksTypeOK
    <3>3. tasks'[a] # NoTask
      BY <1>10, <1>12, <2>2, <3>2
    <3>4. tasks'[m] # NoTask /\ (tasks'[m] # Purged => tasks'[m].spawned)
      BY <1>8, <1>9, <1>10, <1>11, <1>12, <3>2 DEF Exists
    <3> QED BY <3>1, <3>2, <3>3, <3>4
  <2> QED BY <2>1, <2>2
<1>17. FlightsStand'
  <2> SUFFICES ASSUME NEW x \in Requests, requests'[x].step = "apply"
               PROVE  FlightStands(requests[x])'
    BY DEF FlightsStand
  <2>1. x # r
    BY <1>6 DEF NoRequest
  <2>2. requests[x].step = "apply"
    BY <1>6, <2>1
  <2> QED BY <2>1, <2>2, OthersFit
<1>18. OneSuccessor'
  <2> SUFFICES ASSUME NEW a \in TaskId, NEW b \in TaskId, a # b, made_from'[a] # 0,
                      made_from'[a] = made_from'[b]
               PROVE  made_from'[a] \in contested'
    BY DEF OneSuccessor
  <2>1. \A d \in TaskId : made_from[d] = o /\ q.following # {} => o \in contested'
    BY <1>1, <1>2, NoSecond
  <2>2. CASE a \in new
    <3>1. b \notin new
      BY <1>11, <2>2
    <3> QED BY <1>11, <1>12, <2>1, <2>2, <3>1
  <2>3. CASE a \notin new /\ b \in new
    BY <1>11, <1>12, <2>1, <2>3
  <2>4. CASE a \notin new /\ b \notin new
    BY <1>5, <1>12, <2>4 DEF TasksInv, OneSuccessor
  <2> QED BY <2>2, <2>3, <2>4
<1> QED BY <1>14, <1>15, <1>16, <1>17, <1>18 DEF TasksInv

-----------------------------------------------------------------------------
(* The theorems                                                             *)

(* The shared task table stands at every moment, whatever the users, tasks  *)
(* and requests: the rows, what each request in flight is about to write,   *)
(* and what it still finds when it writes it.                               *)
THEOREM TasksInvariant == TaskSpec => []TasksInv
<1>1. TaskInit => TasksInv
  <2> SUFFICES ASSUME TaskInit PROVE TasksInv
    OBVIOUS
  <2>1. /\ tasks = [t \in TaskId |-> NoTask] /\ requests = [r \in Requests |-> NoRequest]
        /\ made_from = [t \in TaskId |-> 0] /\ contested = {}
    BY DEF TaskInit
  <2>2. NoRequest.step = "idle"
    BY DEF NoRequest
  <2>3. TasksTypeOK
    BY <2>1 DEF TasksTypeOK
  <2>4. RowsStand /\ SuccessorsKnown /\ FlightsStand /\ OneSuccessor
    BY <2>1, <2>2 DEF RowsStand, SuccessorsKnown, FlightsStand, OneSuccessor, Exists
  <2> QED BY <2>3, <2>4 DEF TasksInv
<1>2. TasksInv /\ [TaskNext]_taskVars => TasksInv'
  <2> SUFFICES ASSUME TasksInv, [TaskNext]_taskVars PROVE TasksInv'
    OBVIOUS
  <2>1. CASE UNCHANGED taskVars
    <3>1. UNCHANGED <<tasks, requests, made_from, contested>>
      BY <2>1 DEF taskVars
    <3>2. TasksTypeOK' /\ RowsStand' /\ SuccessorsKnown' /\ OneSuccessor'
      BY <3>1 DEF TasksInv, TasksTypeOK, RowsStand, SuccessorsKnown, OneSuccessor, Exists
    <3>3. FlightsStand'
      BY <3>1 DEF TasksInv, FlightsStand, FlightStands, Exists, ToldApart, Follows
    <3> QED BY <3>2, <3>3 DEF TasksInv
  <2>2. ASSUME NEW c \in Creations, create_task(c.creator, c.crm, c.assignee) PROVE TasksInv'
    BY <2>2, CreateStep
  <2>3. ASSUME NEW r \in Requests, NEW u \in Users, NEW t \in TaskId, Handlers(r, u, t)
        PROVE  TasksInv'
    BY <2>3, HandlersStep
  <2>4. ASSUME NEW r \in Requests, task_apply(r) PROVE TasksInv'
    BY <2>4, ApplyStep
  <2>5. ASSUME NEW r \in Requests, task_apply_refused(r) PROVE TasksInv'
    BY <2>5, RefusedStep
  <2>6. ASSUME NEW t \in TaskId, purge_deleted(t) PROVE TasksInv'
    BY <2>6, PurgeStep
  <2> QED BY <2>1, <2>2, <2>3, <2>4, <2>5, <2>6 DEF TaskNext
<1> QED BY <1>1, <1>2, PTL DEF TaskSpec

(* FR-TASK-RRULE-03: an occurrence makes its next one once, however many    *)
(* requests close it, from either application, at once or after reopening   *)
(* it, as long as its dates are not moved under one of them.                *)
THEOREM NextMadeOnce == TaskSpec => []OneSuccessor
<1>1. TasksInv => OneSuccessor
  BY DEF TasksInv
<1> QED BY <1>1, TasksInvariant, PTL

(* FR-TASK-DEL-02: the acceptance a private task carries is its assignee's  *)
(* or its creator's; an answer of an earlier assignee that comes late does  *)
(* not take the task up.                                                    *)
THEOREM OnlyAssigneeTakesUp == TaskSpec => []TakenUpByAssignee
<1>1. TasksInv => TakenUpByAssignee
  BY DEF TasksInv, RowsStand, TakenUp, TakenUpByAssignee
<1> QED BY <1>1, TasksInvariant, PTL
=============================================================================
