---------------------------- MODULE TimesheetsProofs ----------------------------
(***************************************************************************)
(* What Timesheets checks on a small instance, proved for any people,      *)
(* projects, calendar, grace period and number of requests in flight: a    *)
(* save leaves exactly its lines, a closed week's record stands, and no    *)
(* expected week leaves the nightly task's reach without a sign-off.       *)
(***************************************************************************)
EXTENDS Timesheets, TLAPS

-----------------------------------------------------------------------------
(* The inductive invariant *)

Hours == Int \cup {NoLine}
Known == [Key -> {"none", "row", "gone"}]

ReadsProjects ==
  [step : {"projects"}, on : Day, user : People, day : Day, lines : Submissions,
   alone : BOOLEAN]
ReadsEntries ==
  [step : {"entries"}, on : Day, user : People, day : Day, lines : Submissions,
   alone : BOOLEAN, known : SUBSET Projects]
Writes ==
  [step : {"write", "audit"}, on : Day, user : People, day : Day, lines : Submissions,
   alone : BOOLEAN, found : Known, todo : SUBSET Key, drop : SUBSET Key]
Saves == ReadsProjects \cup ReadsEntries \cup Writes

Reopens == [step : {"delete"}, on : Day, user : People, week : Week]

Nights ==
  [step : {"week"}, on : Day, weeks : SUBSET Week]
    \cup [step : {"week", "people"}, on : Day, weeks : SUBSET Week, week : Week,
          people : SUBSET People]

TimesheetTypeOK ==
  /\ today \in Day /\ last_night \in Day
  /\ entries \in [People \X Day \X Key -> Hours]
  /\ confirmations \in [People \X Week -> {"none", "confirmed", "auto"}]
  /\ savers \in [Savers -> {Idle} \cup Saves]
  /\ reopening \in {Idle} \cup Reopens
  /\ nightly \in {Idle} \cup Nights

(* A request is of today or yesterday, and was allowed on its day; the last *)
(* finished night is not longer ago than the outage and tonight.            *)
Current ==
  /\ \A s \in Savers : savers[s] # Idle =>
       savers[s].on \in {today - 1, today} /\ ~is_locked(savers[s].day, savers[s].on)
  /\ reopening # Idle =>
       reopening.on \in {today - 1, today} /\ ~week_closed(reopening.week, reopening.on)
  /\ nightly # Idle => nightly.on \in {today - 1, today}
  /\ last_night <= today /\ today - last_night <= MaxOutage + 1

(* Lines have hours, and a save that counts as alone on its day is alone.   *)
Asked(s) ==
  LET r == savers[s] IN
  /\ \A k \in DOMAIN r.lines : r.lines[k] > 0
  /\ r.alone => \A t \in Savers \ {s} : ~SavesSameDay(t, r.user, r.day)

(* What a save that has read the day's rows still has to do, and, when no   *)
(* other save of that day was beside it, what the rows are meanwhile: those *)
(* it is done with are as submitted, and those it will delete it has seen.  *)
RowsOf(r) ==
  \A k \in Key :
    /\ k \in DOMAIN r.lines \ r.todo => entries[<<r.user, r.day, k>>] = r.lines[k]
    /\ k \in r.drop => r.found[k] = "row"
    /\ k \notin DOMAIN r.lines \cup r.drop => entries[<<r.user, r.day, k>>] = NoLine

HalfWritten(r) ==
  r.step \in {"write", "audit"} =>
    /\ r.todo \subseteq DOMAIN r.lines /\ r.drop \cap DOMAIN r.lines = {}
    /\ r.step = "audit" => r.todo = {} /\ r.drop = {}
    /\ r.alone => RowsOf(r)

SavesInStep == \A s \in Savers : savers[s] # Idle => Asked(s) /\ HalfWritten(savers[s])

(* The weeks that had closed a day before a night are signed off after it:  *)
(* a day later, so that no reopening tested before they closed is left.     *)
Due(u, w, on) == week_expected(u, w) /\ week_closed(w, on - 1)

NightsKept == \A u \in People, w \in Week : Due(u, w, last_night) => Signed(u, w)

NightUnderWay ==
  nightly # Idle =>
    \A u \in People, w \in Week :
      /\ Due(u, w, nightly.on)
      /\ w >= monday_of(nightly.on) - RecentWeeks * DaysPerWeek
      /\ w \notin nightly.weeks
      => \/ Signed(u, w)
         \/ nightly.step = "people" /\ w = nightly.week /\ u \in nightly.people

TimesheetInv ==
  TimesheetTypeOK /\ Current /\ SavesInStep /\ NightsKept /\ NightUnderWay

-----------------------------------------------------------------------------
(* Arithmetic of days and weeks *)

(* A quotient is the only number whose multiple is within a divisor below. *)
LEMMA Quotient ==
  ASSUME NEW D \in Nat \ {0}, NEW q \in Int, NEW e \in Int, q * D <= e, e < q * D + D
  PROVE  e \div D = q
<1> DEFINE p == e \div D
<1>1. p \in Int /\ p * D <= e /\ e < p * D + D
  BY SMT
<1> HIDE DEF p
<1>2. p < q => (p + 1) * D <= q * D
  BY <1>1, SMT
<1>3. q < p => (q + 1) * D <= p * D
  BY <1>1, SMT
<1>4. (p + 1) * D = p * D + D /\ (q + 1) * D = q * D + D
  BY <1>1, SMT
<1>5. p * D \in Int /\ q * D \in Int
  BY <1>1, SMT
<1>6. p = q
  BY <1>1, <1>2, <1>3, <1>4, <1>5, SMT
<1> QED BY <1>6 DEF p

(* The Monday of a day is at most a week before it, and is its own Monday. *)
LEMMA Mondays ==
  ASSUME NEW d \in Int
  PROVE  /\ monday_of(d) \in Int
         /\ monday_of(d) <= d /\ d < monday_of(d) + DaysPerWeek
         /\ monday_of(monday_of(d)) = monday_of(d)
         /\ monday_of(monday_of(d) + DaysPerWeek - 1) = monday_of(d)
<1> DEFINE q == d \div DaysPerWeek
<1>1. q \in Int /\ q * DaysPerWeek \in Int
  BY GraceAssumption, SMT
<1>2. q * DaysPerWeek <= d /\ d < q * DaysPerWeek + DaysPerWeek
  BY GraceAssumption, SMT
<1> HIDE DEF q
<1>3. (q * DaysPerWeek) \div DaysPerWeek = q
  BY <1>1, Quotient, GraceAssumption, SMT
<1>4. (q * DaysPerWeek + DaysPerWeek - 1) \div DaysPerWeek = q
  BY <1>1, Quotient, GraceAssumption, SMT
<1> QED BY <1>1, <1>2, <1>3, <1>4 DEF monday_of, q

(* Of two Mondays the earlier is a week before the later, or more. *)
LEMMA WeeksApart ==
  ASSUME NEW d \in Int, NEW e \in Int, monday_of(d) < monday_of(e)
  PROVE  monday_of(d) + DaysPerWeek <= monday_of(e)
BY GraceAssumption, SMT DEF monday_of

(* A week is the Monday of a day, and so is its own Monday. *)
LEMMA WeekIsMonday ==
  ASSUME NEW w \in Week
  PROVE  w \in Nat /\ monday_of(w) = w
<1>1. PICK d \in Day : w = monday_of(d)
  BY DEF Week
<1>2. d \in Int /\ d >= 0
  BY GraceAssumption DEF Day
<1>3. w \in Int /\ monday_of(w) = w
  BY <1>1, <1>2, Mondays
<1>4. w >= 0
  BY <1>1, <1>2, GraceAssumption, SMT DEF monday_of
<1> QED BY <1>3, <1>4

(* When a day's time is locked, and that its week is closed then. *)
LEMMA Locks ==
  ASSUME NEW d \in Day, NEW on \in Int
  PROVE  /\ monday_of(d) \in Week
         /\ is_locked(d, on) <=> on >= monday_of(d) + DaysPerWeek + GraceDays
         /\ week_closed(monday_of(d), on) <=> on >= monday_of(d) + DaysPerWeek + GraceDays
<1>1. d \in Int
  BY DEF Day
<1>2. monday_of(d) \in Int /\ monday_of(d) \in Week
  BY <1>1, Mondays DEF Week
<1>3. monday_of(monday_of(d)) = monday_of(d)
      /\ monday_of(monday_of(d) + DaysPerWeek - 1) = monday_of(d)
  BY <1>1, Mondays
<1> QED BY <1>2, <1>3, GraceAssumption DEF is_locked, week_closed, entry_locks_on, week_end

(* When a week is closed, and that it stays so. *)
LEMMA Closes ==
  ASSUME NEW w \in Week, NEW on \in Int
  PROVE  week_closed(w, on) <=> on >= w + DaysPerWeek + GraceDays
<1>1. PICK d \in Day : w = monday_of(d)
  BY DEF Week
<1> QED BY <1>1, Locks

(* A locked day stays locked. *)
LEMMA LocksLater ==
  ASSUME NEW d \in Day, NEW on \in Int, NEW later \in Int, on <= later
  PROVE  is_locked(d, on) => is_locked(d, later)
<1>1. d \in Int
  BY DEF Day
<1> QED BY <1>1, Mondays, Locks, GraceAssumption

(* A closed week stays closed. *)
LEMMA ClosesLater ==
  ASSUME NEW w \in Week, NEW on \in Int, NEW later \in Int, on <= later
  PROVE  week_closed(w, on) => week_closed(w, later)
BY Closes, WeekIsMonday, GraceAssumption

-----------------------------------------------------------------------------
(* What a step that concerns one part leaves alone *)

(* Sign-offs and nights are untouched by a step that does not write them. *)
LEMMA SignOffFrame ==
  ASSUME NightsKept, NightUnderWay, UNCHANGED <<confirmations, nightly, last_night>>
  PROVE  NightsKept' /\ NightUnderWay'
BY DEF NightsKept, NightUnderWay, Signed

(* Saves are untouched by a step that does not write them or the day's rows. *)
LEMMA SavesFrame ==
  ASSUME SavesInStep, UNCHANGED <<entries, savers>>
  PROVE  SavesInStep'
BY DEF SavesInStep, Asked, HalfWritten, RowsOf, SavesSameDay

(* A save in flight has all that a save carries, and no idle one looks like it. *)
LEMMA SaverShape ==
  ASSUME TimesheetTypeOK, NEW s \in Savers
  PROVE  /\ savers[s] # Idle <=> savers[s].step # "idle"
         /\ savers[s] # Idle =>
              /\ savers[s] \in Saves /\ savers[s].on \in Day /\ savers[s].user \in People
              /\ savers[s].day \in Day /\ savers[s].lines \in Submissions
              /\ savers[s].alone \in BOOLEAN
              /\ DOMAIN savers[s].lines \subseteq Key
         /\ savers[s].step = "projects" => savers[s] \in ReadsProjects
         /\ savers[s].step = "entries" => savers[s] \in ReadsEntries
         /\ savers[s].step \in {"write", "audit"} => savers[s] \in Writes
<1>1. savers[s] \in {Idle} \cup Saves
  BY DEF TimesheetTypeOK
<1>2. CASE savers[s] = Idle
  BY <1>2 DEF Idle
<1>3. CASE savers[s] \in ReadsProjects
  BY <1>3, SubmissionsAssumption DEF ReadsProjects, Saves, Idle
<1>4. CASE savers[s] \in ReadsEntries
  BY <1>4, SubmissionsAssumption DEF ReadsEntries, Saves, Idle
<1>5. CASE savers[s] \in Writes
  BY <1>5, SubmissionsAssumption DEF Writes, Saves, Idle
<1> QED BY <1>1, <1>2, <1>3, <1>4, <1>5 DEF Saves

(* The same request, further on. *)
SameRequest(r, q) ==
  /\ q.on = r.on /\ q.user = r.user /\ q.day = r.day
  /\ q.lines = r.lines /\ q.alone = r.alone

(* A save another request is beside: it keeps what it has to do, and, while *)
(* it counts as alone, what it knows.                                       *)
LeftAlone(t) ==
  IF savers[t] = Idle THEN savers'[t] = Idle
  ELSE /\ savers'[t] # Idle
       /\ SameRequest(savers[t], savers'[t]) /\ savers'[t].step = savers[t].step
       /\ savers[t].step \in {"write", "audit"} =>
            /\ savers'[t].todo = savers[t].todo /\ savers'[t].drop = savers[t].drop
            /\ savers[t].alone => savers'[t].found = savers[t].found

(* A step of one save, which writes rows of its own day only, keeps the     *)
(* invariant if that save itself stands as it should.                       *)
LEMMA SaveMoves ==
  ASSUME TimesheetInv, NEW s \in Savers, savers[s] # Idle, TimesheetTypeOK',
         UNCHANGED <<today, confirmations, reopening, nightly, last_night>>,
         \A t \in Savers \ {s} : LeftAlone(t),
         savers'[s] # Idle => SameRequest(savers[s], savers'[s]) /\ HalfWritten(savers[s])',
         \A u \in People, d \in Day, k \in Key :
           entries'[<<u, d, k>>] # entries[<<u, d, k>>] =>
             u = savers[s].user /\ d = savers[s].day
  PROVE  TimesheetInv'
<1> USE DEF TimesheetInv
<1>1. Current'
  BY DEF Current, LeftAlone, SameRequest
<1>2. NightsKept' /\ NightUnderWay'
  BY SignOffFrame
<1>3. ASSUME NEW x \in Savers, NEW u, NEW d, SavesSameDay(x, u, d)'
      PROVE  SavesSameDay(x, u, d)
  <2>1. savers'[x] # Idle
    BY <1>3 DEF SavesSameDay, Idle
  <2>2. savers[x] # Idle /\ SameRequest(savers[x], savers'[x])
    BY <2>1 DEF LeftAlone
  <2> QED BY <1>3, <2>2, SaverShape DEF SavesSameDay, SameRequest
<1>4. ASSUME NEW t \in Savers, savers'[t] # Idle
      PROVE  Asked(t)'
  <2>1. savers[t] # Idle /\ SameRequest(savers[t], savers'[t])
    BY <1>4 DEF LeftAlone
  <2>2. Asked(t)
    BY <2>1 DEF SavesInStep
  <2> QED BY <1>3, <2>1, <2>2 DEF Asked, SameRequest
<1>5. ASSUME NEW t \in Savers \ {s}, savers'[t] # Idle
      PROVE  HalfWritten(savers[t])'
  <2>1. savers[t] # Idle /\ LeftAlone(t)
    BY <1>5 DEF LeftAlone
  <2>2. Asked(t) /\ HalfWritten(savers[t])
    BY <2>1 DEF SavesInStep
  <2>3. savers[t].user \in People /\ savers[t].day \in Day
    BY <2>1, SaverShape
  <2>4. ASSUME savers[t].alone, NEW k \in Key
        PROVE  entries'[<<savers[t].user, savers[t].day, k>>]
                 = entries[<<savers[t].user, savers[t].day, k>>]
    <3>1. ~SavesSameDay(s, savers[t].user, savers[t].day)
      BY <2>2, <2>4 DEF Asked
    <3>2. ~(savers[t].user = savers[s].user /\ savers[t].day = savers[s].day)
      BY <3>1, SaverShape DEF SavesSameDay
    <3> QED BY <2>3, <3>2
  <2>5. SameRequest(savers[t], savers'[t]) /\ savers'[t].step = savers[t].step
    BY <2>1 DEF LeftAlone
  <2>6. savers[t].step \in {"write", "audit"} =>
          /\ savers'[t].todo = savers[t].todo /\ savers'[t].drop = savers[t].drop
          /\ savers[t].alone => savers'[t].found = savers[t].found
    BY <2>1 DEF LeftAlone
  <2> QED BY <2>2, <2>4, <2>5, <2>6 DEF HalfWritten, RowsOf, SameRequest
<1>6. SavesInStep'
  BY <1>4, <1>5 DEF SavesInStep
<1> QED BY <1>1, <1>2, <1>6

-----------------------------------------------------------------------------
(* The steps of a save *)

(* A save with nothing left to write turns to its audit entry, unchanged.   *)
LEMMA AfterWriteShape ==
  ASSUME NEW r \in Writes, r.step = "write"
  PROVE  /\ AfterWrite(r) \in Writes /\ AfterWrite(r) # Idle
         /\ SameRequest(r, AfterWrite(r))
         /\ AfterWrite(r).found = r.found
         /\ AfterWrite(r).todo = r.todo /\ AfterWrite(r).drop = r.drop
         /\ AfterWrite(r).step = "audit" => r.todo = {} /\ r.drop = {}
BY DEF AfterWrite, Writes, SameRequest, Idle

(* Who was beside a new save no longer counts as alone; it does if nobody was. *)
LEMMA SaveBegins ==
  ASSUME TimesheetInv, NEW s \in Savers, NEW u \in People, NEW d \in LogDays,
         NEW lines \in Submissions, save_day(s, u, d, lines)
  PROVE  TimesheetInv'
<1> USE DEF TimesheetInv
<1> DEFINE others == {t \in Savers \ {s} : SavesSameDay(t, u, d)}
           made == [step |-> "projects", on |-> today, user |-> u, day |-> d,
                    lines |-> lines, alone |-> others = {}]
           seen(t) == [savers[t] EXCEPT !.alone = FALSE]
<1>1. /\ savers[s] = Idle /\ check_can_log(d, today) /\ check_day_total(lines)
      /\ savers' = [t \in Savers |-> IF t = s THEN made
                                     ELSE IF t \in others THEN seen(t) ELSE savers[t]]
      /\ UNCHANGED <<today, entries, confirmations, reopening, nightly, last_night>>
  BY DEF save_day
<1>2. today \in Day /\ d \in Day
  BY SubmissionsAssumption DEF TimesheetTypeOK
<1>3. made \in ReadsProjects /\ made # Idle
  BY <1>2 DEF ReadsProjects, Idle
<1>4. ASSUME NEW t \in others
      PROVE  /\ seen(t) \in Saves /\ seen(t) # Idle /\ ~seen(t).alone
             /\ seen(t).step = savers[t].step /\ seen(t).on = savers[t].on
             /\ seen(t).user = savers[t].user /\ seen(t).day = savers[t].day
             /\ seen(t).lines = savers[t].lines
             /\ savers[t].step \in {"write", "audit"} =>
                  seen(t).todo = savers[t].todo /\ seen(t).drop = savers[t].drop
  <2>1. savers[t] # Idle
    BY SaverShape DEF SavesSameDay
  <2>2. savers[t] \in Saves
    BY <2>1 DEF TimesheetTypeOK
  <2>3. CASE savers[t] \in ReadsProjects
    BY <2>3 DEF ReadsProjects, Saves, Idle
  <2>4. CASE savers[t] \in ReadsEntries
    BY <2>4 DEF ReadsEntries, Saves, Idle
  <2>5. CASE savers[t] \in Writes
    BY <2>5 DEF Writes, Saves, Idle
  <2> QED BY <2>2, <2>3, <2>4, <2>5 DEF Saves
<1> HIDE DEF made, seen
<1>5. ASSUME NEW t \in Savers
      PROVE  savers'[t] = IF t = s THEN made ELSE IF t \in others THEN seen(t) ELSE savers[t]
  BY <1>1
<1>6. savers' \in [Savers -> {Idle} \cup Saves]
  BY <1>1, <1>3, <1>4 DEF TimesheetTypeOK, Saves
<1>7. TimesheetTypeOK'
  BY <1>1, <1>6 DEF TimesheetTypeOK
<1>8. made.on = today /\ made.user = u /\ made.day = d /\ made.lines = lines
      /\ (made.alone => others = {}) /\ made.step = "projects"
  BY DEF made
<1>9. Current'
  <2>1. ~is_locked(d, today)
    BY <1>1 DEF check_can_log
  <2>2. ASSUME NEW t \in Savers, savers'[t] # Idle
        PROVE  savers'[t].on \in {today - 1, today} /\ ~is_locked(savers'[t].day, savers'[t].on)
    <3>1. CASE t = s
      BY <3>1, <2>1, <1>5, <1>8
    <3>2. CASE t \in others
      <4>1. savers[t] # Idle /\ savers'[t] = seen(t) /\ t # s
        BY <3>2, <1>5, SaverShape DEF SavesSameDay
      <4> QED BY <4>1, <3>2, <1>4 DEF Current
    <3>3. CASE t # s /\ t \notin others
      BY <3>3, <2>2, <1>5 DEF Current
    <3> QED BY <3>1, <3>2, <3>3
  <2> QED BY <1>1, <2>2 DEF Current
<1>10. NightsKept' /\ NightUnderWay'
  BY <1>1, SignOffFrame
<1>11. ASSUME NEW x \in Savers, NEW v, NEW e, x # s, SavesSameDay(x, v, e)'
       PROVE  SavesSameDay(x, v, e)
  BY <1>11, <1>4, <1>5 DEF SavesSameDay
<1>12. ASSUME NEW t \in Savers, savers'[t] # Idle
       PROVE  Asked(t)'
  <2>1. CASE t = s
    <3>1. \A k \in DOMAIN lines : lines[k] > 0
      BY <1>1 DEF check_day_total
    <3>2. others = {} => \A x \in Savers \ {s} : ~SavesSameDay(x, u, d)'
      BY <1>11
    <3>3. savers'[s] = made
      BY <1>5
    <3> QED BY <2>1, <3>1, <3>2, <3>3, <1>8 DEF Asked
  <2>2. CASE t \in others
    <3>1. savers[t] # Idle /\ savers'[t] = seen(t) /\ t # s
      BY <2>2, <1>5, SaverShape DEF SavesSameDay
    <3>2. Asked(t)
      BY <3>1 DEF SavesInStep
    <3> QED BY <2>2, <3>1, <3>2, <1>4 DEF Asked
  <2>3. CASE t # s /\ t \notin others
    <3>1. savers'[t] = savers[t]
      BY <2>3, <1>5
    <3>2. Asked(t)
      BY <3>1, <1>12 DEF SavesInStep
    <3>3. ~SavesSameDay(t, u, d)
      BY <2>3
    <3>4. ~SavesSameDay(s, savers[t].user, savers[t].day)'
      BY <3>1, <3>3, <1>12, <1>5, <1>8, SaverShape DEF SavesSameDay
    <3> QED BY <3>1, <3>2, <3>4, <1>11 DEF Asked
  <2> QED BY <2>1, <2>2, <2>3
<1>13. ASSUME NEW t \in Savers, savers'[t] # Idle
       PROVE  HalfWritten(savers[t])'
  <2>1. CASE t = s
    BY <2>1, <1>5, <1>8 DEF HalfWritten
  <2>2. CASE t \in others
    <3>1. savers[t] # Idle /\ savers'[t] = seen(t) /\ t # s
      BY <2>2, <1>5, SaverShape DEF SavesSameDay
    <3>2. HalfWritten(savers[t])
      BY <3>1 DEF SavesInStep
    <3> QED BY <2>2, <3>1, <3>2, <1>4 DEF HalfWritten
  <2>3. CASE t # s /\ t \notin others
    <3>1. savers'[t] = savers[t]
      BY <2>3, <1>5
    <3>2. HalfWritten(savers[t])
      BY <3>1, <1>13 DEF SavesInStep
    <3> QED BY <1>1, <3>1, <3>2 DEF HalfWritten, RowsOf
  <2> QED BY <2>1, <2>2, <2>3
<1> QED BY <1>7, <1>9, <1>10, <1>12, <1>13 DEF SavesInStep

(* Reading the projects writes nothing. *)
LEMMA ProjectsRead ==
  ASSUME TimesheetInv, NEW s \in Savers, save_list_projects(s)
  PROVE  TimesheetInv'
<1> USE DEF TimesheetInv
<1>1. savers[s] \in ReadsProjects /\ savers[s] # Idle
  BY SaverShape, SMT DEF save_list_projects
<1>2. /\ \A t \in Savers \ {s} : savers'[t] = savers[t]
      /\ savers'[s] \in ReadsEntries /\ savers' \in [Savers -> {Idle} \cup Saves]
      /\ SameRequest(savers[s], savers'[s])
      /\ UNCHANGED <<today, entries, confirmations, reopening, nightly, last_night>>
  BY <1>1 DEF save_list_projects, TimesheetTypeOK, ReadsProjects, ReadsEntries, Saves,
              SameRequest
<1>3. TimesheetTypeOK'
  BY <1>2 DEF TimesheetTypeOK
<1>4. HalfWritten(savers[s])'
  BY <1>2 DEF HalfWritten, ReadsEntries
<1>5. \A t \in Savers \ {s} : LeftAlone(t)
  BY <1>2 DEF LeftAlone, SameRequest
<1> QED BY <1>1, <1>2, <1>3, <1>4, <1>5, SaveMoves

(* A request that ends is in nobody's way. *)
LEMMA SaveEnds ==
  ASSUME TimesheetInv, NEW s \in Savers, savers[s] # Idle,
         savers' = [savers EXCEPT ![s] = Idle],
         UNCHANGED <<today, entries, confirmations, reopening, nightly, last_night>>
  PROVE  TimesheetInv'
<1> USE DEF TimesheetInv
<1>1. /\ \A t \in Savers \ {s} : savers'[t] = savers[t]
      /\ savers'[s] = Idle /\ savers' \in [Savers -> {Idle} \cup Saves]
  BY DEF TimesheetTypeOK
<1>2. TimesheetTypeOK'
  BY <1>1 DEF TimesheetTypeOK
<1>3. \A t \in Savers \ {s} : LeftAlone(t)
  BY <1>1 DEF LeftAlone, SameRequest
<1> QED BY <1>1, <1>2, <1>3, SaveMoves

(* The lines to write and those to delete are what tells the day's rows from *)
(* what was submitted.                                                       *)
LEMMA EntriesRead ==
  ASSUME TimesheetInv, NEW s \in Savers, save_list_entries(s)
  PROVE  TimesheetInv'
<1> USE DEF TimesheetInv
<1> DEFINE r == savers[s]
           logged == Logged(r.user, r.day)
           known == [k \in Key |-> IF k \in logged THEN "row" ELSE "none"]
           made == [step |-> "write", on |-> r.on, user |-> r.user, day |-> r.day,
                    lines |-> r.lines, alone |-> r.alone, found |-> known,
                    todo |-> DOMAIN r.lines, drop |-> logged \ DOMAIN r.lines]
<1>1. r \in ReadsEntries /\ r # Idle
  BY SaverShape, SMT DEF save_list_entries
<1>2. /\ \/ savers' = [savers EXCEPT ![s] = AfterWrite(made)]
         \/ savers' = [savers EXCEPT ![s] = Idle]
      /\ UNCHANGED <<today, entries, confirmations, reopening, nightly, last_night>>
  BY DEF save_list_entries
<1>3. CASE savers' = [savers EXCEPT ![s] = Idle]
  BY <1>1, <1>2, <1>3, SaveEnds
<1>4. CASE savers' = [savers EXCEPT ![s] = AfterWrite(made)]
  <2>1. DOMAIN r.lines \subseteq Key
    BY <1>1, SubmissionsAssumption DEF ReadsEntries
  <2>2. logged \subseteq Key /\ known \in Known
    BY DEF Logged, Known
  <2>3. made \in Writes /\ made.step = "write" /\ SameRequest(r, made)
    BY <1>1, <2>1, <2>2 DEF Writes, ReadsEntries, SameRequest
  <2>4. made.todo = DOMAIN made.lines /\ made.drop = logged \ DOMAIN made.lines
        /\ made.found = known /\ made.user = r.user /\ made.day = r.day
        /\ made.lines = r.lines
    OBVIOUS
  <2>5. RowsOf(made)
    <3>1. ASSUME NEW k \in Key
          PROVE  k \in logged <=> entries[<<r.user, r.day, k>>] # NoLine
      BY DEF Logged
    <3>2. \A k \in logged : known[k] = "row"
      BY <2>2
    <3> QED BY <2>4, <3>1, <3>2 DEF RowsOf
  <2> HIDE DEF made
  <2> DEFINE after == AfterWrite(made)
  <2>6. /\ after \in Writes /\ after # Idle /\ SameRequest(made, after)
        /\ after.todo = made.todo /\ after.drop = made.drop /\ after.found = made.found
        /\ after.step = "audit" => made.todo = {} /\ made.drop = {}
    BY <2>3, AfterWriteShape
  <2> HIDE DEF after
  <2>7. RowsOf(after) /\ HalfWritten(after)
    BY <2>4, <2>5, <2>6 DEF RowsOf, HalfWritten, SameRequest
  <2>8. /\ \A t \in Savers \ {s} : savers'[t] = savers[t]
        /\ savers'[s] = after /\ savers' \in [Savers -> {Idle} \cup Saves]
    BY <1>4, <2>6 DEF TimesheetTypeOK, Saves, after
  <2>9. TimesheetTypeOK'
    BY <1>2, <2>8 DEF TimesheetTypeOK
  <2>10. SameRequest(savers[s], savers'[s])
    BY <2>3, <2>6, <2>8 DEF SameRequest
  <2>11. HalfWritten(savers[s])'
    BY <1>2, <2>7, <2>8 DEF HalfWritten, RowsOf
  <2>12. \A t \in Savers \ {s} : LeftAlone(t)
    BY <2>8 DEF LeftAlone, SameRequest
  <2> QED BY <1>1, <1>2, <2>9, <2>10, <2>11, <2>12, SaveMoves
<1> QED BY <1>2, <1>3, <1>4

(* A row of a day, a person and a key is one row. *)
LEMMA OneRow ==
  ASSUME TimesheetTypeOK, NEW u \in People, NEW d \in Day, NEW k \in Key, NEW h \in Hours,
         entries' = [entries EXCEPT ![<<u, d, k>>] = h]
  PROVE  /\ entries' \in [People \X Day \X Key -> Hours]
         /\ \A v \in People, e \in Day, j \in Key :
              entries'[<<v, e, j>>] =
                IF v = u /\ e = d /\ j = k THEN h ELSE entries[<<v, e, j>>]
BY SMT DEF TimesheetTypeOK

(* A written line is as submitted from then on. *)
LEMMA LineSaved ==
  ASSUME TimesheetInv, NEW s \in Savers, NEW k \in Key, save_line(s, k)
  PROVE  TimesheetInv'
<1> USE DEF TimesheetInv
<1> DEFINE r == savers[s]
           made == [r EXCEPT !.todo = r.todo \ {k}]
           after == AfterWrite(made)
<1>1. /\ r.step = "write" /\ k \in r.todo
      /\ UNCHANGED <<today, confirmations, reopening, nightly, last_night>>
      /\ \/ UNCHANGED entries /\ savers' = [savers EXCEPT ![s] = Idle]
         \/ /\ entries' = [entries EXCEPT ![<<r.user, r.day, k>>] = r.lines[k]]
            /\ savers' = [savers EXCEPT ![s] = after]
  BY DEF save_line
<1>2. r \in Writes /\ r # Idle
  BY <1>1, SaverShape
<1>3. CASE UNCHANGED entries /\ savers' = [savers EXCEPT ![s] = Idle]
  BY <1>1, <1>2, <1>3, SaveEnds
<1>4. CASE /\ entries' = [entries EXCEPT ![<<r.user, r.day, k>>] = r.lines[k]]
           /\ savers' = [savers EXCEPT ![s] = after]
  <2>1. HalfWritten(r)
    BY <1>2 DEF SavesInStep
  <2>2. made \in Writes /\ made.step = "write" /\ SameRequest(r, made)
        /\ made.todo = r.todo \ {k} /\ made.drop = r.drop /\ made.found = r.found
    BY <1>1, <1>2 DEF Writes, SameRequest
  <2> HIDE DEF made
  <2>3. /\ after \in Writes /\ after # Idle /\ SameRequest(made, after)
        /\ after.todo = made.todo /\ after.drop = made.drop /\ after.found = made.found
        /\ after.step = "audit" => made.todo = {} /\ made.drop = {}
    BY <2>2, AfterWriteShape
  <2> HIDE DEF after
  <2>4. k \in DOMAIN r.lines /\ r.lines[k] \in Hours /\ r.user \in People /\ r.day \in Day
    <3>1. r.lines \in [DOMAIN r.lines -> Int]
      BY <1>2, SaverShape, SubmissionsAssumption
    <3> QED BY <1>1, <1>2, <2>1, <3>1, SaverShape DEF HalfWritten, Hours
  <2>5. /\ entries' \in [People \X Day \X Key -> Hours]
        /\ \A v \in People, e \in Day, j \in Key :
             entries'[<<v, e, j>>] =
               IF v = r.user /\ e = r.day /\ j = k THEN r.lines[k] ELSE entries[<<v, e, j>>]
    BY <1>4, <2>4, OneRow
  <2>6. /\ \A t \in Savers \ {s} : savers'[t] = savers[t]
        /\ savers'[s] = after /\ savers' \in [Savers -> {Idle} \cup Saves]
    BY <1>4, <2>3 DEF TimesheetTypeOK, Saves
  <2>7. TimesheetTypeOK'
    BY <1>1, <2>5, <2>6 DEF TimesheetTypeOK
  <2>8. SameRequest(savers[s], savers'[s])
    BY <2>2, <2>3, <2>6 DEF SameRequest
  <2>9. HalfWritten(savers[s])'
    <3>1. after.todo = r.todo \ {k} /\ after.drop = r.drop /\ after.found = r.found
          /\ SameRequest(r, after)
      BY <2>2, <2>3 DEF SameRequest
    <3>2. ASSUME r.alone
          PROVE  RowsOf(savers[s])'
      <4>1. RowsOf(r)
        BY <1>1, <2>1, <3>2 DEF HalfWritten
      <4>2. \A j \in Key : entries'[<<r.user, r.day, j>>] =
              IF j = k THEN r.lines[k] ELSE entries[<<r.user, r.day, j>>]
        BY <2>4, <2>5
      <4> QED BY <2>4, <2>6, <3>1, <4>1, <4>2 DEF RowsOf, SameRequest
    <3> QED BY <1>1, <2>1, <2>2, <2>3, <2>6, <3>1, <3>2 DEF HalfWritten, SameRequest
  <2>10. \A t \in Savers \ {s} : LeftAlone(t)
    BY <2>6 DEF LeftAlone, SameRequest
  <2>11. \A u \in People, d \in Day, j \in Key :
           entries'[<<u, d, j>>] # entries[<<u, d, j>>] => u = r.user /\ d = r.day
    BY <2>5
  <2> QED BY <1>1, <1>2, <2>7, <2>8, <2>9, <2>10, <2>11, SaveMoves
<1> QED BY <1>1, <1>3, <1>4

(* A deleted line is gone, and whoever had seen its row was beside this save. *)
LEMMA LineDeleted ==
  ASSUME TimesheetInv, NEW s \in Savers, NEW k \in Key, delete_line(s, k)
  PROVE  TimesheetInv'
<1> USE DEF TimesheetInv
<1> DEFINE r == savers[s]
           made == [r EXCEPT !.drop = r.drop \ {k}]
           after == AfterWrite(made)
           told(t) == [savers[t] EXCEPT !.found[k] = "gone"]
<1>1. /\ r.step = "write" /\ r.todo = {} /\ k \in r.drop
      /\ UNCHANGED <<today, confirmations, reopening, nightly, last_night>>
      /\ entries' = IF r.found[k] = "row"
                    THEN [entries EXCEPT ![<<r.user, r.day, k>>] = NoLine] ELSE entries
      /\ savers' = [t \in Savers |->
           IF t = s THEN after
           ELSE IF r.found[k] = "row" /\ SawRow(t, r.user, r.day, k) THEN told(t)
           ELSE savers[t]]
  BY DEF delete_line, DropsNow
<1>2. r \in Writes /\ r # Idle /\ r.user \in People /\ r.day \in Day
  BY <1>1, SaverShape
<1>3. HalfWritten(r)
  BY <1>2 DEF SavesInStep
<1>4. made \in Writes /\ made.step = "write" /\ SameRequest(r, made)
      /\ made.todo = r.todo /\ made.drop = r.drop \ {k} /\ made.found = r.found
  BY <1>1, <1>2 DEF Writes, SameRequest
<1> HIDE DEF made
<1>5. /\ after \in Writes /\ after # Idle /\ SameRequest(made, after)
      /\ after.todo = made.todo /\ after.drop = made.drop /\ after.found = made.found
      /\ after.step = "audit" => made.todo = {} /\ made.drop = {}
  BY <1>4, AfterWriteShape
<1> HIDE DEF after
<1>6. ASSUME NEW t \in Savers, SawRow(t, r.user, r.day, k)
      PROVE  /\ told(t) \in Writes /\ told(t) # Idle /\ SameRequest(savers[t], told(t))
             /\ told(t).step = savers[t].step
             /\ told(t).todo = savers[t].todo /\ told(t).drop = savers[t].drop
             /\ savers[t] # Idle
  <2>1. savers[t] \in Writes
    BY <1>6, SaverShape DEF SawRow
  <2>2. [savers[t].found EXCEPT ![k] = "gone"] \in Known
    BY <2>1 DEF Writes, Known
  <2> QED BY <2>1, <2>2 DEF Writes, SameRequest, Idle
<1> HIDE DEF told
<1>7. ASSUME NEW t \in Savers
      PROVE  savers'[t] = IF t = s THEN after
                          ELSE IF r.found[k] = "row" /\ SawRow(t, r.user, r.day, k)
                          THEN told(t) ELSE savers[t]
  BY <1>1
<1>8. savers' \in [Savers -> {Idle} \cup Saves]
  BY <1>1, <1>5, <1>6 DEF TimesheetTypeOK, Saves
<1>9. NoLine \in Hours
  BY DEF Hours
<1>10. /\ entries' \in [People \X Day \X Key -> Hours]
       /\ \A v \in People, e \in Day, j \in Key :
            entries'[<<v, e, j>>] =
              IF r.found[k] = "row" /\ v = r.user /\ e = r.day /\ j = k THEN NoLine
              ELSE entries[<<v, e, j>>]
  <2>1. CASE r.found[k] = "row"
    BY <1>1, <1>2, <1>9, <2>1, OneRow
  <2>2. CASE r.found[k] # "row"
    BY <1>1, <2>2 DEF TimesheetTypeOK
  <2> QED BY <2>1, <2>2
<1>11. TimesheetTypeOK'
  BY <1>1, <1>8, <1>10 DEF TimesheetTypeOK
<1>12. SameRequest(r, after) /\ savers'[s] = after
       /\ after.todo = r.todo /\ after.drop = r.drop \ {k} /\ after.found = r.found
  BY <1>4, <1>5, <1>7 DEF SameRequest
<1>13. HalfWritten(savers[s])'
  <2>1. ASSUME r.alone
        PROVE  RowsOf(savers[s])'
    <3>1. RowsOf(r)
      BY <1>1, <1>3, <2>1 DEF HalfWritten
    <3>2. r.found[k] = "row" /\ k \notin DOMAIN r.lines
      BY <1>1, <1>3, <3>1 DEF RowsOf, HalfWritten
    <3>3. \A j \in Key : entries'[<<r.user, r.day, j>>] =
            IF j = k THEN NoLine ELSE entries[<<r.user, r.day, j>>]
      BY <1>2, <1>10, <3>2
    <3> QED BY <1>12, <3>1, <3>2, <3>3 DEF RowsOf, SameRequest
  <2> QED BY <1>1, <1>3, <1>4, <1>5, <1>12, <2>1 DEF HalfWritten, SameRequest
<1>14. ASSUME NEW t \in Savers \ {s}
       PROVE  LeftAlone(t)
  <2>1. CASE r.found[k] = "row" /\ SawRow(t, r.user, r.day, k)
    <3>1. Asked(t) /\ savers[t].user = r.user /\ savers[t].day = r.day
      BY <1>6, <2>1 DEF SavesInStep, SawRow, SavesSameDay
    <3>2. SavesSameDay(s, savers[t].user, savers[t].day)
      BY <1>1, <3>1 DEF SavesSameDay
    <3>3. ~savers[t].alone
      BY <3>1, <3>2 DEF Asked
    <3> QED BY <1>6, <1>7, <2>1, <3>3 DEF LeftAlone
  <2>2. CASE ~(r.found[k] = "row" /\ SawRow(t, r.user, r.day, k))
    BY <1>7, <2>2 DEF LeftAlone, SameRequest
  <2> QED BY <2>1, <2>2
<1>15. \A u \in People, d \in Day, j \in Key :
         entries'[<<u, d, j>>] # entries[<<u, d, j>>] => u = r.user /\ d = r.day
  BY <1>10
<1> QED BY <1>1, <1>2, <1>11, <1>12, <1>13, <1>14, <1>15, SaveMoves

-----------------------------------------------------------------------------
(* The steps of a sign-off, of the nightly task and of the calendar *)

(* A sign-off of a person's week is one row. *)
LEMMA OneSignOff ==
  ASSUME TimesheetTypeOK, NEW u \in People, NEW w \in Week,
         NEW c \in {"none", "confirmed", "auto"},
         confirmations' = [confirmations EXCEPT ![<<u, w>>] = c]
  PROVE  /\ confirmations' \in [People \X Week -> {"none", "confirmed", "auto"}]
         /\ \A v \in People, x \in Week :
              confirmations'[<<v, x>>] =
                IF v = u /\ x = w THEN c ELSE confirmations[<<v, x>>]
BY SMT DEF TimesheetTypeOK

(* What is signed and due stays signed: what is due stands. *)
DueStands ==
  \A u \in People, w \in Week, on \in Int :
    on <= today /\ Due(u, w, on) /\ Signed(u, w) => Signed(u, w)'

(* Nights are kept by a step that lets what is due stand. *)
LEMMA NightsFrame ==
  ASSUME TimesheetInv, DueStands, UNCHANGED <<nightly, last_night>>
  PROVE  NightsKept' /\ NightUnderWay'
<1> USE DEF TimesheetInv
<1>1. last_night \in Int /\ last_night <= today /\ today \in Int
  BY DEF TimesheetTypeOK, Current, Day
<1>2. nightly # Idle => nightly.on \in Int /\ nightly.on <= today
  BY <1>1 DEF Current
<1>3. NightsKept'
  BY <1>1 DEF NightsKept, DueStands
<1>4. NightUnderWay'
  BY <1>2 DEF NightUnderWay, DueStands
<1> QED BY <1>3, <1>4

(* Signing a week off, by a lead or at night, leaves no sign-off out. *)
LEMMA SigningStands ==
  ASSUME TimesheetTypeOK, NEW u \in People, NEW w \in Week, NEW c \in {"confirmed", "auto"},
         confirmations' = [confirmations EXCEPT ![<<u, w>>] = c]
  PROVE  /\ confirmations' \in [People \X Week -> {"none", "confirmed", "auto"}]
         /\ \A v \in People, x \in Week : Signed(v, x) => Signed(v, x)'
         /\ confirmations'[<<u, w>>] # "none"
BY OneSignOff DEF Signed

(* A lead's sign-off adds one. *)
LEMMA Confirmed ==
  ASSUME TimesheetInv, NEW u \in People, NEW w \in Week, confirm(u, w)
  PROVE  TimesheetInv'
<1> USE DEF TimesheetInv
<1>1. /\ confirmations' = [confirmations EXCEPT ![<<u, w>>] = "confirmed"]
      /\ UNCHANGED <<today, entries, savers, reopening, nightly, last_night>>
  BY DEF confirm
<1>2. /\ confirmations' \in [People \X Week -> {"none", "confirmed", "auto"}]
      /\ \A v \in People, x \in Week : Signed(v, x) => Signed(v, x)'
  BY <1>1, SigningStands
<1>3. DueStands
  BY <1>2 DEF DueStands
<1>4. NightsKept' /\ NightUnderWay'
  BY <1>1, <1>3, NightsFrame
<1>5. TimesheetTypeOK'
  BY <1>1, <1>2 DEF TimesheetTypeOK
<1>6. Current'
  BY <1>1 DEF Current
<1>7. SavesInStep'
  BY <1>1, SavesFrame
<1> QED BY <1>4, <1>5, <1>6, <1>7

(* Only an open week is reopened, and it may close before it is deleted. *)
LEMMA Reopened ==
  ASSUME TimesheetInv, NEW u \in People, NEW w \in Week, reopen(u, w)
  PROVE  TimesheetInv'
<1> USE DEF TimesheetInv
<1> DEFINE made == [step |-> "delete", on |-> today, user |-> u, week |-> w]
<1>1. /\ ~week_closed(w, today) /\ reopening' = made
      /\ UNCHANGED <<today, entries, confirmations, savers, nightly, last_night>>
  BY DEF reopen
<1>2. made \in Reopens /\ made.on = today /\ made.week = w
  BY DEF Reopens, TimesheetTypeOK
<1> HIDE DEF made
<1>3. TimesheetTypeOK'
  BY <1>1, <1>2 DEF TimesheetTypeOK
<1>4. Current'
  BY <1>1, <1>2 DEF Current
<1>5. SavesInStep' /\ NightsKept' /\ NightUnderWay'
  BY <1>1, SavesFrame, SignOffFrame
<1> QED BY <1>3, <1>4, <1>5

(* What a late reopening deletes had not closed two days ago, so is not due. *)
LEMMA ReopenedStands ==
  ASSUME TimesheetInv, delete_confirmation
  PROVE  /\ DueStands
         /\ confirmations' \in [People \X Week -> {"none", "confirmed", "auto"}]
<1> USE DEF TimesheetInv
<1>1. /\ reopening # Idle
      /\ confirmations' = [confirmations EXCEPT ![<<reopening.user, reopening.week>>] = "none"]
      /\ UNCHANGED today
  BY DEF delete_confirmation
<1>2. reopening \in Reopens
  BY <1>1 DEF TimesheetTypeOK
<1>3. reopening.user \in People /\ reopening.week \in Week /\ reopening.on \in Int
      /\ reopening.on >= today - 1 /\ today \in Int /\ ~week_closed(reopening.week, reopening.on)
  BY <1>1, <1>2 DEF Reopens, Current, TimesheetTypeOK, Day
<1>4. /\ confirmations' \in [People \X Week -> {"none", "confirmed", "auto"}]
      /\ \A v \in People, x \in Week :
           confirmations'[<<v, x>>] = IF v = reopening.user /\ x = reopening.week
                                      THEN "none" ELSE confirmations[<<v, x>>]
  BY <1>1, <1>3, OneSignOff
<1>5. ASSUME NEW u \in People, NEW w \in Week, NEW on \in Int, on <= today,
             Due(u, w, on), Signed(u, w)
      PROVE  Signed(u, w)'
  <2>1. week_closed(w, on - 1)
    BY <1>5 DEF Due
  <2>2. on - 1 \in Int /\ on - 1 <= reopening.on
    BY <1>3, <1>5
  <2>3. week_closed(w, reopening.on)
    BY <1>3, <2>1, <2>2, ClosesLater
  <2>4. w # reopening.week
    BY <1>3, <2>3
  <2> QED BY <1>4, <1>5, <2>4 DEF Signed
<1> QED BY <1>4, <1>5 DEF DueStands

(* So the reopening may be carried out. *)
LEMMA ReopenedWritten ==
  ASSUME TimesheetInv, delete_confirmation
  PROVE  TimesheetInv'
<1> USE DEF TimesheetInv
<1>1. /\ reopening' = Idle
      /\ UNCHANGED <<today, entries, savers, nightly, last_night>>
  BY DEF delete_confirmation
<1>2. NightsKept' /\ NightUnderWay'
  BY <1>1, ReopenedStands, NightsFrame
<1>3. TimesheetTypeOK'
  BY <1>1, ReopenedStands DEF TimesheetTypeOK
<1>4. Current'
  BY <1>1 DEF Current
<1>5. SavesInStep'
  BY <1>1, SavesFrame
<1> QED BY <1>2, <1>3, <1>4, <1>5

(* A reopening or a night that is cut short leaves nothing to come. *)
LEMMA Stopped ==
  ASSUME TimesheetInv,
         UNCHANGED <<today, entries, confirmations, savers, last_night>>,
         reopening' \in {Idle, reopening}, nightly' \in {Idle, nightly}
  PROVE  TimesheetInv'
<1> USE DEF TimesheetInv
<1>1. TimesheetTypeOK'
  BY DEF TimesheetTypeOK
<1>2. Current'
  BY DEF Current
<1>3. SavesInStep'
  BY SavesFrame
<1>4. NightsKept' /\ NightUnderWay'
  BY DEF NightsKept, NightUnderWay, Signed
<1> QED BY <1>1, <1>2, <1>3, <1>4

(* A night begins with all the weeks within its reach to read. *)
LEMMA NightBegins ==
  ASSUME TimesheetInv, auto_confirm_closed
  PROVE  TimesheetInv'
<1> USE DEF TimesheetInv
<1> DEFINE made == [step |-> "week", on |-> today, weeks |-> ClosedRecently(today)]
<1>1. /\ nightly' = made
      /\ UNCHANGED <<today, entries, confirmations, savers, reopening, last_night>>
  BY DEF auto_confirm_closed
<1>2. made \in Nights /\ made # Idle /\ made.on = today /\ made.weeks = ClosedRecently(today)
  BY DEF Nights, TimesheetTypeOK, ClosedRecently, Idle
<1> HIDE DEF made
<1>3. TimesheetTypeOK'
  BY <1>1, <1>2 DEF TimesheetTypeOK
<1>4. Current'
  BY <1>1, <1>2 DEF Current
<1>5. SavesInStep'
  BY <1>1, SavesFrame
<1>6. NightsKept'
  BY <1>1 DEF NightsKept, Signed
<1>7. today \in Int
  BY DEF TimesheetTypeOK, Day
<1>8. ASSUME NEW u \in People, NEW w \in Week, Due(u, w, today),
             w >= monday_of(today) - RecentWeeks * DaysPerWeek
      PROVE  w \in ClosedRecently(today)
  <2>1. week_closed(w, today - 1)
    BY <1>8 DEF Due
  <2>2. week_closed(w, today)
    BY <1>7, <2>1, ClosesLater
  <2>3. today - 1 >= w + DaysPerWeek + GraceDays
    BY <1>7, <2>1, Closes
  <2>4. w < monday_of(today)
    BY <1>7, <2>3, Mondays, WeekIsMonday, GraceAssumption
  <2> QED BY <1>8, <2>2, <2>4 DEF ClosedRecently
<1>9. NightUnderWay'
  BY <1>1, <1>2, <1>8 DEF NightUnderWay
<1> QED BY <1>3, <1>4, <1>5, <1>6, <1>9

(* Of the week that is read everybody has signed, or is still to be signed for. *)
LEMMA WeekRead ==
  ASSUME TimesheetInv, auto_read_week
  PROVE  TimesheetInv'
<1> USE DEF TimesheetInv
<1>1. nightly.step = "week"
      /\ UNCHANGED <<today, entries, confirmations, savers, reopening, last_night>>
  BY DEF auto_read_week
<1>2. PICK w \in nightly.weeks :
        nightly' = [step |-> IF Missing(w) = {} THEN "week" ELSE "people",
                    on |-> nightly.on, weeks |-> nightly.weeks \ {w},
                    week |-> w, people |-> Missing(w)]
  BY DEF auto_read_week
<1>3. nightly \in Nights /\ nightly # Idle /\ nightly.on \in Day /\ nightly.weeks \subseteq Week
  BY <1>1 DEF TimesheetTypeOK, Nights, Idle
<1>4. Missing(w) \subseteq People
  BY DEF Missing
<1>5. /\ nightly' \in Nights /\ nightly' # Idle
      /\ nightly'.on = nightly.on /\ nightly'.weeks = nightly.weeks \ {w}
      /\ nightly'.week = w /\ nightly'.people = Missing(w)
      /\ Missing(w) # {} => nightly'.step = "people"
  BY <1>2, <1>3, <1>4 DEF Nights, Idle
<1>6. TimesheetTypeOK'
  BY <1>1, <1>5 DEF TimesheetTypeOK
<1>7. Current'
  BY <1>1, <1>3, <1>5 DEF Current
<1>8. SavesInStep' /\ NightsKept'
  BY <1>1, SavesFrame DEF NightsKept, Signed
<1>9. ASSUME NEW u \in People, NEW x \in Week, Due(u, x, nightly.on),
             x >= monday_of(nightly.on) - RecentWeeks * DaysPerWeek,
             x \notin nightly.weeks \ {w}
      PROVE  Signed(u, x) \/ (x = w /\ u \in Missing(w))
  <2>1. CASE x = w
    BY <1>9, <2>1 DEF Missing, Due
  <2>2. CASE x # w
    BY <1>1, <1>3, <1>9, <2>2 DEF NightUnderWay
  <2> QED BY <2>1, <2>2
<1>10. NightUnderWay'
  BY <1>1, <1>5, <1>9 DEF NightUnderWay, Signed
<1> QED BY <1>6, <1>7, <1>8, <1>10

(* Who is signed for at night is no longer to be signed for. *)
LEMMA SignedAtNight ==
  ASSUME TimesheetInv, NEW u \in People, auto_upsert(u)
  PROVE  TimesheetInv'
<1> USE DEF TimesheetInv
<1> DEFINE next == IF nightly.people = {u} THEN "week" ELSE "people"
<1>1. /\ nightly.step = "people" /\ u \in nightly.people
      /\ confirmations' = [confirmations EXCEPT ![<<u, nightly.week>>] = "auto"]
      /\ nightly' = [nightly EXCEPT !.people = nightly.people \ {u}, !.step = next]
      /\ UNCHANGED <<today, entries, savers, reopening, last_night>>
  BY DEF auto_upsert
<1>2. nightly \in [step : {"week", "people"}, on : Day, weeks : SUBSET Week, week : Week,
                   people : SUBSET People]
  BY <1>1 DEF TimesheetTypeOK, Nights, Idle
<1>3. /\ nightly' \in Nights /\ nightly' # Idle /\ nightly # Idle
      /\ nightly'.on = nightly.on /\ nightly'.weeks = nightly.weeks
      /\ nightly'.week = nightly.week /\ nightly'.people = nightly.people \ {u}
      /\ nightly.people # {u} => nightly'.step = "people"
  <2>1. next \in {"week", "people"} /\ (nightly.people # {u} => next = "people")
    OBVIOUS
  <2> HIDE DEF next
  <2>2. nightly' \in [step : {"week", "people"}, on : Day, weeks : SUBSET Week, week : Week,
                      people : SUBSET People]
    BY <1>1, <1>2, <2>1
  <2>3. /\ nightly'.on = nightly.on /\ nightly'.weeks = nightly.weeks
        /\ nightly'.week = nightly.week /\ nightly'.people = nightly.people \ {u}
        /\ nightly'.step = next
    BY <1>1, <1>2
  <2> QED BY <1>2, <2>1, <2>2, <2>3 DEF Nights, Idle
<1>4. nightly.week \in Week
  BY <1>2
<1>5. /\ confirmations' \in [People \X Week -> {"none", "confirmed", "auto"}]
      /\ \A v \in People, x \in Week : Signed(v, x) => Signed(v, x)'
      /\ confirmations'[<<u, nightly.week>>] # "none"
  BY <1>1, <1>4, SigningStands
<1>6. TimesheetTypeOK'
  BY <1>1, <1>3, <1>5 DEF TimesheetTypeOK
<1>7. Current'
  BY <1>1, <1>3 DEF Current
<1>8. SavesInStep'
  BY <1>1, SavesFrame
<1>9. NightsKept'
  BY <1>1, <1>5 DEF NightsKept
<1>10. ASSUME NEW v \in People, NEW x \in Week, Due(v, x, nightly'.on),
              x >= monday_of(nightly'.on) - RecentWeeks * DaysPerWeek, x \notin nightly'.weeks
       PROVE  Signed(v, x)' \/ (nightly'.step = "people" /\ x = nightly'.week /\ v \in nightly'.people)
  <2>1. Signed(v, x) \/ (x = nightly.week /\ v \in nightly.people)
    BY <1>3, <1>10 DEF NightUnderWay
  <2>2. CASE Signed(v, x)
    BY <1>5, <2>2
  <2>3. CASE x = nightly.week /\ v \in nightly.people /\ v = u
    BY <1>5, <2>3 DEF Signed
  <2>4. CASE x = nightly.week /\ v \in nightly.people /\ v # u
    BY <1>3, <2>4
  <2> QED BY <2>1, <2>2, <2>3, <2>4
<1>11. NightUnderWay'
  BY <1>10 DEF NightUnderWay
<1> QED BY <1>6, <1>7, <1>8, <1>9, <1>11

(* A night that ends leaves signed what had closed by the day before it: the *)
(* weeks out of its reach had closed by the last finished night before.      *)
LEMMA NightEnds ==
  ASSUME TimesheetInv, auto_done
  PROVE  TimesheetInv'
<1> USE DEF TimesheetInv
<1>1. /\ nightly.step = "week" /\ nightly.weeks = {}
      /\ nightly' = Idle /\ last_night' = nightly.on
      /\ UNCHANGED <<today, entries, confirmations, savers, reopening>>
  BY DEF auto_done
<1>2. nightly \in Nights /\ nightly # Idle /\ nightly.on \in Day
  BY <1>1 DEF TimesheetTypeOK, Nights, Idle
<1>3. /\ nightly.on \in {today - 1, today} /\ today \in Int /\ last_night \in Int
      /\ nightly.on \in Int /\ today - last_night <= MaxOutage + 1
  BY <1>2 DEF Current, TimesheetTypeOK, Day
<1>4. TimesheetTypeOK'
  BY <1>1, <1>2 DEF TimesheetTypeOK
<1>5. Current'
  BY <1>1, <1>3, GraceAssumption DEF Current
<1>6. SavesInStep'
  BY <1>1, SavesFrame
<1>7. ASSUME NEW u \in People, NEW w \in Week, Due(u, w, nightly.on)
      PROVE  Signed(u, w)
  <2>1. CASE w >= monday_of(nightly.on) - RecentWeeks * DaysPerWeek
    BY <1>1, <1>2, <1>7, <2>1 DEF NightUnderWay
  <2>2. CASE ~(w >= monday_of(nightly.on) - RecentWeeks * DaysPerWeek)
    <3> DEFINE M == monday_of(nightly.on)
               reach == RecentWeeks * DaysPerWeek
    <3>1. M \in Int /\ M <= nightly.on /\ w \in Int /\ reach \in Int
      BY <1>3, Mondays, WeekIsMonday, GraceAssumption
    <3>2. monday_of(M - reach) = M - reach
      <4> DEFINE q == nightly.on \div DaysPerWeek
      <4>1. M = q * DaysPerWeek /\ q \in Int
        BY <1>3, GraceAssumption, SMT DEF monday_of
      <4> HIDE DEF q
      <4>2. M - reach = (q - RecentWeeks) * DaysPerWeek /\ q - RecentWeeks \in Int
        BY <4>1, GraceAssumption, SMT
      <4> DEFINE p == q - RecentWeeks
      <4>3. p \in Int /\ p * DaysPerWeek \in Int /\ M - reach = p * DaysPerWeek
        BY <4>2, GraceAssumption, SMT
      <4> HIDE DEF p
      <4>4. (p * DaysPerWeek) \div DaysPerWeek = p
        BY <4>3, Quotient, GraceAssumption, SMT
      <4> QED BY <4>3, <4>4 DEF monday_of
    <3> HIDE DEF M, reach
    <3>3. w + DaysPerWeek <= M - reach
      <4>1. monday_of(w) = w /\ w < M - reach /\ M - reach \in Int
        BY <2>2, <3>1, WeekIsMonday DEF M, reach
      <4>2. monday_of(w) < monday_of(M - reach)
        BY <3>2, <4>1
      <4> QED BY <3>1, <3>2, <4>1, <4>2, WeeksApart
    <3>4. w + DaysPerWeek + GraceDays <= last_night - 1
      <4>1. GraceDays + MaxOutage + 1 < reach
        BY GraceAssumption DEF reach
      <4> QED BY <1>3, <3>1, <3>3, <4>1, GraceAssumption
    <3>5. week_closed(w, last_night - 1)
      BY <1>3, <3>4, Closes
    <3> QED BY <1>7, <3>5 DEF Due, NightsKept
  <2> QED BY <2>1, <2>2
<1>8. NightsKept' /\ NightUnderWay'
  BY <1>1, <1>7 DEF NightsKept, NightUnderWay, Signed
<1> QED BY <1>4, <1>5, <1>6, <1>8

(* A midnight finds no request older than a day. *)
LEMMA DayPasses ==
  ASSUME TimesheetInv, next_day
  PROVE  TimesheetInv'
<1> USE DEF TimesheetInv
<1>1. /\ today < MaxDay /\ today' = today + 1 /\ today - last_night <= MaxOutage
      /\ \A r \in InFlight : r # Idle => r.on = today
      /\ UNCHANGED <<entries, confirmations, savers, reopening, nightly, last_night>>
  BY DEF next_day
<1>2. today \in Int /\ last_night \in Int /\ today' \in Day
  BY <1>1, GraceAssumption DEF TimesheetTypeOK, Day
<1>3. TimesheetTypeOK'
  BY <1>1, <1>2 DEF TimesheetTypeOK
<1>4. /\ \A s \in Savers : savers[s] # Idle => savers[s].on = today
      /\ reopening # Idle => reopening.on = today
      /\ nightly # Idle => nightly.on = today
  BY <1>1 DEF InFlight
<1>5. Current'
  BY <1>1, <1>2, <1>4, GraceAssumption DEF Current
<1>6. SavesInStep' /\ NightsKept' /\ NightUnderWay'
  BY <1>1, SavesFrame, SignOffFrame
<1> QED BY <1>3, <1>5, <1>6

-----------------------------------------------------------------------------
(* The theorems *)

(* Before the first request everything is in step. *)
LEMMA TimesheetStart == TimesheetInit => TimesheetInv
<1> SUFFICES ASSUME TimesheetInit
             PROVE  TimesheetInv
  OBVIOUS
<1>1. 0 \in Day
  BY GraceAssumption DEF Day
<1>2. TimesheetTypeOK
  BY <1>1 DEF TimesheetInit, TimesheetTypeOK, Hours
<1>3. Current
  BY GraceAssumption DEF TimesheetInit, Current
<1>4. SavesInStep
  BY DEF TimesheetInit, SavesInStep
<1>5. NightsKept
  <2>1. ASSUME NEW w \in Week
        PROVE  ~week_closed(w, 0 - 1)
    BY Closes, WeekIsMonday, GraceAssumption
  <2> QED BY <2>1 DEF NightsKept, Due, TimesheetInit
<1>6. NightUnderWay
  BY DEF NightUnderWay, TimesheetInit
<1> QED BY <1>2, <1>3, <1>4, <1>5, <1>6 DEF TimesheetInv

(* Every step keeps the invariant, action by action. *)
LEMMA TimesheetStep == TimesheetInv /\ [TimesheetNext]_timesheetVars => TimesheetInv'
<1> SUFFICES ASSUME TimesheetInv, [TimesheetNext]_timesheetVars
             PROVE  TimesheetInv'
  OBVIOUS
<1>1. ASSUME UNCHANGED <<today, entries, confirmations, savers, reopening, nightly, last_night>>
      PROVE  TimesheetInv'
  BY <1>1, Stopped
<1>2. ASSUME NEW s \in Savers, SaverStep(s)
      PROVE  TimesheetInv'
  <2>1. ASSUME NEW u \in People, NEW d \in LogDays, NEW lines \in Submissions,
               save_day(s, u, d, lines)
        PROVE  TimesheetInv'
    BY <2>1, SaveBegins
  <2>2. CASE save_list_projects(s)
    BY <2>2, ProjectsRead
  <2>3. CASE save_list_entries(s)
    BY <2>3, EntriesRead
  <2>4. ASSUME NEW k \in Key, save_line(s, k) \/ delete_line(s, k)
        PROVE  TimesheetInv'
    BY <2>4, LineSaved, LineDeleted
  <2>5. CASE end_save(s)
    <3>1. savers[s] # Idle
      BY <2>5, SaverShape DEF end_save, TimesheetInv
    <3> QED BY <2>5, <3>1, SaveEnds DEF end_save
  <2> QED BY <1>2, <2>1, <2>2, <2>3, <2>4, <2>5 DEF SaverStep
<1>3. CASE LeadStep
  <2>1. ASSUME NEW u \in People, NEW w \in SignWeeks, confirm(u, w) \/ reopen(u, w)
        PROVE  TimesheetInv'
    BY <2>1, SubmissionsAssumption, Confirmed, Reopened
  <2>2. CASE delete_confirmation
    BY <2>2, ReopenedWritten
  <2>3. CASE stop_reopen
    BY <2>3, Stopped DEF stop_reopen
  <2> QED BY <1>3, <2>1, <2>2, <2>3 DEF LeadStep
<1>4. CASE NightlyStep
  <2>1. CASE stop_nightly
    BY <2>1, Stopped DEF stop_nightly
  <2> QED BY <1>4, <2>1, NightBegins, WeekRead, SignedAtNight, NightEnds DEF NightlyStep
<1>5. CASE AdminStep
  BY <1>1, <1>5 DEF AdminStep, update_project, update_project_write
<1>6. CASE next_day
  BY <1>6, DayPasses
<1>7. CASE UNCHANGED timesheetVars
  BY <1>1, <1>7 DEF timesheetVars
<1> QED BY <1>2, <1>3, <1>4, <1>5, <1>6, <1>7 DEF TimesheetNext

(* The inductive invariant: what the saves in flight have left to do and what *)
(* the rows are meanwhile, and which weeks the nights so far have signed off. *)
THEOREM TimesheetInvariant == TimesheetSpec => []TimesheetInv
<1> QED BY TimesheetStart, TimesheetStep, PTL DEF TimesheetSpec

(* A save that got through alone has left exactly its lines, whatever it      *)
(* found there: save_day "replaces a day's entries with what was submitted".  *)
THEOREM SavesReplaceTheDay == TimesheetSpec => []SavedAsSubmitted
<1>1. TimesheetInv => SavedAsSubmitted
  <2> SUFFICES ASSUME TimesheetInv, NEW s \in Savers,
                      savers[s].step = "audit", savers[s].alone, NEW k \in Key
               PROVE  LET row == entries[<<savers[s].user, savers[s].day, k>>]
                      IN IF k \in DOMAIN savers[s].lines
                         THEN row = savers[s].lines[k] ELSE row = NoLine
    BY DEF SavedAsSubmitted
  <2>1. savers[s] # Idle
    BY SaverShape DEF TimesheetInv
  <2>2. HalfWritten(savers[s])
    BY <2>1 DEF TimesheetInv, SavesInStep
  <2> QED BY <2>2 DEF HalfWritten, RowsOf
<1> QED BY <1>1, TimesheetInvariant, PTL

(* No expected week leaves the nightly task's reach without a sign-off, for  *)
(* any grace period, reach and outage that fit together.                     *)
THEOREM WeeksSignedOff == TimesheetSpec => []NoWeekForgotten
<1>1. TimesheetInv => NoWeekForgotten
  <2> SUFFICES ASSUME TimesheetInv, NEW u \in People, NEW w \in Week, week_expected(u, w),
                      today >= w + (RecentWeeks + 1) * DaysPerWeek
               PROVE  Signed(u, w)
    BY DEF NoWeekForgotten
  <2>1. today \in Int /\ last_night \in Int /\ today - last_night <= MaxOutage + 1
    BY DEF TimesheetInv, TimesheetTypeOK, Current, Day
  <2>2. /\ w \in Int /\ RecentWeeks * DaysPerWeek \in Int
        /\ (RecentWeeks + 1) * DaysPerWeek = RecentWeeks * DaysPerWeek + DaysPerWeek
    BY WeekIsMonday, GraceAssumption
  <2> DEFINE reach == RecentWeeks * DaysPerWeek
  <2>3. today >= w + reach + DaysPerWeek /\ reach \in Int
        /\ GraceDays + MaxOutage + 1 < reach
    BY <2>2, GraceAssumption
  <2> HIDE DEF reach
  <2>4. last_night - 1 >= w + DaysPerWeek + GraceDays
    BY <2>1, <2>2, <2>3, GraceAssumption
  <2>5. week_closed(w, last_night - 1)
    BY <2>1, <2>4, Closes
  <2> QED BY <2>5 DEF TimesheetInv, NightsKept, Due
<1> QED BY <1>1, TimesheetInvariant, PTL

(* A save writes or deletes the row of a key. *)
Touches(s, k) ==
  \/ k \in savers[s].todo /\ save_line(s, k)
  \/ k \in savers[s].drop /\ delete_line(s, k)

(* The rows of a day a step of a save changes: those of a day not yet locked *)
(* when it was asked for.                                                    *)
LEMMA RowsChanged ==
  ASSUME TimesheetInv, [TimesheetNext]_timesheetVars,
         NEW u \in People, NEW d \in Day, NEW k \in Key,
         entries'[<<u, d, k>>] # entries[<<u, d, k>>]
  PROVE  \E s \in Savers :
           /\ savers[s].step = "write" /\ savers[s].user = u /\ savers[s].day = d
           /\ Touches(s, k)
<1>1. UNCHANGED entries \/ \E s \in Savers, j \in Key : save_line(s, j) \/ delete_line(s, j)
  BY DEF TimesheetNext, SaverStep, LeadStep, NightlyStep, AdminStep, timesheetVars,
         save_day,
         save_list_projects, save_list_entries, end_save, confirm, reopen, delete_confirmation,
         stop_reopen, auto_confirm_closed, auto_read_week, auto_upsert, auto_done, stop_nightly,
         update_project, update_project_write, next_day
<1>2. PICK s \in Savers, j \in Key : save_line(s, j) \/ delete_line(s, j)
  BY <1>1
<1>3. savers[s].step = "write"
  BY <1>2 DEF save_line, delete_line, DropsNow
<1>4. savers[s].user \in People /\ savers[s].day \in Day /\ savers[s] \in Writes
      /\ HalfWritten(savers[s])
  BY <1>3, SaverShape DEF TimesheetInv, SavesInStep
<1>5. CASE save_line(s, j)
  <2>1. /\ entries' = [entries EXCEPT ![<<savers[s].user, savers[s].day, j>>] = savers[s].lines[j]]
        /\ j \in savers[s].todo
    BY <1>5 DEF save_line
  <2>2. savers[s].lines[j] \in Hours
    <3>1. savers[s].lines \in [DOMAIN savers[s].lines -> Int]
      BY <1>4, SubmissionsAssumption DEF Writes
    <3> QED BY <1>3, <1>4, <2>1, <3>1 DEF HalfWritten, Hours
  <2>3. u = savers[s].user /\ d = savers[s].day /\ j = k
    BY <1>4, <2>1, <2>2, OneRow DEF TimesheetInv
  <2> QED BY <1>3, <1>5, <2>1, <2>3 DEF Touches
<1>6. CASE delete_line(s, j)
  <2>1. /\ entries' = [entries EXCEPT ![<<savers[s].user, savers[s].day, j>>] = NoLine]
        /\ j \in savers[s].drop
    BY <1>6 DEF delete_line, DropsNow
  <2>2. u = savers[s].user /\ d = savers[s].day /\ j = k
    BY <1>4, <2>1, OneRow DEF TimesheetInv, Hours
  <2> QED BY <1>3, <1>6, <2>1, <2>2 DEF Touches
<1> QED BY <1>2, <1>5, <1>6

(* What was recorded is not lost: a closed week's time and sign-off stand,    *)
(* and a save cut short anywhere never leaves a day empty that was not to be. *)
THEOREM RecordsAreKept == TimesheetSpec => RecordsStand
<1> DEFINE Stands(u, d) ==
             is_locked(d, today - 1) =>
               /\ \A k \in Key : entries'[<<u, d, k>>] = entries[<<u, d, k>>]
               /\ week_closed(monday_of(d), today - 1) /\ Signed(u, monday_of(d))
                    => confirmations'[<<u, monday_of(d)>>] # "none"
           NeverEmptied(u, d) ==
             Logged(u, d) # {} /\ Logged(u, d)' = {} =>
               \E s \in Savers : /\ SavesSameDay(s, u, d)
                                 /\ DOMAIN savers[s].lines = {} \/ ~savers[s].alone
<1>1. TimesheetInv /\ [TimesheetNext]_timesheetVars
        => [\A u \in People, d \in Day : Stands(u, d)]_timesheetVars
  <2> SUFFICES ASSUME TimesheetInv, [TimesheetNext]_timesheetVars,
                      NEW u \in People, NEW d \in Day, is_locked(d, today - 1)
               PROVE  /\ \A k \in Key : entries'[<<u, d, k>>] = entries[<<u, d, k>>]
                      /\ week_closed(monday_of(d), today - 1) /\ Signed(u, monday_of(d))
                           => confirmations'[<<u, monday_of(d)>>] # "none"
    OBVIOUS
  <2>1. today \in Int
    BY DEF TimesheetInv, TimesheetTypeOK, Day
  <2>2. ASSUME NEW k \in Key, entries'[<<u, d, k>>] # entries[<<u, d, k>>]
        PROVE  FALSE
    <3>1. PICK s \in Savers : savers[s].step = "write" /\ savers[s].day = d
      BY <2>2, RowsChanged
    <3>2. savers[s].on \in {today - 1, today} /\ ~is_locked(d, savers[s].on)
      BY <3>1, SaverShape DEF TimesheetInv, Current
    <3>3. is_locked(d, savers[s].on)
      BY <2>1, <3>2, LocksLater
    <3> QED BY <3>2, <3>3
  <2>3. ASSUME week_closed(monday_of(d), today - 1), Signed(u, monday_of(d))
        PROVE  confirmations'[<<u, monday_of(d)>>] # "none"
    <3>1. monday_of(d) \in Week
      BY <2>1, Locks
    <3>2. PICK w \in Week : w = monday_of(d)
      BY <3>1
    <3>3. CASE delete_confirmation
      <4>1. reopening \in Reopens /\ reopening.on \in {today - 1, today}
            /\ ~week_closed(reopening.week, reopening.on)
            /\ confirmations' = [confirmations EXCEPT ![<<reopening.user, reopening.week>>] = "none"]
        BY <3>3 DEF delete_confirmation, TimesheetInv, TimesheetTypeOK, Current
      <4>2. reopening.user \in People /\ reopening.week \in Week /\ reopening.on \in Int
            /\ today - 1 <= reopening.on
        BY <2>1, <4>1 DEF Reopens
      <4>3. w # reopening.week
        BY <2>1, <2>3, <3>2, <4>1, <4>2, ClosesLater
      <4>4. confirmations'[<<u, w>>] = confirmations[<<u, w>>]
        BY <4>1, <4>2, <4>3, OneSignOff DEF TimesheetInv
      <4> QED BY <2>3, <3>2, <4>4 DEF Signed
    <3>4. ASSUME NEW v \in People, NEW x \in Week, NEW c \in {"confirmed", "auto"},
                 confirmations' = [confirmations EXCEPT ![<<v, x>>] = c]
          PROVE  confirmations'[<<u, monday_of(d)>>] # "none"
      <4>1. Signed(u, w) => Signed(u, w)'
        BY <3>4, SigningStands DEF TimesheetInv
      <4> QED BY <2>3, <3>2, <4>1 DEF Signed
    <3>5. ASSUME NEW v \in People, NEW x \in SignWeeks, confirm(v, x)
          PROVE  confirmations'[<<u, monday_of(d)>>] # "none"
      BY <3>4, <3>5, SubmissionsAssumption DEF confirm
    <3>6. ASSUME NEW v \in People, auto_upsert(v)
          PROVE  confirmations'[<<u, monday_of(d)>>] # "none"
      <4>1. nightly.week \in Week
        BY <3>6 DEF auto_upsert, TimesheetInv, TimesheetTypeOK, Nights, Idle
      <4> QED BY <3>4, <3>6, <4>1 DEF auto_upsert
    <3>7. CASE UNCHANGED confirmations
      BY <2>3, <3>7 DEF Signed
    <3>8. \/ UNCHANGED confirmations \/ delete_confirmation
          \/ \E v \in People, x \in SignWeeks : confirm(v, x)
          \/ \E v \in People : auto_upsert(v)
      BY DEF TimesheetNext, SaverStep, LeadStep, NightlyStep, AdminStep, timesheetVars,
             save_day,
             save_list_projects, save_list_entries, save_line, delete_line, end_save, reopen,
             stop_reopen, auto_confirm_closed, auto_read_week, auto_done, stop_nightly,
             update_project, update_project_write, next_day
    <3> QED BY <3>3, <3>5, <3>6, <3>7, <3>8
  <2> QED BY <2>2, <2>3
<1>2. TimesheetInv /\ [TimesheetNext]_timesheetVars
        => [\A u \in People, d \in Day : NeverEmptied(u, d)]_timesheetVars
  <2> SUFFICES ASSUME TimesheetInv, [TimesheetNext]_timesheetVars,
                      NEW u \in People, NEW d \in Day, Logged(u, d) # {}, Logged(u, d)' = {}
               PROVE  \E s \in Savers : /\ SavesSameDay(s, u, d)
                                        /\ DOMAIN savers[s].lines = {} \/ ~savers[s].alone
    OBVIOUS
  <2>1. PICK k \in Key : entries[<<u, d, k>>] # NoLine
    BY DEF Logged
  <2>2. \A j \in Key : entries'[<<u, d, j>>] = NoLine
    BY DEF Logged
  <2>3. PICK s \in Savers :
          /\ savers[s].step = "write" /\ savers[s].user = u /\ savers[s].day = d
          /\ Touches(s, k)
    BY <2>1, <2>2, RowsChanged
  <2>4. SavesSameDay(s, u, d) /\ savers[s] # Idle /\ savers[s] \in Writes
    BY <2>3, SaverShape DEF SavesSameDay, TimesheetInv
  <2>5. Asked(s) /\ HalfWritten(savers[s])
    BY <2>4 DEF TimesheetInv, SavesInStep
  <2>6. ASSUME NEW j \in DOMAIN savers[s].lines
        PROVE  savers[s].lines[j] # NoLine /\ j \in Key
    <3>1. savers[s].lines \in [DOMAIN savers[s].lines -> Int] /\ DOMAIN savers[s].lines \subseteq Key
      BY <2>4, SubmissionsAssumption DEF Writes
    <3>2. savers[s].lines[j] > 0
      BY <2>5, <2>6 DEF Asked
    <3> QED BY <2>6, <3>1, <3>2, SubmissionsAssumption
  <2>7. CASE k \in savers[s].todo /\ save_line(s, k)
    <3>1. k \in DOMAIN savers[s].lines
      BY <2>3, <2>5, <2>7 DEF HalfWritten
    <3>2. entries' = [entries EXCEPT ![<<u, d, k>>] = savers[s].lines[k]]
      BY <2>1, <2>2, <2>3, <2>7 DEF save_line
    <3>3. savers[s].lines[k] \in Hours
      BY <2>4, <3>1, SubmissionsAssumption DEF Writes, Hours
    <3>4. entries'[<<u, d, k>>] = savers[s].lines[k]
      BY <3>2, <3>3, OneRow DEF TimesheetInv
    <3> QED BY <2>2, <2>6, <3>1, <3>4
  <2>8. CASE k \in savers[s].drop /\ delete_line(s, k)
    <3>1. savers[s].todo = {}
      BY <2>8 DEF delete_line, DropsNow
    <3>2. ASSUME savers[s].alone, NEW j \in DOMAIN savers[s].lines
          PROVE  FALSE
      <4>1. RowsOf(savers[s])
        BY <2>3, <2>5, <3>2 DEF HalfWritten
      <4>2. j \in Key /\ entries[<<u, d, j>>] # NoLine
        BY <2>3, <2>6, <3>1, <3>2, <4>1 DEF RowsOf
      <4>3. j \notin savers[s].drop
        BY <2>3, <2>5, <3>2 DEF HalfWritten
      <4>4. \E t \in Savers :
              /\ savers[t].step = "write" /\ savers[t].user = u /\ savers[t].day = d
              /\ Touches(t, j)
        BY <2>2, <4>2, RowsChanged
      <4>5. PICK t \in Savers :
              /\ savers[t].step = "write" /\ savers[t].user = u /\ savers[t].day = d
              /\ j \in savers[t].todo \cup savers[t].drop
        BY <4>4 DEF Touches
      <4>6. t = s
        BY <2>3, <2>5, <3>2, <4>5 DEF Asked, SavesSameDay
      <4> QED BY <3>1, <4>3, <4>5, <4>6
    <3>3. DOMAIN savers[s].lines = {} \/ ~savers[s].alone
      BY <3>2
    <3> QED BY <2>4, <3>3
  <2> QED BY <2>3, <2>7, <2>8 DEF Touches
<1>3. TimesheetSpec => ClosedWeekStands
  BY <1>1, TimesheetInvariant, PTL DEF TimesheetSpec, ClosedWeekStands
<1>4. TimesheetSpec => DayNeverEmptied
  BY <1>2, TimesheetInvariant, PTL DEF TimesheetSpec, DayNeverEmptied
<1> QED BY <1>3, <1>4 DEF RecordsStand
=============================================================================
