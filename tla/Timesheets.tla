------------------------------- MODULE Timesheets -------------------------------
(***************************************************************************)
(* Saving a day of time, signing a week off, and the projects both depend  *)
(* on, one database call at a time.  save_day reads the projects and the   *)
(* day's lines, tests them, and then writes line by line; the nightly task *)
(* reads who signed a week off and then confirms for the others.  Nothing  *)
(* holds a transaction, so calls of several requests interleave, midnight  *)
(* falls between them and a handler may be cut short after any of them.    *)
(***************************************************************************)
EXTENDS Integers, FiniteSets, FiniteSetsExt

CONSTANTS
  People, Projects, Activities,
  Savers,            \* requests to save a day that may be in flight at once
  MaxDay,            \* bound: the days are 0 .. MaxDay
  DaysPerWeek,       \* 7 in the code; weeks start on day 0
  GraceDays,         \* app_settings.timesheet_grace_days
  RecentWeeks,       \* how many weeks back the nightly task looks: 5 in the code
  MaxHours,          \* app_settings.max_hours_per_day
  PortalStart, JoinedOn, LeftOn,
  MaxOutage,         \* bound: nights in a row the nightly task may not finish
  MaxInFlight,       \* bound: requests in flight at once, the nightly task included
  LogDays, SignWeeks, \* bounds: the days time is logged for, the weeks leads sign
  Submissions,       \* bound: what a day is saved as, functions from keys to hours
  ProjectChanges,    \* bound: what a project is changed to
  NoLine

Day == 0 .. MaxDay
Key == Projects \cup Activities

monday_of(d) == (d \div DaysPerWeek) * DaysPerWeek
Week == {monday_of(d) : d \in Day}
week_end(d) == monday_of(d) + DaysPerWeek - 1
entry_locks_on(d) == week_end(d) + GraceDays + 1
is_locked(d, on) == on >= entry_locks_on(d)
week_closed(w, on) == is_locked(week_end(w), on)

(* A closed week stays in the nightly task's reach longer than the task may *)
(* be out: it is in reach until RecentWeeks more weeks have begun.          *)
ASSUME GraceAssumption ==
  /\ MaxDay \in Nat /\ DaysPerWeek \in Nat \ {0} /\ GraceDays \in Nat
  /\ RecentWeeks \in Nat /\ MaxOutage \in Nat
  /\ GraceDays + MaxOutage + 1 < RecentWeeks * DaysPerWeek

(* Lines are numbers of hours, and no line is not a line of some hours. *)
ASSUME SubmissionsAssumption ==
  /\ \A lines \in Submissions :
       DOMAIN lines \subseteq Key /\ lines \in [DOMAIN lines -> Int]
  /\ NoLine \notin Nat \ {0}
  /\ LogDays \subseteq Day /\ SignWeeks \subseteq Week

VARIABLES
  today,
  projects,          \* [Projects -> [archived, tentative]]
  entries,           \* time_entries: the hours of the row for a person, day and key
  confirmations,     \* timesheet_confirmations: "none" where there is no row
  savers,            \* the requests to save a day in flight
  reopening,         \* the request to reopen a week in flight, if any
  admin,             \* the change of a project in flight, if any
  nightly,           \* the run of the nightly task in flight, if any
  last_night         \* the last day the nightly task finished on

timesheetVars == <<today, projects, entries, confirmations, savers, reopening,
                   admin, nightly, last_night>>

Idle == [step |-> "idle"]

InFlight == {savers[s] : s \in Savers} \cup {reopening, admin, nightly}

MayBegin ==
  Cardinality({s \in Savers : savers[s] # Idle})
    + Cardinality({r \in {<<1, reopening>>, <<2, admin>>, <<3, nightly>>} : r[2] # Idle})
    < MaxInFlight

week_expected(u, w) ==
  /\ week_end(w) >= PortalStart
  /\ week_end(w) >= JoinedOn[u]
  /\ w <= LeftOn[u]

day_total(lines) == MapThenSumSet(LAMBDA k : lines[k], DOMAIN lines)
Logged(u, d) == {k \in Key : entries[<<u, d, k>>] # NoLine}
Signed(u, w) == confirmations[<<u, w>>] # "none"

TimesheetInit ==
  /\ today = 0
  /\ projects = [p \in Projects |-> [archived |-> FALSE, tentative |-> FALSE]]
  /\ entries = [x \in People \X Day \X Key |-> NoLine]
  /\ confirmations = [x \in People \X Week |-> "none"]
  /\ savers = [s \in Savers |-> Idle]
  /\ reopening = Idle /\ admin = Idle /\ nightly = Idle
  /\ last_night = 0

-----------------------------------------------------------------------------
(* Saving a day *)

check_can_log(d, on) == d <= on /\ ~is_locked(d, on)

check_day_total(lines) ==
  (\A k \in DOMAIN lines : lines[k] > 0) /\ day_total(lines) <= MaxHours

SavesSameDay(s, u, d) ==
  savers[s].step # "idle" /\ savers[s].user = u /\ savers[s].day = d

(* `alone` records whether another save of the day was ever in flight. *)
save_day(s, u, d, lines) ==
  LET others == {t \in Savers \ {s} : SavesSameDay(t, u, d)}
  IN /\ savers[s] = Idle /\ MayBegin
     /\ check_can_log(d, today)
     /\ check_day_total(lines)
     /\ savers' = [t \in Savers |->
          IF t = s
          THEN [step |-> "projects", on |-> today, user |-> u, day |-> d,
                lines |-> lines, alone |-> others = {}]
          ELSE IF t \in others THEN [savers[t] EXCEPT !.alone = FALSE]
          ELSE savers[t]]
     /\ UNCHANGED <<today, projects, entries, confirmations, reopening, admin,
                    nightly, last_night>>

save_list_projects(s) ==
  /\ savers[s].step = "projects"
  /\ savers' = [savers EXCEPT ![s] =
       [step |-> "entries", on |-> @.on, user |-> @.user, day |-> @.day,
        lines |-> @.lines, alone |-> @.alone, known |-> {p \in Projects : ~(projects[p].archived \/ projects[p].tentative)}]]
  /\ UNCHANGED <<today, projects, entries, confirmations, reopening, admin,
                 nightly, last_night>>

(* `open` are the projects neither archived nor tentative. *)
TakesTime(open, p, already_logged) == already_logged \/ p \in open

(* Mutant: the removed lines are forgotten. *)
AfterLines(r) == IF r.todo = {} THEN [r EXCEPT !.step = "audit"] ELSE r

(* What is left to write: the submitted lines, then the removed ones. *)
AfterWrite(r) == IF r.todo \cup r.drop = {} THEN [r EXCEPT !.step = "audit"] ELSE r

(* What the request knows of a line's row: "none", "row", or "gone" once the *)
(* row it read has been deleted, for it holds the id of that row.            *)
save_list_entries(s) ==
  LET r == savers[s]
      logged == Logged(r.user, r.day)
  IN /\ r.step = "entries"
     /\ savers' = [savers EXCEPT ![s] =
          IF \A p \in DOMAIN r.lines \cap Projects : TakesTime(r.known, p, p \in logged)
          THEN AfterWrite(
                 [step |-> "write", on |-> r.on, user |-> r.user, day |-> r.day,
                  lines |-> r.lines, alone |-> r.alone,
                  found |-> [k \in Key |-> IF k \in logged THEN "row" ELSE "none"],
                  todo |-> DOMAIN r.lines, drop |-> logged \ DOMAIN r.lines])
          ELSE Idle]
     /\ UNCHANGED <<today, projects, entries, confirmations, reopening, admin,
                    nightly, last_night>>

(* An insert meets the unique index, an update may find its row gone: either *)
(* raises, and the handler goes no further.                                  *)
WriteFails(r, k) ==
  IF r.found[k] = "none" THEN entries[<<r.user, r.day, k>>] # NoLine
  ELSE r.found[k] = "gone"

save_line(s, k) ==
  LET r == savers[s]
  IN /\ r.step = "write" /\ k \in r.todo
     /\ IF WriteFails(r, k)
        THEN UNCHANGED entries /\ savers' = [savers EXCEPT ![s] = Idle]
        ELSE /\ entries' = [entries EXCEPT ![<<r.user, r.day, k>>] = r.lines[k]]
             /\ savers' = [savers EXCEPT ![s] =
                             AfterWrite([r EXCEPT !.todo = @ \ {k}])]
     /\ UNCHANGED <<today, projects, confirmations, reopening, admin, nightly,
                    last_night>>

(* Mutant: the removed lines may go before the others are written. *)
DropsAnyTime(r, k) == r.step = "write" /\ k \in r.drop

DropsNow(r, k) == r.step = "write" /\ r.todo = {} /\ k \in r.drop

SawRow(t, u, d, k) ==
  SavesSameDay(t, u, d) /\ savers[t].step = "write" /\ savers[t].found[k] = "row"

delete_line(s, k) ==
  LET r == savers[s]
  IN /\ DropsNow(r, k)
     /\ entries' = IF r.found[k] = "row"
                   THEN [entries EXCEPT ![<<r.user, r.day, k>>] = NoLine] ELSE entries
     /\ savers' = [t \in Savers |->
          IF t = s THEN AfterWrite([r EXCEPT !.drop = @ \ {k}])
          ELSE IF r.found[k] = "row" /\ SawRow(t, r.user, r.day, k)
          THEN [savers[t] EXCEPT !.found[k] = "gone"]
          ELSE savers[t]]
     /\ UNCHANGED <<today, projects, confirmations, reopening, admin, nightly,
                    last_night>>

(* The audit entry is the last call; a request is also cut short anywhere. *)
end_save(s) ==
  /\ savers[s].step # "idle"
  /\ savers' = [savers EXCEPT ![s] = Idle]
  /\ UNCHANGED <<today, projects, entries, confirmations, reopening, admin,
                 nightly, last_night>>

-----------------------------------------------------------------------------
(* Weekly sign-off.  Who may decide is LeaveRules!can_decide. *)

confirm(u, w) ==
  /\ w <= monday_of(today)
  /\ confirmations' = [confirmations EXCEPT ![<<u, w>>] = "confirmed"]
  /\ UNCHANGED <<today, projects, entries, savers, reopening, admin, nightly,
                 last_night>>

(* Mutant: a closed week is reopened. *)
reopen_any(u, w) ==
  /\ reopening = Idle /\ MayBegin
  /\ reopening' = [step |-> "delete", on |-> today, user |-> u, week |-> w]
  /\ UNCHANGED <<today, projects, entries, confirmations, savers, admin,
                 nightly, last_night>>

reopen(u, w) ==
  /\ reopening = Idle /\ MayBegin
  /\ ~week_closed(w, today)
  /\ reopening' = [step |-> "delete", on |-> today, user |-> u, week |-> w]
  /\ UNCHANGED <<today, projects, entries, confirmations, savers, admin,
                 nightly, last_night>>

delete_confirmation ==
  /\ reopening # Idle
  /\ confirmations' = [confirmations EXCEPT ![<<reopening.user, reopening.week>>] = "none"]
  /\ reopening' = Idle
  /\ UNCHANGED <<today, projects, entries, savers, admin, nightly, last_night>>

stop_reopen ==
  /\ reopening # Idle /\ reopening' = Idle
  /\ UNCHANGED <<today, projects, entries, confirmations, savers, admin,
                 nightly, last_night>>

(* Mutant: one week fewer is looked at. *)
ClosedLastWeek(on) ==
  {w \in Week : w = monday_of(on) - DaysPerWeek /\ week_closed(w, on)}

(* The nightly task: the weeks of the last RecentWeeks that have closed. *)
ClosedRecently(on) ==
  {w \in Week : /\ w < monday_of(on)
                /\ w >= monday_of(on) - RecentWeeks * DaysPerWeek
                /\ week_closed(w, on)}

auto_confirm_closed ==
  /\ nightly = Idle /\ MayBegin
  /\ last_night < today
  /\ nightly' = [step |-> "week", on |-> today, weeks |-> ClosedRecently(today)]
  /\ UNCHANGED <<today, projects, entries, confirmations, savers, reopening,
                 admin, last_night>>

Missing(w) == {u \in People : ~Signed(u, w) /\ week_expected(u, w)}

(* One week is read, the latest first; nobody missing ends it at once. *)
auto_read_week ==
  /\ nightly.step = "week"
  /\ \E w \in nightly.weeks :
       /\ \A later \in nightly.weeks : later <= w
       /\ nightly' = [step |-> IF Missing(w) = {} THEN "week" ELSE "people",
                      on |-> nightly.on, weeks |-> nightly.weeks \ {w},
                      week |-> w, people |-> Missing(w)]
  /\ UNCHANGED <<today, projects, entries, confirmations, savers, reopening,
                 admin, last_night>>

auto_upsert(u) ==
  /\ nightly.step = "people" /\ u \in nightly.people
  /\ confirmations' = [confirmations EXCEPT ![<<u, nightly.week>>] = "auto"]
  /\ nightly' = [nightly EXCEPT !.people = @ \ {u},
                                !.step = IF @ = "people" /\ nightly.people = {u}
                                         THEN "week" ELSE @]
  /\ UNCHANGED <<today, projects, entries, savers, reopening, admin, last_night>>

auto_done ==
  /\ nightly.step = "week" /\ nightly.weeks = {}
  /\ nightly' = Idle /\ last_night' = nightly.on
  /\ UNCHANGED <<today, projects, entries, confirmations, savers, reopening, admin>>

stop_nightly ==
  /\ nightly # Idle /\ nightly' = Idle
  /\ UNCHANGED <<today, projects, entries, confirmations, savers, reopening,
                 admin, last_night>>

-----------------------------------------------------------------------------
(* Projects: archiving and confirming are one write; making one tentative  *)
(* reads first whether time was logged on it.                              *)

update_project(p, changed) ==
  /\ admin = Idle /\ MayBegin
  /\ changed # projects[p]
  /\ IF changed.tentative /\ ~projects[p].tentative
     THEN /\ \A u \in People, d \in Day : entries[<<u, d, p>>] = NoLine
          /\ admin' = [step |-> "update", on |-> today, project |-> p, changed |-> changed]
          /\ UNCHANGED projects
     ELSE projects' = [projects EXCEPT ![p] = changed] /\ UNCHANGED admin
  /\ UNCHANGED <<today, entries, confirmations, savers, reopening, nightly, last_night>>

update_project_write ==
  /\ admin # Idle
  /\ projects' = [projects EXCEPT ![admin.project] = admin.changed]
  /\ admin' = Idle
  /\ UNCHANGED <<today, entries, confirmations, savers, reopening, nightly, last_night>>

(* A request is over before a second midnight, and the nightly task is not *)
(* out for more than MaxOutage nights.                                     *)
next_day ==
  /\ today < MaxDay
  /\ \A r \in InFlight : r # Idle => r.on = today
  /\ today - last_night <= MaxOutage
  /\ today' = today + 1
  /\ UNCHANGED <<projects, entries, confirmations, savers, reopening, admin,
                 nightly, last_night>>

SaverStep(s) ==
  \/ \E u \in People, d \in LogDays, lines \in Submissions : save_day(s, u, d, lines)
  \/ save_list_projects(s)
  \/ save_list_entries(s)
  \/ \E k \in Key : save_line(s, k) \/ delete_line(s, k)
  \/ end_save(s)

LeadStep ==
  \/ \E u \in People, w \in SignWeeks : confirm(u, w) \/ reopen(u, w)
  \/ delete_confirmation
  \/ stop_reopen

NightlyStep ==
  \/ auto_confirm_closed
  \/ auto_read_week
  \/ \E u \in People : auto_upsert(u)
  \/ auto_done
  \/ stop_nightly

AdminStep ==
  \/ \E p \in Projects, c \in ProjectChanges :
       update_project(p, c)
  \/ update_project_write

TimesheetNext ==
  (\E s \in Savers : SaverStep(s)) \/ LeadStep \/ NightlyStep \/ AdminStep \/ next_day

TimesheetSpec == TimesheetInit /\ [][TimesheetNext]_timesheetVars

-----------------------------------------------------------------------------
(* Correctness *)

(* FR-TIME-08, FR-SIGN-03: once a week has closed, and the requests of that *)
(* midnight are over, its recorded time and its sign-off stand: no save and *)
(* no reopening that was tested earlier still lands on it.                  *)
ClosedWeekStands ==
  [][\A u \in People, d \in Day :
       is_locked(d, today - 1) =>
         /\ \A k \in Key : entries'[<<u, d, k>>] = entries[<<u, d, k>>]
         /\ week_closed(monday_of(d), today - 1) /\ Signed(u, monday_of(d))
              => confirmations'[<<u, monday_of(d)>>] # "none"
    ]_timesheetVars

(* FR-SIGN-02: no expected week leaves the reach of the nightly task without *)
(* a sign-off, although nights are missed, the task is killed half way, and  *)
(* a reopening tested before midnight may delete what it wrote.              *)
NoWeekForgotten ==
  \A u \in People, w \in Week :
    /\ week_expected(u, w)
    /\ today >= w + (RecentWeeks + 1) * DaysPerWeek
    => Signed(u, w)

(* save_day "replaces a day's entries with what was submitted": a save that  *)
(* got through, with no other save of that day beside it, left exactly its   *)
(* lines, whatever earlier saves that were cut short had left there.         *)
SavedAsSubmitted ==
  \A s \in Savers :
    savers[s].step = "audit" /\ savers[s].alone =>
      \A k \in Key :
        LET row == entries[<<savers[s].user, savers[s].day, k>>]
        IN IF k \in DOMAIN savers[s].lines
           THEN row = savers[s].lines[k]
           ELSE row = NoLine

(* Cut short anywhere, a save never empties a day on the way from one set of *)
(* lines to another: only a save of no lines, or two that overlap, can.      *)
DayNeverEmptied ==
  [][\A u \in People, d \in Day :
       Logged(u, d) # {} /\ Logged(u, d)' = {} =>
         \E s \in Savers : /\ SavesSameDay(s, u, d)
                           /\ DOMAIN savers[s].lines = {} \/ ~savers[s].alone
    ]_timesheetVars

(* Both: what was recorded is not lost, by a late save or by one cut short. *)
RecordsStand == ClosedWeekStands /\ DayNeverEmptied
=============================================================================
