-------------------------------- MODULE Hours --------------------------------
(* Hours planned, available and logged: domain/timesheets.py, capacity.py,    *)
(* categories.py, utilisation.py and the services that read for them. A book  *)
(* b is what those services read in one request. Dates are numbers; a window  *)
(* is the set of its days, so the overlap of two windows is an intersection.  *)
(* Names, labels, sorting and rounding are left out.                          *)
EXTENDS Ratios, FiniteSets

CONSTANTS
  WeekLen,      \* days of a week; the last one is the weekend
  MonthLen,     \* days of a month
  Threshold,    \* bench_threshold, in per cent
  Target,       \* utilisation target, in per cent
  PortalStart   \* portal_start_date, 0 when it is not set

ASSUME HoursAssumption ==
  /\ {WeekLen, MonthLen} \subseteq Nat \ {0, 1}
  /\ {Threshold, Target, PortalStart} \subseteq Nat

HOURS_PER_WORKING_DAY == Whole(8)
PROJECT_CATEGORIES == {"client", "internal"}
NOT_ON_A_PROJECT == "activity"

is_weekend(d) == d % WeekLen = 0
month_bounds(m) == ((m - 1) * MonthLen + 1) .. (m * MonthLen)
month_of(d) == (d - 1) \div MonthLen + 1
week_of(d) == LET w == (d - 1) \div WeekLen IN (w * WeekLen + 1) .. ((w + 1) * WeekLen)
weeks(span) == {week_of(d) : d \in span}
window(row) == row.from .. row.to
WorkingDays(days, holidays) == {d \in days : ~is_weekend(d)} \ holidays

---------------------------------------------------------------------------
(* What is read.                                                             *)
People(b) == DOMAIN b.people
active(b) == {u \in People(b) : b.people[u].active}
is_tentative(b, p) == b.projects[p].tentative
category_of(b, p) == b.projects[p].category
list_counting_allocations(b) ==
  {a \in b.allocations : ~a.released /\ ~b.projects[a.project].archived}
holidays_between(b) == {h.day : h \in b.holidays}
holidays_by_person(b, u) == {h.day : h \in {x \in b.holidays : x.place \in {"all", b.people[u].place}}}
(* Half-days of leave, approved or pending; or approved only, as supply asks. *)
leave_days_for(b, u, d, approved) ==
  Max({0} \cup {l.halves : l \in {x \in b.leave : x.user = u /\ x.day = d /\ (approved => x.approved)}})

employment(b, u, days) ==
  {d \in days : /\ b.people[u].joined = 0 \/ d >= b.people[u].joined
                /\ b.people[u].left = 0 \/ d <= b.people[u].left}

---------------------------------------------------------------------------
(* Contracted hours: the CTC period that covers the day, else full time.      *)
period_on(b, u, d) == {c \in b.periods : c.user = u /\ c.from <= d /\ (c.to = 0 \/ d <= c.to)}
contracted_hours_on(b, u, d) ==
  LET covering == period_on(b, u, d) IN
  IF covering = {} THEN HOURS_PER_WORKING_DAY
  ELSE Q((CHOOSE c \in covering : TRUE).hours_per_week, WeekLen - 1)

share_of_day(b, u, d, approved) == Q(2 - Min({2, leave_days_for(b, u, d, approved)}), 2)

working_days(b, u, days, holidays) ==
  SumOf(LAMBDA d : share_of_day(b, u, d, FALSE), WorkingDays(days, holidays))
available_hours(b, u, days, holidays, approved) ==
  SumOf(LAMBDA d : Times(share_of_day(b, u, d, approved), contracted_hours_on(b, u, d)),
        WorkingDays(days, holidays))
allocated_hours(b, a, days, holidays) ==
  Times(available_hours(b, a.user, days, holidays, FALSE), Q(a.percent, 100))

---------------------------------------------------------------------------
(* The one weekly calculation behind the forecast and the capacity check.     *)
supply(b, u, days) ==
  available_hours(b, u, employment(b, u, days), holidays_by_person(b, u), TRUE)
demand(b, days, tentative) ==
  SumOf(LAMBDA a : allocated_hours(b, a, employment(b, a.user, days \cap window(a)),
                                   holidays_by_person(b, a.user)),
        {a \in list_counting_allocations(b) :
           a.user \in active(b) /\ is_tentative(b, a.project) = tentative})
Week(b, days) ==
  [supply_hours |-> SumOf(LAMBDA u : supply(b, u, days), active(b)),
   contributors |-> Cardinality({u \in active(b) : Positive(supply(b, u, days))}),
   confirmed_hours |-> demand(b, days, FALSE),
   tentative_hours |-> demand(b, days, TRUE)]
weekly(b, span) == [w \in weeks(span) |-> Week(b, w \cap span)]

(* Forecast: per project, then who is over-committed on which days.           *)
forecast_project(b, p, span) ==
  SumOf(LAMBDA a : allocated_hours(b, a, span \cap window(a), holidays_between(b)),
        {a \in list_counting_allocations(b) : a.project = p})
percent_on_all(b, u, d, with_tentative) ==   \* mutant: pencilled-in work counts
  MapThenSumSet(LAMBDA a : a.percent, {a \in list_counting_allocations(b) : a.user = u /\ d \in window(a)})
percent_on(b, u, d, with_tentative) ==
  MapThenSumSet(LAMBDA a : a.percent,
        {a \in list_counting_allocations(b) :
           a.user = u /\ d \in window(a) /\ (with_tentative \/ ~is_tentative(b, a.project))})
over_allocations(b, span, with_tentative) ==
  {x \in People(b) \X span :
     ~is_weekend(x[2]) /\ percent_on(b, x[1], x[2], with_tentative) > 100}
runs(b, span, with_tentative) ==
  [u \in {f[1] : f \in over_allocations(b, span, with_tentative)} |->
     LET on == {f[2] : f \in {g \in over_allocations(b, span, with_tentative) : g[1] = u}} IN
     [days |-> Cardinality(on), first |-> Min(on), last |-> Max(on),
      peak |-> Max({percent_on(b, u, d, with_tentative) : d \in on})]]

---------------------------------------------------------------------------
(* Logged effort. An entry of no project has the project "none".              *)
hours_of(entries) == SumOf(LAMBDA e : Whole(e.hours), entries)
on_projects(b) == {e \in b.entries : e.project # "none"}
logged_on(b, p) == {e \in b.entries : e.project = p}

(* The phase a day falls in: the earliest-starting of those that hold it.     *)
phase_for(b, p, d) ==
  LET holding == {f \in b.phases : f.project = p /\ d \in window(f)} IN
  IF holding = {} THEN "none"
  ELSE (CHOOSE f \in holding : \A g \in holding : f.from <= g.from).phase

project_effort(b, p) ==
  LET mine == {f \in b.phases : f.project = p}
      in_phase(name) == hours_of({e \in logged_on(b, p) : e.phase = name}) IN
  [phases |-> [f \in mine |->
     [logged |-> in_phase(f.phase),
      over_by |-> IF f.budget # 0 /\ Exceeds(in_phase(f.phase), Whole(f.budget))
                  THEN Minus(in_phase(f.phase), Whole(f.budget)) ELSE Unknown]],
   outside |-> in_phase("none"),
   budget |-> SumOf(LAMBDA f : Whole(f.budget), mine),
   logged |-> hours_of(logged_on(b, p))]

current_work(b, u, span) ==
  LET mine == {e \in b.entries : e.user = u /\ e.day \in span} IN
  [projects |-> [p \in {e.project : e \in mine} |->
                   hours_of({e \in mine : e.project = p})],
   total |-> hours_of(mine)]

statement(b, p, m) ==
  LET mine == {e \in logged_on(b, p) : e.day \in month_bounds(m)}
      unsigned(u) == {w \in weeks(month_bounds(m)) : <<u, w>> \notin b.signed} IN
  [people |-> [u \in {e.user : e \in mine} |->
                 [total |-> hours_of({e \in mine : e.user = u}), unsigned |-> unsigned(u)]],
   by_phase |-> [f \in {e.phase : e \in mine} |-> hours_of({e \in mine : e.phase = f})],
   total |-> hours_of(mine),
   unsigned |-> \E e \in mine : unsigned(e.user) # {}]

(* Which days somebody should have logged, and which of those they did.       *)
expected_log_days(b, u, span) ==
  {d \in WorkingDays(employment(b, u, span), holidays_between(b)) :
     /\ d >= PortalStart
     /\ d <= b.today
     /\ leave_days_for(b, u, d, FALSE) < 2}
logged_days(b, u) == {e.day : e \in {x \in b.entries : x.user = u}}
coverage(b, users, span) ==
  LET logging == {u \in users : b.people[u].logs_time}
      expected == SumOf(LAMBDA u : Whole(Cardinality(expected_log_days(b, u, span))), logging)
      logged == SumOf(LAMBDA u : Whole(Cardinality(expected_log_days(b, u, span)
                                                     \cap logged_days(b, u))), logging) IN
  [missing |-> [u \in logging |-> expected_log_days(b, u, span) \ logged_days(b, u)],
   ratio |-> Over(logged, expected)]

---------------------------------------------------------------------------
(* Logged and planned hours of a category in a month, and the activities row. *)
entry_category_only(b, e) == IF e.project = "none" THEN "none" ELSE category_of(b, e.project)   \* mutant
entry_category(b, e) == IF e.project = "none" THEN NOT_ON_A_PROJECT ELSE category_of(b, e.project)
by_category(b, c, m) ==
  [logged |-> hours_of({e \in b.entries : e.day \in month_bounds(m) /\ entry_category(b, e) = c}),
   planned |->
     IF c = NOT_ON_A_PROJECT THEN Unknown
     ELSE SumOf(LAMBDA a : allocated_hours(b, a, window(a) \cap month_bounds(m),
                                           holidays_by_person(b, a.user)),
                {a \in list_counting_allocations(b) :
                   ~is_tentative(b, a.project) /\ category_of(b, a.project) = c})]
category_totals(b, m) ==
  [logged |-> SumOf(LAMBDA c : by_category(b, c, m).logged, PROJECT_CATEGORIES \cup {NOT_ON_A_PROJECT}),
   planned |-> SumOf(LAMBDA c : by_category(b, c, m).planned, PROJECT_CATEGORIES)]

(* Utilisation: only hours on a project with a client are billable.           *)
utilisation(b, u, m) ==
  LET mine == {e \in b.entries : e.user = u /\ e.day \in month_bounds(m)}
      billable == {e \in mine : e.project # "none" /\ b.projects[e.project].client}
      capacity == available_hours(b, u, month_bounds(m), holidays_by_person(b, u), FALSE) IN
  [billable |-> hours_of(billable),
   internal |-> hours_of({e \in mine \ billable : e.project # "none"}),
   activity |-> hours_of({e \in mine : e.project = "none"}),
   capacity |-> capacity,
   pct |-> Times(Over(hours_of(billable), capacity), Whole(100))]
below_target(b, u, m) ==
  LET pct == utilisation(b, u, m).pct IN pct # Unknown /\ Exceeds(Whole(Target), pct)

(* The most a person is promised to on one weekday of a week.                 *)
peak_percent(b, u, days, with_tentative) ==
  Max({0} \cup {percent_on(b, u, d, with_tentative) : d \in WorkingDays(days, {})})
bench(b, span) ==
  [u \in active(b) |-> {w \in weeks(span) : peak_percent(b, u, w, FALSE) < Threshold}]

(* A week of the resource timeline leaves declared holidays out, too.         *)
resources_week(b, u, days) ==
  LET working == WorkingDays(days, holidays_between(b))
      mine(d) == {a \in list_counting_allocations(b) : a.user = u /\ d \in window(a)} IN
  [peak |-> Max({0} \cup {percent_on(b, u, d, FALSE) : d \in working}),
   with_tentative |-> Max({0} \cup {percent_on(b, u, d, TRUE) : d \in working}),
   leave |-> SumOf(LAMBDA d : Q(Min({2, leave_days_for(b, u, d, FALSE)}), 2), working),
   working_days |-> Cardinality(working),
   projects |-> [p \in {a.project : a \in UNION {mine(d) : d \in working}} |->
                   Max({a.percent : a \in {x \in UNION {mine(d) : d \in working} : x.project = p}})]]

(* The timeline's bars count every day of the range, weekends too.            *)
timeline(b, u, span) ==
  LET peak(all) == Max({0} \cup {percent_on(b, u, d, all) : d \in span}) IN
  [bars |-> {a \in list_counting_allocations(b) : a.user = u /\ window(a) \cap span # {}},
   over |-> peak(FALSE) > 100, over_with_tentative |-> peak(TRUE) > 100]

(* Hiring: demand takes no leave off, and no holiday off somebody who left.   *)
Hiring(typical, supplied, asked, asked_tentative) ==
  [tentative |-> asked_tentative,
   shortfall |-> AtLeastZero(Minus(asked, supplied)),
   fte_needed |-> LET fte == Over(AtLeastZero(Minus(asked, supplied)), typical) IN
                  IF fte = Unknown THEN ZERO ELSE fte]
their_holidays(b, u) == IF u \in active(b) THEN holidays_by_person(b, u) ELSE {}
asked_hours(b, m, tentative) ==
  SumOf(LAMBDA a : Times(Q(a.percent, 100),
                         SumOf(LAMBDA d : contracted_hours_on(b, a.user, d),
                               WorkingDays(window(a) \cap month_bounds(m), their_holidays(b, a.user)))),
        {a \in list_counting_allocations(b) : is_tentative(b, a.project) = tentative})
full_time(b, m) ==
  SumOf(LAMBDA u : Times(working_days(b, u, month_bounds(m), holidays_by_person(b, u)), HOURS_PER_WORKING_DAY),
        active(b))
hiring(b, m) ==
  Hiring(Times(Q(Target, 100), IF active(b) = {} THEN Whole(21 * 8)
                               ELSE Over(full_time(b, m), Whole(Cardinality(active(b))))),
         Times(Q(Target, 100),
               SumOf(LAMBDA u : available_hours(b, u, month_bounds(m), holidays_by_person(b, u), FALSE), active(b))),
         asked_hours(b, m, FALSE), asked_hours(b, m, TRUE))
=============================================================================
