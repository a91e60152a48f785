------------------------------- MODULE Profit -------------------------------
(* Cost, revenue and profit: domain/pnl.py, financials.py, invoicing.py,      *)
(* health.py, dashboard.py and the services that read for them. Nothing is    *)
(* stored: each figure is worked out from the book b that a request reads.    *)
EXTENDS Hours

CONSTANT TermsDays   \* invoice payment terms

---------------------------------------------------------------------------
(* The cost of a person: the CTC period of the day over its month.            *)
month_working_days(b, d) == Cardinality(WorkingDays(month_bounds(month_of(d)), holidays_between(b)))
daily(b, u, d) ==
  LET covering == period_on(b, u, d) IN
  IF covering = {} THEN Unknown
  ELSE Over(Q((CHOOSE c \in covering : TRUE).annual_ctc, 12), Whole(month_working_days(b, d)))
hourly(b, u, d) == Over(daily(b, u, d), contracted_hours_on(b, u, d))
monthly_now(b, u) ==
  LET covering == period_on(b, u, b.today) IN
  IF covering = {} THEN Unknown ELSE Q((CHOOSE c \in covering : TRUE).annual_ctc, 12)

(* A deactivated person's open-ended periods end yesterday.                   *)
end_on_leaving(b, u) ==
  LET theirs == {c \in b.periods : c.user = u}
      open == {c \in theirs : c.to = 0} IN
  IF b.people[u].active THEN theirs
  ELSE (theirs \ open) \cup {[c EXCEPT !.to = b.today - 1] : c \in {o \in open : o.from < b.today}}
left_open(b, u) == ~b.people[u].active /\ \E c \in b.periods : c.user = u /\ c.to = 0
paid_days(c, span) == {d \in span : c.from <= d /\ (c.to = 0 \/ d <= c.to)}
paid_between(b, u, span) == \E c \in end_on_leaving(b, u) : paid_days(c, span) # {}

(* Expected days run from the first period to the end of the last one; a gap  *)
(* between two periods is missing, days before and after them are not.        *)
days_paid(c, days) == Whole(Cardinality(paid_days(c, days)))
MonthCost(periods, days, covered, expected) ==
  [cost |-> IF Positive(expected) /\ covered = ZERO THEN Unknown
            ELSE SumOf(LAMBDA c : Times(Q(c.annual_ctc, 12), Over(days_paid(c, days), Whole(Cardinality(days)))),
                       {c \in periods : paid_days(c, days) # {}}),
   covered |-> covered,
   complete |-> days # {} /\ covered = expected]
MonthCostOf(periods, days) ==
  MonthCost(periods, days, SumOf(LAMBDA c : days_paid(c, days), periods),
    Whole(Cardinality(IF periods = {} THEN days
                      ELSE {d \in days : /\ \E c \in periods : c.from <= d
                                         /\ \E c \in periods : c.to = 0 \/ d <= c.to})))
month_cost(b, u, m) ==
  MonthCostOf(end_on_leaving(b, u), WorkingDays(month_bounds(m), holidays_between(b)))

---------------------------------------------------------------------------
(* Revenue: spread over the working days of every phase but spill-over, from  *)
(* the first day of the earliest to the last of the latest.                   *)
project_window(phases) ==
  IF phases = {} THEN {} ELSE Min({f.from : f \in phases}) .. Max({f.to : f \in phases})
revenue_window(b, p) ==
  project_window({f \in b.phases : f.project = p /\ f.phase # "spillover"})

holiday_span_viewed(b, span) == span   \* mutant: the months on screen only

(* The dates whose holidays a report needs: its range and every timeline.     *)
holiday_span(b, span) ==
  project_window({[from |-> Min(w), to |-> Max(w)] :
    w \in {span} \cup ({revenue_window(b, p) : p \in DOMAIN b.projects} \ {{}})})

spread(revenue, days, holidays, timeline_days) ==
  IF timeline_days = {} THEN Unknown
  ELSE Times(revenue, Q(Cardinality(WorkingDays(days, holidays) \cap timeline_days),
                        Cardinality(timeline_days)))
month_revenue(b, p, m, holidays) ==
  spread(b.projects[p].revenue, month_bounds(m), holidays, WorkingDays(revenue_window(b, p), holidays))

milestones_of(b, p) == {x \in b.milestones : x.project = p}
revenue_of_month(b, p, m, span) ==
  IF milestones_of(b, p) = {} THEN month_revenue(b, p, m, holidays_between(b) \cap holiday_span(b, span))
  ELSE SumOf(LAMBDA x : Whole(x.amount), {x \in milestones_of(b, p) : x.due_on \in month_bounds(m)})
milestone_gap(b, p) ==
  IF milestones_of(b, p) = {} THEN Unknown
  ELSE Minus(b.projects[p].revenue, SumOf(LAMBDA x : Whole(x.amount), milestones_of(b, p)))

basis_for(b, m) == IF m < month_of(b.today) THEN "actual" ELSE "planned"

(* Who worked, or is planned, on a project in a month, and what it weighs.    *)
Effort(b, p, m) ==
  IF basis_for(b, m) = "actual"
  THEN {[user |-> e.user, day |-> e.day, id |-> <<>>, weight |-> Whole(e.hours),
         rate |-> hourly(b, e.user, e.day)] :
          e \in {x \in logged_on(b, p) : x.day \in month_bounds(m)}}
  ELSE UNION {{[user |-> a.user, day |-> d, id |-> a, weight |-> Q(a.percent, 100),
                rate |-> daily(b, a.user, d)] :
                 d \in WorkingDays(month_bounds(m) \cap window(a), holidays_between(b))} :
                a \in {x \in list_counting_allocations(b) : x.project = p}}
weight_of(effort) == SumOf(LAMBDA w : w.weight, effort)
shares(effort) ==
  IF ~Positive(weight_of(effort)) THEN [u \in {} |-> ZERO]
  ELSE [u \in {w.user : w \in effort} |->
          Over(weight_of({w \in effort : w.user = u}), weight_of(effort))]

(* A project's cell of a month.                                               *)
reported(b) == {p \in DOMAIN b.projects : ~(is_tentative(b, p) /\ b.projects[p].archived)}
confirmed(b) == {p \in DOMAIN b.projects : ~is_tentative(b, p)}
unattributed_never(b, p, revenue, effort) == FALSE   \* mutant
unattributed(b, p, revenue, effort) ==
  ~is_tentative(b, p) /\ Positive(revenue) /\ DOMAIN shares(effort) = {}
Cell(b, p, revenue, effort, cost, nobodys) ==
  [revenue |-> IF revenue = Unknown THEN ZERO ELSE revenue,
   cost |-> cost,
   share |-> shares(effort),
   unattributed |-> nobodys,
   unrated |-> {w.user : w \in {x \in effort : x.rate = Unknown}},
   complete |-> /\ cost # Unknown
                /\ b.projects[p].revenue = Unknown \/ revenue_window(b, p) # {}
                /\ ~nobodys,
   no_timeline |-> /\ b.projects[p].revenue # Unknown
                   /\ revenue_window(b, p) = {}
                   /\ milestones_of(b, p) = {}]
CellOf(b, p, revenue, effort) ==
  Cell(b, p, revenue, effort, SumOf(LAMBDA w : Times(w.weight, w.rate), effort),
       unattributed(b, p, revenue, effort))
project_cell(b, p, m, span) == CellOf(b, p, revenue_of_month(b, p, m, span), Effort(b, p, m))

sum_cells(cells, names) ==
  [revenue |-> SumOf(LAMBDA i : cells[i].revenue, names),
   cost |-> SumOf(LAMBDA i : cells[i].cost, names),
   complete |-> \A i \in names : cells[i].complete]

(* People shown: active, or paid in the range.                                *)
shown(b, span) == {u \in People(b) : b.people[u].active \/ paid_between(b, u, span)}
person_revenue(b, u, cells) ==
  SumOf(LAMBDA p : Times(cells[p].revenue, cells[p].share[u]),
        {p \in confirmed(b) : Positive(cells[p].revenue) /\ u \in DOMAIN cells[p].share})
person_cell(b, u, m, cells) ==
  LET c == month_cost(b, u, m) IN
  [revenue |-> person_revenue(b, u, cells),
   cost |-> c.cost,
   complete |-> c.complete /\ ~(left_open(b, u) /\ Positive(c.covered))]

weighted_revenue(b, p, revenue) ==
  IF revenue = ZERO THEN ZERO
  ELSE IF b.projects[p].probability = -1 THEN Unknown   \* none given
  ELSE Times(revenue, Q(b.projects[p].probability, 100))

(* One month of the profit table, for the range a person looks at.            *)
Table(b, cells, people, won, pipeline) ==
  [projects |-> [p \in won |-> cells[p]],
   people |-> people,
   categories |-> [c \in PROJECT_CATEGORIES |-> sum_cells(cells, {p \in won : category_of(b, p) = c})],
   total_revenue |-> Plus(SumOf(LAMBDA p : cells[p].revenue, {p \in won : cells[p].unattributed}),
                          SumOf(LAMBDA u : people[u].revenue, DOMAIN people)),
   total_cost |-> SumOf(LAMBDA u : people[u].cost, DOMAIN people),
   unrated |-> UNION {cells[p].unrated : p \in won} \cup {u \in DOMAIN people : ~people[u].complete},
   pipeline |-> [p \in pipeline |-> cells[p]],
   pipeline_total |-> sum_cells(cells, pipeline),
   weighted |-> SumOf(LAMBDA p : weighted_revenue(b, p, cells[p].revenue), pipeline)]
TableOf(b, m, span, cells) ==
  Table(b, cells, [u \in shown(b, span) |-> person_cell(b, u, m, cells)],
        confirmed(b), reported(b) \ confirmed(b))
MonthOf(b, m, span) == TableOf(b, m, span, [p \in reported(b) |-> project_cell(b, p, m, span)])
monthly(b, months) ==
  LET span == UNION {month_bounds(m) : m \in months} IN [m \in months |-> MonthOf(b, m, span)]

---------------------------------------------------------------------------
(* Financials of a project over all its time: one unrated entry of a person   *)
(* makes that person's cost, and so the project's, unknown.                   *)
Financials(revenue, spent, hours, cogs_partial, complete) ==
  [cogs_partial |-> cogs_partial,
   unrated |-> {u \in DOMAIN spent : spent[u] = Unknown},
   complete |-> complete,
   margin_pct |-> IF complete THEN Times(Over(Minus(revenue, cogs_partial), revenue), Whole(100)) ELSE Unknown,
   people |-> [u \in DOMAIN spent |->
      [hours |-> hours[u], cogs |-> spent[u],
       attributed |-> Times(revenue, Over(hours[u], SumOf(LAMBDA v : hours[v], DOMAIN hours)))]]]
FinancialsOf(revenue, spent, hours) ==
  Financials(revenue, spent, hours,
             SumOf(LAMBDA u : spent[u], {u \in DOMAIN spent : spent[u] # Unknown}),
             DOMAIN spent # {} /\ \A u \in DOMAIN spent : spent[u] # Unknown)
project_financials(b, p) ==
  LET people == {e.user : e \in logged_on(b, p)}
      theirs(u) == {e \in logged_on(b, p) : e.user = u} IN
  FinancialsOf(b.projects[p].revenue,
    [u \in people |-> SumOf(LAMBDA e : Times(Whole(e.hours), hourly(b, u, e.day)), theirs(u))],
    [u \in people |-> hours_of(theirs(u))])
Totals(u, f, on) ==
  [cogs |-> SumOf(LAMBDA p : f[p].people[u].cogs, on),
   attributed |-> SumOf(LAMBDA p : f[p].people[u].attributed,
                        {p \in on : f[p].people[u].attributed # Unknown}),
   projects |-> Cardinality(on)]
TotalsOf(u, f) == Totals(u, f, {p \in DOMAIN f : u \in DOMAIN f[p].people})
person_totals(b, u) == TotalsOf(u, [p \in DOMAIN b.projects |-> project_financials(b, p)])
unrated_today(b) == {u \in active(b) : period_on(b, u, b.today) = {}}

---------------------------------------------------------------------------
(* Invoicing. A date of 0 is one nobody has entered.                          *)
DUE_SOON_DAYS == WeekLen
RECEIVABLE_HORIZON_DAYS == MonthLen

invoice_status(b, x) ==
  CASE x.paid_on # 0 -> "paid"
    [] x.paid_on = 0 /\ x.invoiced_on # 0 ->
         IF x.invoiced_on + TermsDays < b.today THEN "payment_overdue" ELSE "invoiced"
    [] OTHER -> IF x.due_on < b.today THEN "overdue"
                ELSE IF x.due_on <= b.today + DUE_SOON_DAYS THEN "due" ELSE "upcoming"
check_payment(x) == x.paid_on = 0 \/ (x.invoiced_on # 0 /\ x.paid_on >= x.invoiced_on)
check_tentative(b, x) == ~(is_tentative(b, x.project) /\ x.invoiced_on # 0)

billed(b) == {x \in b.milestones : ~is_tentative(b, x.project)}
amount_of(S) == SumOf(LAMBDA x : Whole(x.amount), S)
invoice_totals(b) ==
  [receivable |-> amount_of({x \in billed(b) : invoice_status(b, x) \in {"invoiced", "payment_overdue"}}),
   overdue |-> amount_of({x \in billed(b) : invoice_status(b, x) = "payment_overdue"}),
   due_next |-> amount_of({x \in billed(b) : /\ invoice_status(b, x) \in {"upcoming", "due"}
                                             /\ x.due_on <= b.today + RECEIVABLE_HORIZON_DAYS}),
   paid_this_month |-> amount_of({x \in billed(b) : x.paid_on # 0 /\ month_of(x.paid_on) = month_of(b.today)})]
listing(b) ==
  [x \in billed(b) |->
     [status |-> invoice_status(b, x),
      days_overdue |-> CASE invoice_status(b, x) = "overdue" -> b.today - x.due_on
                         [] invoice_status(b, x) = "payment_overdue" -> b.today - (x.invoiced_on + TermsDays)
                         [] OTHER -> 0]]

---------------------------------------------------------------------------
(* Health: three colours, the worst of which is the project's.                *)
percent(part, whole) == Times(Over(part, whole), Whole(100))
burn_pct(b, p) == percent(project_effort(b, p).logged, project_effort(b, p).budget)
planned_days(b, p) == project_window({f \in b.phases : f.project = p})
elapsed(days, today) ==
  IF days = {} THEN Unknown ELSE Q(100 * Cardinality({d \in days : d <= today}), Cardinality(days))
elapsed_pct(b, p) == elapsed(WorkingDays(planned_days(b, p), holidays_between(b)), b.today)
planned_cost(b, p) ==
  SumOf(LAMBDA a : SumOf(LAMBDA d : Times(daily(b, a.user, d), Q(a.percent, 100)),
                         WorkingDays(window(a) \cap planned_days(b, p), holidays_between(b))),
        {x \in list_counting_allocations(b) : x.project = p})
planned_pct(b, p) ==
  IF planned_days(b, p) = {} THEN Unknown
  ELSE percent(Minus(b.projects[p].revenue, planned_cost(b, p)), b.projects[p].revenue)

Coloured(gap, red, amber) ==
  IF Exceeds(gap, Whole(red)) THEN "red" ELSE IF Exceeds(gap, Whole(amber)) THEN "amber" ELSE "green"
burn(pct, part) ==
  CASE pct = Unknown -> "amber"
    [] pct # Unknown /\ Exceeds(pct, Whole(100)) -> "red"
    [] pct # Unknown /\ ~Exceeds(pct, Whole(100)) /\ part = Unknown -> "amber"
    [] OTHER -> Coloured(Minus(pct, part), 25, 10)
margin(so_far, planned) ==
  IF Unknown \in {so_far, planned} THEN "amber" ELSE Coloured(Minus(planned, so_far), 15, 5)
schedule(pct, part, archived) ==
  CASE part = Unknown -> "amber"
    [] part # Unknown /\ archived -> "green"
    [] part # Unknown /\ ~archived /\ ~Exceeds(Whole(100), part) ->
         IF pct = Unknown \/ Exceeds(Whole(90), pct) THEN "red" ELSE "amber"
    [] OTHER -> "green"
worst(colours) == IF "red" \in colours THEN "red" ELSE IF "amber" \in colours THEN "amber" ELSE "green"
project_health(b, p, pct, part) ==
  worst({burn(pct, part), margin(project_financials(b, p).margin_pct, planned_pct(b, p)),
         schedule(pct, part, b.projects[p].archived)})
overall(b, p) == project_health(b, p, burn_pct(b, p), elapsed_pct(b, p))

---------------------------------------------------------------------------
(* The owner's dashboard.                                                     *)
last_working_day(b) ==
  LET past == {d \in WorkingDays(1 .. b.today - 1, holidays_between(b)) : TRUE} IN
  IF past = {} THEN 0 ELSE Max(past)
headcount(b) ==
  {u \in active(b) : b.people[u].logs_time /\ b.today \in employment(b, u, {b.today})}
confirmed_on(b, u) ==
  {a \in list_counting_allocations(b) : a.user = u /\ ~is_tentative(b, a.project)}
unallocated(b) == {u \in headcount(b) : \A a \in confirmed_on(b, u) : b.today \notin window(a)}
allocations_ending(b) ==
  {u \in headcount(b) :
     LET ends == {a.to : a \in {x \in confirmed_on(b, u) : x.to >= b.today}} IN
     ends # {} /\ Max(ends) <= b.today + RECEIVABLE_HORIZON_DAYS}
burning(pct) == pct # Unknown /\ Exceeds(pct, Whole(80))
Summary(b, now, months, report, open) ==
  [this_month |-> report[now].total_revenue,
   red |-> {p \in open : overall(b, p) = "red"},
   burning |-> {p \in open : burning(burn_pct(b, p))},
   spillover |-> {p \in open \cap confirmed(b) :
                    \E f \in b.phases : f.project = p /\ f.phase = "spillover" /\ b.today \in window(f)},
   unrated |-> {u \in UNION {DOMAIN report[m].people : m \in months} :
                  \E m \in months : ~report[m].people[u].complete},
   no_timeline |-> {p \in confirmed(b) : report[now].projects[p].no_timeline},
   unattributed |-> {p \in confirmed(b) : report[now].projects[p].unattributed},
   overdue |-> {x \in billed(b) : invoice_status(b, x) \in {"payment_overdue", "overdue"}},
   unallocated |-> unallocated(b), ending |-> allocations_ending(b)]
SummaryOf(b, months) ==
  Summary(b, month_of(b.today), months, monthly(b, months), {p \in DOMAIN b.projects : ~b.projects[p].archived})
summary(b) == SummaryOf(b, {m \in {month_of(b.today) - 1, month_of(b.today)} : m > 0})

thin(ratio) == ratio # Unknown /\ Exceeds(Q(80, 100), ratio)
Attention(b, s, day) ==
  {<<"high", "red">> : p \in s.red} \cup
  {<<"high", "overdue">> : x \in s.overdue} \cup
  {<<"high", "incomplete">> : x \in s.unrated \cup s.no_timeline} \cup
  {<<"medium", "unattributed">> : p \in s.unattributed} \cup
  {<<"medium", "spillover">> : p \in s.spillover} \cup
  {<<"medium", "coverage">> : d \in {x \in {day} : x > 0 /\ thin(coverage(b, active(b), {x}).ratio)}} \cup
  {<<"medium", "unallocated">> : u \in s.unallocated} \cup
  {<<"low", "ending">> : u \in s.ending}
attention(b) == Attention(b, summary(b), last_working_day(b))
=============================================================================
