------------------------------- MODULE Books -------------------------------
(* The books the money figures are read from, and the requests that change    *)
(* them: CTC periods, projects, allocations, milestones and time, with the    *)
(* clock. The CTC requests run one database call at a time; a request that    *)
(* reads and then writes one row keeps what it read until the write.          *)
EXTENDS Profit

CONSTANTS
  CtcRequests,      \* CTC requests that may be in flight
  LastDay,       \* the clock stops here
  MaxChanges,    \* bounds the other changes
  CtcStarts, CtcEnds, Raises   \* what a CTC request may ask for; an end of 0 is none

ASSUME CtcAssumption == CtcStarts \subseteq Nat \ {0} /\ CtcEnds \subseteq Nat

VARIABLES
  book,      \* what the services read
  request,   \* CTC requests: where each stands
  reader,    \* a request between its read and its write, or Nothing
  changes

bookVars == <<book, request, reader, changes>>
Nothing == [op |-> "none"]

---------------------------------------------------------------------------
(* cost_periods_no_overlap: one figure per person per day.                    *)
overlapping(c, e) ==
  c.user = e.user /\ (e.to = 0 \/ c.from <= e.to) /\ (c.to = 0 \/ e.from <= c.to)
no_overlap(periods) == \A c, e \in periods : c.id # e.id => ~overlapping(c, e)

with_periods(periods) == [book EXCEPT !.periods = periods]
with_end(id, to) == {IF c.id = id THEN [c EXCEPT !.to = to] ELSE c : c \in book.periods}

(* add_ctc lists the person's periods once and closes the open-ended ones     *)
(* that start earlier, each in a call of its own.                             *)
to_close_any(c) == {e.id : e \in {x \in book.periods : x.user = c.user /\ x.from < c.from}}   \* mutant
to_close(c) == {e.id : e \in {x \in book.periods : x.user = c.user /\ x.to = 0 /\ x.from < c.from}}

add_ctc(r) ==
  /\ request[r].step = "idle"
  /\ \E u \in People(book), from \in CtcStarts, to \in CtcEnds, raise \in Raises :
       /\ to = 0 \/ to >= from
       /\ LET c == [id |-> r, user |-> u, annual_ctc |-> raise.ctc,
                    hours_per_week |-> raise.hours, from |-> from, to |-> to] IN
          request' = [request EXCEPT ![r] =
            [step |-> "closing", new |-> c, close |-> to_close(c), closed |-> {}]]
  /\ UNCHANGED <<book, reader, changes>>

(* An update that would overlap another period is refused like an insert.     *)
close_cost_period(r) ==
  /\ request[r].step = "closing"
  /\ \E id \in request[r].close :
       LET after == with_end(id, request[r].new.from - 1)
           rest == [request[r] EXCEPT !.close = @ \ {id}, !.closed = {id}] IN
       IF no_overlap(after)
       THEN book' = with_periods(after) /\ request' = [request EXCEPT ![r] = rest]
       ELSE request' = [request EXCEPT ![r].step = "over"] /\ UNCHANGED book
  /\ UNCHANGED <<reader, changes>>

insert_cost_period(r) ==
  /\ request[r].step = "closing" /\ request[r].close = {}
  /\ LET after == book.periods \cup {request[r].new} IN
     IF no_overlap(after)
     THEN book' = with_periods(after) /\ request' = [request EXCEPT ![r].step = "over"]
     ELSE UNCHANGED book /\ request' = [request EXCEPT ![r].step = "refused"]
  /\ UNCHANGED <<reader, changes>>

(* A refused insert opens the period it closed again, whatever it is by now;  *)
(* when that overlaps too, the period stays closed.                           *)
reopen_cost_period(r) ==
  /\ request[r].step = "refused"
  /\ LET after == UNION {with_end(id, 0) : id \in request[r].closed} IN
     IF request[r].closed # {} /\ no_overlap(after)
     THEN book' = with_periods(after) ELSE UNCHANGED book
  /\ request' = [request EXCEPT ![r].step = "over"]
  /\ UNCHANGED <<reader, changes>>

(* The backend may be cut off between two calls.                              *)
cut_short(r) ==
  /\ request[r].step \in {"closing", "refused"}
  /\ request' = [request EXCEPT ![r].step = "over"]
  /\ UNCHANGED <<book, reader, changes>>

remove_ctc ==
  /\ changes < MaxChanges
  /\ \E c \in book.periods : book' = with_periods(book.periods \ {c})
  /\ changes' = changes + 1
  /\ UNCHANGED <<request, reader>>

---------------------------------------------------------------------------
(* Everything else that a figure is read from.                                *)
Change(after) ==
  /\ changes < MaxChanges
  /\ book' = after
  /\ changes' = changes + 1
  /\ UNCHANGED <<request, reader>>

update_user ==
  \E u \in People(book) : Change([book EXCEPT !.people[u].active = ~@])

(* Logged time is never negative and always past; a project that is archived  *)
(* or tentative takes none (domain/timesheets.py, the refusals).              *)
save_day ==
  \E u \in active(book), p \in {q \in DOMAIN book.projects : ~book.projects[q].tentative
                                                       /\ ~book.projects[q].archived},
     d \in {x \in {book.today, book.today - 1} : x > 0} :
    /\ \A e \in book.entries : e.user # u \/ e.day # d \/ e.project # p
    /\ Change([book EXCEPT !.entries = @ \cup
         {[user |-> u, project |-> p, day |-> d, hours |-> 4, phase |-> phase_for(book, p, d)]}])

may_stretch(p, old, days) == ~book.projects[p].archived \/ days \subseteq old
allocate ==
  \E u \in active(book), p \in DOMAIN book.projects :
    /\ may_stretch(p, {}, {book.today})
    /\ Change([book EXCEPT !.allocations = @ \cup
         {[user |-> u, project |-> p, from |-> book.today, to |-> LastDay, percent |-> 50, released |-> FALSE]}])
update_allocation ==
  \E a \in {x \in book.allocations : ~x.released}, to \in {book.today, LastDay} :
    LET b == [a EXCEPT !.to = to] IN
    /\ to >= a.from /\ b # a
    /\ may_stretch(a.project, window(a), window(b))
    /\ Change([book EXCEPT !.allocations = (@ \ {a}) \cup {b}])
remove_allocation ==
  \E a \in {x \in book.allocations : ~x.released} :
    Change([book EXCEPT !.allocations = @ \ {a}])

set_phase ==
  \E f \in book.phases : \E to \in {f.from, f.to + 1} :
    Change([book EXCEPT !.phases = (@ \ {f}) \cup {[f EXCEPT !.to = to]}])

add_milestone ==
  \E p \in DOMAIN book.projects :
    /\ book.milestones = {}
    /\ Change([book EXCEPT !.milestones = {[project |-> p, amount |-> 30, due_on |-> book.today,
                                            invoiced_on |-> 0, paid_on |-> 0]}])
remove_milestone ==
  \E x \in book.milestones : Change([book EXCEPT !.milestones = @ \ {x}])

(* Two requests that judge what they read and write afterwards.               *)
Read(next) ==
  /\ reader = Nothing /\ changes < MaxChanges
  /\ reader' = next /\ changes' = changes + 1
  /\ UNCHANGED <<book, request>>
update_milestone ==
  \E x \in book.milestones, day \in {0, book.today}, field \in {"invoiced_on", "paid_on"} :
    LET after == [x EXCEPT ![field] = day] IN
    /\ after # x /\ check_payment(after) /\ check_tentative(book, after)
    /\ Read([op |-> "milestone", field |-> field, day |-> day])
change_project ==
  \E p \in DOMAIN book.projects, tentative, archived \in BOOLEAN :
    LET was == book.projects[p] IN
    /\ <<tentative, archived>> # <<was.tentative, was.archived>>
    /\ tentative /\ ~was.tentative =>
         logged_on(book, p) = {} /\ \A x \in milestones_of(book, p) : x.invoiced_on = 0
    /\ Read([op |-> "project", project |-> p, tentative |-> tentative, archived |-> archived])

(* paid_on needs invoiced_on (migration 021), whatever was read.              *)
write ==
  /\ reader # Nothing
  /\ LET after ==
           IF reader.op = "milestone"
           THEN [book EXCEPT !.milestones = {[x EXCEPT ![reader.field] = reader.day] : x \in @}]
           ELSE [book EXCEPT !.projects[reader.project].tentative = reader.tentative,
                             !.projects[reader.project].archived = reader.archived] IN
     book' = IF \A x \in after.milestones : x.paid_on # 0 => x.invoiced_on # 0 THEN after ELSE book
  /\ reader' = Nothing
  /\ UNCHANGED <<request, changes>>

next_day ==
  /\ book.today < LastDay
  /\ book' = [book EXCEPT !.today = @ + 1]
  /\ UNCHANGED <<request, reader, changes>>

BooksStart(b) ==
  /\ book = b
  /\ request = [r \in CtcRequests |-> [step |-> "idle"]]
  /\ reader = Nothing
  /\ changes = 0

BooksNext ==
  \/ \E r \in CtcRequests : \/ add_ctc(r) \/ close_cost_period(r) \/ insert_cost_period(r)
                         \/ reopen_cost_period(r) \/ cut_short(r)
  \/ remove_ctc \/ update_user \/ save_day
  \/ allocate \/ update_allocation \/ remove_allocation \/ set_phase
  \/ add_milestone \/ remove_milestone \/ update_milestone \/ change_project \/ write
  \/ next_day

BooksSpec(b) == BooksStart(b) /\ [][BooksNext]_bookVars

---------------------------------------------------------------------------
(* Properties.                                                               *)
(* The months the books have anything in. *)
Months ==
  {month_of(d) : d \in {e.day : e \in book.entries}
                      \cup UNION {window(x) : x \in book.phases \cup book.allocations}}
AllSpan == UNION {month_bounds(m) : m \in Months}

(* The profit table adds up (services/pnl.py monthly): its categories to its  *)
(* confirmed projects, and its total to both, since each project's revenue is *)
(* shared out to the last cent or kept as unattributed; except what went to   *)
(* somebody who left and was never paid in the range, whose row is dropped.   *)
(* A person's month costs what their days cost (domain/pnl.py month_cost,     *)
(* RateBook.daily), and a project's revenue is attributed whole.              *)
MonthAddsUp(r, projects) ==
  /\ SumOf(LAMBDA c : r.categories[c].revenue, PROJECT_CATEGORIES) = projects
  /\ \/ r.total_revenue = projects
     \/ \E p \in DOMAIN r.projects : ~(DOMAIN r.projects[p].share \subseteq DOMAIN r.people)
RowsAddUp(r) == MonthAddsUp(r, SumOf(LAMBDA p : r.projects[p].revenue, DOMAIN r.projects))
DaysAddUp(u, m, cost) ==
  cost # Unknown => cost = SumOf(LAMBDA d : daily(book, u, d),
                              {d \in WorkingDays(month_bounds(m), holidays_between(book)) :
                                 period_on(book, u, d) # {}})
SharedWhole(revenue, people) ==
  revenue # Unknown /\ DOMAIN people # {} =>
    SumOf(LAMBDA u : people[u].attributed, DOMAIN people) = revenue
ReportAddsUp(months, span) ==
  /\ \A m \in months : /\ RowsAddUp(MonthOf(book, m, span))
                        /\ \A u \in active(book) : DaysAddUp(u, m, month_cost(book, u, m).cost)
  /\ \A p \in DOMAIN book.projects :
       SharedWhole(book.projects[p].revenue, project_financials(book, p).people)

(* Hours are lost in no report: a project's phases and the time outside them *)
(* make up its total, so do the people and the phases of a client statement,  *)
(* the categories with the activities make up all that was logged, and what   *)
(* is billable, internal and activity what a person logged; and nobody is     *)
(* over-committed on a report of days who is not on the report of the range.  *)
EffortAddsUp(e) ==
  e.logged = Plus(e.outside, SumOf(LAMBDA f : e.phases[f].logged, DOMAIN e.phases))
StatementAddsUp(s) ==
  /\ s.total = SumOf(LAMBDA u : s.people[u].total, DOMAIN s.people)
  /\ s.total = SumOf(LAMBDA f : s.by_phase[f], DOMAIN s.by_phase)
UsedUp(u, used, span) ==
  Plus(used.billable, Plus(used.internal, used.activity)) = current_work(book, u, span).total
HoursAddUp(months, span) ==
  /\ \A p \in DOMAIN book.projects :
       /\ EffortAddsUp(project_effort(book, p))
       /\ \A m \in months : StatementAddsUp(statement(book, p, m))
  /\ \A m \in months :
       /\ category_totals(book, m).logged = hours_of({e \in book.entries : e.day \in month_bounds(m)})
       /\ \A u \in People(book) : UsedUp(u, utilisation(book, u, m), month_bounds(m))
  /\ \A u \in active(book) :
       /\ u \in DOMAIN runs(book, span, FALSE) => timeline(book, u, span).over
       /\ \A w \in weeks(span) :
            resources_week(book, u, w).peak <= peak_percent(book, u, w, FALSE)

(* Work not yet won is in no confirmed figure (FR-PROJ-08, FR-PNL-05): with   *)
(* the tentative projects taken out of the books, the totals, the bench, the  *)
(* over-commitments, the shortfall, the receivables and the dashboard are     *)
(* what they were.                                                            *)
WithoutPipeline(b) ==
  LET won == confirmed(b) IN
  [b EXCEPT !.projects = [p \in won |-> b.projects[p]],
            !.allocations = {a \in @ : a.project \in won},
            !.phases = {f \in @ : f.project \in won},
            !.milestones = {x \in @ : x.project \in won}]
ConfirmedRows(r) == <<r.projects, r.categories, r.total_revenue, r.total_cost, r.unrated>>
SummaryRows(s) ==
  <<s.this_month, s.spillover, s.unrated, s.no_timeline, s.unattributed, s.overdue, s.unallocated, s.ending>>
ConfirmedFigures(b, months, span) ==
  [totals |-> [m \in months |-> ConfirmedRows(MonthOf(b, m, span))],
   bench |-> bench(b, span), over |-> runs(b, span, FALSE),
   shortfall |-> [m \in months |-> hiring(b, m).shortfall],
   weeks |-> [w \in weeks(span) |-> Week(b, w).confirmed_hours],
   planned |-> [m \in months |-> category_totals(b, m).planned],
   owed |-> invoice_totals(b), dashboard |-> SummaryRows(summary(b))]
PipelineApart ==
  /\ \E p \in DOMAIN book.projects : is_tentative(book, p)
  /\ \A e \in on_projects(book) : ~is_tentative(book, e.project)
  =>
  ConfirmedFigures(book, Months, AllSpan) = ConfirmedFigures(WithoutPipeline(book), Months, AllSpan)

(* A month's cell of a project is the same whichever range it is viewed in    *)
(* (domain/pnl.py holiday_span: otherwise the same month's revenue changes    *)
(* with the range a person happens to view).                                  *)
SameWhateverRange(months, span) ==
  \A m \in months : \A p \in reported(book) :
    project_cell(book, p, m, month_bounds(m)) = project_cell(book, p, m, span)

(* The three together: one set of books, one answer to one question.        *)
FiguresAgreeOver(months, span) ==
  HoursAddUp(months, span) /\ ReportAddsUp(months, span) /\ SameWhateverRange(months, span)
FiguresAgree == FiguresAgreeOver(Months, AllSpan)

(* A day's cost changes where its period is taken away or a request has asked. *)
PricedAsAsked ==
  \A u \in People(book), d \in AllSpan :
    daily(book, u, d) # daily(book, u, d)' =>
      \/ \E c \in book.periods \ book.periods' : /\ c.user = u /\ d \in paid_days(c, AllSpan)
                                                /\ \A e \in book.periods' : e.id # c.id
      \/ \E r \in CtcRequests : /\ request[r].step \in {"closing", "refused", "over"}
                                /\ request[r].new.user = u /\ request[r].new.from <= d

(* A new CTC prices the days from its start on and none before it (FR-CTC-02, *)
(* FR-CTC-03), whatever requests overlap, are refused, are cut off or reopen  *)
(* a period; only taking a period away changes what was.                      *)
PastFiguresStand == [][PricedAsAsked]_bookVars
=============================================================================
