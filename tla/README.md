# Formal model of the portal

This directory holds TLA+ specifications of the portal in `src/`, the TLC
configurations that check them on small instances, and TLAPS proofs about them.
The leave calendar (leave booking, comp-off, holidays, balances, the nightly
tasks) is modelled completely, twice: once with every operation as one step, and
once one database call at a time. Timesheets and week sign-off, the shared tasks
table and its links, voice notes, CRM deals with the projects that follow them,
the two imports into the CRM, its Review Queue and the e-mail sync are modelled
one database call, or one transaction, at a time. The hours and money the reports
show are modelled as figures over the books they are read from.

## 1. The system

The repository is one FastAPI backend, Celery workers, a Supabase (PostgREST over
PostgreSQL) database and a Next.js frontend. Four applications share them.

The fact that shapes everything: the portal's services (specs 001-006) have **no
transactions**. Each `db.*` call in `services/supabase.py` is one HTTP round trip
to PostgREST and commits by itself. Handlers run on several threads and
processes, so two requests interleave at every round trip; an exception between
two calls undoes nothing. The CRM and Tasks applications (specs 007-010) read and
decide in Python and put their writes in SQL functions (`task_apply`,
`crm_apply`, `crm_deal_transition`, ...), which are transactions: what matters
there is how much of what was read the function tests again.

### Components

| Component | State it keeps | Operations | What makes it hard | What makes it correct |
|---|---|---|---|---|
| Leave booking (`services/bookings.py`) | rows of `bookings`: person, day, category, duration, status, who decided, backfilled or not | book or replace, withdraw, decide, flag an absence, backfill, undo, convert an absence, release for a holiday | check-then-write over several round trips; seven operations end or revive a row | one booking a day, legal transitions, the lock, decided by the right person |
| Leave rules (`domain/rules.py`, `domain/approval.py`) | none | pure checks | boundaries of the day and the lock | as the specification says |
| Balance ledger (`domain/ledger.py`, `services/balances.py`) | none: derived from `allowances` and `bookings` | balance of a month, carry-forward (rolling, pooling, none) | a month depends on all earlier ones | no request overdraws its own month, and a later one only out of order |
| Comp-off (`services/compoff.py`, `domain/compoff.py`) | rows of `compoff_credits`: worked day, size, status, expiry, the booking it is spent on | claim, decide, consume, release, lapse | two tables kept in step without a transaction; half and whole credits; expiry under a booking | a comp-off day is paid for, a credit is spent once and comes back |
| Holidays (`api/admin.py`, `domain/holidays.py`) | rows of `holidays`: date and location | declare, declare in bulk, edit, remove | releases other people's bookings, per location | no leave charged on a day off |
| Nightly tasks (`tasks/lock_sweep.py`, `tasks/ops.py`, `worker.py`) | none | approve what is pending at the lock, lapse credits, confirm weeks | race with requests, may miss a night | every request is answered, no week is forgotten |
| Allowance administration (`api/admin.py`) | rows of `allowances` | set, remove | changes the ground under accepted bookings | closed months undisturbed |
| Timesheets (`services/timesheets.py`) | `time_entries` | save a day | line-by-line writes; archived and tentative projects; the edit window | a save leaves what was submitted, nothing lands on a closed week |
| Week sign-off (`services/confirmations.py`) | `timesheet_confirmations` | confirm, reopen, confirm automatically | nightly task against leads | every expected week is signed off in the end |
| Projects, phases, allocations (`api/admin.py`) | `projects`, `allocations` | edit, archive, allocate | timesheets, deals and the Projects page write the same rows | what timesheets and deals rely on |
| Tasks (`domain/tasks`, `services/tasks`, migrations 046-057) | one `tasks` table shared with the CRM, delegation, recurrence, `task_links` | create, edit, complete and recur, accept, hand back, link, Trash, restore | the change is decided on a row read earlier; the check of links at commit | one successor per occurrence, taken up by its assignee only, a CRM task keeps a link |
| Voice notes (`services/tasks/voice.py`) | `voice_uploads`, the storage bucket | upload, transcribe, confirm or drop a candidate, sweep | no transaction; worker killed anywhere; two people confirm at once | saved once, given back if refused, erased in the end |
| CRM records and deals (`services/crm/records.py`, `deals.py`, `merge.py`, `tva.py`, migrations 027-065) | companies, people, deals, links to TVA projects | create, edit, move a deal, hand off, Trash, restore, purge, merge | a plan worked out in Python on rows that move meanwhile | company, tasks and project follow the deal |
| CRM email sync (`email_sync.py`) | mailbox cursors, messages, a Redis lock, a queue of pages, job runs | tick, run now, page, reconcile | a lock that lapses, a killed page, a cursor stored late, a history that expires | the labelled messages are stored, one run at a time, nothing left running |
| CRM jobs and messages (`jobs.py`, `notifications.py`, `digests.py`, `flags.py`) | job runs, notifications, flags | ticks, digests, reminders | ticks that overlap or stop half way | each message once |
| CRM imports (`importer.py`, `csv_io.py`, `records.py`) | import runs; otherwise the CRM's tables | dry run, apply, write in chunks | a plan over a whole file, written chunk by chunk beside people who edit and merge | a second run finds nothing to do, each row is written once and as planned |
| CRM intelligence (`ai.py`, `review.py`, `capture.py`, ...) | review items, budget, candidates | suggest, refresh, approve, dismiss, expire, claim | an approval is a claim, a change and a release, each its own transaction | carried out once, as it was shown, decided once |
| Cost periods, projects, milestones and the figures over them (`services/pnl.py`, `financials.py`, `utilisation.py`, `analytics.py`, ...) | `ctc_periods` and the rows the figures are read from | add or end a CTC period; every report | a period is ended and another begun in two calls; the same number is worked out in several places | past costs stand, the reports agree |
| Reviews; checklists | single rows | edits | little | field rules |
| Accounts and tokens (`api/deps.py`, `services/oauth.py`) | profiles, tokens | sign-in, token exchange | mostly external libraries | - |
| Dashboards, analytics, feeds, MCP server, frontend | none of their own | reads, or the services above | - | - |

How they interact. The booking service calls the ledger (to test a balance), the
holidays (to refuse a day off) and comp-off (to spend and return credits); the
holiday endpoints call `release_for_holiday` of the booking service; the sweep
and the lapse write the same tables from the worker. Timesheets read the
projects that the Projects page archives and that deals make tentative, archive
and revive. Deals write companies, projects and tasks in one transaction; tasks
created in the CRM carry links to its records, which merges and purges move and
delete. A page of the e-mail sync is a task on a queue with one worker, started
by a tick or an admin who holds the lock in Redis.

`PROJECT.json` lists every component with its status, and under `hazards` the
places of the code that are hard to test, each with the properties that cover it.

## 2. The plan

Done, in this order: the leave rules and tables (`LeaveRules`, `Ledger`,
`LeaveStore`), the leave calendar in one step an operation (`LeaveCalendar`) and
one call a step (`LeaveRequests`, with the refinement `LeaveSerial`); timesheets
and sign-off (`Timesheets`); tasks (`Tasks`, `TaskLinks`, `VoiceNotes`); deals
(`Deals`); the e-mail sync (`MailboxSync`, `EmailRuns`); the Review Queue
(`ReviewQueue`); the imports (`Importer`, `CsvImport`); hours and money (`Ratios`,
`Hours`, `Profit`, `Books`). Theorems about eleven of them, see section 5.

Next, for the model:

1. `Allowances`: setting and removing grants under standing bookings; the ledger
   against a reference definition (a running balance month by month).
2. `JobRuns` and `Messages`: ticks and once-only digests and notices.
3. CRM capture: claims, judging, budget reservation.
4. Allocation of CRM fields on merge; undoing an import.

## 3. The modules

| Module | Models |
|---|---|
| `LeaveRules` | `domain/rules.py`, `domain/approval.py`, `domain/compoff.py`: operators only |
| `Ledger` | `domain/ledger.py`: resolution of allowances, consumption, carry-forward |
| `LeaveStore` | the leave tables, what the services read from them, single writes |
| `LeaveCalendar` | the leave services, one step an operation; properties |
| `LeaveReplacement` | compares changing a booking with withdrawing and rebooking, through an instance of `LeaveCalendar` over the tables as they would stand |
| `LeaveRequests` | the leave services, one database call a step |
| `LeaveSerial` | the refinement of `LeaveCalendar` by `LeaveRequests` |
| `Timesheets` | `save_day`, week sign-off, the nightly confirmation, projects being archived or made tentative; one database call a step |
| `Tasks` | the handlers of `domain/tasks/service.py` with visibility, delegation and recurrence, each split into its read and its `task_apply` |
| `TaskLinks` | the transactions that change links and tasks, statement by statement, under PostgreSQL's row locks at READ COMMITTED |
| `VoiceNotes` | one voice note: upload, worker, sweep, confirmations and drops |
| `Deals` | the pipeline's rules, the plans of `deals.py` and `records.py`, `crm_deal_transition`, the TVA projects, edits by hand |
| `MailboxSync` | the pages of one mailbox against Gmail |
| `EmailRuns` | who may sync when: ticks, the lock, job runs, page tasks |
| `Pipeline` | the stages of deals and companies, for `Deals`, `Importer` and `CsvImport` |
| `Importer` | an export of Twenty planned as a whole and written in chunks, beside other runs and people |
| `CsvImport` | a CSV's dry run and its real runs |
| `ReviewQueue` | the suggestions of one source, from being stored to being decided |
| `Ratios`, `Hours`, `Profit` | exact decimals; hours planned, available and logged; cost, revenue and profit: operators over one set of books |
| `Books` | the requests that change the books, CTC requests one call at a time; properties of the figures |
| `MCLeaveCalendar`, `MCLeaveRequests`, `MCLeaveSerial`, `MCTimesheets`, `MCTasks` | constants for TLC |
| `MCDeals` (`Deals`, `Importer`, `CsvImport`), `MCCrm` (`TaskLinks`, `ReviewQueue`), `MCBackground` (`VoiceNotes`, `MailboxSync`, `EmailRuns`, `Books`) | constants for TLC, and several machines in one run |
| `LeaveCalendarProofs`, `RequestsProofs`, `LeaveSerialProofs`, `TimesheetsProofs`, `TasksProofs` (`Tasks` and `TaskLinks`), `BackgroundProofs` (`VoiceNotes` and `Books`), `CrmProofs` (`Deals`, `ReviewQueue` and `CsvImport`), `EmailSyncProofs` (`EmailRuns` and `MailboxSync`) | theorems, section 5 |

The machines of one MC module share no variable. A variable `work` says which of
them is at work in a behaviour, and the others stay as they start, so the state
spaces add and do not multiply.

### The leave calendar

- `bookings`, `credits`, `holidays` are the tables; a row id is a small number
  and a row not yet inserted is `NoRow`. Rows are never deleted (nor does the
  code delete them), so ids are handed out in order. `backfilled` is
  `backfilled_by IS NOT NULL`.
- `today` is `today_in_company_tz()`. A day is a number; `Weekend` says which
  are weekends; a month has `DaysPerPeriod` days and a year `MonthsPerYear`
  months.
- Durations, credits and allowances are counted in **half days**, so the code's
  `Decimal("0.5")` arithmetic is exact here.
- A reason is present or not (a Boolean); notes, names, messages and timestamps
  are left out.
- Two rows a query could return in either order are a nondeterministic choice:
  `pick_credits` (equal expiry and equal worked day), the order of a release.
- A refused request changes nothing and is no step in `LeaveCalendar`. One
  refusal comes after a write: `consume` raises when the credits are short, and
  the booking row stays. That is part of the action, as in the code.

`LeaveRequests` gives each server (request thread or worker) a record of the
request it serves: what was asked, the date it read, the rows it found, and the
calls still to make, a list of lists: the calls of one inner list follow each
other whatever they find, and a call that raises drops the rest. Each handler is split exactly at its round trips
where the split can matter: the read of the day's booking, of the holidays, of
the balance or credits; then each write. `consume` and `release_for_booking`
read a list of credits and then update them one call at a time. The two unique
indexes refuse a write as PostgreSQL does, which raises in the handler. `stop`
ends a handler between any two calls (an error from the network, a restart, the
task time limit). Reads of settings, profiles and grants are not split off, for
nothing in the model changes them; the grants and the bookings a balance is
computed from are one read for the same reason.

`LeaveSerial` adds a history variable `seen`, the tables when last no request
was in flight, and maps `LeaveCalendar`'s variables to it.

### Timesheets

`entries` is `time_entries`, indexed as the unique index of migration 009 is: a
person, a day and a key, which is a project or an activity category.
`save_day` reads the projects, then the day's lines, tests both, then inserts or
updates each submitted line and deletes those that were not submitted; each is a
step, and the request remembers for each line whether it found a row (it holds
the row's id, so a row deleted meanwhile is `gone` and its update fails).
`auto_confirm_closed` reads week by week who is missing and upserts one by one.
`update_project` is one write unless it makes a project tentative, which first
looks for time logged on it.

### Tasks and their links

In `Tasks` a request reads a task, decides the change and keeps it (`Writes`);
`task_apply` carries it out later, with exactly what the SQL function tests
again: the task exists, the caller may still write it (and, of a next occurrence
that is inserted, that one), the row is as expected if the caller said so, the
unique index over the live rows of a series. Recurrence
is a daily rule: every other rule differs only in the next date.

`TaskLinks` goes below that. A transaction is a list of statements and the
checks deferred to its commit; each takes its row locks, waits for those of
others, and sees what is committed. `tasks_workspace_check` is the constraint
trigger of migration 057, which takes `FOR NO KEY UPDATE` on a task whose link
went. Row locks, snapshots and the deadlock detector are PostgreSQL's and
external. Links are added and removed by people (with or without the acceptance
of a New task, which comes first), by merges, purges, Trash and restore.

### Voice notes

The row, the recording in the bucket, the worker, the sweep and the requests each
have a program counter. `saved` counts what was written for a candidate.
`voice_candidate_mark` and `voice_upload_finish` are single statements
(migration 054).

### Deals

A request is a plan: what `_plan`, `create`, `update`, `_lead_stage_follows_deals`
or the Trash worked out from what they read. `crm_deal_transition` and
`crm_apply` compare `updated_at` only of rows the plan says it saw: `compares`
and `stale` stand for that. A project's allocations are one value (`none`,
`live`, `released`). `drifted` is a history variable: the projects that a write
that is not tested again has moved away from their deal. A save of the Projects
page carries one column; one that the deal controls may be sent back as it was
read, passes the test, and is written all the same (`Sendable`, `update_project`).

### The imports

`Importer` plans a whole export against the workspace as read (`plan`: companies,
people, campaigns, deals, members, tasks, each row made or changed or left) and
then writes it object by object; a chunk is one row. Records are found by their
Twenty id, companies also by their domain, people by their e-mail. Between two
chunks another run may write, and people merge, edit, trash. `settled` is a
history variable: the last run wrote its whole plan and nothing else was written
since that plan was made.

`CsvImport` is one file of companies or of deals: a dry run, and calls of
`csv_apply` that read the run's status, plan again, write and record. What a call
has yet to write is a set of planned rows, taken in the order of their numbers
(`first`, `before`). A chunk that is refused is written row by row; a call may die
anywhere. `made` counts, as history, the records each run made of each row.

### The Review Queue

One source's suggestions. `store`, `refresh` and the decisions are the SQL
functions of migrations 061 and 068; an approval is a record in `approvals` with
the step it is at. A mishap is a killed process, an answer that was lost, or the
call that keeps a company on its item and fails (`new_lead_keep`).

### Hours and money

A book is what the services read in one request: people, CTC periods, projects,
phases, allocations, milestones, entries, holidays, leave. `Hours` and `Profit`
define each figure the reports show as an operator over a book, with exact
fractions (`Ratios`), and `Unknown` where the code reports `None`. `Books` changes
a book: a CTC request runs one call at a time (read the periods, end the one that
runs, insert the new one), everything else is a read and a write.

### The e-mail sync

`MailboxSync` is one mailbox: Gmail's labels and history, the cursor, the
messages stored, and one page task, every call a step. `EmailRuns` is what
starts pages: the lock with its token, the plan, the run of each workspace. A call
of Redis or of the broker that fails may have been carried out: the lock may be
set (`unowned`), and the page may be queued (`adrift`). The
two are separate because a page only needs to know its mailbox, and the queue
`crm_sync` has a single worker with a single slot.

## 4. What is checked

| Run | Shows | Bounds |
|---|---|---|
| `LeaveCore` | every operation together: well-formed tables, credits follow bookings, nothing charged on a day off, decided by the right person, legal transitions; every credit is spent or lapsed | 3 days of which one a weekend, 2 bookings, 1 credit, casual and comp-off, 2 offices, a holiday date; a lead and an admin who report to each other |
| `CompoffLapses` | comp-off is paid in full or not at all, while credits expire under the bookings | 4 days, 2 credits of either size valid for 1 day, 2 bookings |
| `Allowance` | a month is overdrawn only by an admin, or by spending in an earlier month what a later one had drawn on; a change is judged as a rebooking | 2 months of 2 days, half a day granted each month, casual leave carried forward and sick leave not (the default), 2 bookings, holidays declared and moved on 2 days |
| `RequestsSerial` | a handler's calls, together, are the one step of `LeaveCalendar` | 1 thread, all operations, cut short only by refusals and raised errors |
| `RequestsCutShort` | a handler that stops between any two calls frees no credit whose booking still stands, and touches no past leave | 1 thread, all operations, `stop` anywhere, holidays on 2 days |
| `RequestsOverlap` | overlapping and cut-short requests keep one booking a day, settle an absence once, pass the lock by one day at most, and leave no request unanswered | 2 threads and the worker, 2 in flight, 3 days, midnight inside requests, `stop` anywhere |
| `DecisionOverwritten` | a violation, see below | 2 threads |
| `Timesheets` | no expected week leaves the nightly task's reach unsigned; a save that gets through leaves its lines; a closed week stands and a save never empties a day on the way (`RecordsStand`) | one person, weeks of two days, a project and an activity, two savers, 2 requests in flight, one night missed in a row |
| `Tasks` | one successor per occurrence; taken up by its assignee only | three people of three CRM roles, two requests in flight, 5 writes: enough to close, reopen, move and close an occurrence again beside another closing |
| `Deals` | company, tasks and project follow the deal; an export imported again finds nothing to do; a CSV's rows are made once and as planned | two deals, two companies, two projects, two requests in flight, 3 commits; exports of 2 companies, 2 people, 2 deals run twice with one change by hand; CSVs of 2 to 3 rows in chunks of 2 with two dry runs and two calls |
| `Crm` | a CRM task keeps a link, only known deadlocks; an approved suggestion is carried out once, as shown, and stays decided | two sessions, two tasks, three companies of which one is due for purge; two approvals, two versions of a source, two items, one mishap |
| `Background` | a voice note, a mailbox, the sync runs, the books: see the properties | 2 candidates, 2 requests; 2 messages, 2 labels, 2 changes in Gmail, one new label list; 2 workspaces of at most 2 mailboxes and 1, 3 starts; 1 killed process or failed call each; 2 people, 2 projects, 2 CTC requests, 2 other changes in two months of six days |

Two bookings and two credits are enough for the interesting cases: a booking
and its replacement, two bookings on one balance, a whole and a half credit, one
credit between two bookings. Three or four days give a past, a present and a
future day and a month boundary, and let a credit expire under a booking. Two
requests in flight give every race between two handlers; a worker makes a third
party. Two deals of a company give "the last open one"; two tasks and three
companies give a merge that meets an unlink on one task and another merge on two.
Two messages and two labels give a message that keeps one of its labels, a page
that is not the last, and a new label list under a page.

Names of bounds in the specifications: `MaxDay`, `MaxBookings`, `MaxCredits`,
`MaxFutureDays` (a setting of the code), `MaxInFlight`, `RoomToBook` (a request
that inserts starts only if a row is left), `HolidaysFree` (one admin works on
the holiday calendar at a time), one claim in flight at a time, and in `clock`
that a request is over before a second midnight; `MaxOutage`, `LogDays`,
`SignWeeks`, `Submissions`, `ProjectChanges` (`Timesheets`); `MaxTask`, `MaxDue`,
`MaxCreated`, `MaxWrites`, `Patches`, `Creations` (`Tasks`); `Targets`, `OnLoss`,
`HandStages`, `Edits`, `Stamping`, `MaxWrites` (`Deals`); `Runs`, `MaxPlans`,
`MaxHand`, `HandChanges` (`Importer`); `Calls`, `MaxDryRuns`, `MaxCalls`, `Chunk`,
`MaxMeanwhile` (`CsvImport`); `Approvals`, `MaxVersion`, `MaxItems`, `MaxMishaps`
(`ReviewQueue`); `MaxFaults` (`VoiceNotes`); `MaxEvents`, `MaxRelabels`,
`MaxDeaths` (`MailboxSync`); `MaxStarts`, `MaxErrors` (`EmailRuns`);
`CtcRequests`, `LastDay`, `MaxChanges`, `CtcStarts`, `CtcEnds`, `Raises`
(`Books`, with `WeekLen`, `MonthLen`, `Threshold`, `Target`, `PortalStart` and
`TermsDays`, settings of the code and of the calendar).

Runs that say `CHECK_DEADLOCK FALSE` do so because the bounded system may really
end: on the last day with no row left, or with every bound used up, there may be
nothing to do. Where an admin can always declare or remove a holiday
(`LeaveCore`, `Allowance`), and in `Timesheets`, whose clock only ends with the
last night's work, deadlock is checked.

`LeaveReplacement!ReplaceAsRebook` is about the test a change of booking must
pass; it is checked on reachable tables with the code's own `AcceptsBooking`. It
speaks of every category but comp-off, whose give-back is another matter (below).

### The properties' exceptions

Some properties name an exception, and each is something the code really does:

- `ProjectFollowsDeal` leaves out `drifted` projects: written by a probability
  edit that found no tentative project, by a move whose effect was worked out on
  another state, by a Projects-page save that by then would be refused (a column
  the deal controls, to another value than it has: linked since, or moved by the
  deal since it was read and sent back), by an allocation to a project archived
  since, by a deal put in the Trash that was linked meanwhile.
- `SpentInOrderFits` leaves out months with a day an admin recorded, and a booking
  in an earlier month made after one that drew on what that month had left over.
- `LastCloseMovesCompany` leaves out `Overtaken` closings: a plan that changes no
  company compares none.
- `OneSuccessor` leaves out `contested` occurrences: the index on a series' dates
  tells two closings apart only while nobody moves a date, or throws the
  successor away, under a closing in flight, and only if a second closing does
  not move the date itself without naming the version it saw.
- `SavedOnceOrGivenBack`: its first half (`SavedOnce`) allows one more save for
  each save that wrote and then ended in an error; its second (`GivenBack`)
  leaves out candidates whose request was killed.
- `Mirrored` leaves out `overlooked` readings (below). `OneSyncShown`: syncs whose
  lock ran out, and syncs with a page queued by a call that failed (`adrift`), are
  left out of `SingleFlight`; killed processes, starts broken off by an error, and
  locks set by a call that failed (`unowned`), of `NothingLeftBehind`.
- `SavedAsSubmitted` and the second half of `RecordsStand` (`DayNeverEmptied`)
  speak of saves with no other save of that day beside them.
- `ApprovedIsMadeOnce` leaves out items an approval of which was killed (`cut_off`)
  and items that may have a company they do not know of (`unheard`): an approval was
  killed, the company was made, or was to be kept, by a call that failed or was not
  answered, or it was kept after another approval had loaded the item; `DecidedStaysDecided` leaves out what
  is decided while the job is between its look and its store.
- `ImportSettles` leaves out campaign rows that repeat an id, e-mails freed by the
  run itself, merged companies and companies the run does not touch;
  `CsvSettles`, rows of overlapping calls and rows that may fail at their write.
- `FiguresAgree` leaves out, of a project's revenue shared among its people, the
  share of a deactivated person with unpaid days; `PastFiguresStand`, the removal
  of a period, and racing CTC requests in the step that does it.

### Disagreements between the code and its documents

The run `DecisionOverwritten` expects a violation: `decide`, `withdraw`,
`release_for_holiday` and the sweep test a status they read and then write
without a condition, so with two requests in flight a decision written late
revives a finished booking. It checks a sentence of `domain/rules.py`, quoted
under `findings` in `PROJECT.json`.

### What the code does not promise

These were found with the models (or read while modelling) and are kept as no run
of their own; each is reachable in the module named.

Leave (`LeaveCalendar`, `LeaveRequests`):

- Replacing a comp-off booking after its credit has expired passes the test (the
  old duration is counted, `bookings.py:97`) and then fails to consume, after the
  row was inserted: a pending comp-off booking with no credit. Likewise a half
  day holding a whole credit cannot become a full day, though withdrawing and
  booking again can.
- `edit_holiday` calls the release without the holiday's location
  (`admin.py:647`), so moving one office's holiday releases everybody's leave on
  the new date.
- Two bookings in flight pass the same balance test; a booking in flight while a
  holiday is declared stays charged; two bookings in flight can take one credit,
  and two deciders can both decide a claim, all for the same reason.
- With carry-forward (casual leave, by default), a booking is tested against the
  balance of its own month only: one in an earlier month, made after a later month
  drew on what was left over, takes the later month below zero, which FR-BOOK-05
  forbids (`bookings.py:127`). `Allowance` reaches it and `SpentInOrderFits` names
  it as its exception.
- `backfill` lets an admin record their own approved leave, which
  `DecidedByApprover` excepts.

Timesheets:

- A save cut short between writing the new lines and deleting the old ones leaves
  a day over the daily maximum (FR-TIME-05), until it is saved again.
- Two overlapping saves of a day can leave a mixture of both, over the maximum,
  or nothing.
- The nightly confirmation upserts without a condition: it overwrites a lead's
  confirmation made since it read who was missing (`confirmations.py:144`, beside
  `:121-122`).
- A project made tentative, or archived, between a save's check and its insert
  receives time (FR-PROJ-08, FR-PROJ-04).
- `NoWeekForgotten` rests on `GraceAssumption`: with an edit window of 35 days or
  more a week closes outside the five weeks the nightly task looks at.

Tasks:

- On a CRM task (any member may write it) a stale acceptance marks a later
  assignee's task as taken up; `TakenUpByAssignee` is about personal tasks.
- Two closings of one occurrence with its date moved between them insert two
  successors, and so does one that closes a reopened occurrence anew and moves its
  date without `expect_updated_at`; completing a task that was deleted in between inserts a live one;
  a completion read before the recurrence was removed continues the series.

Task links:

- An acceptance with an unlink, beside a plain unlink or a merge, deadlocks: the
  one has the task and wants the link, the other the reverse. So do a purged task
  beside a merge, and two that go through many tasks (merges, purged companies)
  at two different ones. PostgreSQL ends one of them, and the request fails.
- `crm_purge` deletes the tasks left without a link by one statement; a task to
  which another transaction just committed a link can go with them.

Deals:

- A save of the Projects page that sends a controlled column back unchanged
  (`admin.py:1086`) writes it again (`:1106`): if the deal moved in between, the
  project is put back where it was.
- A deal can come to stand on a company that takes none (FR-CRM-PIPE-04):
  `create` reads the company at Deal open and sends no update of it, so nothing is
  compared; the company's last open deal may be lost in between. Restoring a deal
  from the Trash and an admin's reopening of a won deal do not look at the
  company either.
- `link_project` between the plan of a loss and its transaction leaves a live
  project on a lost deal (FR-CRM-TVA-12).

The import of a Twenty export (`Importer`):

- Campaign rows with a repeated id are all written (`importer.py`'s `campaigns`
  lacks the guard `_companies` has): a second run writes again, which contradicts
  "a second run finds every row unchanged".
- An e-mail that the run itself frees makes the next run write again.
- The deals of a company that was merged away land on the survivor but are filed
  under the merged Twenty id, so the survivor's lead stage is derived without
  them; a company whose account type is blank in the file but partner in the CRM
  is derived without it; deals in the Trash that the file names count; new deals
  and people may land on a trashed company.
- Of repeated company rows the first that bears the id gives the values, even if
  it has no name.
- Of two real runs at once the later upsert wins; nothing tests the run's status.

The import of a CSV (`CsvImport`):

- The dry run's status is read before the writes and recorded after them, so two
  overlapping calls, or a call again after one that died, import its rows twice.
- A row whose domain the matched company lists as an additional one passes the dry
  run and is refused when it is written; a deal that moves to another company is
  checked only then; the companies a chunk moves are read once, at its start.

The Review Queue: a refused suggestion that a newer one has overtaken stays
refused ("reopens or expires", migration 068), a lead may be given a second company
when the first one's answer was lost (`review.py:786-796`) or when keeping it on
the item fails (`review.py:942`, after which `approve` opens the item without it,
`:1053-1058`), and a suggestion
decided between `crm_review_upsert`'s look and its insert is made again (migration
061: "not re-created").

Hours and money (`Books`): the revenue share of a deactivated person without paid
days in the range is lost from the company's total (`specs/005-ctc-timeline/spec.md:94`
says otherwise); a bounded CTC period over an open one leaves the days after it
without cost; two `add_ctc` at once can leave a gap or lengthen a closed period;
two updates of a milestone at once can leave it paid before it was invoiced; the
demand behind hiring takes no leave off while the forecast does; planned hours by
category use the person's holidays while the forecast takes every location's;
`update_allocation` reads `released_at` before it writes.

Voice notes: when another request's finish, or the sweep, comes between a claim
and its refusal, the candidate cannot be given back; a save that wrote and then
raised is given back and can be saved again; a killed request takes its candidate
with it.

The e-mail sync: (1) labels changed while a page of a backfill is in flight: the
page's progress overwrites the reset; (2) labels changed before a first reading
was complete: what was stored for the old labels is never reconciled; (3) the
first page of the first backfill, killed after storing and before its cursor: what
changes in Gmail until the next page begins is not read; (4) a page killed between `store_emails` and
`_touch_records`: the stored messages are passed over the next time, and the
contact's last e-mail and its move from New to Contacted are not made up for
(`email_sync.py:1098-1106`; read, not modelled). An error in `_start` after a run
was started, and a killed page, leave the run shown as running. A publish waits a second for
its answer and is not repeated (`worker.py:47-55`): if the broker took the page and
the answer is lost, the plan's runs are recorded as failed and the lock is released
(`email_sync.py:247-253`, `:394-406`) while the page is queued, and a second sync
starts beside it (FR-CRM-SYNC-04). If the answer of `SET NX` is lost, the lock is
nobody's and every tick is skipped until it lapses after 900 seconds
(`email_sync.py:271-277`, `:310`). `release_lock`
and `extend_lock` read and then act (one step each in `EmailRuns`); once a lock has
lapsed two plans may interleave, which one worker makes harmless.

### Fairness

`LeaveCalendar!Fairness` is weak fairness of the days passing and of the two
nightly tasks. Celery beat runs each every night (`worker.py`), each treats
everything outstanding (`date < today`, `expires_on < today`), so a missed night
is made up by the next. No fairness is assumed of people: they may never book,
decide or withdraw.

`LeaveRequests!ServerFairness`: the clock goes on; a server that has a call to
make again and again makes one (strong fairness of its next call, for `stop` may
cut a handler short at any time, and one that is cut short for ever before its
first call would finish nothing); and the sweep is strongly fair, because the
worker may be busy each time its turn comes and the beat comes back every night.

`VoiceFairness`: an upload comes to an end, time passes, and the beat starts the
sweep every half hour. Nothing is assumed of the worker, which may be killed for
good, nor of requests. `MailboxFairness`: a tick starts a page every quarter of an
hour and a page that is not the last enqueues the next; `CatchesUp` supposes
that Gmail is left alone in the end, which `MaxEvents` brings about.

`NoWeekForgotten` is a safety property in place of a liveness one: instead of
fairness it bounds how many nights in a row the task may be out (`MaxOutage`).

## 5. What is proved

Each theorem holds for every choice of the constants that satisfies the named
assumptions of the modules it is about; TLC evaluates those assumptions in every
run. Each inductive invariant named below was first checked by TLC as an
invariant of the component's run. The temporal theorem is then three facts: the
initial states satisfy it, every action keeps it (one lemma an action, or one for
all the actions that write alike), and it implies the property.

| Module | Theorem | States |
|---|---|---|
| `LeaveCalendarProofs` | `TypeCorrect` | `Spec => []TypeOK` |
| | `TransitionsLegal`, `LockHolds` | `Spec => LegalTransitions`, `Spec => LockedLeaveStands` |
| | `DecisionsAreApprovers`, `NoLeaveCharged`, `OneBooking` | `[]DecidedByApprover`, `[]NoLeaveOnDayOff`, `[]OneBookingPerDay` |
| | `CreditsFollow`, `PaidOrNot` | `[]CreditsFollowBookings`, `[]NeverHalfPaid` |
| `RequestsProofs` | `RequestsInvariant` | `ServerSpec => []RequestsInv` |
| | `OneBookingServed`, `AbsencesSettledOnce`, `LockHeldNextDay` | `[]OneBookingPerDay`, `AbsenceSettledOnce`, `LockHoldsNextDay` |
| | `CreditsReturnedOver` | `ServerSpec => CreditReturnedOnceOver`, where `MaxInFlight = 1` |
| `LeaveSerialProofs` | `OneRequestIsOneStep` | `SerialSpec => ServesAsOneStep` |
| `TimesheetsProofs` | `TimesheetInvariant` | `TimesheetSpec => []TimesheetInv` |
| | `SavesReplaceTheDay`, `WeeksSignedOff`, `RecordsAreKept` | `[]SavedAsSubmitted`, `[]NoWeekForgotten`, `RecordsStand` |
| `TasksProofs` | `LinksInvariant`, `TasksKeepTheirLink` | `LinksSpec => []LinksInv`, `[]CrmTaskKeepsLink` |
| | `WaitInvariant`, `DeadlocksAreKnown` | `LinksSpec => []WaitInv`, `[]OnlyKnownDeadlocks` |
| | `TasksInvariant` | `TaskSpec => []TasksInv` |
| | `NextMadeOnce`, `OnlyAssigneeTakesUp` | `[]OneSuccessor`, `[]TakenUpByAssignee` |
| `BackgroundProofs` | `VoiceInvariant` | `VoiceSpec => []VoiceInv` |
| | `CandidatesSavedOnce`, `RecordingsFound` | `[]SavedOnceOrGivenBack`, `[]AudioFound` |
| | `BooksInvariant`, `NewFiguresPriceTheirDays` | `BooksSpec(b) => []BooksInv`, `BooksSpec(b) => PastFiguresStand` |
| `CrmProofs` | `DealInvariant` | `DealSpec => []DealInv` |
| | `ProjectsFollow`, `LossTakesItsTasks`, `CompanyFollows`, `ArchivedByHandStays` | `[]ProjectFollowsDeal`, `LossClosesTasks`, `CompanyFollowsDeals`, `HandArchiveStands` |
| | `ReviewInvariant` | `ReviewSpec => []ReviewInv` |
| | `ApprovedOnce`, `WrittenAsShown`, `DecidedStays` | `[]ApprovedIsMadeOnce`, `ChangedAsShown`, `DecidedStaysDecided` |
| | `CsvInvariant`, `RowsMadeOnce` | `CsvSpec => []CsvInv`, `[]MadeOnce` |
| `EmailSyncProofs` | `RunsInvariant`, `SyncsApartAndShown` | `RunsSpec => []RunsInv`, `[]OneSyncShown` |
| | `MailboxInvariant`, `MailboxMirrored` | `MailboxSpec => []MailboxInv`, `[]Mirrored` |

**The leave calendar** (`BoundsAssumption`, `PeopleAssumption`,
`SettingsAssumption`, `NoRowAssumption`, `InputsAssumption`,
`MonthsPerYearAssumption`). Lemmas describe what each shared write does to a row
(`MoveAll`, `Converted`, `ReleaseCredits`, `ConsumeCredits`, a new row).
`EveryRow` then says, once for all operations, everything that can happen to a row
of `bookings` in a step (`RowChange`): it stays, it is inserted in one of three
ways, it is ended, approved, swept, or converted from an absence, each with the
guard the operation has tested. The action properties and the invariants about
single rows follow from `RowChange` without going through the operations again.
`DecidedByApprover` is not inductive: nothing in it says who "decided" a pending
row, and the sweep approves one while keeping that field; the strengthening is
`PendingUndecided`. `OneBookingPerDay` needs `NewRowAlone` (a row is inserted only
when no other holds its day after the step), `NoLeaveOnDayOff` needs `NewDayOff`
(a step that makes a day a holiday releases every charged row there).
`CreditsFollowBookings` and `NeverHalfPaid` relate two tables that no transaction
ties together. They are stated of any pair of tables (`Follow`, `AllPaid`) with
one lemma for each way of writing them: ending rows and handing their credits
back, moving rows on, entering a row and paying for it. The sums of
`NeverHalfPaid` need no induction: a booking's credits stay the same set with the
same days, or go all at once, so two sums are equal because the same function is
summed.

**The leave calendar call by call.** `RequestsInv` is the tables (`TablesOK`:
types, what is charged, one booking a day) and `AllInHand`: every request has at
most one midnight inside it, and what it has left to call is still allowed of the
rows as they are by then, whatever other requests wrote. The key is `Onward`: the
writes of other requests only take a row further (a row keeps its day, a backfilled
row stays one, an absence once given a category keeps one), so what was true of a
row when a call was decided on stays true. Every step satisfies `Kept`, which also
says what may be written to a row (`Writes`); the two action properties follow
from it. `OneBookingPerDay` holds here because of the unique index alone.

**Credits, and a handler cut short.** `CreditsReturnedOver` supposes one handler at
a time (`MaxInFlight = 1`), as `RequestsCutShort` does, and lets it be cut short
anywhere and run over midnight. The supposition is needed: with two, TLC finds a
claim approved and spent on a booking between another lead's reading it as pending
and that lead's rejection landing, and the rejection takes the credit from a
booking that stands. `TurnInv` adds to `RequestsInv` that the calls a handler has
left are `InTurn`. Either none of them hands a credit back (`NoneReturned`), or
they end bookings (`AllEnding`): what comes first in a list takes credits only from
a booking that is over, and what comes after, only from the booking the call before
it ends. While such a list is made, bookings only end and no credit becomes used
(`OnlyEnds`), so whatever is in turn stays in turn; and a cut leaves the part that
was made, which ended the booking first.

**The refinement.** `OneRequestIsOneStep` supposes what `MCLeaveSerial` sets:
`MaxInFlight = 1`, `ClockMayTurn = FALSE` and `MayStop = FALSE`. A refusal after
calls were made is not excluded: what they wrote must then be a step by itself, or
nothing. Under the mapping, `LeaveCalendar` moves when the last call of
a request is made and stutters before that; `seen` remembers the tables as the
request found them. `SerialInv` is `RequestsInv`, two facts of the tables that
only hold in this order (an unrecognised absence is charged to nothing, `Bare`;
a person's claims are of different days, `Apart`), that `seen` is what the tables
are while nobody is served, and of the request in flight that what it has `Left`
to do has an outcome `LeaveCalendar` makes of `seen`, or changes nothing. For a
list of calls (`KeepsIn`) that is said backwards: a first part that moves rows
and frees credits, so far as it has been made, and an ending (`Arrives`) whose
outcome is one operation's, whatever the first part still has to move. Each
handler is then shown to start on its way, each call to keep to it, and the last
one to leave what the operation of the same name makes. Balances and the
choice of the credits that pay need no induction here: both sides evaluate the
same definition over the same rows, which the lemmas say before it is hidden.

**Timesheets** (`GraceAssumption` and the bounds). `SavesInStep`: a save under way
accounts for each key of its day (found, written, to be deleted), and the account
fits the table as long as it is `alone`. `NightsKept` and `NightUnderWay` bound
which weeks may still be unsigned between and during nights, from which
`NoWeekForgotten` follows by the arithmetic of weeks; `Current` ties what a
request read to the clock.

**Tasks** (`RolesAssumption`, `TasksAssumption`: what a client may send).
`TasksInv` says of the rows that what recurs has a series and that an occurrence
whose successor was made knows it (`RowsStand`, `SuccessorsKnown`), and of each
request in flight what it decided on (`Sends`: who may be written as accepting,
the next occurrence it carries), what of its reading still fits the row
(`Fits`: the series it saw; a closing that named the version it saw is stale once
another closed the occurrence) and, unless the occurrence is contested, that the
index will tell its successor from one already made (`ToldApart`: every successor
made is live, in the series, one day after the occurrence as it stands).
`OneSuccessor` by itself says nothing of the request about to insert a second.
Attempting this proof corrected the model in two places: what the exception
`contested` must cover, and the right tested again on an inserted occurrence.

**Links** (`LinksAssumption`). The locks of two sessions never conflict
(`Exclusive`), and of each task in each open transaction: it is written only under
its row lock; if it lost a link it is gone, or still to be judged by the trigger,
or was judged to stand and is held since (`RemovalJudged`); likewise if it came
back from the Trash (`RevivalChecked`); checks come in the order of their
statements (`InOrder`). At READ COMMITTED the judgement alone proves nothing, for
another session may commit after it: the lock it is held under is what the proof
turns on.

**Deadlocks between link transactions.** `WaitInv` adds to `LinksInv` what the
statements to come can still reach for. A transaction is of one of four shapes
(`Shaped`): it keeps to one task and one link (`OneTask`), it still collects its
companies, the lesser id first (`Collects`), or it goes through the tasks of a
merge (`Merges`) or of a purged company (`Purges`), touching only links of
companies it holds. No two hold the same link or company (`Disjoint`), and a task
that is gone has no links left (`GoneBare`), which needs to be known of open
transactions too (`PutsWhereHeld`, `GoesBare`, `DropsLinks`). From that, two
sessions that wait for each other without either having taken the task's row
first can wait neither for a company, nor for a link, nor for a row to begin
with; both wait at a task to drop, to meet or to judge, at two different ones,
and both are merges or purged companies. The theorem is about pairs; longer
cycles are not looked for, nor does `deadlock_detected` end them.
An earlier form of `OnlyKnownDeadlocks` allowed pairs that *held* two tasks in
common instead of `ManyTasks`. It passed with two sessions and is false with
four: a purge of a company and a merge can wait for each other at two tasks while
one of them has so far touched only one of the two, because the other lost its
links to a third session in the meantime. The attempt to prove it showed that.

**Voice notes.** A candidate marked handled is held by exactly one request or was
finished (`OneOwner`, `HandledIsHeld`), a note with open words has its
transcription behind it (`OpenWithWords`, `NothingHeard`, `UploadFirst`), and
whoever may still read the recording keeps it from being erased
(`RecordingKnown`).

**CTC periods** (`CtcAssumption`: days are numbers, and a new figure starts after
day 0). `BooksInv` keeps the periods of a person apart, under ids of their own,
and says of every period that a request in flight is about to close or has closed
that it is that request's person's, starts before the new figure does, and, if it
has an end by now, was given it by a request for a figure that starts on the day
after (`EndSet`). A request re-reads nothing between closing the standing period
and inserting its own, and reopens what it closed when the insert is refused; the
exclusion constraint of the table, which refuses an insert or a reopening that
would overlap, is what the invariant leans on there. The theorem is stated for
any books `b` the machine may start from that are apart (`BookStands(b)`).

**Deals.** A plan in flight was made from rows, some of which the transaction
compares and some not. `PlansMade` is what every plan is by construction,
`PlansStand` what of its reading still holds unless a row it compares went stale;
`LinksApart` and `NeverLinked` say which projects a deal may reach. A Projects-page
save needs nothing of the kind: what it may write to a project that is not
`drifted` is the archive flag of a confirmed one. The proof also
covers `MCDeals`' start, which is an instance of `DealInit`.

**The Review Queue.** What an approval holds (`InHand`, `AsShown`), what it has
read and found (`ReadStands`, `FoundNone`), what the job has looked up
(`NotDecided`), and where the company a lead's approval has made is recorded
(`CompanyInHand`, `CompanyOnRow`), unless the item is `unheard`.

**The import of a CSV** (`CsvAssumption`: no call is `None`), for any file, any
number of calls and dry runs, any chunk and any writes by others. The claim is that
a dry run makes one record at most of each row, though the status that says so is
read when a call begins and written when it ends. `CsvInv` says what connects the
two: a run whose status is still "dry_run", that nobody is at work on and whose
calls all had their end recorded, has made nothing (`Untouched`); and while a call
is alone at work on its run, nobody has made any of the rows it has ahead of it
(`CallStands`), in a chunk that was refused or not yet in one, and these are rows
of different numbers (`RowsApart`). Nothing is needed of what the plan says, nor of
what the database takes. That the plan's rows are written as it says
(`WrittenAsPlanned`, the other half of `CsvSettles`) stays with TLC.

**The e-mail sync** (`MailboxAssumption`: a mailbox has a label, a list of labels
names each once, `schemas/crm.py:738,750`). `RunsInv`: a token has one carrier
(`OnePlace`, `FreshUnused`) unless a page of it is `adrift`, and one that has a
carrier holds the lock unless it lapsed or the page is `adrift` (`LockKept`); every
running job row has before it a process or a queued page that will end it
(`RunsBefore`, `TodoLeft`), said of each of the three places by itself
(`StarterHas`, `QueueHas`, `WorkerHas`), for a page that is adrift makes two. `MailboxInv` says that the cursor, the messages stored and the history
still to be read together account for what Gmail holds, wherever a page was cut
short: for every message and label list, either the message is stored as it should
be or a record still to be read, a page still to be listed or a lost history that
will force a new backfill will make it so (`RowStands`, `BackfillStands`,
`HistoryStands`); `HistoryTold` relates the records of Gmail's history to what
messages carry, the rest keeps the mailbox's row and the page in step.

**Only model-checked.** Liveness (`CreditsRunOut`, `EveryRequestAnswered`,
`CatchesUp`, and the half of `RecordingsErased` that says recordings are erased in
the end) is out of the prover's reach. `SpentInOrderFits` and
`ReplaceAsRebook` are about balances, which carry forward by recursion over the
months; `FiguresAgree` and `PipelineApart` about sums over sets in several orders,
whose equality needs induction over the set; `ImportSettles` and the second half of
`CsvSettles` (`WrittenAsPlanned`) about the whole of a plan, folded over the rows
of a file.

## 6. What is left out, and why

- CRM-only accounts, who may have no leave (`staff_subject_refusal`): a filter
  on people, with no state.
- Deactivated people and changes of role, lead or location: `Role`, `LeadOf`,
  `LocationOf` are constants of an instance; everyone is active.
- Grants and settings are constants of an instance (grants that change: planned).
- The bulk declaration of holidays, a sequence of single ones.
- Notifications and audit entries: nothing reads them back.
- Of a deal: money, contacts, required fields (given), roles (the actor may do
  everything); of a task: subtasks, waiting-on, categories, title.
- Of the e-mail sync: who a message creates or touches, the mailbox's other
  capture sources, deal documents, the rescan of invites, threads. Of the Review
  Queue: the language model, which only decides what is suggested.
- Of the imports: what a row says beyond the fields the plan depends on; the
  import's undo. Of the money figures: rounding, currencies, query strings.
- Everything listed as `not_modelled` in `PROJECT.json`.
