----------------------------- MODULE LeaveRequests -----------------------------
(***************************************************************************)
(* The leave calendar as it runs: several request threads of the API and   *)
(* the Celery worker serve requests side by side, every handler makes its  *)
(* database calls one round trip at a time, and there is no transaction    *)
(* around them.  A handler first reads and checks; what it then has to     *)
(* write is a list of calls, made in order.  A call that raises ends the   *)
(* handler and undoes nothing.                                             *)
(*                                                                         *)
(* The tables, the rules and the checks are those of LeaveCalendar, where  *)
(* each handler is a single step.                                          *)
(***************************************************************************)
EXTENDS LeaveCalendar, SequencesExt

CONSTANTS
  Threads,          \* the request threads
  Worker,           \* the Celery worker, which runs the nightly tasks
  Operations,       \* the operations a run is about
  MaxInFlight,      \* bound on the handlers running at one time
  MayStop,          \* whether a handler may be cut short between two calls
  ClockMayTurn      \* whether midnight may fall inside a request

Servers == Threads \cup {Worker}

ASSUME ServersAssumption ==
  /\ Worker \notin Threads
  /\ MaxInFlight \in Nat \ {0}
  /\ MayStop \in BOOLEAN /\ ClockMayTurn \in BOOLEAN

VARIABLE request    \* [Servers -> the request each is serving, or NoRequest]

serverVars == <<today, bookings, credits, holidays, request>>
tables == <<bookings, credits, holidays>>

-----------------------------------------------------------------------------
(* Requests *)

NoRequest == [op |-> "none"]

InFlight == {p \in Servers : request[p] # NoRequest}

Serving(p, op, step) ==
  p \in InFlight /\ request[p].op = op /\ request[p].step = step

(* What was asked, with the company's date and the ids of the rows found on *)
(* the day, both as the handler first saw them; and the calls still to      *)
(* make, a list of calls for every row, one row after the other.            *)
Asked(op, actor, u, d, category, duration, reason, old) ==
  [op |-> op, actor |-> actor, user |-> u, day |-> d, category |-> category,
   duration |-> duration, reason |-> reason, on |-> today, old |-> old,
   step |-> "asked", calls |-> <<>>]

About(op, actor, b) ==
  Asked(op, actor, bookings[b].user, bookings[b].day, bookings[b].category,
        bookings[b].duration, TRUE, {b})

(* Bound: a request that inserts a booking starts only if a row is left.    *)
Inserting == {p \in InFlight :
                request[p].op \in {"create_or_replace", "flag", "backfill"}}
RoomToBook == Cardinality(Booked) + Cardinality(Inserting) < MaxBookings

(* Bound: one admin works on the holiday calendar at a time.                *)
HolidaysFree == \A p \in InFlight : request[p].op # "holiday"

Accept(p, r, step) ==
  /\ r.op \in Operations
  /\ request[p] = NoRequest
  /\ Cardinality(InFlight) < MaxInFlight
  /\ request' = [request EXCEPT ![p] = [r EXCEPT !.step = step]]
  /\ UNCHANGED <<today, tables>>

AcceptEach(p, r, calls) == Accept(p, [r EXCEPT !.calls = calls], "calls")
AcceptCalls(p, r, calls) == AcceptEach(p, r, <<calls>>)

GoOn(p, r) == request' = [request EXCEPT ![p] = r]

Refuse(p) == GoOn(p, NoRequest)
Check(p, step) == GoOn(p, [request[p] EXCEPT !.step = step])

(* Go on with the calls that are left, or be done.                          *)
Then(p, calls) ==
  IF calls = <<>> THEN Refuse(p)
  ELSE GoOn(p, [request[p] EXCEPT !.step = "calls", !.calls = calls])

-----------------------------------------------------------------------------
(* Calls *)

Update(b, changes) == [call |-> "update_booking", id |-> b, set |-> changes]
UpdateIf(b, changes) ==
  [call |-> "update_booking_if_unrecognised", id |-> b, set |-> changes]
Insert(row) == [call |-> "insert_booking", row |-> row]
ReleaseFor(b) == [call |-> "release_for_booking", id |-> b]
Consume(b) == [call |-> "consume", id |-> b]
UpdateCredit(k, changes) ==
  [call |-> "update_compoff_credit", id |-> k, set |-> changes]
InsertCredit(row) == [call |-> "insert_compoff_credit", row |-> row]
WriteHoliday(old, new) == [call |-> "write_holiday", old |-> old, new |-> new]
ReleaseOn(d, location) ==
  [call |-> "release_for_holiday", day |-> d, location |-> location]

To(status, actor) == [status |-> status, decided_by |-> actor]

(* Mutant: the credits are handed back before the booking is ended. *)
ReturnThenEnd(b, status, actor) ==
  (IF bookings[b].category = "compoff" THEN <<ReleaseFor(b)>> ELSE <<>>)
    \o <<Update(b, To(status, actor))>>

(* End a booking and hand its credits back.                                 *)
EndCalls(b, status, actor) ==
  <<Update(b, To(status, actor))>>
    \o (IF bookings[b].category = "compoff" THEN <<ReleaseFor(b)>> ELSE <<>>)

ThenConsume(b, category) ==
  IF category = "compoff" THEN <<<<Consume(b)>>>> ELSE <<>>

-----------------------------------------------------------------------------
(* Handlers: the reads and the checks *)

create_find(p) ==
  \E u \in Bookers, d \in Day, c \in Offered, n \in VALID_DURATIONS,
     reason \in BOOLEAN :
    LET old == OccupyingOn(u, d)
    IN /\ RoomToBook
       /\ Replaceable(old, d, today)
       /\ Accept(p, Asked("create_or_replace", u, u, d, c, n, reason, old),
                 "holiday")

create_holiday(p) ==
  /\ Serving(p, "create_or_replace", "holiday")
  /\ IF NonWorking(request[p].user, request[p].day)
     THEN Refuse(p) ELSE Check(p, "afford")
  /\ UNCHANGED <<today, tables>>

create_afford(p) ==
  /\ Serving(p, "create_or_replace", "afford")
  /\ LET r == request[p]
         row == NewBooking(r.user, r.day, r.category, r.duration, "pending",
                           Nobody, FALSE)
     IN IF AcceptsBooking(r.user, r.day, r.category, r.duration, r.reason,
                          r.old, FALSE, r.on)
        THEN \E order \in SetToSeqs(r.old) :
               Then(p, Append([i \in DOMAIN order |->
                                 EndCalls(order[i], "withdrawn", r.actor)],
                              <<Insert(row)>>))
        ELSE Refuse(p)
  /\ UNCHANGED <<today, tables>>

(* Mutant: the lock is not tested. *)
withdraw_get_any_day(p) ==
  \E b \in Booked :
    /\ check_transition(bookings[b].status, "withdrawn")
    /\ AcceptCalls(p, About("withdraw", bookings[b].user, b),
                   EndCalls(b, "withdrawn", bookings[b].user))

withdraw_get(p) ==
  \E b \in Booked :
    /\ ~is_locked(bookings[b].day, today)
    /\ check_transition(bookings[b].status, "withdrawn")
    /\ AcceptCalls(p, About("withdraw", bookings[b].user, b),
                   EndCalls(b, "withdrawn", bookings[b].user))

decide_get(p) ==
  \E actor \in Users, b \in Booked, target \in {"approved", "rejected"} :
    /\ can_decide(Person(actor), Person(bookings[b].user))
    /\ check_transition(bookings[b].status, target)
    /\ AcceptCalls(p, About("decide", actor, b),
                   IF target = "rejected" THEN EndCalls(b, target, actor)
                   ELSE <<Update(b, To(target, actor))>>)

flag_find(p) ==
  \E actor \in Users, u \in Bookers, d \in Day :
    /\ RoomToBook
    /\ can_decide(Person(actor), Person(u))
    /\ d < today
    /\ OccupyingOn(u, d) = {}
    /\ AcceptCalls(
         p, Asked("flag", actor, u, d, NO_CATEGORY, FULL_DAY, TRUE, {}),
         <<Insert(NewBooking(u, d, NO_CATEGORY, FULL_DAY, "unrecognised",
                             actor, FALSE))>>)

(* What a backfill or a conversion writes, once nothing stands against it.  *)
RecordCalls(r) ==
  IF r.old = {}
  THEN <<<<Insert(NewBooking(r.user, r.day, r.category, r.duration, "approved",
                             r.actor, TRUE))>>>>
  ELSE LET b == CHOOSE x \in r.old : TRUE
       IN <<<<UpdateIf(b, [status |-> "approved", category |-> r.category,
                           duration |-> r.duration, decided_by |-> r.actor,
                           backfilled |-> TRUE])>>>>
          \o ThenConsume(b, r.category)

backfill_holiday(p) ==
  \E admin \in Users, u \in Bookers, d \in Day, c \in Offered,
     n \in VALID_DURATIONS, reason \in BOOLEAN :
    /\ RoomToBook
    /\ IsAdmin(admin)
    /\ check_backfill(d, c, reason, NonWorking(u, d), today)
    /\ Accept(p, Asked("backfill", admin, u, d, c, n, reason, {}), "find")

backfill_find(p) ==
  /\ Serving(p, "backfill", "find")
  /\ LET old == OccupyingOn(request[p].user, request[p].day)
         r == [request[p] EXCEPT !.old = old]
     IN IF \E b \in old : bookings[b].status # "unrecognised" THEN Refuse(p)
        ELSE IF r.category = "compoff" THEN GoOn(p, [r EXCEPT !.step = "afford"])
        ELSE GoOn(p, [r EXCEPT !.step = "calls", !.calls = RecordCalls(r)])
  /\ UNCHANGED <<today, tables>>

backfill_afford(p) ==
  /\ Serving(p, "backfill", "afford")
  /\ LET r == request[p]
     IN IF available(r.user, r.on) >= r.duration
        THEN Then(p, RecordCalls(r)) ELSE Refuse(p)
  /\ UNCHANGED <<today, tables>>

undo_get(p) ==
  \E admin \in Users, b \in Booked :
    /\ IsAdmin(admin)
    /\ \/ /\ bookings[b].status = "unrecognised"
          /\ AcceptCalls(p, About("undo", admin, b),
                         <<UpdateIf(b, To("withdrawn", admin))>>)
       \/ /\ bookings[b].status # "unrecognised"
          /\ bookings[b].backfilled /\ Consuming(b)
          /\ AcceptCalls(p, About("undo", admin, b),
                         EndCalls(b, "withdrawn", admin))

convert_get(p) ==
  \E admin \in Users, b \in Booked, c \in Offered, n \in VALID_DURATIONS,
     reason \in BOOLEAN :
    /\ IsAdmin(admin)
    /\ bookings[b].status = "unrecognised"
    /\ Accept(p, Asked("convert", admin, bookings[b].user, bookings[b].day,
                       c, n, reason, {b}), "holiday")

convert_holiday(p) ==
  /\ Serving(p, "convert", "holiday")
  /\ LET r == request[p]
     IN IF check_backfill(r.day, r.category, r.reason,
                          NonWorking(r.user, r.day), r.on)
        THEN Check(p, "afford") ELSE Refuse(p)
  /\ UNCHANGED <<today, tables>>

convert_afford(p) ==
  /\ Serving(p, "convert", "afford")
  /\ LET r == request[p]
         ok == /\ r.category = "compoff" =>
                    available(r.user, r.on) >= r.duration
               /\ r.category \in ALLOWANCE_CATEGORIES =>
                    check_allowance(
                      RemainingFor(r.user, r.day, r.category, {}), r.duration,
                      AllowExcess, IsConfigured(r.user, r.day, r.category))
     IN IF ok THEN Then(p, RecordCalls(r)) ELSE Refuse(p)
  /\ UNCHANGED <<today, tables>>

AskedOfHolidays(admin) ==
  Asked("holiday", admin, admin, today, NO_CATEGORY, FULL_DAY, TRUE, {})

declare_clash(p) ==
  \E admin \in Users, d \in HolidayDays, l \in Locations \cup {Everywhere} :
    /\ IsAdmin(admin)
    /\ HolidaysFree
    /\ ~clash(d, l)
    /\ AcceptCalls(p, AskedOfHolidays(admin),
                   <<WriteHoliday({}, [day |-> d, location |-> l]),
                     ReleaseOn(d, l)>>)

edit_clash(p) ==
  \E admin \in Users, h \in holidays, d \in HolidayDays :
    /\ IsAdmin(admin)
    /\ HolidaysFree
    /\ \A g \in holidays : g.day # d
    /\ AcceptCalls(p, AskedOfHolidays(admin),
                   <<WriteHoliday({h}, [h EXCEPT !.day = d]),
                     ReleaseOn(d, Everywhere)>>)

delete_holiday ==
  \E admin \in Users, h \in holidays :
    /\ HolidaysFree /\ "holiday" \in Operations
    /\ InFlight # Servers /\ Cardinality(InFlight) < MaxInFlight
    /\ remove_holiday(admin, h)
    /\ UNCHANGED request

claim_holiday(p) ==
  \E u \in Bookers, d \in Day, n \in VALID_DURATIONS :
    /\ \E k \in CreditId : credits[k] = NoRow
    /\ \A q \in InFlight : request[q].op # "claim"    \* bound, as RoomToBook
    /\ check_claim(d, today, NonWorking(u, d), n)
    /\ AcceptCalls(p, Asked("claim", u, u, d, "compoff", n, TRUE, {}),
                   <<InsertCredit(NewClaim(u, d, n))>>)

decide_claim_get(p) ==
  \E actor \in Users, k \in Claimed, approve \in BOOLEAN :
    /\ credits[k].status = "pending"
    /\ can_decide(Person(actor), Person(credits[k].user))
    /\ AcceptCalls(p, Asked("decide_claim", actor, credits[k].user,
                            credits[k].worked_on, "compoff", FULL_DAY, TRUE, {}),
                   <<UpdateCredit(k,
                       IF approve
                       THEN [status |-> "approved",
                             expires |-> expiry(today, CompoffValidDays)]
                       ELSE [status |-> "rejected"])>>)

Task(op) == Asked(op, Nobody, Nobody, today, NO_CATEGORY, FULL_DAY, TRUE, {})

(* Mutant: the sweep looks at the day before only. *)
sweep_yesterday ==
  /\ AutoApproveAtLock
  /\ PendingTheDayBefore(today) # {}
  /\ \E order \in SetToSeqs(PendingTheDayBefore(today)) :
       AcceptEach(Worker, Task("sweep"),
                  [i \in DOMAIN order |->
                     <<Update(order[i], [status |-> "approved"])>>])

sweep_list ==
  /\ AutoApproveAtLock
  /\ PendingBefore(today) # {}
  /\ \E order \in SetToSeqs(PendingBefore(today)) :
       AcceptEach(Worker, Task("sweep"),
                  [i \in DOMAIN order |->
                     <<Update(order[i], [status |-> "approved"])>>])

lapse_list ==
  /\ Expired # {}
  /\ \E order \in SetToSeqs(Expired) :
       AcceptEach(Worker, Task("lapse"),
                  [i \in DOMAIN order |->
                     <<UpdateCredit(order[i], [status |-> "lapsed"])>>])

-----------------------------------------------------------------------------
(* The calls, one round trip each *)

Call(p) == Head(Head(request[p].calls))

Calling(p, name) ==
  p \in InFlight /\ request[p].step = "calls" /\ Call(p).call = name

Rest(p) ==
  LET calls == request[p].calls
  IN IF Len(Head(calls)) = 1 THEN Tail(calls) ELSE [calls EXCEPT ![1] = Tail(@)]

(* Mutant: the index leaves unrecognised absences out. *)
DayCharged(b, row) ==
  /\ row.status \in OCCUPYING_STATES
  /\ ConsumingRowsOn(row.user, row.day) \ {b} # {}

(* The unique index bookings_one_per_day.                                   *)
DayTaken(b, row) ==
  /\ row.status \in OCCUPYING_STATES
  /\ OccupyingOn(row.user, row.day) \ {b} # {}

(* The unique index compoff_one_claim_per_day.                              *)
WorkedDayClaimed(k, row) ==
  /\ row.status \in CLAIMING_STATES
  /\ \E j \in Claimed \ {k} : /\ credits[j].user = row.user
                              /\ credits[j].worked_on = row.worked_on
                              /\ credits[j].status \in CLAIMING_STATES

(* The columns of `changes` are written, the others stay.                   *)
Updated(row, changes) ==
  [column \in DOMAIN row |->
     IF column \in DOMAIN changes THEN changes[column] ELSE row[column]]

(* The sweep goes on to the next row when one raises; nothing else does.    *)
Raised(p) == Then(p, IF request[p].op = "sweep" THEN Rest(p) ELSE <<>>)

update_booking(p) ==
  /\ Calling(p, "update_booking")
  /\ LET b == Call(p).id
         row == Updated(bookings[b], Call(p).set)
     IN IF DayTaken(b, row)
        THEN Raised(p) /\ UNCHANGED bookings
        ELSE Then(p, Rest(p)) /\ bookings' = [bookings EXCEPT ![b] = row]
  /\ UNCHANGED <<today, credits, holidays>>

(* Mutant: the update is not conditional. *)
update_booking_whatever_status(p) ==
  /\ Calling(p, "update_booking_if_unrecognised")
  /\ Then(p, Rest(p))
  /\ bookings' = [bookings EXCEPT ![Call(p).id] = Updated(@, Call(p).set)]
  /\ UNCHANGED <<today, credits, holidays>>

update_booking_if_status(p) ==
  /\ Calling(p, "update_booking_if_unrecognised")
  /\ LET b == Call(p).id
     IN IF bookings[b].status = "unrecognised"
        THEN /\ Then(p, Rest(p))
             /\ bookings' = [bookings EXCEPT ![b] = Updated(@, Call(p).set)]
        ELSE Refuse(p) /\ UNCHANGED bookings
  /\ UNCHANGED <<today, credits, holidays>>

insert_booking(p) ==
  /\ Calling(p, "insert_booking")
  /\ \E n \in BookingId :
       LET row == Call(p).row
       IN /\ IsNextRow(n, bookings)
          /\ IF DayTaken(n, row)
             THEN Refuse(p) /\ UNCHANGED bookings
             ELSE /\ bookings' = [bookings EXCEPT ![n] = row]
                  /\ Then(p, ThenConsume(n, row.category))
  /\ UNCHANGED <<today, credits, holidays>>

(* Mutant: the credits of a booking that ends are kept. *)
release_nothing(p) ==
  /\ Calling(p, "release_for_booking")
  /\ Then(p, Rest(p))
  /\ UNCHANGED <<today, tables>>

release_for_booking(p) ==
  /\ Calling(p, "release_for_booking")
  /\ \E order \in SetToSeqs(UsedBy(Call(p).id)) :
       Then(p, [i \in DOMAIN order |->
                  <<UpdateCredit(order[i], [status |-> "approved",
                                            booking |-> NoBooking])>>]
               \o Rest(p))
  /\ UNCHANGED <<today, tables>>

consume(p) ==
  /\ Calling(p, "consume")
  /\ LET r == request[p]
         b == Call(p).id
         picks == pick_credits(credits, ApprovedCredits(credits, r.user),
                               r.duration, r.on)
     IN IF picks = {} THEN Refuse(p)
        ELSE \E C \in picks : \E order \in SetToSeqs(C) :
               Then(p, [i \in DOMAIN order |->
                          <<UpdateCredit(order[i], [status |-> "used",
                                                    booking |-> b])>>])
  /\ UNCHANGED <<today, tables>>

update_compoff_credit(p) ==
  /\ Calling(p, "update_compoff_credit")
  /\ LET k == Call(p).id
         row == Updated(credits[k], Call(p).set)
     IN IF WorkedDayClaimed(k, row)
        THEN Refuse(p) /\ UNCHANGED credits
        ELSE Then(p, Rest(p)) /\ credits' = [credits EXCEPT ![k] = row]
  /\ UNCHANGED <<today, bookings, holidays>>

insert_compoff_credit(p) ==
  /\ Calling(p, "insert_compoff_credit")
  /\ \E n \in CreditId :
       LET row == Call(p).row
       IN /\ IsNextRow(n, credits)
          /\ credits' = IF WorkedDayClaimed(n, row) THEN credits
                        ELSE [credits EXCEPT ![n] = row]
  /\ Refuse(p)
  /\ UNCHANGED <<today, bookings, holidays>>

write_holiday(p) ==
  /\ Calling(p, "write_holiday")
  /\ holidays' = (holidays \ Call(p).old) \cup {Call(p).new}
  /\ Then(p, Rest(p))
  /\ UNCHANGED <<today, bookings, credits>>

release_on(p) ==
  /\ Calling(p, "release_for_holiday")
  /\ LET affected == {b \in ConsumingOn(Call(p).day) :
                        Call(p).location \in
                          {Everywhere, LocationOf[bookings[b].user]}}
     IN \E order \in SetToSeqs(affected) :
          Then(p, [i \in DOMAIN order |->
                     EndCalls(order[i], "released", request[p].actor)])
  /\ UNCHANGED <<today, tables>>

-----------------------------------------------------------------------------
(* A handler cut short: an error on the way, a restart, a killed worker.    *)
stop(p) ==
  /\ MayStop
  /\ p \in InFlight
  /\ Refuse(p)
  /\ UNCHANGED <<today, tables>>

(* Bound: a request is over before a second midnight.                       *)
clock ==
  /\ \A p \in InFlight : ClockMayTurn /\ request[p].on = today
  /\ NextDay
  /\ UNCHANGED request

AcceptRequest(p) ==
  \/ create_find(p)
  \/ withdraw_get(p)
  \/ decide_get(p)
  \/ flag_find(p)
  \/ backfill_holiday(p)
  \/ undo_get(p)
  \/ convert_get(p)
  \/ declare_clash(p)
  \/ edit_clash(p)
  \/ claim_holiday(p)
  \/ decide_claim_get(p)

Serve(p) ==
  \/ create_holiday(p)
  \/ create_afford(p)
  \/ backfill_find(p)
  \/ backfill_afford(p)
  \/ convert_holiday(p)
  \/ convert_afford(p)
  \/ update_booking(p)
  \/ update_booking_if_status(p)
  \/ insert_booking(p)
  \/ release_for_booking(p)
  \/ consume(p)
  \/ update_compoff_credit(p)
  \/ insert_compoff_credit(p)
  \/ write_holiday(p)
  \/ release_on(p)

ServerInit == Init /\ request = [p \in Servers |-> NoRequest]

ServerNext ==
  \/ \E p \in Threads : AcceptRequest(p)
  \/ sweep_list
  \/ lapse_list
  \/ \E p \in Servers : Serve(p) \/ stop(p)
  \/ delete_holiday
  \/ clock

ServerSpec == ServerInit /\ [][ServerNext]_serverVars

(* A server that keeps having a call to make makes one now and then: it is   *)
(* not cut short for ever before its next call.  The beat comes back every   *)
(* night, so a sweep that can run again and again does, however often the    *)
(* worker was busy.  And the days pass.                                      *)
ServerFairness ==
  /\ \A p \in Servers : SF_serverVars(Serve(p))
  /\ SF_serverVars(sweep_list)
  /\ WF_serverVars(clock)

FairServerSpec == ServerSpec /\ ServerFairness

-----------------------------------------------------------------------------
(* Correctness *)

(* services/bookings.py:610-612.  An absence is settled once: whoever       *)
(* clears or converts it first decides what the day is charged as, and      *)
(* nobody who read it earlier rewrites that afterwards.                     *)
AbsenceSettledOnce ==
  [][\A b \in Booked :
       bookings[b].status # "unrecognised" =>
         /\ bookings'[b].category = bookings[b].category
         /\ bookings'[b].duration = bookings[b].duration
         /\ bookings[b].category = NO_CATEGORY =>
              bookings'[b].status = bookings[b].status]_serverVars

(* Section 6.3, the lock, with requests in flight over midnight: from the   *)
(* day after the lock no withdrawal of the person's own leave can land.     *)
LockHoldsNextDay ==
  [][\A b \in Booked :
       /\ bookings[b].day < today - 1
       /\ Consuming(b)
       /\ ~bookings[b].backfilled
       => bookings'[b].status # "withdrawn"]_serverVars

(* services/bookings.py:764-771.  A booking is ended first and its credits  *)
(* handed back after: however a handler is cut short, no credit is free to  *)
(* be spent again while the booking it paid for still takes its day.        *)
CreditReturnedOnceOver ==
  [][\A k \in Claimed :
       credits[k].status = "used" /\ credits'[k].status # "used"
         => ~Consuming(credits[k].booking)]_serverVars
=============================================================================
