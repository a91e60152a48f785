----------------------------- MODULE LeaveCalendar -----------------------------
(***************************************************************************)
(* What the leave calendar promises when requests are served one after the *)
(* other: every operation of the booking, comp-off and holiday services is *)
(* one step, with all the writes it makes.  A refused request changes      *)
(* nothing and is no step.  LeaveRequests has the same operations, one     *)
(* database round trip at a time.                                          *)
(***************************************************************************)
EXTENDS LeaveStore

CONSTANTS             \* the inputs the requests are drawn from
  Bookers,            \* the people leave and comp-off are recorded for
  Offered,            \* the categories asked for
  HolidayDays         \* the dates a holiday is declared on or moved to

ASSUME InputsAssumption ==
  /\ Bookers \subseteq Users
  /\ Offered \subseteq CATEGORIES
  /\ HolidayDays \subseteq Day

vars == <<today, bookings, credits, holidays>>

Init ==
  /\ today = 0
  /\ bookings = [b \in BookingId |-> NoRow]
  /\ credits = [k \in CreditId |-> NoRow]
  /\ holidays = {}

-----------------------------------------------------------------------------
(* The person's own requests *)

Replaceable(old, d, on) ==
  \A b \in old : bookings[b].status # "unrecognised" /\ ~is_locked(d, on)

(* The tests on the credits or the balance; `old` is what would be replaced. *)
Affordable(u, d, category, duration, old, on) ==
  /\ category = "compoff" =>
       available(u, on) + GivenBack(old, category) >= duration
  /\ category = "additional" =>
       check_additional(
         duration, RemainingFor(u, d, additional_stands_in_for(d, on), old))

AcceptsBooking(u, d, category, duration, reason, old, non_working, on) ==
  LET charged == category \in ALLOWANCE_CATEGORIES
  IN /\ Affordable(u, d, category, duration, old, on)
     /\ validate_booking(
          d, category, duration, reason, non_working,
          IF charged THEN RemainingFor(u, d, category, old) ELSE duration,
          on, MaxFutureDays, AllowExcess,
          charged => IsConfigured(u, d, category))

create_or_replace(u, d, category, duration, reason) ==
  /\ Replaceable(OccupyingOn(u, d), d, today)
  /\ AcceptsBooking(u, d, category, duration, reason, OccupyingOn(u, d),
                    NonWorking(u, d), today)
  /\ \E n \in BookingId :
       LET old == OccupyingOn(u, d)
           freed == ReleaseCredits(CompoffRows(old))
       IN /\ IsNextRow(n, bookings)
          /\ bookings' =
               [MoveAll(old, "withdrawn", u) EXCEPT
                  ![n] = NewBooking(u, d, category, duration, "pending",
                                    Nobody, FALSE)]
          /\ credits' \in IF category = "compoff"
                          THEN ConsumeCredits(freed, u, duration, n, today)
                          ELSE {freed}
  /\ UNCHANGED <<today, holidays>>

(* Mutant: the lock is not tested. *)
withdraw_any_day(b) ==
  /\ b \in Booked
  /\ check_transition(bookings[b].status, "withdrawn")
  /\ bookings' = MoveAll({b}, "withdrawn", bookings[b].user)
  /\ credits' = ReleaseCredits(CompoffRows({b}))
  /\ UNCHANGED <<today, holidays>>

withdraw(b) ==
  /\ b \in Booked
  /\ ~is_locked(bookings[b].day, today)
  /\ check_transition(bookings[b].status, "withdrawn")
  /\ bookings' = MoveAll({b}, "withdrawn", bookings[b].user)
  /\ credits' = ReleaseCredits(CompoffRows({b}))
  /\ UNCHANGED <<today, holidays>>

-----------------------------------------------------------------------------
(* Decisions *)

decide(actor, b, target) ==
  /\ b \in Booked
  /\ can_decide(Person(actor), Person(bookings[b].user))
  /\ check_transition(bookings[b].status, target)
  /\ bookings' = MoveAll({b}, target, actor)
  /\ credits' = IF target = "rejected"
                THEN ReleaseCredits(CompoffRows({b})) ELSE credits
  /\ UNCHANGED <<today, holidays>>

flag_unrecognised(actor, u, d) ==
  /\ can_decide(Person(actor), Person(u))
  /\ d < today
  /\ OccupyingOn(u, d) = {}
  /\ \E n \in BookingId :
       /\ IsNextRow(n, bookings)
       /\ bookings' = [bookings EXCEPT
            ![n] = NewBooking(u, d, NO_CATEGORY, FULL_DAY, "unrecognised",
                              actor, FALSE)]
  /\ UNCHANGED <<today, credits, holidays>>

-----------------------------------------------------------------------------
(* The admin's way past the lock *)

ConvertAbsence(admin, b, category, duration, check) ==
  LET u == bookings[b].user
      d == bookings[b].day
  IN /\ category = "compoff" => available(u, today) >= duration
     /\ check /\ category \in ALLOWANCE_CATEGORIES =>
          check_allowance(RemainingFor(u, d, category, {}), duration,
                          AllowExcess, IsConfigured(u, d, category))
     /\ bookings' = [bookings EXCEPT
          ![b] = Converted(bookings[b], category, duration, admin)]
     /\ credits' \in IF category = "compoff"
                     THEN ConsumeCredits(credits, u, duration, b, today)
                     ELSE {credits}
     /\ UNCHANGED <<today, holidays>>

backfill(admin, u, d, category, duration, reason) ==
  LET old == OccupyingOn(u, d)
  IN /\ IsAdmin(admin)
     /\ check_backfill(d, category, reason, NonWorking(u, d), today)
     /\ \A b \in old : bookings[b].status = "unrecognised"
     /\ \/ \E b \in old : ConvertAbsence(admin, b, category, duration, FALSE)
        \/ /\ old = {}
           /\ category = "compoff" => available(u, today) >= duration
           /\ \E n \in BookingId :
                /\ IsNextRow(n, bookings)
                /\ bookings' = [bookings EXCEPT
                     ![n] = NewBooking(u, d, category, duration, "approved",
                                       admin, TRUE)]
                /\ credits' \in
                     IF category = "compoff"
                     THEN ConsumeCredits(credits, u, duration, n, today)
                     ELSE {credits}
           /\ UNCHANGED <<today, holidays>>

(* Mutant: a backfill that is already over is undone again. *)
undo_any_backfill(admin, b) ==
  /\ IsAdmin(admin)
  /\ b \in Booked
  /\ bookings[b].status = "unrecognised" \/ bookings[b].backfilled
  /\ bookings' = MoveAll({b}, "withdrawn", admin)
  /\ credits' = ReleaseCredits(CompoffRows({b}))
  /\ UNCHANGED <<today, holidays>>

undo_backfill(admin, b) ==
  /\ IsAdmin(admin)
  /\ b \in Booked
  /\ \/ bookings[b].status = "unrecognised"
     \/ bookings[b].backfilled /\ Consuming(b)
  /\ bookings' = MoveAll({b}, "withdrawn", admin)
  /\ credits' = ReleaseCredits(CompoffRows({b}))
  /\ UNCHANGED <<today, holidays>>

convert_absence(admin, b, category, duration, reason) ==
  /\ IsAdmin(admin)
  /\ b \in Booked
  /\ check_absence_conversion(
       bookings[b].status, bookings[b].day, category, reason,
       NonWorking(bookings[b].user, bookings[b].day), today)
  /\ ConvertAbsence(admin, b, category, duration, TRUE)

-----------------------------------------------------------------------------
(* Holidays *)

(* Mutant: the credits of a released booking are kept. *)
release_without_credits(admin, S) ==
  bookings' = MoveAll(S, "released", admin) /\ UNCHANGED credits

release_for_holiday(admin, S) ==
  /\ bookings' = MoveAll(S, "released", admin)
  /\ credits' = ReleaseCredits(CompoffRows(S))

(* Mutant: only approved bookings are released. *)
ApprovedOn(d) == {b \in Booked : bookings[b].day = d /\ bookings[b].status = "approved"}

ConsumingOn(d) == {b \in Booked : bookings[b].day = d /\ Consuming(b)}

clash(d, location) ==
  \E h \in holidays :
    h.day = d /\ (location = Everywhere \/ h.location \in {Everywhere, location})

declare_holiday(admin, d, location) ==
  /\ IsAdmin(admin)
  /\ ~clash(d, location)
  /\ holidays' = holidays \cup {[day |-> d, location |-> location]}
  /\ release_for_holiday(
       admin,
       {b \in ConsumingOn(d) :
          location \in {Everywhere, LocationOf[bookings[b].user]}})
  /\ UNCHANGED today

(* Moving a holiday keeps its location and releases the new date for all.   *)
edit_holiday(admin, h, d) ==
  /\ IsAdmin(admin)
  /\ h.day # d
  /\ \A g \in holidays : g.day # d
  /\ holidays' = (holidays \ {h}) \cup {[h EXCEPT !.day = d]}
  /\ release_for_holiday(admin, ConsumingOn(d))
  /\ UNCHANGED today

remove_holiday(admin, h) ==
  /\ IsAdmin(admin)
  /\ holidays' = holidays \ {h}
  /\ UNCHANGED <<today, bookings, credits>>

-----------------------------------------------------------------------------
(* Comp-off *)

claim(u, worked_on, days) ==
  /\ check_claim(worked_on, today, NonWorking(u, worked_on), days)
  /\ \A k \in Claimed : ~ /\ credits[k].user = u
                          /\ credits[k].worked_on = worked_on
                          /\ credits[k].status \in CLAIMING_STATES
  /\ \E n \in CreditId :
       /\ IsNextRow(n, credits)
       /\ credits' = [credits EXCEPT ![n] = NewClaim(u, worked_on, days)]
  /\ UNCHANGED <<today, bookings, holidays>>

Decided(credit, approve) ==
  IF approve
  THEN [credit EXCEPT !.status = "approved",
                      !.expires = expiry(today, CompoffValidDays)]
  ELSE [credit EXCEPT !.status = "rejected"]

decide_claim(actor, k, approve) ==
  /\ k \in Claimed
  /\ credits[k].status = "pending"
  /\ can_decide(Person(actor), Person(credits[k].user))
  /\ credits' = [credits EXCEPT ![k] = Decided(credits[k], approve)]
  /\ UNCHANGED <<today, bookings, holidays>>

-----------------------------------------------------------------------------
(* The nightly tasks, and the days passing *)

(* Mutant: a credit lapses a day late. *)
ExpiredLate == {k \in Claimed : /\ credits[k].status = "approved"
                                /\ credits[k].expires # NoExpiry
                                /\ credits[k].expires < today - 1}

Expired == {k \in Claimed : /\ credits[k].status = "approved"
                            /\ credits[k].expires # NoExpiry
                            /\ credits[k].expires < today}

lapse_expired ==
  /\ Expired # {}
  /\ credits' = [k \in CreditId |->
                   IF k \in Expired THEN [credits[k] EXCEPT !.status = "lapsed"]
                   ELSE credits[k]]
  /\ UNCHANGED <<today, bookings, holidays>>

(* Mutant: only the requests of the day before are swept. *)
PendingTheDayBefore(d) ==
  {b \in Booked : bookings[b].status = "pending" /\ bookings[b].day = d - 1}

(* Mutant: the sweep is a day late. *)
PendingLongBefore(d) ==
  {b \in Booked : bookings[b].status = "pending" /\ bookings[b].day < d - 1}

PendingBefore(d) ==
  {b \in Booked : bookings[b].status = "pending" /\ bookings[b].day < d}

sweep ==
  /\ AutoApproveAtLock
  /\ PendingBefore(today) # {}
  /\ bookings' = [b \in BookingId |->
                    IF b \in PendingBefore(today)
                    THEN [bookings[b] EXCEPT !.status = "approved"]
                    ELSE bookings[b]]
  /\ UNCHANGED <<today, credits, holidays>>

NextDay ==
  /\ today < MaxDay
  /\ today' = today + 1
  /\ UNCHANGED <<bookings, credits, holidays>>

-----------------------------------------------------------------------------
PersonStep ==
  \/ \E u \in Bookers, d \in Day, c \in Offered, n \in VALID_DURATIONS,
        reason \in BOOLEAN : create_or_replace(u, d, c, n, reason)
  \/ \E b \in BookingId : withdraw(b)
  \/ \E u \in Bookers, d \in Day, n \in VALID_DURATIONS : claim(u, d, n)

DeciderStep ==
  \E actor \in Users :
    \/ \E b \in BookingId, target \in {"approved", "rejected"} :
         decide(actor, b, target)
    \/ \E u \in Bookers, d \in Day : flag_unrecognised(actor, u, d)
    \/ \E k \in CreditId, approve \in BOOLEAN : decide_claim(actor, k, approve)

AdminStep ==
  \E admin \in Users :
    \/ \E u \in Bookers, d \in Day, c \in Offered, n \in VALID_DURATIONS,
          reason \in BOOLEAN : backfill(admin, u, d, c, n, reason)
    \/ \E b \in BookingId : undo_backfill(admin, b)
    \/ \E b \in BookingId, c \in Offered, n \in VALID_DURATIONS,
          reason \in BOOLEAN : convert_absence(admin, b, c, n, reason)
    \/ \E d \in HolidayDays, l \in Locations \cup {Everywhere} :
         declare_holiday(admin, d, l)
    \/ \E h \in holidays, d \in HolidayDays : edit_holiday(admin, h, d)
    \/ \E h \in holidays : remove_holiday(admin, h)

Next == PersonStep \/ DeciderStep \/ AdminStep \/ lapse_expired \/ sweep \/ NextDay

Spec == Init /\ [][Next]_vars

(* The days pass, and the worker's beat runs the nightly tasks.             *)
Fairness == WF_vars(NextDay) /\ WF_vars(sweep) /\ WF_vars(lapse_expired)

FairSpec == Spec /\ Fairness

-----------------------------------------------------------------------------
(* Correctness *)

(* The tables hold well-formed rows. *)
TypeOK ==
  /\ today \in Day
  /\ bookings \in [BookingId -> Booking \cup {NoRow}]
  /\ credits \in [CreditId -> Credit \cup {NoRow}]
  /\ holidays \in SUBSET Holiday

(* A day holds at most one booking, absences included, by the services' own *)
(* checks: the unique index bookings_one_per_day never refuses a write.     *)
OneBookingPerDay ==
  \A a, b \in Booked :
    /\ bookings[a].user = bookings[b].user
    /\ bookings[a].day = bookings[b].day
    /\ bookings[a].status \in OCCUPYING_STATES
    /\ bookings[b].status \in OCCUPYING_STATES
    => a = b

(* A credit is spent only on a comp-off booking of its owner that still     *)
(* takes the day; one that is not spent points at no booking.  So every way *)
(* of ending a comp-off booking hands its credits back.                     *)
CreditsFollowBookings ==
  \A k \in Claimed :
    LET b == credits[k].booking
    IN IF credits[k].status = "used"
       THEN /\ b \in Booked
            /\ bookings[b].category = "compoff"
            /\ bookings[b].user = credits[k].user
            /\ Consuming(b)
       ELSE b = NoBooking

(* No leave is charged for a weekend or for a holiday of the person's own   *)
(* location, whichever of the two was recorded first (FR-BOOK-04, FR-HOL-05). *)
NoLeaveOnDayOff ==
  \A b \in Booked :
    Consuming(b) => ~NonWorking(bookings[b].user, bookings[b].day)

(* The half of comp-off accounting that survives everything: the credits a  *)
(* comp-off booking holds cover it, or it holds none at all.                *)
NeverHalfPaid ==
  \A b \in CompoffRows(Booked) :
    Consuming(b) => \/ UsedBy(b) = {}
                    \/ DaysOf(credits, UsedBy(b)) >= bookings[b].duration

(* FR-APPR-05, Q-05, Q-04: leave that was asked for is decided by the       *)
(* person's lead or an admin, never by themselves; an approval nobody gave  *)
(* is the nightly sweep's, and only ever of a day that is over.             *)
DecidedByApprover ==
  \A b \in Booked :
    LET u == bookings[b].user
        decider == bookings[b].decided_by
    IN /\ bookings[b].status \in {"approved", "rejected"}
       /\ ~bookings[b].backfilled
       => \/ decider = Nobody /\ bookings[b].day < today
          \/ decider \in Users \ {u} /\ (IsAdmin(decider) \/ LeadOf[u] = decider)


(* The bookings of u in c that take their day, up to and in month p. *)
SpentUpTo(u, p, c) ==
  {b \in Booked : /\ bookings[b].user = u
                  /\ bookings[b].category = c
                  /\ period_of(bookings[b].day) <= p
                  /\ Consuming(b)}

(* FR-BOOK-05 as the code keeps it: a month is below zero only by a day an  *)
(* admin recorded in it, or, in a category that carries forward (FR-BAL-05), *)
(* in it or an earlier month; or there by spending out of order: a booking  *)
(* in an earlier month, tested against that month alone, made after one     *)
(* that had drawn on what the earlier month left over.                      *)
SpentInOrderFits ==
  \A u \in Bookers, p \in {period_of(d) : d \in Day}, c \in ALLOWANCE_CATEGORIES :
    BalanceOf(u, p, c).remaining < 0 =>
      LET Month(b) == period_of(bookings[b].day)
          spent == {b \in SpentUpTo(u, p, c) : c \in NoCarryForward => Month(b) = p}
      IN \/ \E b \in spent : bookings[b].backfilled
         \/ \E a, b \in spent : a < b /\ Month(b) < Month(a)

(* Section 6.4: a row enters as pending, as an absence, or approved by a    *)
(* backfill, and then moves only along the arrows of the state diagram.     *)
EntryStates == {"pending", "unrecognised"}

LegalTransitions ==
  [][\A b \in BookingId :
       IF bookings[b] = NoRow
       THEN \/ bookings'[b] = NoRow
            \/ bookings'[b].status \in EntryStates
            \/ bookings'[b].status = "approved" /\ bookings'[b].backfilled
       ELSE /\ bookings'[b] # NoRow
            /\ LET from == bookings[b].status
                   to == bookings'[b].status
               IN \/ to = from
                  \/ check_transition(from, to)
                  \/ /\ from = "unrecognised"
                     /\ \/ to = "approved" /\ bookings'[b].backfilled
                        \/ to = "withdrawn"]_vars

(* Section 6.3, the lock: leave a person booked themselves and that stood   *)
(* when its day passed is never withdrawn afterwards, by anyone, and is     *)
(* given back only by a decision on a pending request or by a holiday.      *)
LockedLeaveStands ==
  [][\A b \in Booked :
       /\ bookings[b].day < today
       /\ Consuming(b)
       /\ ~bookings[b].backfilled
       => /\ bookings'[b].status # "withdrawn"
          /\ bookings'[b].category = bookings[b].category
          /\ bookings'[b].duration = bookings[b].duration
          /\ bookings[b].status = "approved" =>
               \/ bookings'[b].status = "approved"
               \/ \E h \in holidays' : h.day = bookings[b].day]_vars

(* Q-04: no request waits for ever.  One for a day that will pass is        *)
(* decided, withdrawn, released or approved at the lock.                    *)
Awaiting(b) == b \in Booked /\ bookings[b].status = "pending"

EveryRequestAnswered ==
  \A b \in BookingId : (Awaiting(b) /\ bookings[b].day < MaxDay) ~> ~Awaiting(b)

(* FR-COMP-02: an approved credit that will expire is spent or lapses.      *)
Spendable(k) == k \in Claimed /\ credits[k].status = "approved"

CreditsRunOut ==
  \A k \in CreditId :
    (Spendable(k) /\ credits[k].expires < MaxDay) ~> ~Spendable(k)
=============================================================================
