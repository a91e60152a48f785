---------------------------- MODULE LeaveSerialProofs ---------------------------
(***************************************************************************)
(* LeaveRequests implements LeaveCalendar, for any people and any number   *)
(* of rows, while one request is served at a time and no date turns under  *)
(* it.                                                                     *)
(*                                                                         *)
(* LeaveCalendar makes in one step what a handler makes in many calls, so  *)
(* the invariant says of a request in flight what is left of it (Left): as *)
(* long as it checks, that what it has found so far holds of the tables as *)
(* they were seen; once it writes, that its remaining calls are moves of   *)
(* rows to where they are to be (Toward), and then one of a few endings    *)
(* (Arrives), whose outcome LeaveCalendar makes of the tables as seen, in  *)
(* one step or none (Outcome).  A request is taken up with all of it left, *)
(* each check and each call leaves less, and with nothing left the tables  *)
(* are that outcome.                                                       *)
(***************************************************************************)
EXTENDS LeaveSerial, RequestsProofs

-----------------------------------------------------------------------------
(* LeaveCalendar reads the same of the tables as they were seen             *)

LEMMA SamePicks ==
  \A cs, S, needed, on :
    Calendar!pick_credits(cs, S, needed, on) = pick_credits(cs, S, needed, on)
BY DEF Calendar!pick_credits, pick_credits, Calendar!usable, usable,
   Calendar!NoLaterThan, NoLaterThan, Calendar!NoExpiry, NoExpiry,
   Calendar!DaysOf, DaysOf, Calendar!SumFunction, SumFunction,
   Calendar!SumFunctionOnSet, SumFunctionOnSet, FoldFunctionOnSet,
   Calendar!FoldFunctionOnSet, MapThenFoldSet, Calendar!MapThenFoldSet

LEMMA SameConsumption ==
  \A cs, u, needed, b, on :
    Calendar!ConsumeCredits(cs, u, needed, b, on) = ConsumeCredits(cs, u, needed, b, on)
BY DEF Calendar!ConsumeCredits, ConsumeCredits, Calendar!ApprovedCredits,
   ApprovedCredits, Calendar!CreditId, CreditId, Calendar!Used, Used,
   Calendar!pick_credits, pick_credits, Calendar!usable, usable,
   Calendar!NoLaterThan, NoLaterThan, Calendar!NoExpiry, NoExpiry,
   Calendar!DaysOf, DaysOf, Calendar!SumFunction, SumFunction,
   Calendar!SumFunctionOnSet, SumFunctionOnSet, FoldFunctionOnSet,
   Calendar!FoldFunctionOnSet, MapThenFoldSet, Calendar!MapThenFoldSet

LEMMA SameDaysOf ==
  \A cs, S : Calendar!DaysOf(cs, S) = DaysOf(cs, S)
BY DEF Calendar!DaysOf, DaysOf, Calendar!SumFunction, SumFunction,
   Calendar!SumFunctionOnSet, SumFunctionOnSet, FoldFunctionOnSet,
   Calendar!FoldFunctionOnSet, MapThenFoldSet, Calendar!MapThenFoldSet

LEMMA SameConsumed ==
  \A entries, period, category :
    Calendar!consumed(entries, period, category) = consumed(entries, period, category)
BY DEF Calendar!consumed, consumed, MapThenSumSet, Calendar!MapThenSumSet,
   MapThenFoldSet, Calendar!MapThenFoldSet

LEMMA SameResolved ==
  \A grants, period, category :
    Calendar!resolve_allowance(grants, period, category)
      = resolve_allowance(grants, period, category)
BY DEF Calendar!resolve_allowance, resolve_allowance

LEMMA SameEarliest ==
  \A grants, entries, default :
    Calendar!earliest_period(grants, entries, default)
      = earliest_period(grants, entries, default)
BY DEF Calendar!earliest_period, earliest_period, Min, Calendar!Min

LEMMA SameOpening ==
  \A grants, entries, period, category, policy, start :
    Calendar!opening_balance(grants, entries, period, category, policy, start)
      = opening_balance(grants, entries, period, category, policy, start)
BY DEF Calendar!opening_balance, opening_balance, Max, Calendar!Max,
  MapThenSumSet, Calendar!MapThenSumSet, MapThenFoldSet, Calendar!MapThenFoldSet,
  Calendar!consumed, consumed, Calendar!resolve_allowance, resolve_allowance,
  Calendar!year_start, year_start, POOLING, Calendar!POOLING

LEMMA SameConfigured ==
  \A grants, period, category :
    Calendar!is_configured(grants, period, category)
      = is_configured(grants, period, category)
BY DEF Calendar!is_configured, is_configured

LEMMA SameBalance ==
  \A grants, entries, period, category, policy, carry :
    Calendar!balance_for(grants, entries, period, category, policy, carry)
      = balance_for(grants, entries, period, category, policy, carry)
BY SameConsumed, SameResolved, SameEarliest, SameOpening, SameConfigured
DEF Calendar!balance_for, balance_for

(* The rules, which read no table.                                          *)
LEMMA SameRules ==
  /\ Calendar!BookingId = BookingId /\ Calendar!CreditId = CreditId /\ Calendar!Day = Day
  /\ Calendar!VALID_DURATIONS = VALID_DURATIONS
  /\ Calendar!NO_CATEGORY = NO_CATEGORY /\ Calendar!FULL_DAY = FULL_DAY
  /\ Calendar!ALLOWANCE_CATEGORIES = ALLOWANCE_CATEGORIES
  /\ Calendar!CLAIMING_STATES = CLAIMING_STATES
  /\ \A d, on : Calendar!is_locked(d, on) = is_locked(d, on)
  /\ \A from, to : Calendar!check_transition(from, to) = check_transition(from, to)
  /\ \A a, s : Calendar!can_decide(a, s) = can_decide(a, s)
  /\ \A d, c, reason, off, on :
       Calendar!check_backfill(d, c, reason, off, on) = check_backfill(d, c, reason, off, on)
  /\ \A s, d, c, reason, off, on :
       Calendar!check_absence_conversion(s, d, c, reason, off, on)
         = check_absence_conversion(s, d, c, reason, off, on)
  /\ \A d, on, off, n : Calendar!check_claim(d, on, off, n) = check_claim(d, on, off, n)
  /\ \A left, n, excess, set :
       Calendar!check_allowance(left, n, excess, set) = check_allowance(left, n, excess, set)
  /\ \A u : Calendar!Person(u) = Person(u) /\ Calendar!IsAdmin(u) = IsAdmin(u)
  /\ \A on, days : Calendar!expiry(on, days) = expiry(on, days)

BY DEF Calendar!BookingId, BookingId, Calendar!CreditId, CreditId, Calendar!Day, Day,
  Calendar!VALID_DURATIONS, VALID_DURATIONS, Calendar!HALF_DAY, HALF_DAY,
  Calendar!FULL_DAY, FULL_DAY, Calendar!NO_CATEGORY, NO_CATEGORY,
  Calendar!ALLOWANCE_CATEGORIES, ALLOWANCE_CATEGORIES, Calendar!CLAIMING_STATES,
  CLAIMING_STATES, Calendar!is_locked, is_locked, Calendar!check_transition,
  check_transition, Calendar!ALLOWED_TRANSITIONS, ALLOWED_TRANSITIONS, Calendar!STATES,
  STATES, Calendar!can_decide, can_decide, Calendar!check_backfill, check_backfill,
  Calendar!CATEGORIES, CATEGORIES, Calendar!check_reason, check_reason,
  Calendar!REASON_REQUIRED, REASON_REQUIRED, Calendar!check_absence_conversion,
  check_absence_conversion, Calendar!check_claim, check_claim, Calendar!check_allowance,
  check_allowance, Calendar!Person, Person, Calendar!IsAdmin, IsAdmin, Calendar!expiry, expiry

(* The reads, when the tables are as they were seen.                        *)
LEMMA SameReads ==
  ASSUME seen = Seen
  PROVE  /\ Calendar!Booked = Booked /\ Calendar!Claimed = Claimed
         /\ \A u, d : Calendar!OccupyingOn(u, d) = OccupyingOn(u, d)
         /\ \A b : Calendar!Consuming(b) = Consuming(b)
         /\ \A S : Calendar!CompoffRows(S) = CompoffRows(S)
         /\ \A S : Calendar!ReleaseCredits(S) = ReleaseCredits(S)
         /\ \A S, status, who : Calendar!MoveAll(S, status, who) = MoveAll(S, status, who)
         /\ \A u, d : Calendar!NonWorking(u, d) = NonWorking(u, d)
         /\ \A old, d, on : Calendar!Replaceable(old, d, on) = Replaceable(old, d, on)
         /\ \A d : Calendar!ConsumingOn(d) = ConsumingOn(d)
         /\ \A d, l : Calendar!clash(d, l) = clash(d, l)
         /\ Calendar!Expired = Expired
         /\ \A d : Calendar!PendingBefore(d) = PendingBefore(d)
         /\ \A n, rows : Calendar!IsNextRow(n, rows) = IsNextRow(n, rows)
<1> USE DEF Seen, Calendar!BookingId, BookingId, Calendar!CreditId, CreditId,
        Calendar!Booked, Booked, Calendar!Claimed, Claimed
<1>1. Calendar!Booked = Booked /\ Calendar!Claimed = Claimed OBVIOUS
<1>2. ASSUME NEW u, NEW d PROVE Calendar!OccupyingOn(u, d) = OccupyingOn(u, d)
  BY DEF Calendar!OccupyingOn, OccupyingOn, Calendar!OCCUPYING_STATES, OCCUPYING_STATES
<1>3. ASSUME NEW b PROVE Calendar!Consuming(b) = Consuming(b)
  BY DEF Calendar!Consuming, Consuming, Calendar!CONSUMING_STATES, CONSUMING_STATES
<1>4. ASSUME NEW S PROVE Calendar!CompoffRows(S) = CompoffRows(S)
  BY DEF Calendar!CompoffRows, CompoffRows
<1>5. ASSUME NEW S PROVE Calendar!ReleaseCredits(S) = ReleaseCredits(S)
  BY DEF Calendar!ReleaseCredits, ReleaseCredits, Calendar!UsedBy, UsedBy,
    Calendar!Returned, Returned, Calendar!NoBooking, NoBooking
<1>6. ASSUME NEW S, NEW status, NEW who
      PROVE  Calendar!MoveAll(S, status, who) = MoveAll(S, status, who)
  BY DEF Calendar!MoveAll, MoveAll, Calendar!Moved, Moved
<1>7. ASSUME NEW u, NEW d PROVE Calendar!NonWorking(u, d) = NonWorking(u, d)
  BY DEF Calendar!NonWorking, NonWorking, Calendar!HolidayFor, HolidayFor
<1>8. ASSUME NEW old, NEW d, NEW on
      PROVE  Calendar!Replaceable(old, d, on) = Replaceable(old, d, on)
  BY DEF Calendar!Replaceable, Replaceable, Calendar!is_locked, is_locked
<1>9. ASSUME NEW d PROVE Calendar!ConsumingOn(d) = ConsumingOn(d)
  BY <1>3 DEF Calendar!ConsumingOn, ConsumingOn
<1>10. ASSUME NEW d, NEW l PROVE Calendar!clash(d, l) = clash(d, l)
  BY DEF Calendar!clash, clash
<1>11. Calendar!Expired = Expired
  BY DEF Calendar!Expired, Expired, Calendar!NoExpiry, NoExpiry
<1>12. ASSUME NEW d PROVE Calendar!PendingBefore(d) = PendingBefore(d)
  BY DEF Calendar!PendingBefore, PendingBefore
<1>13. ASSUME NEW n, NEW rows PROVE Calendar!IsNextRow(n, rows) = IsNextRow(n, rows)
  BY DEF Calendar!IsNextRow, IsNextRow
<1> QED
  BY <1>1, <1>2, <1>3, <1>4, <1>5, <1>6, <1>7, <1>8, <1>9, <1>10, <1>11, <1>12, <1>13

(* The tests on credits and balances, likewise.                             *)
DaysIn(rows, old, category) ==
  MapThenSumSet(LAMBDA b : rows[b].duration, {b \in old : rows[b].category = category})

LEMMA SameGivenBack ==
  ASSUME seen = Seen
  PROVE  \A old, category : Calendar!GivenBack(old, category) = GivenBack(old, category)
<1>1. \A old, category : GivenBack(old, category) = DaysIn(bookings, old, category)
  BY DEF GivenBack, DaysIn
<1>2. \A old, category :
        Calendar!GivenBack(old, category) = DaysIn(seen.bookings, old, category)
  BY DEF Calendar!GivenBack, DaysIn, Calendar!MapThenSumSet, MapThenSumSet, MapThenFoldSet,
    Calendar!MapThenFoldSet
<1>3. seen.bookings = bookings
  BY DEF Seen
<1> QED BY <1>1, <1>2, <1>3

LEMMA SameAvailable ==
  ASSUME seen = Seen
  PROVE  \A u, on : Calendar!available(u, on) = available(u, on)
<1>1. \A S : Calendar!DaysOf(credits, S) = DaysOf(credits, S)
  BY SameDaysOf
<1>2. seen.credits = credits
  BY DEF Seen
<1>3. ASSUME NEW u, NEW on
      PROVE  {k \in Calendar!ApprovedCredits(credits, u) : Calendar!usable(credits[k], on)}
               = {k \in ApprovedCredits(credits, u) : usable(credits[k], on)}
  BY DEF Calendar!ApprovedCredits, ApprovedCredits, Calendar!CreditId, CreditId,
    Calendar!usable, usable, Calendar!NoExpiry, NoExpiry
<1> QED BY <1>1, <1>2, <1>3 DEF Calendar!available, available

LEMMA SameRemaining ==
  ASSUME seen = Seen
  PROVE  \A u, d, category, old :
           /\ Calendar!RemainingFor(u, d, category, old) = RemainingFor(u, d, category, old)
           /\ Calendar!IsConfigured(u, d, category) = IsConfigured(u, d, category)
<1>1. seen.bookings = bookings
  BY DEF Seen
<1>2. \A u : Calendar!GrantsFor(u) = GrantsFor(u)
  BY DEF Calendar!GrantsFor, GrantsFor
<1>3. \A u : Calendar!ConsumptionFor(u) = ConsumptionFor(u)
  BY <1>1 DEF Calendar!ConsumptionFor, ConsumptionFor, Calendar!period_of, period_of,
    Calendar!Booked, Booked, Calendar!BookingId, BookingId, Calendar!Consuming, Consuming,
    Calendar!CONSUMING_STATES, CONSUMING_STATES, Calendar!NO_CATEGORY, NO_CATEGORY
<1>4. \A d : Calendar!period_of(d) = period_of(d)
  BY DEF Calendar!period_of, period_of
<1>5. ASSUME NEW u, NEW period, NEW category
      PROVE  Calendar!BalanceOf(u, period, category) = BalanceOf(u, period, category)
  BY <1>2, <1>3, SameBalance DEF Calendar!BalanceOf, BalanceOf
<1> QED
  BY <1>2, <1>4, <1>5, SameGivenBack, SameConfigured
  DEF Calendar!RemainingFor, RemainingFor, Calendar!IsConfigured, IsConfigured

LEMMA SameTests ==
  ASSUME seen = Seen
  PROVE  \A u, d, category, duration, reason, old, off, on :
           Calendar!AcceptsBooking(u, d, category, duration, reason, old, off, on)
             = AcceptsBooking(u, d, category, duration, reason, old, off, on)
<1>1. ASSUME NEW u, NEW d, NEW category, NEW duration, NEW old, NEW on
      PROVE  Calendar!Affordable(u, d, category, duration, old, on)
               = Affordable(u, d, category, duration, old, on)
  BY SameGivenBack, SameAvailable, SameRemaining
  DEF Calendar!Affordable, Affordable, Calendar!check_additional, check_additional,
    Calendar!additional_stands_in_for, additional_stands_in_for
<1>2. ASSUME NEW d, NEW category, NEW duration, NEW reason, NEW off, NEW left, NEW on,
             NEW most, NEW excess, NEW set
      PROVE  Calendar!validate_booking(d, category, duration, reason, off, left, on, most, excess, set)
               = validate_booking(d, category, duration, reason, off, left, on, most, excess, set)
  BY DEF Calendar!validate_booking, validate_booking, Calendar!CATEGORIES, CATEGORIES,
    Calendar!VALID_DURATIONS, VALID_DURATIONS, Calendar!HALF_DAY, HALF_DAY,
    Calendar!FULL_DAY, FULL_DAY, Calendar!check_reason, check_reason,
    Calendar!REASON_REQUIRED, REASON_REQUIRED, Calendar!check_timing, check_timing,
    Calendar!is_locked, is_locked, Calendar!ALLOWS_SAME_DAY, ALLOWS_SAME_DAY,
    Calendar!ALLOWS_FUTURE, ALLOWS_FUTURE, Calendar!check_allowance, check_allowance
<1>3. Calendar!ALLOWANCE_CATEGORIES = ALLOWANCE_CATEGORIES
  BY DEF Calendar!ALLOWANCE_CATEGORIES, ALLOWANCE_CATEGORIES
<1> QED
  BY <1>1, <1>2, <1>3, SameRemaining DEF Calendar!AcceptsBooking, AcceptsBooking
-----------------------------------------------------------------------------
(* What one step of LeaveCalendar can make of the tables as they were seen  *)

CreateAs(u, d, category, duration, reason, n, rows, cs) ==
    LET old == Calendar!OccupyingOn(u, d)
        freed == Calendar!ReleaseCredits(Calendar!CompoffRows(old))
    IN /\ Calendar!Replaceable(old, d, seen.today)
       /\ Calendar!AcceptsBooking(u, d, category, duration, reason, old,
                                  Calendar!NonWorking(u, d), seen.today)
       /\ Calendar!IsNextRow(n, seen.bookings)
       /\ rows = [Calendar!MoveAll(old, "withdrawn", u) EXCEPT
                    ![n] = Calendar!NewBooking(u, d, category, duration, "pending",
                                               Nobody, FALSE)]
       /\ cs \in IF category = "compoff"
                 THEN Calendar!ConsumeCredits(freed, u, duration, n, seen.today)
                 ELSE {freed}

CreateMakes(rows, cs) ==
  \E u \in Bookers, d \in Day, category \in Offered, duration \in VALID_DURATIONS,
     reason \in BOOLEAN, n \in BookingId :
    CreateAs(u, d, category, duration, reason, n, rows, cs)

EndAs(b, actor, target, rows, cs) ==
    /\ \/ /\ target = "withdrawn" /\ actor = seen.bookings[b].user
          /\ ~Calendar!is_locked(seen.bookings[b].day, seen.today)
          /\ Calendar!check_transition(seen.bookings[b].status, target)
       \/ /\ target = "rejected"
          /\ Calendar!can_decide(Calendar!Person(actor),
                                 Calendar!Person(seen.bookings[b].user))
          /\ Calendar!check_transition(seen.bookings[b].status, target)
       \/ /\ target = "withdrawn" /\ Calendar!IsAdmin(actor)
          /\ \/ seen.bookings[b].status = "unrecognised"
             \/ seen.bookings[b].backfilled /\ Calendar!Consuming(b)
    /\ rows = Calendar!MoveAll({b}, target, actor)
    /\ cs = Calendar!ReleaseCredits(Calendar!CompoffRows({b}))

EndMakes(rows, cs) ==
  \E b \in Calendar!Booked, actor \in Users, target \in STATES :
    EndAs(b, actor, target, rows, cs)

ApproveAs(actor, b, rows, cs) ==
    /\ Calendar!can_decide(Calendar!Person(actor), Calendar!Person(seen.bookings[b].user))
    /\ Calendar!check_transition(seen.bookings[b].status, "approved")
    /\ rows = Calendar!MoveAll({b}, "approved", actor)
    /\ cs = seen.credits

ApproveMakes(rows, cs) ==
  \E actor \in Users, b \in Calendar!Booked : ApproveAs(actor, b, rows, cs)

FlagMakes(rows, cs) ==
  \E actor \in Users, u \in Bookers, d \in Day, n \in BookingId :
    /\ Calendar!can_decide(Calendar!Person(actor), Calendar!Person(u))
    /\ d < seen.today
    /\ Calendar!OccupyingOn(u, d) = {}
    /\ Calendar!IsNextRow(n, seen.bookings)
    /\ rows = [seen.bookings EXCEPT
                 ![n] = Calendar!NewBooking(u, d, NO_CATEGORY, FULL_DAY, "unrecognised",
                                            actor, FALSE)]
    /\ cs = seen.credits

Spent(u, duration, category, n) ==
  IF category = "compoff"
  THEN Calendar!ConsumeCredits(seen.credits, u, duration, n, seen.today)
  ELSE {seen.credits}

BackfillAs(admin, u, d, category, duration, reason, n, rows, cs) ==
    /\ Calendar!IsAdmin(admin)
    /\ Calendar!check_backfill(d, category, reason, Calendar!NonWorking(u, d), seen.today)
    /\ Calendar!OccupyingOn(u, d) = {}
    /\ category = "compoff" => Calendar!available(u, seen.today) >= duration
    /\ Calendar!IsNextRow(n, seen.bookings)
    /\ rows = [seen.bookings EXCEPT
                 ![n] = Calendar!NewBooking(u, d, category, duration, "approved",
                                            admin, TRUE)]
    /\ cs \in Spent(u, duration, category, n)

BackfillMakes(rows, cs) ==
  \E admin \in Users, u \in Bookers, d \in Day, category \in Offered,
     duration \in VALID_DURATIONS, reason \in BOOLEAN, n \in BookingId :
    BackfillAs(admin, u, d, category, duration, reason, n, rows, cs)

ConvertAs(admin, u, d, b, category, duration, reason, rows, cs) ==
  /\ Calendar!IsAdmin(admin)
  /\ \/ /\ u \in Bookers /\ d \in Day
        /\ b \in Calendar!OccupyingOn(u, d)
        /\ \A a \in Calendar!OccupyingOn(u, d) :
             seen.bookings[a].status = "unrecognised"
        /\ Calendar!check_backfill(d, category, reason, Calendar!NonWorking(u, d),
                                   seen.today)
     \/ /\ Calendar!check_absence_conversion(
             seen.bookings[b].status, d, category, reason, Calendar!NonWorking(u, d),
             seen.today)
        /\ category \in ALLOWANCE_CATEGORIES =>
             Calendar!check_allowance(
               Calendar!RemainingFor(u, d, category, {}), duration, AllowExcess,
               Calendar!IsConfigured(u, d, category))
  /\ category = "compoff" => Calendar!available(u, seen.today) >= duration
  /\ rows = [seen.bookings EXCEPT
               ![b] = Calendar!Converted(seen.bookings[b], category, duration, admin)]
  /\ cs \in Spent(u, duration, category, b)

ConvertMakes(rows, cs) ==
  \E admin \in Users, b \in Calendar!Booked, category \in Offered,
     duration \in VALID_DURATIONS, reason \in BOOLEAN :
    ConvertAs(admin, seen.bookings[b].user, seen.bookings[b].day, b, category, duration, reason,
              rows, cs)

HolidayMakes(rows, cs, hs) ==
  \E admin \in Users, d \in HolidayDays, S \in SUBSET BookingId :
    /\ Calendar!IsAdmin(admin)
    /\ rows = Calendar!MoveAll(S, "released", admin)
    /\ cs = Calendar!ReleaseCredits(Calendar!CompoffRows(S))
    /\ \/ \E l \in Locations \cup {Everywhere} :
            /\ ~Calendar!clash(d, l)
            /\ hs = seen.holidays \cup {[day |-> d, location |-> l]}
            /\ S = {b \in Calendar!ConsumingOn(d) :
                      l \in {Everywhere, LocationOf[seen.bookings[b].user]}}
       \/ \E h \in seen.holidays :
            /\ \A g \in seen.holidays : g.day # d
            /\ hs = (seen.holidays \ {h}) \cup {[h EXCEPT !.day = d]}
            /\ S = Calendar!ConsumingOn(d)

ClaimAs(u, d, n, k, cs) ==
  /\ Calendar!check_claim(d, seen.today, Calendar!NonWorking(u, d), n)
  /\ \A j \in Calendar!Claimed : ~ /\ seen.credits[j].user = u
                                   /\ seen.credits[j].worked_on = d
                                   /\ seen.credits[j].status \in CLAIMING_STATES
  /\ Calendar!IsNextRow(k, seen.credits)
  /\ cs = [seen.credits EXCEPT ![k] = Calendar!NewClaim(u, d, n)]

DecideAs(actor, k, approve, cs) ==
  /\ seen.credits[k].status = "pending"
  /\ Calendar!can_decide(Calendar!Person(actor), Calendar!Person(seen.credits[k].user))
  /\ cs = [seen.credits EXCEPT ![k] = Calendar!Decided(seen.credits[k], approve)]

ClaimMakes(rows, cs) ==
  /\ rows = seen.bookings
  /\ \/ \E u \in Bookers, d \in Day, n \in VALID_DURATIONS, k \in CreditId :
          ClaimAs(u, d, n, k, cs)
     \/ \E actor \in Users, k \in Calendar!Claimed, approve \in BOOLEAN :
          DecideAs(actor, k, approve, cs)

NightMakes(rows, cs) ==
  \/ /\ Calendar!Expired # {}
     /\ cs = [k \in CreditId |->
                IF k \in Calendar!Expired
                THEN [seen.credits[k] EXCEPT !.status = "lapsed"]
                ELSE seen.credits[k]]
     /\ rows = seen.bookings
  \/ /\ AutoApproveAtLock
     /\ Calendar!PendingBefore(seen.today) # {}
     /\ rows = [b \in BookingId |->
                  IF b \in Calendar!PendingBefore(seen.today)
                  THEN [seen.bookings[b] EXCEPT !.status = "approved"]
                  ELSE seen.bookings[b]]
     /\ cs = seen.credits

(* A step of LeaveCalendar, or none.                                        *)
Outcome(rows, cs, hs) ==
  \/ /\ hs = seen.holidays
     /\ \/ rows = seen.bookings /\ cs = seen.credits
        \/ CreateMakes(rows, cs) \/ EndMakes(rows, cs) \/ ApproveMakes(rows, cs)
        \/ FlagMakes(rows, cs) \/ BackfillMakes(rows, cs) \/ ConvertMakes(rows, cs)
        \/ ClaimMakes(rows, cs) \/ NightMakes(rows, cs)
  \/ HolidayMakes(rows, cs, hs)

OneStep(rows, cs, hs) ==
  /\ seen'.today = seen.today /\ seen'.bookings = rows
  /\ seen'.credits = cs /\ seen'.holidays = hs

LEMMA CreateIsAStep ==
  ASSUME NEW rows, NEW cs, CreateMakes(rows, cs), OneStep(rows, cs, seen.holidays)
  PROVE  Calendar!PersonStep
<1>1. PICK u \in Bookers, d \in Day, category \in Offered, duration \in VALID_DURATIONS,
           reason \in BOOLEAN, n \in BookingId :
        LET old == Calendar!OccupyingOn(u, d)
            freed == Calendar!ReleaseCredits(Calendar!CompoffRows(old))
        IN /\ Calendar!Replaceable(old, d, seen.today)
           /\ Calendar!AcceptsBooking(u, d, category, duration, reason, old,
                                      Calendar!NonWorking(u, d), seen.today)
           /\ Calendar!IsNextRow(n, seen.bookings)
           /\ rows = [Calendar!MoveAll(old, "withdrawn", u) EXCEPT
                        ![n] = Calendar!NewBooking(u, d, category, duration, "pending",
                                                   Nobody, FALSE)]
           /\ cs \in IF category = "compoff"
                     THEN Calendar!ConsumeCredits(freed, u, duration, n, seen.today)
                     ELSE {freed}
  BY DEF CreateMakes, CreateAs
<1>2. Calendar!create_or_replace(u, d, category, duration, reason)
  BY <1>1, SameRules DEF OneStep, Calendar!create_or_replace
<1> QED BY <1>2, SameRules DEF Calendar!PersonStep

LEMMA EndIsAStep ==
  ASSUME NEW rows, NEW cs, EndMakes(rows, cs), OneStep(rows, cs, seen.holidays)
  PROVE  Calendar!Next
<1>1. PICK b \in Calendar!Booked, actor \in Users, target \in STATES :
        /\ \/ /\ target = "withdrawn" /\ actor = seen.bookings[b].user
              /\ ~Calendar!is_locked(seen.bookings[b].day, seen.today)
              /\ Calendar!check_transition(seen.bookings[b].status, target)
           \/ /\ target = "rejected"
              /\ Calendar!can_decide(Calendar!Person(actor),
                                     Calendar!Person(seen.bookings[b].user))
              /\ Calendar!check_transition(seen.bookings[b].status, target)
           \/ /\ target = "withdrawn" /\ Calendar!IsAdmin(actor)
              /\ \/ seen.bookings[b].status = "unrecognised"
                 \/ seen.bookings[b].backfilled /\ Calendar!Consuming(b)
        /\ rows = Calendar!MoveAll({b}, target, actor)
        /\ cs = Calendar!ReleaseCredits(Calendar!CompoffRows({b}))
  BY DEF EndMakes, EndAs
<1>2. b \in Calendar!BookingId
  BY DEF Calendar!Booked
<1>3. \/ Calendar!withdraw(b) \/ Calendar!decide(actor, b, "rejected")
      \/ Calendar!undo_backfill(actor, b)
  BY <1>1 DEF OneStep, Calendar!withdraw, Calendar!decide, Calendar!undo_backfill
<1> QED
  BY <1>2, <1>3
  DEF Calendar!Next, Calendar!PersonStep, Calendar!DeciderStep, Calendar!AdminStep

LEMMA ApprovalIsAStep ==
  ASSUME NEW rows, NEW cs, ApproveMakes(rows, cs), OneStep(rows, cs, seen.holidays)
  PROVE  Calendar!Next
<1>1. PICK actor \in Users, b \in Calendar!Booked :
        Calendar!decide(actor, b, "approved")
  BY DEF ApproveMakes, ApproveAs, OneStep, Calendar!decide
<1> QED BY <1>1 DEF Calendar!Booked, Calendar!Next, Calendar!DeciderStep

LEMMA FlagIsAStep ==
  ASSUME NEW rows, NEW cs, FlagMakes(rows, cs), OneStep(rows, cs, seen.holidays)
  PROVE  Calendar!Next
<1>1. PICK actor \in Users, u \in Bookers, d \in Day, n \in BookingId :
        /\ Calendar!can_decide(Calendar!Person(actor), Calendar!Person(u))
        /\ d < seen.today
        /\ Calendar!OccupyingOn(u, d) = {}
        /\ Calendar!IsNextRow(n, seen.bookings)
        /\ rows = [seen.bookings EXCEPT
                     ![n] = Calendar!NewBooking(u, d, NO_CATEGORY, FULL_DAY, "unrecognised",
                                                actor, FALSE)]
        /\ cs = seen.credits
  BY DEF FlagMakes
<1>2. Calendar!flag_unrecognised(actor, u, d)
  BY <1>1, SameRules DEF OneStep, Calendar!flag_unrecognised
<1> QED BY <1>2, SameRules DEF Calendar!Next, Calendar!DeciderStep

LEMMA BackfillIsAStep ==
  ASSUME NEW rows, NEW cs, BackfillMakes(rows, cs), OneStep(rows, cs, seen.holidays)
  PROVE  Calendar!Next
<1>1. PICK admin \in Users, u \in Bookers, d \in Day, category \in Offered,
           duration \in VALID_DURATIONS, reason \in BOOLEAN, n \in BookingId :
        /\ Calendar!IsAdmin(admin)
        /\ Calendar!check_backfill(d, category, reason, Calendar!NonWorking(u, d), seen.today)
        /\ Calendar!OccupyingOn(u, d) = {}
        /\ category = "compoff" => Calendar!available(u, seen.today) >= duration
        /\ Calendar!IsNextRow(n, seen.bookings)
        /\ rows = [seen.bookings EXCEPT
                     ![n] = Calendar!NewBooking(u, d, category, duration, "approved",
                                                admin, TRUE)]
        /\ cs \in Spent(u, duration, category, n)
  BY DEF BackfillMakes, BackfillAs
<1>2. Calendar!backfill(admin, u, d, category, duration, reason)
  BY <1>1, SameRules DEF OneStep, Spent, Calendar!backfill
<1> QED BY <1>2, SameRules DEF Calendar!Next, Calendar!AdminStep

LEMMA ConversionIsAStep ==
  ASSUME NEW rows, NEW cs, ConvertMakes(rows, cs), OneStep(rows, cs, seen.holidays)
  PROVE  Calendar!Next
<1>10. PICK admin \in Users, b \in Calendar!Booked, category \in Offered,
           duration \in VALID_DURATIONS, reason \in BOOLEAN :
         ConvertAs(admin, seen.bookings[b].user, seen.bookings[b].day, b, category, duration,
                   reason, rows, cs)
  BY DEF ConvertMakes
<1>11. PICK u, d : u = seen.bookings[b].user /\ d = seen.bookings[b].day
  OBVIOUS
<1>1. /\ admin \in Users /\ b \in Calendar!Booked /\ category \in Offered
      /\ duration \in VALID_DURATIONS /\ reason \in BOOLEAN
      /\ u = seen.bookings[b].user /\ d = seen.bookings[b].day
      /\ Calendar!IsAdmin(admin)
      /\ \/ /\ u \in Bookers /\ d \in Day
            /\ b \in Calendar!OccupyingOn(u, d)
            /\ \A a \in Calendar!OccupyingOn(u, d) :
                 seen.bookings[a].status = "unrecognised"
            /\ Calendar!check_backfill(d, category, reason, Calendar!NonWorking(u, d),
                                       seen.today)
         \/ /\ Calendar!check_absence_conversion(
                 seen.bookings[b].status, d, category, reason, Calendar!NonWorking(u, d),
                 seen.today)
            /\ category \in ALLOWANCE_CATEGORIES =>
                 Calendar!check_allowance(
                   Calendar!RemainingFor(u, d, category, {}), duration, AllowExcess,
                   Calendar!IsConfigured(u, d, category))
      /\ category = "compoff" => Calendar!available(u, seen.today) >= duration
      /\ rows = [seen.bookings EXCEPT
                   ![b] = Calendar!Converted(seen.bookings[b], category, duration, admin)]
      /\ cs \in Spent(u, duration, category, b)
  BY <1>10, <1>11 DEF ConvertAs
<1>2. CASE /\ u \in Bookers /\ d \in Day
           /\ b \in Calendar!OccupyingOn(u, d)
           /\ \A a \in Calendar!OccupyingOn(u, d) :
                seen.bookings[a].status = "unrecognised"
           /\ Calendar!check_backfill(d, category, reason, Calendar!NonWorking(u, d),
                                      seen.today)
  <2>1. Calendar!ConvertAbsence(admin, b, category, duration, FALSE)
    BY <1>1 DEF OneStep, Spent, Calendar!ConvertAbsence
  <2>2. Calendar!backfill(admin, u, d, category, duration, reason)
    BY <1>1, <1>2, <2>1 DEF Calendar!backfill
  <2> QED BY <1>1, <1>2, <2>2, SameRules DEF Calendar!Next, Calendar!AdminStep
<1>3. CASE /\ Calendar!check_absence_conversion(
                seen.bookings[b].status, d, category, reason, Calendar!NonWorking(u, d),
                seen.today)
           /\ category \in ALLOWANCE_CATEGORIES =>
                Calendar!check_allowance(
                  Calendar!RemainingFor(u, d, category, {}), duration, AllowExcess,
                  Calendar!IsConfigured(u, d, category))
  <2>1. Calendar!ConvertAbsence(admin, b, category, duration, TRUE)
    BY <1>1, <1>3, SameRules DEF OneStep, Spent, Calendar!ConvertAbsence
  <2>2. Calendar!convert_absence(admin, b, category, duration, reason)
    BY <1>1, <1>3, <2>1 DEF Calendar!convert_absence
  <2> QED BY <1>1, <2>2, SameRules DEF Calendar!Next, Calendar!AdminStep, Calendar!Booked
<1> QED BY <1>1, <1>2, <1>3

LEMMA HolidayIsAStep ==
  ASSUME NEW rows, NEW cs, NEW hs, HolidayMakes(rows, cs, hs), OneStep(rows, cs, hs)
  PROVE  Calendar!Next
<1>1. PICK admin \in Users, d \in HolidayDays, S \in SUBSET BookingId :
        /\ Calendar!IsAdmin(admin)
        /\ rows = Calendar!MoveAll(S, "released", admin)
        /\ cs = Calendar!ReleaseCredits(Calendar!CompoffRows(S))
        /\ \/ \E l \in Locations \cup {Everywhere} :
                /\ ~Calendar!clash(d, l)
                /\ hs = seen.holidays \cup {[day |-> d, location |-> l]}
                /\ S = {b \in Calendar!ConsumingOn(d) :
                          l \in {Everywhere, LocationOf[seen.bookings[b].user]}}
           \/ \E h \in seen.holidays :
                /\ \A g \in seen.holidays : g.day # d
                /\ hs = (seen.holidays \ {h}) \cup {[h EXCEPT !.day = d]}
                /\ S = Calendar!ConsumingOn(d)
  BY DEF HolidayMakes
<1>2. Calendar!release_for_holiday(admin, S)
  BY <1>1 DEF OneStep, Calendar!release_for_holiday
<1>3. ASSUME NEW l \in Locations \cup {Everywhere},
             ~Calendar!clash(d, l),
             hs = seen.holidays \cup {[day |-> d, location |-> l]},
             S = {b \in Calendar!ConsumingOn(d) :
                    l \in {Everywhere, LocationOf[seen.bookings[b].user]}}
      PROVE  Calendar!Next
  <2>1. Calendar!declare_holiday(admin, d, l)
    BY <1>1, <1>2, <1>3 DEF OneStep, Calendar!declare_holiday
  <2> QED BY <2>1 DEF Calendar!Next, Calendar!AdminStep
<1>4. ASSUME NEW h \in seen.holidays, \A g \in seen.holidays : g.day # d,
             hs = (seen.holidays \ {h}) \cup {[h EXCEPT !.day = d]},
             S = Calendar!ConsumingOn(d)
      PROVE  Calendar!Next
  <2>1. Calendar!edit_holiday(admin, h, d)
    BY <1>1, <1>2, <1>4 DEF OneStep, Calendar!edit_holiday
  <2> QED BY <2>1 DEF Calendar!Next, Calendar!AdminStep
<1> QED BY <1>1, <1>3, <1>4

LEMMA ClaimIsAStep ==
  ASSUME NEW rows, NEW cs, ClaimMakes(rows, cs), OneStep(rows, cs, seen.holidays)
  PROVE  Calendar!Next
<1>1. CASE \E u \in Bookers, d \in Day, n \in VALID_DURATIONS : Calendar!claim(u, d, n)
  BY <1>1, SameRules DEF Calendar!Next, Calendar!PersonStep
<1>2. CASE \E actor \in Users, k \in CreditId, approve \in BOOLEAN :
             Calendar!decide_claim(actor, k, approve)
  BY <1>2, SameRules DEF Calendar!Next, Calendar!DeciderStep
<1>3. ASSUME NEW u \in Bookers, NEW d \in Day, NEW n \in VALID_DURATIONS, NEW k \in CreditId,
             Calendar!check_claim(d, seen.today, Calendar!NonWorking(u, d), n),
             \A j \in Calendar!Claimed : ~ /\ seen.credits[j].user = u
                                           /\ seen.credits[j].worked_on = d
                                           /\ seen.credits[j].status \in CLAIMING_STATES,
             Calendar!IsNextRow(k, seen.credits),
             cs = [seen.credits EXCEPT ![k] = Calendar!NewClaim(u, d, n)]
      PROVE  Calendar!claim(u, d, n)
  BY <1>3, SameRules DEF OneStep, ClaimMakes, Calendar!claim
<1>4. ASSUME NEW actor \in Users, NEW k \in Calendar!Claimed, NEW approve \in BOOLEAN,
             seen.credits[k].status = "pending",
             Calendar!can_decide(Calendar!Person(actor), Calendar!Person(seen.credits[k].user)),
             cs = [seen.credits EXCEPT ![k] = Calendar!Decided(seen.credits[k], approve)]
      PROVE  Calendar!decide_claim(actor, k, approve) /\ k \in CreditId
  BY <1>4, SameRules DEF OneStep, ClaimMakes, Calendar!decide_claim, Calendar!Claimed
<1> QED BY <1>1, <1>2, <1>3, <1>4 DEF ClaimMakes, ClaimAs, DecideAs

LEMMA NightIsAStep ==
  ASSUME NEW rows, NEW cs, NightMakes(rows, cs), OneStep(rows, cs, seen.holidays)
  PROVE  Calendar!Next
<1>1. Calendar!lapse_expired \/ Calendar!sweep
  BY SameRules DEF NightMakes, OneStep, Calendar!lapse_expired, Calendar!sweep
<1> QED BY <1>1 DEF Calendar!Next

LEMMA OutcomeIsAStep ==
  ASSUME NEW rows, NEW cs, NEW hs, Outcome(rows, cs, hs), OneStep(rows, cs, hs)
  PROVE  Calendar!Next \/ UNCHANGED <<seen.today, seen.bookings, seen.credits, seen.holidays>>
<1>1. CASE HolidayMakes(rows, cs, hs)
  BY <1>1, HolidayIsAStep
<1>2. CASE rows = seen.bookings /\ cs = seen.credits /\ hs = seen.holidays
  BY <1>2 DEF OneStep
<1>3. CASE hs = seen.holidays /\ ~(rows = seen.bookings /\ cs = seen.credits)
           /\ ~HolidayMakes(rows, cs, hs)
  <2>1. OneStep(rows, cs, seen.holidays)
    BY <1>3
  <2>2. \/ CreateMakes(rows, cs) \/ EndMakes(rows, cs) \/ ApproveMakes(rows, cs)
        \/ FlagMakes(rows, cs) \/ BackfillMakes(rows, cs) \/ ConvertMakes(rows, cs)
        \/ ClaimMakes(rows, cs) \/ NightMakes(rows, cs)
    BY <1>3 DEF Outcome
  <2>3. CASE CreateMakes(rows, cs)
    BY <2>1, <2>3, CreateIsAStep DEF Calendar!Next
  <2> QED
    BY <2>1, <2>2, <2>3, EndIsAStep, ApprovalIsAStep, FlagIsAStep, BackfillIsAStep,
       ConversionIsAStep, ClaimIsAStep, NightIsAStep
<1> QED BY <1>1, <1>2, <1>3 DEF Outcome

-----------------------------------------------------------------------------
(* Lists of calls on the way to tables                                      *)

RestOf(s) == IF Len(Head(s)) = 1 THEN Tail(s) ELSE [s EXCEPT ![1] = Tail(@)]

Has(s, c) == \E i \in DOMAIN s : \E j \in DOMAIN s[i] : s[i][j] = c

LEMMA HasRest ==
  ASSUME NEW A, NEW s \in Seq(Seq(A) \ {<<>>}), s # <<>>
  PROVE  /\ RestOf(s) \in Seq(Seq(A) \ {<<>>})
         /\ Has(s, Head(Head(s)))
         /\ \A c : Has(s, c) => c = Head(Head(s)) \/ Has(RestOf(s), c)
         /\ \A c : Has(RestOf(s), c) => Has(s, c)
         /\ \A c : Has(s, c) => c \in A
<1>1. RestOf(s) \in Seq(Seq(A) \ {<<>>})
  BY CallsLeft DEF RestOf
<1>2. /\ Len(s) \in Nat \ {0} /\ DOMAIN s = 1 .. Len(s) /\ Head(s) = s[1]
      /\ \A i \in 1 .. Len(s) : s[i] \in Seq(A) \ {<<>>}
  <2>1. Len(s) \in Nat /\ DOMAIN s = 1 .. Len(s)
    OBVIOUS
  <2>2. Len(s) # 0
    BY EmptySeq
  <2> QED BY <2>1, <2>2
<1>3. PICK h \in Seq(A) \ {<<>>} : h = Head(s)
  BY <1>2
<1>4. /\ Len(h) \in Nat \ {0} /\ DOMAIN h = 1 .. Len(h) /\ Head(h) = h[1]
      /\ \A j \in 1 .. Len(h) : h[j] \in A
  <2>1. Len(h) \in Nat /\ DOMAIN h = 1 .. Len(h)
    OBVIOUS
  <2>2. Len(h) # 0
    BY EmptySeq
  <2> QED BY <2>1, <2>2
<1>5. Has(s, Head(h))
  BY <1>2, <1>3, <1>4 DEF Has
<1>6. \A c : Has(s, c) => c \in A
  <2> SUFFICES ASSUME NEW i \in DOMAIN s, NEW j \in DOMAIN s[i] PROVE s[i][j] \in A
    BY DEF Has
  <2>1. s[i] \in Seq(A)
    BY <1>2
  <2> QED BY <2>1
<1>7. CASE Len(h) = 1
  <2>1. RestOf(s) = Tail(s)
    BY <1>3, <1>7 DEF RestOf
  <2>2. /\ Len(Tail(s)) = Len(s) - 1 /\ Tail(s) \in Seq(Seq(A) \ {<<>>})
        /\ \A i \in 1 .. Len(s) - 1 : Tail(s)[i] = s[i + 1]
    BY <1>2, HeadTailProperties
  <2>3. DOMAIN Tail(s) = 1 .. Len(s) - 1
    BY <2>2
  <2>4. ASSUME NEW i \in DOMAIN s, NEW j \in DOMAIN s[i]
        PROVE  s[i][j] = Head(h) \/ Has(Tail(s), s[i][j])
    <3>1. CASE i = 1
      BY <1>2, <1>3, <1>4, <1>7, <3>1
    <3>2. CASE i # 1
      <4>1. i - 1 \in DOMAIN Tail(s) /\ Tail(s)[i - 1] = s[i]
        BY <1>2, <2>2, <2>3, <3>2
      <4> QED BY <4>1 DEF Has
    <3> QED BY <3>1, <3>2
  <2>5. ASSUME NEW i \in DOMAIN Tail(s), NEW j \in DOMAIN Tail(s)[i]
        PROVE  Has(s, Tail(s)[i][j])
    <3>1. PICK x : x = Tail(s)[i]
      OBVIOUS
    <3>2. i + 1 \in DOMAIN s /\ s[i + 1] = x
      BY <1>2, <2>2, <2>3, <3>1
    <3>3. j \in DOMAIN s[i + 1] /\ s[i + 1][j] = x[j]
      BY <3>1, <3>2
    <3>4. Has(s, x[j])
      BY <3>2, <3>3 DEF Has
    <3>5. x[j] = Tail(s)[i][j]
      BY <3>1
    <3> HIDE DEF Has
    <3> QED BY <3>4, <3>5
  <2>6. PICK t : t = Tail(s)
    OBVIOUS
  <2>7. \A i \in DOMAIN t : \A j \in DOMAIN t[i] : Has(s, t[i][j])
    BY <2>5, <2>6
  <2>8. \A i \in DOMAIN s : \A j \in DOMAIN s[i] : s[i][j] = Head(h) \/ Has(t, s[i][j])
    BY <2>4, <2>6
  <2>9. \A c : Has(t, c) => Has(s, c)
    BY <2>7 DEF Has
  <2>10. \A c : Has(s, c) => c = Head(h) \/ Has(t, c)
    BY <2>8 DEF Has
  <2> QED BY <1>1, <1>3, <1>5, <1>6, <2>1, <2>6, <2>9, <2>10
<1>8. CASE Len(h) # 1
  <2>1. RestOf(s) = [s EXCEPT ![1] = Tail(h)]
    BY <1>2, <1>3, <1>8 DEF RestOf
  <2>2. /\ Len(Tail(h)) = Len(h) - 1 /\ Tail(h) \in Seq(A)
        /\ \A j \in 1 .. Len(h) - 1 : Tail(h)[j] = h[j + 1]
    BY <1>4, HeadTailProperties
  <2>3. DOMAIN Tail(h) = 1 .. Len(h) - 1
    BY <2>2
  <2>4. PICK t : t = [s EXCEPT ![1] = Tail(h)]
    OBVIOUS
  <2>5. /\ DOMAIN t = DOMAIN s /\ t[1] = Tail(h)
        /\ \A i \in DOMAIN s \ {1} : t[i] = s[i]
    BY <1>2, <2>4
  <2>6. ASSUME NEW i \in DOMAIN s, NEW j \in DOMAIN s[i]
        PROVE  s[i][j] = Head(h) \/ Has(t, s[i][j])
    <3>1. CASE i = 1 /\ j = 1
      BY <1>2, <1>3, <1>4, <3>1
    <3>2. CASE i = 1 /\ j # 1
      <4>1. j - 1 \in DOMAIN t[1] /\ t[1][j - 1] = h[j]
        BY <1>2, <1>3, <1>4, <2>2, <2>3, <2>5, <3>2
      <4> QED BY <1>2, <1>3, <2>5, <3>2, <4>1 DEF Has
    <3>3. CASE i # 1
      BY <2>5, <3>3 DEF Has
    <3> QED BY <3>1, <3>2, <3>3
  <2>7. ASSUME NEW i \in DOMAIN t, NEW j \in DOMAIN t[i]
        PROVE  Has(s, t[i][j])
    <3>1. CASE i = 1
      <4>1. j \in 1 .. Len(h) - 1 /\ t[i][j] = h[j + 1]
        BY <2>2, <2>3, <2>5, <3>1
      <4>2. j + 1 \in 1 .. Len(h) /\ s[1] = h
        BY <1>2, <1>3, <1>4, <4>1
      <4>3. j + 1 \in DOMAIN s[1] /\ s[1][j + 1] = t[i][j] /\ 1 \in DOMAIN s
        BY <1>2, <1>4, <4>1, <4>2
      <4> QED BY <4>3 DEF Has
    <3>2. CASE i # 1
      BY <2>5, <3>2 DEF Has
    <3> QED BY <3>1, <3>2
  <2>8. RestOf(s) = t
    BY <2>1, <2>4
  <2> QED BY <1>1, <1>3, <1>5, <1>6, <2>6, <2>7, <2>8 DEF Has
<1> QED BY <1>7, <1>8

LEMMA HasConcat ==
  ASSUME NEW D, NEW s \in Seq(D), NEW t \in Seq(D)
  PROVE  \A c : Has(s \o t, c) <=> Has(s, c) \/ Has(t, c)
<1>1. /\ s \o t \in Seq(D) /\ Len(s \o t) = Len(s) + Len(t)
      /\ \A i \in 1 .. Len(s) + Len(t) :
           (s \o t)[i] = IF i <= Len(s) THEN s[i] ELSE t[i - Len(s)]
  BY ConcatProperties
<1>2. /\ Len(s) \in Nat /\ Len(t) \in Nat /\ DOMAIN s = 1 .. Len(s) /\ DOMAIN t = 1 .. Len(t)
  OBVIOUS
<1>3. PICK u : u = s \o t
  OBVIOUS
<1>4. /\ DOMAIN u = 1 .. Len(s) + Len(t)
      /\ \A i \in DOMAIN s : i \in DOMAIN u /\ u[i] = s[i]
      /\ \A i \in DOMAIN t : Len(s) + i \in DOMAIN u /\ u[Len(s) + i] = t[i]
      /\ \A i \in DOMAIN u : \/ i \in DOMAIN s /\ u[i] = s[i]
                             \/ i - Len(s) \in DOMAIN t /\ u[i] = t[i - Len(s)]
  <2>1. DOMAIN u = 1 .. Len(s) + Len(t)
    BY <1>1, <1>2, <1>3
  <2> QED BY <1>1, <1>2, <1>3, <2>1
<1>5. ASSUME NEW c, Has(s, c) PROVE Has(u, c)
  BY <1>4, <1>5 DEF Has
<1>6. ASSUME NEW c, Has(t, c) PROVE Has(u, c)
  BY <1>4, <1>6 DEF Has
<1>7. ASSUME NEW c, Has(u, c) PROVE Has(s, c) \/ Has(t, c)
  <2>1. PICK i \in DOMAIN u : \E j \in DOMAIN u[i] : u[i][j] = c
    BY <1>7 DEF Has
  <2> QED BY <1>4, <2>1 DEF Has
<1> QED BY <1>3, <1>5, <1>6, <1>7

LEMMA FrontGoesFirst ==
  ASSUME NEW D, NEW s \in Seq(D), NEW t \in Seq(D), s # <<>>
  PROVE  /\ s \o t # <<>>
         /\ Head(s \o t) = Head(s)
         /\ Tail(s \o t) = Tail(s) \o t
         /\ \A x \in D : [s \o t EXCEPT ![1] = x] = [s EXCEPT ![1] = x] \o t
<1>1. /\ s \o t \in Seq(D) /\ Len(s \o t) = Len(s) + Len(t)
      /\ \A i \in 1 .. Len(s) + Len(t) :
           (s \o t)[i] = IF i <= Len(s) THEN s[i] ELSE t[i - Len(s)]
  BY ConcatProperties
<1>2. Len(s) \in Nat \ {0} /\ Len(t) \in Nat
  BY EmptySeq
<1>3. s \o t # <<>>
  BY <1>1, <1>2, EmptySeq
<1>4. Head(s \o t) = Head(s)
  BY <1>1, <1>2
<1>5. /\ Tail(s) \in Seq(D) /\ Len(Tail(s)) = Len(s) - 1
      /\ \A i \in 1 .. Len(s) - 1 : Tail(s)[i] = s[i + 1]
  BY HeadTailProperties
<1>6. /\ Tail(s \o t) \in Seq(D) /\ Len(Tail(s \o t)) = Len(s) + Len(t) - 1
      /\ \A i \in 1 .. Len(s) + Len(t) - 1 : Tail(s \o t)[i] = (s \o t)[i + 1]
  BY <1>1, <1>3, HeadTailProperties
<1>7. /\ Tail(s) \o t \in Seq(D) /\ Len(Tail(s) \o t) = Len(s) + Len(t) - 1
      /\ \A i \in 1 .. Len(s) + Len(t) - 1 :
           (Tail(s) \o t)[i] = IF i <= Len(s) - 1 THEN Tail(s)[i] ELSE t[i - (Len(s) - 1)]
  <2>1. PICK u \in Seq(D) : u = Tail(s) /\ Len(u) = Len(s) - 1
    BY <1>5
  <2>2. /\ u \o t \in Seq(D) /\ Len(u \o t) = Len(u) + Len(t)
        /\ \A i \in 1 .. Len(u) + Len(t) : (u \o t)[i] = IF i <= Len(u) THEN u[i] ELSE t[i - Len(u)]
    BY ConcatProperties
  <2>3. Len(u) + Len(t) = Len(s) + Len(t) - 1
    BY <1>2, <2>1
  <2> QED BY <2>1, <2>2, <2>3
<1>8. Tail(s \o t) = Tail(s) \o t
  <2>1. PICK m : m = Len(s) + Len(t) - 1
    OBVIOUS
  <2>2. ASSUME NEW i \in 1 .. m PROVE Tail(s \o t)[i] = (Tail(s) \o t)[i]
    <3>1. i + 1 \in 1 .. Len(s) + Len(t)
      BY <1>2, <2>1
    <3>2. Tail(s \o t)[i] = IF i + 1 <= Len(s) THEN s[i + 1] ELSE t[i + 1 - Len(s)]
      BY <1>1, <1>6, <2>1, <3>1
    <3>3. i + 1 - Len(s) = i - (Len(s) - 1) /\ (i + 1 <= Len(s) <=> i <= Len(s) - 1)
      BY <1>2
    <3> QED BY <1>2, <1>5, <1>7, <2>1, <3>2, <3>3
  <2>3. PICK u \in Seq(D), v \in Seq(D) : u = Tail(s \o t) /\ v = Tail(s) \o t
    BY <1>6, <1>7
  <2>4. Len(u) = m /\ Len(v) = m /\ \A i \in 1 .. m : u[i] = v[i]
    BY <1>6, <1>7, <2>1, <2>2, <2>3
  <2>5. u = v
    BY <2>4
  <2> QED BY <2>3, <2>5
<1>9. ASSUME NEW x \in D PROVE [s \o t EXCEPT ![1] = x] = [s EXCEPT ![1] = x] \o t
  <2>0. PICK v : v = [s EXCEPT ![1] = x]
    OBVIOUS
  <2>1. v \in Seq(D) /\ v = [s EXCEPT ![1] = x] /\ Len(v) = Len(s)
    BY <2>0
  <2>2. \A i \in 1 .. Len(s) : v[i] = IF i = 1 THEN x ELSE s[i]
    BY <1>2, <2>1
  <2>3. /\ v \o t \in Seq(D) /\ Len(v \o t) = Len(v) + Len(t)
        /\ \A i \in 1 .. Len(v) + Len(t) : (v \o t)[i] = IF i <= Len(v) THEN v[i] ELSE t[i - Len(v)]
    BY <2>1, ConcatProperties
  <2>4. PICK u \in Seq(D) : u = s \o t
    BY <1>1
  <2>50. PICK w : w = [u EXCEPT ![1] = x]
    OBVIOUS
  <2>5. w \in Seq(D) /\ w = [u EXCEPT ![1] = x] /\ Len(w) = Len(u)
    BY <2>4, <2>50
  <2>6. \A i \in 1 .. Len(u) : w[i] = IF i = 1 THEN x ELSE u[i]
    BY <2>5
  <2>7. PICK q \in Seq(D) : q = v \o t
    BY <2>3
  <2>8. Len(w) = Len(q) /\ \A i \in 1 .. Len(q) : w[i] = q[i]
    BY <1>1, <1>2, <2>1, <2>2, <2>3, <2>4, <2>5, <2>6, <2>7
  <2>9. w = q
    BY <2>5, <2>7, <2>8, SeqEqual
  <2> QED BY <2>1, <2>4, <2>5, <2>7, <2>9
<1> QED BY <1>3, <1>4, <1>8, <1>9

LEMMA RestOfFront ==
  ASSUME NEW A, NEW s \in Seq(Seq(A) \ {<<>>}), NEW E, NEW t \in Seq(E), s # <<>>
  PROVE  /\ s \o t # <<>>
         /\ Head(Head(s \o t)) = Head(Head(s))
         /\ RestOf(s \o t) = RestOf(s) \o t
<1>1. PICK B : B = Seq(A) \ {<<>>}
  OBVIOUS
<1>2. PICK D : D = B \cup E
  OBVIOUS
<1>3. s \in Seq(D) /\ t \in Seq(D)
  <2>1. B \subseteq D /\ E \subseteq D /\ s \in Seq(B)
    BY <1>1, <1>2
  <2> QED BY <2>1, SeqMonotonic
<1>4. /\ s \o t # <<>> /\ Head(s \o t) = Head(s) /\ Tail(s \o t) = Tail(s) \o t
      /\ \A x \in D : [s \o t EXCEPT ![1] = x] = [s EXCEPT ![1] = x] \o t
  BY <1>3, FrontGoesFirst
<1>5. PICK h \in B : h = Head(s)
  <2>1. Len(s) \in Nat \ {0}
    BY EmptySeq
  <2> QED BY <1>1, <2>1
<1>6. Head(s) = s[1] /\ (s \o t)[1] = h /\ Head(s \o t) = (s \o t)[1]
  <2>1. s \o t \in Seq(D)
    BY <1>3, ConcatProperties
  <2>2. PICK u \in Seq(D) : u = s \o t
    BY <2>1
  <2>3. Len(u) # 0 /\ Len(s) # 0
    BY <1>4, <2>2, EmptySeq
  <2>4. Head(u) = u[1] /\ Head(s) = s[1]
    BY <2>3
  <2> QED BY <1>4, <1>5, <2>2, <2>4
<1>7. CASE Len(h) = 1
  BY <1>4, <1>5, <1>6, <1>7 DEF RestOf
<1>8. CASE Len(h) # 1
  <2>1. Len(h) \in Nat \ {0} /\ Tail(h) \in Seq(A) /\ Len(Tail(h)) = Len(h) - 1
    BY <1>1, <1>5, EmptySeq, HeadTailProperties
  <2>2. Len(Tail(h)) # 0
    BY <1>8, <2>1
  <2>3. PICK x \in D : x = Tail(h)
    BY <1>1, <1>2, <2>1, <2>2, EmptySeq
  <2>4. RestOf(s \o t) = [s \o t EXCEPT ![1] = x] /\ RestOf(s) = [s EXCEPT ![1] = x]
    BY <1>4, <1>5, <1>6, <1>8, <2>3 DEF RestOf
  <2> QED BY <1>4, <2>4
<1> QED BY <1>4, <1>7, <1>8

-----------------------------------------------------------------------------
(* What a handler still has to do to the tables                             *)

(* The calls that move rows and credits to where the handler wants them.    *)
MovingCalls ==
  [call : {"update_booking"}, id : BookingId, set : BookingChanges]
    \cup [call : {"release_for_booking"}, id : BookingId]
    \cup [call : {"update_compoff_credit"}, id : CreditId, set : CreditChanges]

Moves == Seq(Seq(MovingCalls) \ {<<>>})

Spends(cs, k, b) == cs[k] # NoRow /\ cs[k].status = "used" /\ cs[k].booking = b

(* A call brings its row from where it is, in rows0 and cs0, to where it is *)
(* to be, and no unique index stands against it.                            *)
Fits(c, rows0, cs0, rows, cs) ==
  \/ /\ c.call = "update_booking"
     /\ rows0[c.id] # NoRow /\ rows[c.id] # NoRow
     /\ rows[c.id] = Updated(rows0[c.id], c.set)
     /\ rows[c.id].status \in OCCUPYING_STATES => rows0[c.id].status \in OCCUPYING_STATES
  \/ /\ c.call = "release_for_booking"
     /\ \A k \in CreditId : Spends(cs0, k, c.id) => cs[k] = Returned(cs0[k])
     /\ \A k \in CreditId : ~Spends(cs, k, c.id)
  \/ /\ c.call = "update_compoff_credit"
     /\ cs0[c.id] # NoRow /\ cs[c.id] # NoRow
     /\ cs[c.id] = Updated(cs0[c.id], c.set)
     /\ cs[c.id].status \in CLAIMING_STATES => cs0[c.id].status \in CLAIMING_STATES

(* Every call fits, and every row that is not there yet has its call.       *)
Toward(s, rows0, cs0, rows, cs) ==
  /\ rows = [b \in BookingId |-> rows[b]] /\ cs = [k \in CreditId |-> cs[k]]
  /\ \A c : Has(s, c) => Fits(c, rows0, cs0, rows, cs)
  /\ \A b \in BookingId : rows0[b] = rows[b] \/ \E set : Has(s, Update(b, set))
  /\ \A k \in CreditId :
       \/ cs0[k] = cs[k]
       \/ \E set : Has(s, UpdateCredit(k, set))
       \/ \E b : Has(s, ReleaseFor(b)) /\ Spends(cs0, k, b)

(* Done, or the credits are still to be spent.                              *)
Pays(back, r, rows, cs, hs) ==
  \/ back = <<>> /\ Outcome(rows, cs, hs)
  \/ \E b \in BookingId :
       /\ back = <<<<Consume(b)>>>>
       /\ \A spent \in ConsumeCredits(cs, r.user, r.duration, b, r.on) :
            Outcome(rows, spent, hs)

Enters(row, r, rows, cs, hs) ==
  /\ \A b \in RowsIn(rows) : ~ /\ rows[b].user = row.user
                               /\ rows[b].day = row.day
                               /\ rows[b].status \in OCCUPYING_STATES
  /\ row.status = "unrecognised" => row.category = NO_CATEGORY
  /\ \A n \in BookingId :
       IsNextRow(n, rows) =>
         Pays(ThenConsume(n, row.category), r, [rows EXCEPT ![n] = row], cs, hs)

Settles(b, set, rest, r, rows, cs, hs) ==
  /\ rows[b].status = "unrecognised"
  /\ Updated(rows[b], set).status # "unrecognised"
  /\ Pays(rest, r, [rows EXCEPT ![b] = Updated(rows[b], set)], cs, hs)

MovedIn(rows, S, status, who) ==
  [b \in BookingId |-> IF b \in S THEN Moved(rows[b], status, who) ELSE rows[b]]

FreedIn(rows, cs, S) ==
  [k \in CreditId |->
     IF \E b \in S : rows[b].category = "compoff" /\ Spends(cs, k, b)
     THEN Returned(cs[k]) ELSE cs[k]]

Affected(rows, d, l) ==
  {b \in RowsIn(rows) : /\ rows[b].day = d /\ rows[b].status \in CONSUMING_STATES
                        /\ l \in {Everywhere, LocationOf[rows[b].user]}}

Releases(d, l, r, rows, cs, hs) ==
  Outcome(MovedIn(rows, Affected(rows, d, l), "released", r.actor),
          FreedIn(rows, cs, Affected(rows, d, l)), hs)

ClaimedIn(cs, row) ==
  \E j \in RowsOf(cs) : /\ cs[j].user = row.user
                        /\ cs[j].worked_on = row.worked_on
                        /\ cs[j].status \in CLAIMING_STATES

Claims(row, rows, cs, hs) ==
  /\ row.status = "pending"
  /\ \A n \in CreditId :
       IsNextRow(n, cs) =>
         Outcome(rows, IF ClaimedIn(cs, row) THEN cs ELSE [cs EXCEPT ![n] = row], hs)

(* What is left once the rows are where they are to be.                     *)
Inserts(back, r, rows, cs, hs) ==
  \E row \in Booking : back = <<<<Insert(row)>>>> /\ Enters(row, r, rows, cs, hs)
UpdatesIf(back, r, rows, cs, hs) ==
  \E b \in BookingId, set \in AbsenceChanges : \E rest :
    back = <<<<UpdateIf(b, set)>>>> \o rest /\ Settles(b, set, rest, r, rows, cs, hs)
ReleasesOn(back, r, rows, cs, hs) ==
  \E d, l : back = <<<<ReleaseOn(d, l)>>>> /\ Releases(d, l, r, rows, cs, hs)
WritesHoliday(back, r, rows, cs, hs) ==
  \E old, new, d, l, hs1 :
    /\ back = <<<<WriteHoliday(old, new), ReleaseOn(d, l)>>>>
    /\ hs1 = (hs \ old) \cup {new}
    /\ Releases(d, l, r, rows, cs, hs1)
InsertsCredit(back, r, rows, cs, hs) ==
  \E row \in Credit : back = <<<<InsertCredit(row)>>>> /\ Claims(row, rows, cs, hs)

Arrives(back, r, rows, cs, hs) ==
  \/ Pays(back, r, rows, cs, hs)
  \/ Inserts(back, r, rows, cs, hs)
  \/ UpdatesIf(back, r, rows, cs, hs)
  \/ ReleasesOn(back, r, rows, cs, hs)
  \/ WritesHoliday(back, r, rows, cs, hs)
  \/ InsertsCredit(back, r, rows, cs, hs)

Stands(front, back, rows, cs, s, r, rows0, cs0, hs) ==
  /\ (\E E : back \in Seq(E)) /\ s = front \o back
  /\ Toward(front, rows0, cs0, rows, cs)
  /\ Arrives(back, r, rows, cs, hs)

KeepsIn(s, r, rows0, cs0, hs) ==
  \E front \in Moves : \E back, rows, cs : Stands(front, back, rows, cs, s, r, rows0, cs0, hs)

(* What a handler that has checks to make found, in the tables as seen.     *)
AsksLeave(r) ==
  /\ r.user \in Bookers /\ r.category \in Offered /\ r.actor = r.user
  /\ r.old = Calendar!OccupyingOn(r.user, r.day)
  /\ Calendar!Replaceable(r.old, r.day, r.on)
  /\ r.step = "afford" => ~Calendar!NonWorking(r.user, r.day)

AsksBackfill(r) ==
  /\ r.user \in Bookers /\ r.category \in Offered /\ IsAdmin(r.actor)
  /\ check_backfill(r.day, r.category, r.reason, Calendar!NonWorking(r.user, r.day), r.on)
  /\ r.step = "afford" =>
       /\ r.old = Calendar!OccupyingOn(r.user, r.day) /\ r.category = "compoff"
       /\ \A b \in r.old : seen.bookings[b].status = "unrecognised"

AsksConversion(r) ==
  /\ r.category \in Offered /\ IsAdmin(r.actor)
  /\ \E b \in Calendar!Booked :
       /\ r.old = {b} /\ seen.bookings[b].status = "unrecognised"
       /\ r.user = seen.bookings[b].user /\ r.day = seen.bookings[b].day
  /\ r.step = "afford" =>
       check_backfill(r.day, r.category, r.reason, Calendar!NonWorking(r.user, r.day), r.on)

Asks(r) ==
  \/ r.op = "create_or_replace" /\ r.step \in {"holiday", "afford"} /\ AsksLeave(r)
  \/ r.op = "backfill" /\ r.step \in {"find", "afford"} /\ AsksBackfill(r)
  \/ r.op = "convert" /\ r.step \in {"holiday", "afford"} /\ AsksConversion(r)

Left(r, rows, cs, hs) ==
  IF r = NoRequest THEN Outcome(rows, cs, hs)
  ELSE IF r.step = "calls" THEN KeepsIn(r.calls, r, rows, cs, hs)
  ELSE rows = seen.bookings /\ cs = seen.credits /\ hs = seen.holidays /\ Asks(r)

-----------------------------------------------------------------------------
(* What was seen, while it stays so                                         *)

LEMMA SeenReads ==
  ASSUME seen' = seen
  PROVE  /\ Calendar!Booked' = Calendar!Booked /\ Calendar!Claimed' = Calendar!Claimed
         /\ \A u, d : Calendar!OccupyingOn(u, d)' = Calendar!OccupyingOn(u, d)
         /\ \A b : Calendar!Consuming(b)' = Calendar!Consuming(b)
         /\ \A S : Calendar!CompoffRows(S)' = Calendar!CompoffRows(S)
         /\ \A S : Calendar!ReleaseCredits(S)' = Calendar!ReleaseCredits(S)
         /\ \A S, status, who : Calendar!MoveAll(S, status, who)' = Calendar!MoveAll(S, status, who)
         /\ \A u, d : Calendar!NonWorking(u, d)' = Calendar!NonWorking(u, d)
         /\ \A old, d, on : Calendar!Replaceable(old, d, on)' = Calendar!Replaceable(old, d, on)
         /\ \A d : Calendar!ConsumingOn(d)' = Calendar!ConsumingOn(d)
         /\ \A d, l : Calendar!clash(d, l)' = Calendar!clash(d, l)
         /\ Calendar!Expired' = Calendar!Expired
         /\ \A d : Calendar!PendingBefore(d)' = Calendar!PendingBefore(d)
         /\ \A u, on : Calendar!available(u, on)' = Calendar!available(u, on)
<1> USE DEF Calendar!Booked, Calendar!Claimed
<1>1. Calendar!Booked' = Calendar!Booked /\ Calendar!Claimed' = Calendar!Claimed OBVIOUS
<1>2. ASSUME NEW u, NEW d PROVE Calendar!OccupyingOn(u, d)' = Calendar!OccupyingOn(u, d)
  BY DEF Calendar!OccupyingOn
<1>3. ASSUME NEW b PROVE Calendar!Consuming(b)' = Calendar!Consuming(b)
  BY DEF Calendar!Consuming
<1>4. ASSUME NEW S PROVE Calendar!CompoffRows(S)' = Calendar!CompoffRows(S)
  BY DEF Calendar!CompoffRows
<1>5. ASSUME NEW S PROVE Calendar!ReleaseCredits(S)' = Calendar!ReleaseCredits(S)
  BY DEF Calendar!ReleaseCredits, Calendar!UsedBy
<1>6. ASSUME NEW S, NEW status, NEW who
      PROVE  Calendar!MoveAll(S, status, who)' = Calendar!MoveAll(S, status, who)
  BY DEF Calendar!MoveAll
<1>7. ASSUME NEW u, NEW d PROVE Calendar!NonWorking(u, d)' = Calendar!NonWorking(u, d)
  BY DEF Calendar!NonWorking, Calendar!HolidayFor
<1>8. ASSUME NEW old, NEW d, NEW on
      PROVE  Calendar!Replaceable(old, d, on)' = Calendar!Replaceable(old, d, on)
  BY DEF Calendar!Replaceable
<1>9. ASSUME NEW d PROVE Calendar!ConsumingOn(d)' = Calendar!ConsumingOn(d)
  BY DEF Calendar!ConsumingOn, Calendar!Consuming
<1>10. ASSUME NEW d, NEW l PROVE Calendar!clash(d, l)' = Calendar!clash(d, l)
  BY DEF Calendar!clash
<1>11. Calendar!Expired' = Calendar!Expired
  BY DEF Calendar!Expired
<1>12. ASSUME NEW d PROVE Calendar!PendingBefore(d)' = Calendar!PendingBefore(d)
  BY DEF Calendar!PendingBefore
<1>13. ASSUME NEW u, NEW on PROVE Calendar!available(u, on)' = Calendar!available(u, on)
  BY DEF Calendar!available
<1> QED
  BY <1>1, <1>2, <1>3, <1>4, <1>5, <1>6, <1>7, <1>8, <1>9, <1>10, <1>11, <1>12, <1>13

LEMMA SeenTests ==
  ASSUME seen' = seen
  PROVE  /\ \A u, d, category, old :
              Calendar!RemainingFor(u, d, category, old)' = Calendar!RemainingFor(u, d, category, old)
         /\ \A u, d, category, duration, reason, old, off, on :
              Calendar!AcceptsBooking(u, d, category, duration, reason, old, off, on)'
                <=> Calendar!AcceptsBooking(u, d, category, duration, reason, old, off, on)
<1>1. \A old, category : Calendar!GivenBack(old, category)' = Calendar!GivenBack(old, category)
  <2>1. \A old, category :
          Calendar!GivenBack(old, category) = DaysIn(seen.bookings, old, category)
    BY DEF Calendar!GivenBack, DaysIn, Calendar!MapThenSumSet, MapThenSumSet,
           MapThenFoldSet,
      Calendar!MapThenFoldSet
  <2>2. \A old, category :
          Calendar!GivenBack(old, category)' = DaysIn(seen'.bookings, old, category)
    BY DEF Calendar!GivenBack, DaysIn, Calendar!MapThenSumSet, MapThenSumSet,
           MapThenFoldSet,
      Calendar!MapThenFoldSet
  <2> QED BY <2>1, <2>2
<1>2. \A u : Calendar!ConsumptionFor(u)' = Calendar!ConsumptionFor(u)
  BY SeenReads DEF Calendar!ConsumptionFor
<1>3. \A u, period, category :
        Calendar!BalanceOf(u, period, category)' = Calendar!BalanceOf(u, period, category)
  BY <1>2 DEF Calendar!BalanceOf
<1>4. \A u, d, category, old :
        Calendar!RemainingFor(u, d, category, old)' = Calendar!RemainingFor(u, d, category, old)
  BY <1>1, <1>3 DEF Calendar!RemainingFor
<1>5. \A u, d, category, duration, old, on :
        Calendar!Affordable(u, d, category, duration, old, on)'
          <=> Calendar!Affordable(u, d, category, duration, old, on)
  BY <1>1, <1>4, SeenReads DEF Calendar!Affordable
<1>6. \A u, d, category, duration, reason, old, off, on :
        Calendar!AcceptsBooking(u, d, category, duration, reason, old, off, on)'
          <=> Calendar!AcceptsBooking(u, d, category, duration, reason, old, off, on)
  BY <1>4, <1>5 DEF Calendar!AcceptsBooking
<1> QED BY <1>4, <1>6

LEMMA SeenOutcome ==
  ASSUME seen' = seen
  PROVE  \A rows, cs, hs : Outcome(rows, cs, hs)' <=> Outcome(rows, cs, hs)
<1> USE SeenReads, SeenTests
<1>1. \A rows, cs : CreateMakes(rows, cs)' <=> CreateMakes(rows, cs)
  <2>1. \A u, d, category, duration, reason, n, rows, cs :
          CreateAs(u, d, category, duration, reason, n, rows, cs)'
            <=> CreateAs(u, d, category, duration, reason, n, rows, cs)
    <3> SUFFICES ASSUME NEW u, NEW d, NEW category, NEW duration, NEW reason, NEW n,
                        NEW rows, NEW cs
                 PROVE  CreateAs(u, d, category, duration, reason, n, rows, cs)'
                          <=> CreateAs(u, d, category, duration, reason, n, rows, cs)
      OBVIOUS
    <3>1. PICK old, off, on :
            old = Calendar!OccupyingOn(u, d) /\ off = Calendar!NonWorking(u, d) /\ on = seen.today
      OBVIOUS
    <3>2. /\ old = Calendar!OccupyingOn(u, d)' /\ on = seen'.today
          /\ off = Calendar!NonWorking(u, d)'
      BY <3>1
    <3>3. PICK freed : freed = Calendar!ReleaseCredits(Calendar!CompoffRows(old))
      OBVIOUS
    <3>4. (Calendar!ReleaseCredits(Calendar!CompoffRows(old)))' = freed
      BY <3>3
    <3> QED BY <3>1, <3>2, <3>3, <3>4 DEF CreateAs
  <2> QED BY <2>1 DEF CreateMakes
<1>2. \A rows, cs : EndMakes(rows, cs)' <=> EndMakes(rows, cs)
  <2>1. \A b, actor, target, rows, cs :
          EndAs(b, actor, target, rows, cs)' <=> EndAs(b, actor, target, rows, cs)
    BY DEF EndAs
  <2> QED BY <2>1 DEF EndMakes
<1>3. \A rows, cs : ApproveMakes(rows, cs)' <=> ApproveMakes(rows, cs)
  <2>1. \A actor, b, rows, cs :
          ApproveAs(actor, b, rows, cs)' <=> ApproveAs(actor, b, rows, cs)
    BY DEF ApproveAs
  <2> QED BY <2>1 DEF ApproveMakes
<1>4. \A rows, cs : FlagMakes(rows, cs)' <=> FlagMakes(rows, cs)
  BY DEF FlagMakes
<1>5. \A rows, cs : BackfillMakes(rows, cs)' <=> BackfillMakes(rows, cs)
  <2>1. \A admin, u, d, category, duration, reason, n, rows, cs :
          BackfillAs(admin, u, d, category, duration, reason, n, rows, cs)'
            <=> BackfillAs(admin, u, d, category, duration, reason, n, rows, cs)
    <3> SUFFICES ASSUME NEW admin, NEW u, NEW d, NEW category, NEW duration, NEW reason, NEW n,
                        NEW rows, NEW cs
                 PROVE  BackfillAs(admin, u, d, category, duration, reason, n, rows, cs)'
                          <=> BackfillAs(admin, u, d, category, duration, reason, n, rows, cs)
      OBVIOUS
    <3>1. PICK off : off = Calendar!NonWorking(u, d)
      OBVIOUS
    <3>2. off = Calendar!NonWorking(u, d)'
      BY <3>1
    <3> QED BY <3>1, <3>2 DEF BackfillAs, Spent
  <2> QED BY <2>1 DEF BackfillMakes
<1>6. \A rows, cs : ConvertMakes(rows, cs)' <=> ConvertMakes(rows, cs)
  BY DEF ConvertMakes, ConvertAs, Spent
<1>7. \A rows, cs : ClaimMakes(rows, cs)' <=> ClaimMakes(rows, cs)
  <2>1. \A u, d, n, k, cs : ClaimAs(u, d, n, k, cs)' <=> ClaimAs(u, d, n, k, cs)
    BY DEF ClaimAs
  <2>2. \A actor, k, approve, cs :
          DecideAs(actor, k, approve, cs)' <=> DecideAs(actor, k, approve, cs)
    BY DEF DecideAs, Calendar!Decided
  <2> QED BY <2>1, <2>2 DEF ClaimMakes
<1>8. \A rows, cs : NightMakes(rows, cs)' <=> NightMakes(rows, cs)
  BY DEF NightMakes
<1>9. \A rows, cs, hs : HolidayMakes(rows, cs, hs)' <=> HolidayMakes(rows, cs, hs)
  BY DEF HolidayMakes
<1> QED
  BY <1>1, <1>2, <1>3, <1>4, <1>5, <1>6, <1>7, <1>8, <1>9 DEF Outcome

LEMMA SeenLeft ==
  ASSUME seen' = seen
  PROVE  \A r, rows, cs, hs : Left(r, rows, cs, hs)' <=> Left(r, rows, cs, hs)
<1>1. \A rows, cs, hs : Outcome(rows, cs, hs)' <=> Outcome(rows, cs, hs)
  BY SeenOutcome
<1>2. \A back, r, rows, cs, hs : Pays(back, r, rows, cs, hs)' <=> Pays(back, r, rows, cs, hs)
  BY <1>1 DEF Pays
<1>3. \A row, r, rows, cs, hs : Enters(row, r, rows, cs, hs)' <=> Enters(row, r, rows, cs, hs)
  BY <1>2 DEF Enters
<1>4. \A b, set, rest, r, rows, cs, hs :
        Settles(b, set, rest, r, rows, cs, hs)' <=> Settles(b, set, rest, r, rows, cs, hs)
  BY <1>2 DEF Settles
<1>5. \A d, l, r, rows, cs, hs :
        Releases(d, l, r, rows, cs, hs)' <=> Releases(d, l, r, rows, cs, hs)
  BY <1>1 DEF Releases
<1>6. \A row, rows, cs, hs : Claims(row, rows, cs, hs)' <=> Claims(row, rows, cs, hs)
  BY <1>1 DEF Claims
<1>70. \A back, r, rows, cs, hs :
         Inserts(back, r, rows, cs, hs)' <=> Inserts(back, r, rows, cs, hs)
  BY <1>3 DEF Inserts
<1>71. \A back, r, rows, cs, hs :
         UpdatesIf(back, r, rows, cs, hs)' <=> UpdatesIf(back, r, rows, cs, hs)
  BY <1>4 DEF UpdatesIf
<1>72. \A back, r, rows, cs, hs :
         ReleasesOn(back, r, rows, cs, hs)' <=> ReleasesOn(back, r, rows, cs, hs)
  BY <1>5 DEF ReleasesOn
<1>73. \A back, r, rows, cs, hs :
         WritesHoliday(back, r, rows, cs, hs)' <=> WritesHoliday(back, r, rows, cs, hs)
  BY <1>5 DEF WritesHoliday
<1>74. \A back, r, rows, cs, hs :
         InsertsCredit(back, r, rows, cs, hs)' <=> InsertsCredit(back, r, rows, cs, hs)
  BY <1>6 DEF InsertsCredit
<1>7. \A back, r, rows, cs, hs :
        Arrives(back, r, rows, cs, hs)' <=> Arrives(back, r, rows, cs, hs)
  BY <1>2, <1>70, <1>71, <1>72, <1>73, <1>74 DEF Arrives
<1>80. \A front, back, rows, cs, s, r, rows0, cs0, hs :
        Stands(front, back, rows, cs, s, r, rows0, cs0, hs)'
          <=> Stands(front, back, rows, cs, s, r, rows0, cs0, hs)
  BY <1>7 DEF Stands
<1>8. \A s, r, rows0, cs0, hs : KeepsIn(s, r, rows0, cs0, hs)' <=> KeepsIn(s, r, rows0, cs0, hs)
  BY <1>80 DEF KeepsIn
<1>9. \A r : Asks(r)' <=> Asks(r)
  BY SeenReads DEF Asks, AsksLeave, AsksBackfill, AsksConversion
<1> QED BY <1>1, <1>8, <1>9 DEF Left

-----------------------------------------------------------------------------
(* The calls that move rows, one after the other                            *)

LEMMA UpdatedTwice ==
  \A row, set : Updated(Updated(row, set), set) = Updated(row, set)
BY DEF Updated

LEMMA MovingCall ==
  ASSUME NEW c \in MovingCalls
  PROVE  /\ c.call \in {"update_booking", "release_for_booking", "update_compoff_credit"}
         /\ c.call = "update_booking" =>
              c.id \in BookingId /\ c.set \in BookingChanges /\ c = Update(c.id, c.set)
         /\ c.call = "release_for_booking" => c.id \in BookingId /\ c = ReleaseFor(c.id)
         /\ c.call = "update_compoff_credit" =>
              c.id \in CreditId /\ c.set \in CreditChanges /\ c = UpdateCredit(c.id, c.set)
BY DEF MovingCalls, Update, ReleaseFor, UpdateCredit

LEMMA NothingToMove ==
  ASSUME NEW rows0, NEW cs0, NEW rows, NEW cs, Toward(<<>>, rows0, cs0, rows, cs),
         rows0 = [b \in BookingId |-> rows0[b]], cs0 = [k \in CreditId |-> cs0[k]]
  PROVE  rows0 = rows /\ cs0 = cs
<1>1. \A c : ~Has(<<>>, c)
  BY DEF Has
<1>2. (\A b \in BookingId : rows0[b] = rows[b]) /\ (\A k \in CreditId : cs0[k] = cs[k])
  BY <1>1 DEF Toward
<1>3. rows = [b \in BookingId |-> rows[b]] /\ cs = [k \in CreditId |-> cs[k]]
  BY DEF Toward
<1> QED BY <1>2, <1>3

LEMMA RowMoves ==
  ASSUME NEW s \in Moves, s # <<>>, NEW rows0, NEW cs0, NEW rows, NEW cs,
         Toward(s, rows0, cs0, rows, cs), NEW c, c = Head(Head(s)),
         c.call = "update_booking",
         rows0 = [b \in BookingId |-> rows0[b]],
         NEW rows1, rows1 = [rows0 EXCEPT ![c.id] = rows[c.id]]
  PROVE  /\ RestOf(s) \in Moves /\ Toward(RestOf(s), rows1, cs0, rows, cs)
         /\ c.id \in BookingId /\ c.set \in BookingChanges
         /\ Fits(c, rows0, cs0, rows, cs)
<1>1. /\ RestOf(s) \in Moves /\ Has(s, c)
      /\ \A x : Has(s, x) => x = c \/ Has(RestOf(s), x)
      /\ \A x : Has(RestOf(s), x) => Has(s, x)
      /\ \A x : Has(s, x) => x \in MovingCalls
  BY HasRest DEF Moves
<1>2. c \in MovingCalls /\ c.id \in BookingId /\ c.set \in BookingChanges /\ c = Update(c.id, c.set)
  BY <1>1, MovingCall
<1>3. Fits(c, rows0, cs0, rows, cs)
  BY <1>1 DEF Toward
<1>4. rows[c.id] = Updated(rows0[c.id], c.set) /\ rows[c.id] # NoRow
  BY <1>3 DEF Fits
<1>5. rows1[c.id] = rows[c.id] /\ \A b \in BookingId \ {c.id} : rows1[b] = rows0[b]
  BY <1>2
<1>6. ASSUME NEW x, Has(RestOf(s), x) PROVE Fits(x, rows1, cs0, rows, cs)
  <2>1. Fits(x, rows0, cs0, rows, cs) /\ x \in MovingCalls
    BY <1>1, <1>6 DEF Toward
  <2>2. CASE x.call = "update_booking" /\ x.id = c.id
    <3>1. rows[x.id] = Updated(rows0[x.id], x.set)
      BY <2>1, <2>2 DEF Fits
    <3>2. rows[x.id] = Updated(rows1[x.id], x.set)
      BY <1>5, <2>2, <3>1, UpdatedTwice
    <3>3. rows1[x.id] # NoRow
      BY <1>4, <1>5, <2>2
    <3> QED BY <1>5, <2>2, <3>2, <3>3 DEF Fits
  <2>3. CASE x.call = "update_booking" /\ x.id # c.id
    <3>1. x.id \in BookingId
      BY <2>1, <2>3, MovingCall
    <3>2. rows1[x.id] = rows0[x.id]
      BY <1>5, <2>3, <3>1
    <3> QED BY <2>1, <2>3, <3>2 DEF Fits
  <2>4. CASE x.call # "update_booking"
    BY <2>1, <2>4 DEF Fits
  <2> QED BY <2>2, <2>3, <2>4
<1>7. ASSUME NEW b \in BookingId
      PROVE  rows1[b] = rows[b] \/ \E set : Has(RestOf(s), Update(b, set))
  <2>1. CASE b = c.id
    BY <1>5, <2>1
  <2>2. CASE b # c.id /\ rows0[b] = rows[b]
    BY <1>5, <2>2
  <2>3. CASE b # c.id /\ rows0[b] # rows[b]
    <3>1. PICK set : Has(s, Update(b, set))
      BY <2>3 DEF Toward
    <3>2. Update(b, set) # c
      BY <2>3 DEF Update
    <3> QED BY <1>1, <3>1, <3>2
  <2> QED BY <2>1, <2>2, <2>3
<1>8. ASSUME NEW k \in CreditId
      PROVE  \/ cs0[k] = cs[k]
             \/ \E set : Has(RestOf(s), UpdateCredit(k, set))
             \/ \E b : Has(RestOf(s), ReleaseFor(b)) /\ Spends(cs0, k, b)
  <2>1. \/ cs0[k] = cs[k]
        \/ \E set : Has(s, UpdateCredit(k, set))
        \/ \E b : Has(s, ReleaseFor(b)) /\ Spends(cs0, k, b)
    BY DEF Toward
  <2>2. \A set, b : UpdateCredit(k, set) # c /\ ReleaseFor(b) # c
    BY <1>2 DEF Update, UpdateCredit, ReleaseFor
  <2> QED BY <1>1, <2>1, <2>2
<1>9. rows = [b \in BookingId |-> rows[b]] /\ cs = [k \in CreditId |-> cs[k]]
  BY DEF Toward
<1>10. Toward(RestOf(s), rows1, cs0, rows, cs)
  BY <1>6, <1>7, <1>8, <1>9 DEF Toward
<1> QED BY <1>1, <1>2, <1>3, <1>10

LEMMA CreditMoves ==
  ASSUME NEW s \in Moves, s # <<>>, NEW rows0, NEW cs0, NEW rows, NEW cs,
         Toward(s, rows0, cs0, rows, cs), NEW c, c = Head(Head(s)),
         c.call = "update_compoff_credit",
         cs0 = [k \in CreditId |-> cs0[k]],
         NEW cs1, cs1 = [cs0 EXCEPT ![c.id] = cs[c.id]]
  PROVE  /\ RestOf(s) \in Moves /\ Toward(RestOf(s), rows0, cs1, rows, cs)
         /\ c.id \in CreditId /\ c.set \in CreditChanges
         /\ Fits(c, rows0, cs0, rows, cs)
<1>1. /\ RestOf(s) \in Moves /\ Has(s, c)
      /\ \A x : Has(s, x) => x = c \/ Has(RestOf(s), x)
      /\ \A x : Has(RestOf(s), x) => Has(s, x)
      /\ \A x : Has(s, x) => x \in MovingCalls
  BY HasRest DEF Moves
<1>2. /\ c \in MovingCalls /\ c.id \in CreditId /\ c.set \in CreditChanges
      /\ c = UpdateCredit(c.id, c.set)
  BY <1>1, MovingCall
<1>3. Fits(c, rows0, cs0, rows, cs)
  BY <1>1 DEF Toward
<1>4. cs[c.id] = Updated(cs0[c.id], c.set) /\ cs[c.id] # NoRow
  BY <1>3 DEF Fits
<1>5. cs1[c.id] = cs[c.id] /\ \A k \in CreditId \ {c.id} : cs1[k] = cs0[k]
  BY <1>2
<1>6. ASSUME NEW x, Has(RestOf(s), x) PROVE Fits(x, rows0, cs1, rows, cs)
  <2>1. Fits(x, rows0, cs0, rows, cs) /\ x \in MovingCalls
    BY <1>1, <1>6 DEF Toward
  <2>2. CASE x.call = "update_compoff_credit" /\ x.id = c.id
    <3>1. cs[x.id] = Updated(cs0[x.id], x.set)
      BY <2>1, <2>2 DEF Fits
    <3>2. cs[x.id] = Updated(cs1[x.id], x.set)
      BY <1>5, <2>2, <3>1, UpdatedTwice
    <3>3. cs1[x.id] # NoRow
      BY <1>4, <1>5, <2>2
    <3> QED BY <1>5, <2>2, <3>2, <3>3 DEF Fits
  <2>3. CASE x.call = "update_compoff_credit" /\ x.id # c.id
    <3>1. x.id \in CreditId
      BY <2>1, <2>3, MovingCall
    <3>2. cs1[x.id] = cs0[x.id]
      BY <1>5, <2>3, <3>1
    <3> QED BY <2>1, <2>3, <3>2 DEF Fits
  <2>4. CASE x.call = "release_for_booking"
    <3>1. ASSUME NEW k \in CreditId, Spends(cs1, k, x.id) PROVE cs[k] = Returned(cs1[k])
      <4>1. ~Spends(cs, k, x.id)
        BY <2>1, <2>4 DEF Fits
      <4>2. k # c.id
        BY <1>5, <3>1, <4>1 DEF Spends
      <4>3. cs1[k] = cs0[k] /\ Spends(cs0, k, x.id)
        BY <1>5, <3>1, <4>2 DEF Spends
      <4> QED BY <2>1, <2>4, <4>3 DEF Fits
    <3> QED BY <2>1, <2>4, <3>1 DEF Fits
  <2>5. CASE x.call = "update_booking"
    BY <2>1, <2>5 DEF Fits
  <2> QED BY <2>1, <2>2, <2>3, <2>4, <2>5, MovingCall
<1>7. ASSUME NEW b \in BookingId
      PROVE  rows0[b] = rows[b] \/ \E set : Has(RestOf(s), Update(b, set))
  <2>1. \A set : Update(b, set) # c
    BY <1>2 DEF Update, UpdateCredit
  <2> QED BY <1>1, <2>1 DEF Toward
<1>8. ASSUME NEW k \in CreditId
      PROVE  \/ cs1[k] = cs[k]
             \/ \E set : Has(RestOf(s), UpdateCredit(k, set))
             \/ \E b : Has(RestOf(s), ReleaseFor(b)) /\ Spends(cs1, k, b)
  <2>1. \/ cs0[k] = cs[k]
        \/ \E set : Has(s, UpdateCredit(k, set))
        \/ \E b : Has(s, ReleaseFor(b)) /\ Spends(cs0, k, b)
    BY DEF Toward
  <2>2. CASE k = c.id
    BY <1>5, <2>2
  <2>3. CASE k # c.id
    <3>1. cs1[k] = cs0[k]
      BY <1>5, <2>3
    <3>2. \A set, b : UpdateCredit(k, set) # c /\ ReleaseFor(b) # c
      BY <1>2, <2>3 DEF UpdateCredit, ReleaseFor
    <3>3. \A b : Spends(cs0, k, b) => Spends(cs1, k, b)
      BY <3>1 DEF Spends
    <3> QED BY <1>1, <2>1, <3>1, <3>2, <3>3
  <2> QED BY <2>2, <2>3
<1>9. rows = [b \in BookingId |-> rows[b]] /\ cs = [k \in CreditId |-> cs[k]]
  BY DEF Toward
<1>10. Toward(RestOf(s), rows0, cs1, rows, cs)
  BY <1>6, <1>7, <1>8, <1>9 DEF Toward
<1> QED BY <1>1, <1>2, <1>3, <1>10

(* The lists of all rows of a set, in some order.                           *)
LEMMA EveryOne ==
  ASSUME NEW N \in Nat, NEW S \in SUBSET (1 .. N), NEW order \in SetToSeqs(S)
  PROVE  /\ \A i \in DOMAIN order : order[i] \in S
         /\ \A x \in S : \E i \in DOMAIN order : order[i] = x
<1>1. IsFiniteSet(S)
  <2>1. IsFiniteSet(1 .. N)
    BY FS_Interval
  <2> QED BY <2>1, FS_Subset
<1>2. PICK n \in Nat : n = Cardinality(S)
  BY <1>1, FS_CardinalityType
<1>3. /\ order \in [1 .. n -> S]
      /\ \A i, j \in 1 .. n : i # j => order[i] # order[j]
  BY <1>2 DEF SetToSeqs
<1>4. order \in Injection(1 .. n, S)
  BY <1>3 DEF Injection, IsInjective
<1>5. Cardinality(1 .. n) = n
  BY FS_Interval
<1>6. order \in Surjection(1 .. n, S)
  BY <1>1, <1>2, <1>4, <1>5, FS_Injection
<1> QED BY <1>3, <1>6 DEF Surjection

InSome(g, S, c) == \E x \in S : \E j \in DOMAIN g[x] : g[x][j] = c

LEMMA ListForEach ==
  ASSUME NEW N \in Nat, NEW S \in SUBSET (1 .. N), NEW order \in SetToSeqs(S),
         NEW g, NEW lists, lists = [i \in DOMAIN order |-> g[order[i]]]
  PROVE  \A c : Has(lists, c) <=> InSome(g, S, c)
<1>1. /\ \A i \in DOMAIN order : order[i] \in S
      /\ \A x \in S : \E i \in DOMAIN order : order[i] = x
  BY EveryOne
<1>2. DOMAIN lists = DOMAIN order /\ \A i \in DOMAIN order : lists[i] = g[order[i]]
  OBVIOUS
<1>3. ASSUME NEW c, Has(lists, c) PROVE InSome(g, S, c)
  <2>1. PICK i \in DOMAIN lists : \E j \in DOMAIN lists[i] : lists[i][j] = c
    BY <1>3 DEF Has
  <2>2. PICK x \in S : x = order[i]
    BY <1>1, <1>2, <2>1
  <2>3. lists[i] = g[x]
    BY <1>2, <2>1, <2>2
  <2> QED BY <2>1, <2>2, <2>3 DEF InSome
<1>4. ASSUME NEW c, NEW x \in S, NEW j \in DOMAIN g[x], g[x][j] = c PROVE Has(lists, c)
  <2>1. PICK i \in DOMAIN order : order[i] = x
    BY <1>1
  <2>2. i \in DOMAIN lists /\ lists[i] = g[x]
    BY <1>2, <2>1
  <2> QED BY <1>4, <2>2 DEF Has
<1>5. \A c : InSome(g, S, c) => Has(lists, c)
  BY <1>4 DEF InSome
<1> QED BY <1>3, <1>5

(* Such lists of moving calls are moves.                                    *)
LEMMA MovesForEach ==
  ASSUME NEW N \in Nat, NEW S \in SUBSET (1 .. N), NEW order \in SetToSeqs(S),
         NEW g, NEW lists, lists = [i \in DOMAIN order |-> g[order[i]]],
         \A x \in S : g[x] \in Seq(MovingCalls) \ {<<>>}
  PROVE  lists \in Moves
<1>1. /\ DOMAIN lists = DOMAIN order /\ lists = [i \in DOMAIN lists |-> lists[i]]
      /\ \A i \in DOMAIN order : lists[i] = g[order[i]]
  OBVIOUS
<1>2. \A i \in DOMAIN order : order[i] \in S => lists[i] \in Seq(MovingCalls) \ {<<>>}
  BY <1>1
<1> QED BY <1>1, <1>2, CallEach DEF Moves

Back == [status |-> "approved", booking |-> NoBooking]

LEMMA HandedBack ==
  ASSUME NEW credit \in Credit
  PROVE  /\ Updated(credit, Back) = Returned(credit) /\ Returned(credit) \in Credit
         /\ Returned(credit).status = "approved"
<1>1. /\ DOMAIN credit = {"user", "worked_on", "days", "status", "expires", "booking"}
      /\ DOMAIN Back = {"status", "booking"}
      /\ Back["status"] = "approved" /\ Back["booking"] = NoBooking
  BY DEF Credit, Back
<1>2. Returned(credit) \in Credit /\ Returned(credit).status = "approved"
  BY DEF Returned, Credit, CREDIT_STATES
<1>3. /\ Returned(credit) = [x \in DOMAIN credit |-> Returned(credit)[x]]
      /\ \A x \in DOMAIN credit :
           Returned(credit)[x] = IF x = "status" THEN "approved"
                                 ELSE IF x = "booking" THEN NoBooking ELSE credit[x]
  BY <1>1 DEF Returned, Credit
<1>4. Updated(credit, Back) = Returned(credit)
  BY <1>1, <1>3 DEF Updated
<1> QED BY <1>2, <1>4

LEMMA ReleaseMoves ==
  ASSUME NEW s \in Moves, s # <<>>, NEW rows0, NEW cs0, NEW rows, NEW cs,
         Toward(s, rows0, cs0, rows, cs), NEW c, c = Head(Head(s)),
         c.call = "release_for_booking",
         cs0 \in [CreditId -> Credit \cup {NoRow}],
         NEW S, S = {k \in CreditId : Spends(cs0, k, c.id)},
         NEW order \in SetToSeqs(S),
         NEW first, first = [i \in DOMAIN order |-> <<UpdateCredit(order[i], Back)>>]
  PROVE  /\ first \o RestOf(s) \in Moves
         /\ Toward(first \o RestOf(s), rows0, cs0, rows, cs)
<1>1. /\ RestOf(s) \in Moves /\ Has(s, c)
      /\ \A x : Has(s, x) => x = c \/ Has(RestOf(s), x)
      /\ \A x : Has(RestOf(s), x) => Has(s, x)
      /\ \A x : Has(s, x) => x \in MovingCalls
  BY HasRest DEF Moves
<1>2. c = ReleaseFor(c.id) /\ c.id \in BookingId
  BY <1>1, MovingCall
<1>3. Fits(c, rows0, cs0, rows, cs)
  BY <1>1 DEF Toward
<1>4. \A k \in S : cs[k] = Returned(cs0[k]) /\ cs0[k] \in Credit
  <2>1. \A k \in CreditId : cs0[k] \in Credit \cup {NoRow}
    OBVIOUS
  <2> QED BY <1>2, <1>3, <2>1 DEF Fits, ReleaseFor, Spends
<1>5. MaxCredits \in Nat /\ S \in SUBSET (1 .. MaxCredits)
  BY BoundsAssumption DEF CreditId
<1>6. PICK g : g = [k \in S |-> <<UpdateCredit(k, Back)>>]
  OBVIOUS
<1>7. \A k \in S : /\ g[k] \in Seq(MovingCalls) \ {<<>>} /\ DOMAIN g[k] = {1}
                   /\ g[k][1] = UpdateCredit(k, Back)
  <2>1. Back \in CreditChanges
    BY DEF Back, CreditChanges
  <2>2. ASSUME NEW k \in S PROVE UpdateCredit(k, Back) \in MovingCalls
    BY <2>1 DEF UpdateCredit, MovingCalls
  <2>3. ASSUME NEW k \in S
        PROVE  /\ <<UpdateCredit(k, Back)>> \in Seq(MovingCalls) \ {<<>>}
               /\ DOMAIN <<UpdateCredit(k, Back)>> = {1}
    BY <2>2
  <2> QED BY <1>6, <2>3
<1>8. first = [i \in DOMAIN order |-> g[order[i]]]
  <2>1. \A i \in DOMAIN order : order[i] \in S
    BY <1>5, EveryOne
  <2> QED BY <1>6, <2>1
<1>9. first \in Moves /\ \A x : Has(first, x) <=> \E k \in S : x = UpdateCredit(k, Back)
  <2>1. first \in Moves
    BY <1>5, <1>7, <1>8, MovesForEach
  <2>2. \A x : Has(first, x) <=> InSome(g, S, x)
    <3>1. PICK lists : lists = [i \in DOMAIN order |-> g[order[i]]]
      OBVIOUS
    <3>2. \A x : Has(lists, x) <=> InSome(g, S, x)
      BY <1>5, <3>1, ListForEach
    <3>3. lists = first
      BY <1>8, <3>1
    <3> QED BY <3>2, <3>3
  <2>3. \A x : InSome(g, S, x) <=> \E k \in S : x = UpdateCredit(k, Back)
    BY <1>7 DEF InSome
  <2> QED BY <2>1, <2>2, <2>3
<1>10. PICK new : new = first \o RestOf(s)
  OBVIOUS
<1>11. new \in Moves /\ \A x : Has(new, x) <=> Has(first, x) \/ Has(RestOf(s), x)
  <2>1. PICK D : D = Seq(MovingCalls) \ {<<>>}
    OBVIOUS
  <2>2. PICK t \in Seq(D) : t = RestOf(s)
    BY <1>1, <2>1 DEF Moves
  <2>3. first \in Seq(D)
    BY <1>9, <2>1 DEF Moves
  <2>4. first \o t \in Seq(D) /\ \A x : Has(first \o t, x) <=> Has(first, x) \/ Has(t, x)
    BY <2>3, HasConcat, ConcatProperties
  <2> QED BY <1>10, <2>1, <2>2, <2>4 DEF Moves
<1>12. ASSUME NEW x, Has(new, x) PROVE Fits(x, rows0, cs0, rows, cs)
  <2>1. CASE Has(RestOf(s), x)
    BY <1>1, <2>1 DEF Toward
  <2>2. CASE \E k \in S : x = UpdateCredit(k, Back)
    <3>1. PICK k \in S : x = UpdateCredit(k, Back)
      BY <2>2
    <3>2. x.call = "update_compoff_credit" /\ x.id = k /\ x.set = Back
      BY <3>1 DEF UpdateCredit
    <3>3. /\ cs[k] = Updated(cs0[k], Back) /\ cs0[k] # NoRow /\ cs[k] # NoRow
          /\ cs0[k].status = "used"
      BY <1>4, HandedBack, NoRowAssumption DEF Spends
    <3> QED BY <3>2, <3>3 DEF Fits, CLAIMING_STATES
  <2> QED BY <1>9, <1>11, <1>12, <2>1, <2>2
<1>13. ASSUME NEW b \in BookingId
       PROVE  rows0[b] = rows[b] \/ \E set : Has(new, Update(b, set))
  <2>1. \A set : Update(b, set) # c
    BY <1>2 DEF Update, ReleaseFor
  <2> QED BY <1>1, <1>11, <2>1 DEF Toward
<1>14. ASSUME NEW k \in CreditId
       PROVE  \/ cs0[k] = cs[k]
              \/ \E set : Has(new, UpdateCredit(k, set))
              \/ \E b : Has(new, ReleaseFor(b)) /\ Spends(cs0, k, b)
  <2>1. \/ cs0[k] = cs[k]
        \/ \E set : Has(s, UpdateCredit(k, set))
        \/ \E b : Has(s, ReleaseFor(b)) /\ Spends(cs0, k, b)
    BY DEF Toward
  <2>2. CASE k \in S
    BY <1>9, <1>11, <2>2
  <2>3. CASE k \notin S
    <3>1. ~Spends(cs0, k, c.id)
      BY <2>3
    <3>2. \A set : UpdateCredit(k, set) # c
      BY <1>2 DEF UpdateCredit, ReleaseFor
    <3>3. \A b : Spends(cs0, k, b) => ReleaseFor(b) # c
      BY <1>2, <3>1 DEF ReleaseFor
    <3> QED BY <1>1, <1>11, <2>1, <3>2, <3>3
  <2> QED BY <2>2, <2>3
<1>15. rows = [b \in BookingId |-> rows[b]] /\ cs = [k \in CreditId |-> cs[k]]
  BY DEF Toward
<1>16. Toward(new, rows0, cs0, rows, cs)
  BY <1>12, <1>13, <1>14, <1>15 DEF Toward
<1> QED BY <1>10, <1>11, <1>16

-----------------------------------------------------------------------------
(* The inductive invariant                                                  *)

(* An absence nobody has explained is charged to nothing.                   *)
Bare(rows) ==
  \A b \in RowsIn(rows) : rows[b].status = "unrecognised" => rows[b].category = NO_CATEGORY

(* A person has one claim for a day.                                        *)
Apart(cs) ==
  \A j, k \in RowsOf(cs) :
    /\ cs[j].user = cs[k].user
    /\ cs[j].worked_on = cs[k].worked_on
    /\ cs[j].status \in CLAIMING_STATES
    /\ cs[k].status \in CLAIMING_STATES
    => j = k

(* What is left of a request has an outcome LeaveCalendar makes.            *)
OnItsWay(p) ==
  \E r, rows, cs, hs :
    /\ r = request[p] /\ rows = bookings /\ cs = credits /\ hs = holidays
    /\ Left(r, rows, cs, hs)

Record(t) ==
  [today |-> t.today, bookings |-> t.bookings, credits |-> t.credits,
   holidays |-> t.holidays]

SerialInv ==
  /\ RequestsInv
  /\ Bare(bookings) /\ Apart(credits)
  /\ \A p, q \in InFlight : p = q
  /\ seen.today = today /\ seen = Record(seen)
  /\ InFlight = {} => seen = Seen
  /\ \A p \in InFlight : request[p].on = today /\ OnItsWay(p)

(* What the step of a request has to leave behind.                          *)
Serves(p) ==
  \E r, rows, cs, hs :
    /\ rows = bookings' /\ cs = credits' /\ hs = holidays'
    /\ request' = [request EXCEPT ![p] = r]
    /\ r = NoRequest \/ r.on = today
    /\ Left(r, rows, cs, hs)
    /\ Bare(rows) /\ Apart(cs)

StepOfCalendar ==
  Calendar!Next \/ UNCHANGED <<seen.today, seen.bookings, seen.credits, seen.holidays>>

LEMMA ServedInStep ==
  ASSUME SerialInv, NEW p \in Servers, \A q \in InFlight : q = p, Serves(p),
         today' = today, RequestsInv',
         seen' = IF InFlight' = {} THEN Seen' ELSE seen
  PROVE  SerialInv' /\ StepOfCalendar
<1>1. PICK r, rows, cs, hs :
        /\ rows = bookings' /\ cs = credits' /\ hs = holidays'
        /\ request' = [request EXCEPT ![p] = r]
        /\ r = NoRequest \/ r.on = today
        /\ Left(r, rows, cs, hs)
        /\ Bare(rows) /\ Apart(cs)
  BY DEF Serves
<1>2. request'[p] = r /\ \A q \in Servers \ {p} : request'[q] = NoRequest
  <2>1. request = [q \in Servers |-> request[q]]
    BY DEF SerialInv, RequestsInv, AllInHand
  <2>2. request'[p] = r /\ \A q \in Servers \ {p} : request'[q] = request[q]
    BY <1>1, <2>1
  <2>3. \A q \in Servers \ {p} : request[q] = NoRequest
    BY DEF InFlight
  <2> QED BY <2>2, <2>3
<1>3. seen.today = today
  BY DEF SerialInv
<1>4. Bare(bookings)' /\ Apart(credits)' /\ RequestsInv'
  BY <1>1 DEF Bare, Apart, RowsIn, RowsOf
<1>5. CASE r = NoRequest
  <2>1. InFlight' = {}
    BY <1>2, <1>5 DEF InFlight
  <2>2. seen' = Seen'
    BY <2>1
  <2>3. OneStep(rows, cs, hs)
    BY <1>1, <1>3, <2>2 DEF OneStep, Seen
  <2>4. Outcome(rows, cs, hs)
    BY <1>1, <1>5 DEF Left
  <2>5. StepOfCalendar
    BY <2>3, <2>4, OutcomeIsAStep DEF StepOfCalendar
  <2>6. seen'.today = today' /\ (seen = Record(seen))'
    BY <2>2 DEF Seen, Record
  <2> QED BY <1>4, <2>1, <2>2, <2>5, <2>6 DEF SerialInv
<1>6. CASE r # NoRequest
  <2>1. InFlight' = {p}
    BY <1>2, <1>6 DEF InFlight
  <2>2. seen' = seen
    BY <2>1
  <2>3. Left(r, rows, cs, hs)'
    BY <1>1, <2>2, SeenLeft
  <2>4. OnItsWay(p)'
    BY <1>1, <1>2, <2>3 DEF OnItsWay
  <2>5. request'[p].on = today'
    BY <1>1, <1>2, <1>6
  <2>6. StepOfCalendar
    BY <2>2 DEF StepOfCalendar
  <2>7. seen'.today = today' /\ (seen = Record(seen))'
    BY <1>3, <2>2 DEF SerialInv, Record
  <2>8. (\A q \in InFlight : request[q].on = today /\ OnItsWay(q))'
    BY <2>1, <2>4, <2>5
  <2>9. (\A q1, q2 \in InFlight : q1 = q2)'
    BY <2>1
  <2> QED BY <1>4, <2>1, <2>6, <2>7, <2>8, <2>9 DEF SerialInv
<1> QED BY <1>5, <1>6

(* Only the actor, the person, the days and the date are asked of a request. *)
LEMMA KeepsFor ==
  ASSUME NEW s, NEW r, NEW r1, NEW rows0, NEW cs0, NEW hs,
         KeepsIn(s, r, rows0, cs0, hs),
         r1.user = r.user, r1.duration = r.duration, r1.on = r.on, r1.actor = r.actor
  PROVE  KeepsIn(s, r1, rows0, cs0, hs)
<1>1. \A back, rows, cs, h : Pays(back, r, rows, cs, h) => Pays(back, r1, rows, cs, h)
  BY DEF Pays
<1>2. \A row, rows, cs, h : Enters(row, r, rows, cs, h) => Enters(row, r1, rows, cs, h)
  BY <1>1 DEF Enters
<1>3. \A b, set, rest, rows, cs, h :
        Settles(b, set, rest, r, rows, cs, h) => Settles(b, set, rest, r1, rows, cs, h)
  BY <1>1 DEF Settles
<1>4. \A d, l, rows, cs, h : Releases(d, l, r, rows, cs, h) => Releases(d, l, r1, rows, cs, h)
  BY DEF Releases
<1>50. \A back, rows, cs, h : Inserts(back, r, rows, cs, h) => Inserts(back, r1, rows, cs, h)
  BY <1>2 DEF Inserts
<1>51. \A back, rows, cs, h :
         UpdatesIf(back, r, rows, cs, h) => UpdatesIf(back, r1, rows, cs, h)
  BY <1>3 DEF UpdatesIf
<1>52. \A back, rows, cs, h :
         ReleasesOn(back, r, rows, cs, h) => ReleasesOn(back, r1, rows, cs, h)
  BY <1>4 DEF ReleasesOn
<1>53. \A back, rows, cs, h :
         WritesHoliday(back, r, rows, cs, h) => WritesHoliday(back, r1, rows, cs, h)
  BY <1>4 DEF WritesHoliday
<1>54. \A back, rows, cs, h :
         InsertsCredit(back, r, rows, cs, h) => InsertsCredit(back, r1, rows, cs, h)
  BY DEF InsertsCredit
<1>6. \A back, rows, cs, h : Arrives(back, r, rows, cs, h) => Arrives(back, r1, rows, cs, h)
  BY <1>1, <1>50, <1>51, <1>52, <1>53, <1>54 DEF Arrives
<1> QED BY <1>6 DEF KeepsIn, Stands

(* With no call left the tables are where they are to be.                   *)
LEMMA NoCallLeft ==
  ASSUME NEW r, NEW rows0, NEW cs0, NEW hs, KeepsIn(<<>>, r, rows0, cs0, hs),
         rows0 = [b \in BookingId |-> rows0[b]], cs0 = [k \in CreditId |-> cs0[k]]
  PROVE  Outcome(rows0, cs0, hs)
<1>1. PICK front, back, rows, cs :
        front \in Moves /\ Stands(front, back, rows, cs, <<>>, r, rows0, cs0, hs)
  BY DEF KeepsIn
<1>2. PICK E : back \in Seq(E) /\ <<>> = front \o back
  BY <1>1 DEF Stands
<1>3. front = <<>> /\ back = <<>>
  <2>1. PICK D : D = (Seq(MovingCalls) \ {<<>>}) \cup E
    OBVIOUS
  <2>2. front \in Seq(D) /\ back \in Seq(D)
    <3>1. PICK B : B = Seq(MovingCalls) \ {<<>>}
      OBVIOUS
    <3>2. front \in Seq(B) /\ B \subseteq D /\ E \subseteq D
      BY <1>1, <2>1, <3>1 DEF Moves
    <3> QED BY <1>2, <3>2, SeqMonotonic
  <2>3. PICK x \in Seq(D) : x = front \o back /\ Len(x) = Len(front) + Len(back)
    BY <2>2, ConcatProperties
  <2>4. Len(front) \in Nat /\ Len(back) \in Nat /\ Len(x) = 0
    BY <1>2, <2>2, <2>3, EmptySeq
  <2>5. Len(front) = 0 /\ Len(back) = 0
    BY <2>3, <2>4
  <2> QED BY <2>2, <2>5, EmptySeq
<1>4. rows0 = rows /\ cs0 = cs /\ Arrives(<<>>, r, rows, cs, hs)
  BY <1>1, <1>3, NothingToMove DEF Stands
<1>5. Pays(<<>>, r, rows, cs, hs)
  <2>1. \A x : <<x>> # <<>>
    OBVIOUS
  <2>2. ~UpdatesIf(<<>>, r, rows, cs, hs)
    <3> SUFFICES ASSUME NEW b, NEW set, NEW rest, <<>> = <<<<UpdateIf(b, set)>>>> \o rest,
                        Settles(b, set, rest, r, rows, cs, hs)
                 PROVE  FALSE
      BY DEF UpdatesIf
    <3>1. rest = <<>> \/ \E c : rest = <<<<Consume(c)>>>>
      BY DEF Settles, Pays
    <3>2. PICK x : x = <<UpdateIf(b, set)>>
      OBVIOUS
    <3>3. <<x>> \o rest # <<>>
      BY <3>1
    <3> QED BY <3>2, <3>3
  <2> QED
    BY <1>4, <2>1, <2>2 DEF Arrives, Inserts, ReleasesOn, WritesHoliday, InsertsCredit
<1>6. \A b : <<<<Consume(b)>>>> # <<>>
  OBVIOUS
<1> QED BY <1>4, <1>5, <1>6 DEF Pays

LEMMA GoingOn ==
  ASSUME SerialInv, NEW p \in InFlight, NEW calls, Then(p, calls),
         NEW rows, rows = bookings', NEW cs, cs = credits', NEW hs, hs = holidays',
         rows = [b \in BookingId |-> rows[b]], cs = [k \in CreditId |-> cs[k]],
         KeepsIn(calls, request[p], rows, cs, hs), Bare(rows), Apart(cs)
  PROVE  Serves(p)
<1>1. CASE calls = <<>>
  <2>1. request' = [request EXCEPT ![p] = NoRequest]
    BY <1>1 DEF Then, Refuse, GoOn
  <2>2. Outcome(rows, cs, hs)
    BY <1>1, NoCallLeft
  <2>3. Left(NoRequest, rows, cs, hs)
    BY <2>2 DEF Left
  <2> QED BY <2>1, <2>3 DEF Serves
<1>2. CASE calls # <<>>
  <2>1. PICK r : r = [request[p] EXCEPT !.step = "calls", !.calls = calls]
    OBVIOUS
  <2>2. request' = [request EXCEPT ![p] = r]
    BY <1>2, <2>1 DEF Then, GoOn
  <2>3. p \in Servers /\ request[p] # NoRequest /\ request[p].on = today
    BY DEF InFlight, SerialInv
  <2>4. request[p] \in RequestOf(bookings, credits, today)
    BY <2>3 DEF SerialInv, RequestsInv, AllInHand, InHand
  <2>5. /\ r.user = request[p].user /\ r.duration = request[p].duration
        /\ r.on = request[p].on /\ r.actor = request[p].actor
        /\ r.step = "calls" /\ r.calls = calls /\ r.op = request[p].op
    BY <2>1, <2>4 DEF RequestOf
  <2>6. r # NoRequest
    BY <2>4, <2>5 DEF RequestOf, HANDLERS, NoRequest
  <2>7. Left(r, rows, cs, hs)
    BY <2>5, <2>6, KeepsFor DEF Left
  <2> QED BY <2>2, <2>3, <2>5, <2>7 DEF Serves
<1> QED BY <1>1, <1>2

-----------------------------------------------------------------------------
(* The calls, one after the other                                           *)

LEMMA FirstLeft ==
  ASSUME NEW back, NEW r, NEW rows, NEW cs, NEW hs, Arrives(back, r, rows, cs, hs), back # <<>>
  PROVE  LET name == Head(Head(back)).call
         IN /\ name \in {"consume", "insert_booking", "update_booking_if_unrecognised",
                         "release_for_holiday", "write_holiday", "insert_compoff_credit"}
            /\ name = "consume" => Pays(back, r, rows, cs, hs)
            /\ name = "insert_booking" => Inserts(back, r, rows, cs, hs)
            /\ name = "update_booking_if_unrecognised" => UpdatesIf(back, r, rows, cs, hs)
            /\ name = "release_for_holiday" => ReleasesOn(back, r, rows, cs, hs)
            /\ name = "write_holiday" => WritesHoliday(back, r, rows, cs, hs)
            /\ name = "insert_compoff_credit" => InsertsCredit(back, r, rows, cs, hs)
<1> DEFINE name == Head(Head(back)).call
<1>1. ASSUME Pays(back, r, rows, cs, hs) PROVE name = "consume"
  BY <1>1 DEF Pays, Consume
<1>2. ASSUME Inserts(back, r, rows, cs, hs) PROVE name = "insert_booking"
  BY <1>2 DEF Inserts, Insert
<1>3. ASSUME UpdatesIf(back, r, rows, cs, hs) PROVE name = "update_booking_if_unrecognised"
  <2>1. PICK b, set, rest : /\ back = <<<<UpdateIf(b, set)>>>> \o rest
                            /\ Settles(b, set, rest, r, rows, cs, hs)
    BY <1>3 DEF UpdatesIf
  <2>2. rest = <<>> \/ \E c : rest = <<<<Consume(c)>>>>
    BY <2>1 DEF Settles, Pays
  <2>3. PICK x : x = <<UpdateIf(b, set)>>
    OBVIOUS
  <2>4. Head(<<x>> \o rest) = x
    BY <2>2
  <2>5. Head(x).call = "update_booking_if_unrecognised"
    BY <2>3 DEF UpdateIf
  <2> QED BY <2>1, <2>3, <2>4, <2>5
<1>4. ASSUME ReleasesOn(back, r, rows, cs, hs) PROVE name = "release_for_holiday"
  BY <1>4 DEF ReleasesOn, ReleaseOn
<1>5. ASSUME WritesHoliday(back, r, rows, cs, hs) PROVE name = "write_holiday"
  BY <1>5 DEF WritesHoliday, WriteHoliday
<1>6. ASSUME InsertsCredit(back, r, rows, cs, hs) PROVE name = "insert_compoff_credit"
  BY <1>6 DEF InsertsCredit, InsertCredit
<1> QED BY <1>1, <1>2, <1>3, <1>4, <1>5, <1>6 DEF Arrives

Tables0 ==
  /\ bookings = [b \in BookingId |-> bookings[b]]
  /\ credits = [k \in CreditId |-> credits[k]]
  /\ bookings \in [BookingId -> Booking \cup {NoRow}]
  /\ credits \in [CreditId -> Credit \cup {NoRow}]

LEMMA TablesNow ==
  ASSUME SerialInv
  PROVE  Tables0
BY DEF SerialInv, RequestsInv, TablesOK, TypeOK, Tables0

LEMMA CallingNow ==
  ASSUME SerialInv, NEW p \in Servers, NEW name, Calling(p, name)
  PROVE  /\ p \in InFlight
         /\ \E front \in Moves : \E E, back, rows, cs :
              /\ back \in Seq(E)
              /\ Toward(front, bookings, credits, rows, cs)
              /\ Arrives(back, request[p], rows, cs, holidays)
              /\ \/ /\ front # <<>>
                    /\ Head(Head(front)).call = name /\ Call(p) = Head(Head(front))
                    /\ Rest(p) = RestOf(front) \o back
                 \/ /\ front = <<>> /\ back # <<>> /\ request[p].calls = back
                    /\ rows = bookings /\ cs = credits
                    /\ Head(Head(back)).call = name
<1>1. p \in InFlight /\ request[p] # NoRequest /\ request[p].step = "calls" /\ Call(p).call = name
  BY DEF Calling, InFlight
<1>2. KeepsIn(request[p].calls, request[p], bookings, credits, holidays)
  <2>1. OnItsWay(p)
    BY <1>1 DEF SerialInv
  <2> QED BY <1>1, <2>1 DEF OnItsWay, Left
<1>3. request[p].calls # <<>>
  BY <1>1 DEF SerialInv, RequestsInv, AllInHand, InHand
<1>4. PICK s : s = request[p].calls
  OBVIOUS
<1>5. PICK front, back, rows, cs :
        front \in Moves /\ Stands(front, back, rows, cs, s, request[p], bookings, credits, holidays)
  BY <1>2, <1>4 DEF KeepsIn
<1>6. PICK E : back \in Seq(E) /\ s = front \o back
  BY <1>5 DEF Stands
<1>7. Call(p) = Head(Head(s)) /\ Rest(p) = RestOf(s)
  BY <1>4 DEF Call, Rest, RestOf
<1>8. CASE front = <<>>
  <2>1. s = back
    BY <1>6, <1>8, ConcatEmptySeq
  <2>2. rows = bookings /\ cs = credits
    BY <1>5, <1>8, NothingToMove, TablesNow DEF Stands, Tables0
  <2> QED BY <1>1, <1>3, <1>4, <1>5, <1>6, <1>7, <1>8, <2>1, <2>2 DEF Stands
<1>9. CASE front # <<>>
  <2>1. Head(Head(front \o back)) = Head(Head(front)) /\ RestOf(front \o back) = RestOf(front) \o back
    BY <1>5, <1>6, <1>9, RestOfFront DEF Moves
  <2> QED BY <1>1, <1>5, <1>6, <1>7, <1>9, <2>1 DEF Stands
<1> QED BY <1>8, <1>9

(* No call is left out and none refused while rows are being moved.         *)
LEMMA UpdateServed ==
  ASSUME SerialInv, NEW p \in Servers, update_booking(p)
  PROVE  Serves(p)
<1>1. Calling(p, "update_booking") /\ UNCHANGED <<today, credits, holidays>>
  BY DEF update_booking
<1>2. p \in InFlight
  BY <1>1, CallingNow
<1>3. PICK front, E, back, rows, cs :
        /\ front \in Moves
        /\ back \in Seq(E)
        /\ Toward(front, bookings, credits, rows, cs)
        /\ Arrives(back, request[p], rows, cs, holidays)
        /\ \/ /\ front # <<>>
              /\ Head(Head(front)).call = "update_booking" /\ Call(p) = Head(Head(front))
              /\ Rest(p) = RestOf(front) \o back
           \/ /\ front = <<>> /\ back # <<>> /\ request[p].calls = back
              /\ rows = bookings /\ cs = credits
              /\ Head(Head(back)).call = "update_booking"
  BY <1>1, CallingNow
<1>4. /\ front # <<>> /\ Head(Head(front)).call = "update_booking"
      /\ Call(p) = Head(Head(front)) /\ Rest(p) = RestOf(front) \o back
  BY <1>3, FirstLeft
<1>5. PICK c : c = Call(p)
  OBVIOUS
<1>6. PICK rows1 : rows1 = [bookings EXCEPT ![c.id] = rows[c.id]]
  OBVIOUS
<1>7. /\ RestOf(front) \in Moves /\ Toward(RestOf(front), rows1, credits, rows, cs)
      /\ c.id \in BookingId /\ c.set \in BookingChanges
      /\ Fits(c, bookings, credits, rows, cs) /\ c.call = "update_booking"
  BY <1>3, <1>4, <1>5, <1>6, RowMoves, TablesNow DEF Tables0
<1>8. /\ bookings[c.id] # NoRow /\ rows[c.id] = Updated(bookings[c.id], c.set)
      /\ rows[c.id].status \in OCCUPYING_STATES => bookings[c.id].status \in OCCUPYING_STATES
  BY <1>7 DEF Fits
<1>9. PICK row : row = rows[c.id]
  OBVIOUS
<1>10. /\ row = Updated(bookings[c.id], c.set) /\ row \in Booking
       /\ row.user = bookings[c.id].user /\ row.day = bookings[c.id].day
       /\ row.category = bookings[c.id].category /\ row.status = c.set.status
  <2>1. bookings[c.id] \in Booking
    BY <1>7, <1>8, TablesNow DEF Tables0
  <2> QED BY <1>7, <1>8, <1>9, <2>1, UpdatedRow
<1>11. ~DayTaken(c.id, row)
  <2> SUFFICES ASSUME row.status \in OCCUPYING_STATES,
                      NEW a \in OccupyingOn(row.user, row.day), a # c.id
               PROVE  FALSE
    BY DEF DayTaken
  <2>1. a \in RowsIn(bookings) /\ c.id \in RowsIn(bookings) /\ OnePerDay(bookings)
    BY <1>7, <1>8 DEF OccupyingOn, Booked, RowsIn, SerialInv, RequestsInv, TablesOK
  <2>2. bookings[c.id].status \in OCCUPYING_STATES
    BY <1>8, <1>9
  <2> QED BY <1>10, <2>1, <2>2 DEF OnePerDay, OccupyingOn
<1>12. Then(p, Rest(p)) /\ bookings' = rows1
  BY <1>5, <1>6, <1>8, <1>9, <1>10, <1>11 DEF update_booking
<1>13. rows1[c.id] = row /\ \A b \in BookingId \ {c.id} : rows1[b] = bookings[b]
  BY <1>6, <1>7, <1>9, TablesNow DEF Tables0
<1>14. Bare(rows1)
  <2>1. c.set.status # "unrecognised"
    BY <1>7 DEF BookingChanges
  <2>2. Bare(bookings)
    BY DEF SerialInv
  <2> QED BY <1>10, <1>13, <2>1, <2>2 DEF Bare, RowsIn
<1>15. KeepsIn(Rest(p), request[p], rows1, credits, holidays)
  BY <1>3, <1>4, <1>7 DEF KeepsIn, Stands
<1>16. rows1 = [b \in BookingId |-> rows1[b]]
  BY <1>6, TablesNow DEF Tables0
<1>17. Apart(credits) /\ credits = [k \in CreditId |-> credits[k]]
  BY TablesNow DEF SerialInv, Tables0
<1>18. PICK cs1, hs1 : cs1 = credits /\ hs1 = holidays
  OBVIOUS
<1>19. /\ rows1 = bookings' /\ cs1 = credits' /\ hs1 = holidays'
       /\ cs1 = [k \in CreditId |-> cs1[k]] /\ KeepsIn(Rest(p), request[p], rows1, cs1, hs1)
       /\ Apart(cs1)
  BY <1>1, <1>12, <1>15, <1>17, <1>18
<1> QED BY <1>2, <1>12, <1>14, <1>16, <1>19, GoingOn

LEMMA CreditsOwner ==
  ASSUME NEW row \in Credit, NEW set \in CreditChanges
  PROVE  LET new == Updated(row, set)
         IN /\ new \in Credit /\ new.status = set.status
            /\ new.user = row.user /\ new.worked_on = row.worked_on
<1>0. Updated(row, set) \in Credit
  BY UpdatedCredit
<1>1. CASE set \in [status : {"approved"}, booking : {NoBooking}]
  BY <1>0, <1>1 DEF Updated, Credit
<1>2. CASE set \in [status : {"used"}, booking : BookingId]
  BY <1>0, <1>2 DEF Updated, Credit
<1>3. CASE set \in [status : {"approved"}, expires : Int]
  BY <1>0, <1>3 DEF Updated, Credit
<1>4. CASE set \in [status : {"rejected", "lapsed"}]
  BY <1>0, <1>4 DEF Updated, Credit
<1> QED BY <1>1, <1>2, <1>3, <1>4 DEF CreditChanges

(* A credit is never refused: it held the claim for its day already.        *)
LEMMA CreditServed ==
  ASSUME SerialInv, NEW p \in Servers, update_compoff_credit(p)
  PROVE  Serves(p)
<1>1. Calling(p, "update_compoff_credit") /\ UNCHANGED <<today, bookings, holidays>>
  BY DEF update_compoff_credit
<1>2. p \in InFlight
  BY <1>1, CallingNow
<1>3. PICK front, E, back, rows, cs :
        /\ front \in Moves
        /\ back \in Seq(E)
        /\ Toward(front, bookings, credits, rows, cs)
        /\ Arrives(back, request[p], rows, cs, holidays)
        /\ \/ /\ front # <<>>
              /\ Head(Head(front)).call = "update_compoff_credit" /\ Call(p) = Head(Head(front))
              /\ Rest(p) = RestOf(front) \o back
           \/ /\ front = <<>> /\ back # <<>> /\ request[p].calls = back
              /\ rows = bookings /\ cs = credits
              /\ Head(Head(back)).call = "update_compoff_credit"
  BY <1>1, CallingNow
<1>4. /\ front # <<>> /\ Head(Head(front)).call = "update_compoff_credit"
      /\ Call(p) = Head(Head(front)) /\ Rest(p) = RestOf(front) \o back
  BY <1>3, FirstLeft
<1>5. PICK c : c = Call(p)
  OBVIOUS
<1>6. PICK cs1 : cs1 = [credits EXCEPT ![c.id] = cs[c.id]]
  OBVIOUS
<1>7. /\ RestOf(front) \in Moves /\ Toward(RestOf(front), bookings, cs1, rows, cs)
      /\ c.id \in CreditId /\ c.set \in CreditChanges
      /\ Fits(c, bookings, credits, rows, cs) /\ c.call = "update_compoff_credit"
  <2>1. c = Head(Head(front)) /\ c.call = "update_compoff_credit"
    BY <1>4, <1>5
  <2>2. front \in Moves /\ front # <<>> /\ Toward(front, bookings, credits, rows, cs)
    BY <1>3, <1>4
  <2>3. PICK rows0, cs0 : rows0 = bookings /\ cs0 = credits
    OBVIOUS
  <2>4. cs0 = [k \in CreditId |-> cs0[k]] /\ cs1 = [cs0 EXCEPT ![c.id] = cs[c.id]]
    BY <1>6, <2>3, TablesNow DEF Tables0
  <2>5. Toward(front, rows0, cs0, rows, cs)
    BY <2>2, <2>3
  <2>6. /\ RestOf(front) \in Moves /\ Toward(RestOf(front), rows0, cs1, rows, cs)
        /\ c.id \in CreditId /\ c.set \in CreditChanges
        /\ Fits(c, rows0, cs0, rows, cs)
    BY <2>1, <2>2, <2>4, <2>5, CreditMoves
  <2> QED BY <2>1, <2>3, <2>6
<1>8. /\ credits[c.id] # NoRow /\ cs[c.id] = Updated(credits[c.id], c.set)
      /\ cs[c.id].status \in CLAIMING_STATES => credits[c.id].status \in CLAIMING_STATES
  BY <1>7 DEF Fits
<1>9. PICK row : row = cs[c.id]
  OBVIOUS
<1>10. /\ row = Updated(credits[c.id], c.set) /\ row \in Credit
       /\ row.user = credits[c.id].user /\ row.worked_on = credits[c.id].worked_on
  <2>1. credits[c.id] \in Credit
    BY <1>7, <1>8, TablesNow DEF Tables0
  <2> QED BY <1>7, <1>8, <1>9, <2>1, CreditsOwner
<1>11. ~WorkedDayClaimed(c.id, row)
  <2> SUFFICES ASSUME row.status \in CLAIMING_STATES, NEW j \in Claimed \ {c.id},
                      credits[j].user = row.user, credits[j].worked_on = row.worked_on,
                      credits[j].status \in CLAIMING_STATES
               PROVE  FALSE
    BY DEF WorkedDayClaimed
  <2>1. j \in RowsOf(credits) /\ c.id \in RowsOf(credits) /\ Apart(credits)
    BY <1>7, <1>8 DEF Claimed, RowsOf, SerialInv
  <2>2. credits[c.id].status \in CLAIMING_STATES
    BY <1>8, <1>9
  <2> QED BY <1>10, <2>1, <2>2 DEF Apart
<1>12. Then(p, Rest(p)) /\ credits' = cs1
  BY <1>5, <1>6, <1>8, <1>9, <1>10, <1>11 DEF update_compoff_credit
<1>13. cs1[c.id] = row /\ \A k \in CreditId \ {c.id} : cs1[k] = credits[k]
  BY <1>6, <1>7, <1>9, TablesNow DEF Tables0
<1>14. Apart(cs1)
  <2>1. Apart(credits) /\ row # NoRow
    BY <1>10, NoRowAssumption DEF SerialInv
  <2>2. \A k \in RowsOf(cs1) :
          /\ k \in RowsOf(credits) /\ cs1[k].user = credits[k].user
          /\ cs1[k].worked_on = credits[k].worked_on
          /\ cs1[k].status \in CLAIMING_STATES => credits[k].status \in CLAIMING_STATES
    BY <1>7, <1>8, <1>9, <1>10, <1>13 DEF RowsOf
  <2> QED BY <2>1, <2>2 DEF Apart
<1>15. KeepsIn(Rest(p), request[p], bookings, cs1, holidays)
  BY <1>3, <1>4, <1>7 DEF KeepsIn, Stands
<1>16. cs1 = [k \in CreditId |-> cs1[k]]
  BY <1>6, TablesNow DEF Tables0
<1>17. Bare(bookings) /\ bookings = [b \in BookingId |-> bookings[b]]
  BY TablesNow DEF SerialInv, Tables0
<1>18. PICK rows1, hs1 : rows1 = bookings /\ hs1 = holidays
  OBVIOUS
<1>19. /\ rows1 = bookings' /\ cs1 = credits' /\ hs1 = holidays'
       /\ rows1 = [b \in BookingId |-> rows1[b]]
       /\ KeepsIn(Rest(p), request[p], rows1, cs1, hs1)
       /\ Bare(rows1)
  BY <1>1, <1>12, <1>15, <1>17, <1>18
<1> QED BY <1>2, <1>12, <1>14, <1>16, <1>19, GoingOn

(* The credits a booking holds are listed, one call for each.               *)
LEMMA ReleaseServed ==
  ASSUME SerialInv, NEW p \in Servers, release_for_booking(p)
  PROVE  Serves(p)
<1>1. Calling(p, "release_for_booking") /\ UNCHANGED <<today, tables>>
  BY DEF release_for_booking
<1>2. p \in InFlight
  BY <1>1, CallingNow
<1>3. PICK front, E, back, rows, cs :
        /\ front \in Moves
        /\ back \in Seq(E)
        /\ Toward(front, bookings, credits, rows, cs)
        /\ Arrives(back, request[p], rows, cs, holidays)
        /\ \/ /\ front # <<>>
              /\ Head(Head(front)).call = "release_for_booking" /\ Call(p) = Head(Head(front))
              /\ Rest(p) = RestOf(front) \o back
           \/ /\ front = <<>> /\ back # <<>> /\ request[p].calls = back
              /\ rows = bookings /\ cs = credits
              /\ Head(Head(back)).call = "release_for_booking"
  BY <1>1, CallingNow
<1>4. /\ front # <<>> /\ Head(Head(front)).call = "release_for_booking"
      /\ Call(p) = Head(Head(front)) /\ Rest(p) = RestOf(front) \o back
  BY <1>3, FirstLeft
<1>5. PICK c : c = Call(p)
  OBVIOUS
<1>6. PICK S : S = {k \in CreditId : Spends(credits, k, c.id)}
  OBVIOUS
<1>7. UsedBy(c.id) = S
  BY <1>6 DEF UsedBy, Claimed, Spends
<1>8. PICK order \in SetToSeqs(S) :
        Then(p, [i \in DOMAIN order |->
                   <<UpdateCredit(order[i], [status |-> "approved", booking |-> NoBooking])>>]
                \o Rest(p))
  BY <1>5, <1>7 DEF release_for_booking
<1>9. PICK first : first = [i \in DOMAIN order |-> <<UpdateCredit(order[i], Back)>>]
  OBVIOUS
<1>10. Then(p, first \o Rest(p))
  BY <1>8, <1>9 DEF Back
<1>11. /\ first \o RestOf(front) \in Moves
       /\ Toward(first \o RestOf(front), bookings, credits, rows, cs)
  <2>1. front # <<>> /\ c = Head(Head(front)) /\ c.call = "release_for_booking"
    BY <1>4, <1>5
  <2>2. Toward(front, bookings, credits, rows, cs)
    BY <1>3
  <2>3. PICK cs0 : cs0 = credits
    OBVIOUS
  <2>4. cs0 \in [CreditId -> Credit \cup {NoRow}]
    BY <2>3, TablesNow DEF Tables0
  <2>5. PICK rows0 : rows0 = bookings
    OBVIOUS
  <2>7. S = {k \in CreditId : Spends(cs0, k, c.id)} /\ Toward(front, rows0, cs0, rows, cs)
    BY <1>6, <2>2, <2>3, <2>5
  <2>8. order \in SetToSeqs(S)
    BY <1>8
  <2>9. front \in Moves
    BY <1>3
  <2>6. /\ first \o RestOf(front) \in Moves
        /\ Toward(first \o RestOf(front), rows0, cs0, rows, cs)
    BY <1>9, <2>1, <2>4, <2>7, <2>8, <2>9, ReleaseMoves
  <2> QED BY <2>3, <2>5, <2>6
<1>12. first \o Rest(p) = (first \o RestOf(front)) \o back
  <2>1. RestOf(front) \in Moves
    BY <1>3, <1>4, HasRest DEF Moves
  <2>2. first \in Moves
    <3>1. PICK g : g = [k \in S |-> <<UpdateCredit(k, Back)>>]
      OBVIOUS
    <3>2. MaxCredits \in Nat /\ S \in SUBSET (1 .. MaxCredits)
      BY <1>6, BoundsAssumption DEF CreditId
    <3>3. \A i \in DOMAIN order : order[i] \in S
      BY <3>2, EveryOne
    <3>4. first = [i \in DOMAIN order |-> g[order[i]]]
      BY <1>9, <3>1, <3>3
    <3>5. Back \in CreditChanges
      BY DEF Back, CreditChanges
    <3>6. ASSUME NEW k \in S PROVE g[k] \in Seq(MovingCalls) \ {<<>>}
      <4>1. UpdateCredit(k, Back) \in MovingCalls
        BY <1>6, <3>5 DEF UpdateCredit, MovingCalls
      <4>2. \A x \in MovingCalls : <<x>> \in Seq(MovingCalls) \ {<<>>}
        OBVIOUS
      <4> QED BY <3>1, <4>1, <4>2
    <3> QED BY <3>2, <3>4, <3>6, MovesForEach
  <2>3. PICK B, D : B = Seq(MovingCalls) \ {<<>>} /\ D = B \cup E
    OBVIOUS
  <2>4. PICK t : t = RestOf(front)
    OBVIOUS
  <2>5. first \in Seq(D) /\ t \in Seq(D) /\ back \in Seq(D)
    <3>1. first \in Seq(B) /\ t \in Seq(B) /\ back \in Seq(E) /\ B \subseteq D /\ E \subseteq D
      BY <1>3, <2>1, <2>2, <2>3, <2>4 DEF Moves
    <3> QED BY <3>1, SeqMonotonic
  <2>6. first \o (t \o back) = (first \o t) \o back
    BY <2>5, ConcatAssociative
  <2> QED BY <1>4, <2>4, <2>6
<1>13. KeepsIn(first \o Rest(p), request[p], bookings, credits, holidays)
  BY <1>3, <1>11, <1>12 DEF KeepsIn, Stands
<1>14. PICK calls : calls = first \o Rest(p)
  OBVIOUS
<1>15. PICK rows1, cs1, hs1 : rows1 = bookings /\ cs1 = credits /\ hs1 = holidays
  OBVIOUS
<1>16. /\ rows1 = bookings' /\ cs1 = credits' /\ hs1 = holidays'
       /\ rows1 = [b \in BookingId |-> rows1[b]] /\ cs1 = [k \in CreditId |-> cs1[k]]
       /\ KeepsIn(calls, request[p], rows1, cs1, hs1) /\ Then(p, calls)
       /\ Bare(rows1) /\ Apart(cs1)
  BY <1>1, <1>10, <1>13, <1>14, <1>15, TablesNow DEF tables, Tables0, SerialInv
<1> QED BY <1>2, <1>16, GoingOn

(* With nothing to move, what is left is what follows.                      *)
LEMMA AtRest ==
  ASSUME NEW back, NEW E, back \in Seq(E), NEW r, NEW rows, NEW cs, NEW hs,
         Arrives(back, r, rows, cs, hs),
         rows = [b \in BookingId |-> rows[b]], cs = [k \in CreditId |-> cs[k]]
  PROVE  KeepsIn(back, r, rows, cs, hs)
<1>1. \A c : ~Has(<<>>, c)
  BY DEF Has
<1>2. Toward(<<>>, rows, cs, rows, cs)
  BY <1>1 DEF Toward
<1>3. back = <<>> \o back
  OBVIOUS
<1>4. <<>> \in Moves
  BY DEF Moves
<1> QED BY <1>2, <1>3, <1>4 DEF KeepsIn, Stands

LEMMA BackNow ==
  ASSUME SerialInv, NEW p \in Servers, NEW name, Calling(p, name),
         name \notin {"update_booking", "release_for_booking", "update_compoff_credit"}
  PROVE  /\ p \in InFlight /\ request[p].calls # <<>>
         /\ Head(Head(request[p].calls)).call = name
         /\ Arrives(request[p].calls, request[p], bookings, credits, holidays)
         /\ Call(p) = Head(Head(request[p].calls)) /\ Rest(p) = RestOf(request[p].calls)
<1>1. p \in InFlight
  BY CallingNow
<1>2. PICK front, E, back, rows, cs :
        /\ front \in Moves
        /\ back \in Seq(E)
        /\ Toward(front, bookings, credits, rows, cs)
        /\ Arrives(back, request[p], rows, cs, holidays)
        /\ \/ /\ front # <<>>
              /\ Head(Head(front)).call = name /\ Call(p) = Head(Head(front))
              /\ Rest(p) = RestOf(front) \o back
           \/ /\ front = <<>> /\ back # <<>> /\ request[p].calls = back
              /\ rows = bookings /\ cs = credits
              /\ Head(Head(back)).call = name
  BY CallingNow
<1>3. front = <<>>
  <2> SUFFICES ASSUME front # <<>> PROVE FALSE
    OBVIOUS
  <2>1. Head(Head(front)).call = name
    BY <1>2
  <2>2. Head(Head(front)) \in MovingCalls
    <3>1. Has(front, Head(Head(front))) /\ \A c : Has(front, c) => c \in MovingCalls
      BY <1>2, HasRest DEF Moves
    <3> QED BY <3>1
  <2> QED BY <2>1, <2>2, MovingCall
<1>4. Call(p) = Head(Head(request[p].calls)) /\ Rest(p) = RestOf(request[p].calls)
  BY DEF Call, Rest, RestOf
<1> QED BY <1>1, <1>2, <1>3, <1>4

LEMMA OneLeft ==
  ASSUME NEW x, NEW rest, rest = <<>> \/ \E y : rest = <<y>>
  PROVE  /\ Head(<<x>> \o rest) = x
         /\ Len(x) = 1 => RestOf(<<x>> \o rest) = rest
<1>1. ASSUME NEW D, x \in D, NEW t \in Seq(D)
      PROVE  Head(<<x>> \o t) = x /\ Tail(<<x>> \o t) = t
  <2>1. PICK u : u = <<x>>
    OBVIOUS
  <2>2. u \in Seq(D) /\ u # <<>> /\ Head(u) = x /\ Tail(u) = <<>>
    BY <1>1, <2>1
  <2>3. Head(u \o t) = Head(u) /\ Tail(u \o t) = Tail(u) \o t
    BY <1>1, <2>2, FrontGoesFirst
  <2>4. <<>> \o t = t
    BY <1>1
  <2> QED BY <2>1, <2>2, <2>3, <2>4
<1>2. CASE rest = <<>>
  <2>1. <<>> \in Seq({x}) /\ x \in {x}
    OBVIOUS
  <2>2. Head(<<x>> \o <<>>) = x /\ Tail(<<x>> \o <<>>) = <<>>
    BY <1>1, <2>1
  <2> QED BY <1>2, <2>2 DEF RestOf
<1>3. CASE \E y : rest = <<y>>
  <2>1. PICK y : rest = <<y>>
    BY <1>3
  <2>2. <<y>> \in Seq({x, y}) /\ x \in {x, y}
    OBVIOUS
  <2>3. Head(<<x>> \o <<y>>) = x /\ Tail(<<x>> \o <<y>>) = <<y>>
    BY <1>1, <2>2
  <2> QED BY <2>1, <2>3 DEF RestOf
<1> QED BY <1>2, <1>3

LEMMA AbsenceServed ==
  ASSUME SerialInv, NEW p \in Servers, update_booking_if_status(p)
  PROVE  Serves(p)
<1>1. Calling(p, "update_booking_if_unrecognised") /\ UNCHANGED <<today, credits, holidays>>
  BY DEF update_booking_if_status
<1>2. PICK s : s = request[p].calls
  OBVIOUS
<1>3. /\ p \in InFlight /\ s # <<>> /\ Head(Head(s)).call = "update_booking_if_unrecognised"
      /\ Arrives(s, request[p], bookings, credits, holidays)
      /\ Call(p) = Head(Head(s)) /\ Rest(p) = RestOf(s)
  BY <1>1, <1>2, BackNow
<1>4. UpdatesIf(s, request[p], bookings, credits, holidays)
  BY <1>3, FirstLeft
<1>5. PICK b, set, rest :
        /\ b \in BookingId /\ set \in AbsenceChanges
        /\ s = <<<<UpdateIf(b, set)>>>> \o rest
        /\ Settles(b, set, rest, request[p], bookings, credits, holidays)
  BY <1>4 DEF UpdatesIf
<1>6. PICK rows1 : rows1 = [bookings EXCEPT ![b] = Updated(bookings[b], set)]
  OBVIOUS
<1>7. /\ bookings[b].status = "unrecognised"
      /\ Updated(bookings[b], set).status # "unrecognised"
      /\ Pays(rest, request[p], rows1, credits, holidays)
  BY <1>5, <1>6 DEF Settles
<1>8. rest = <<>> \/ \E c : rest = <<<<Consume(c)>>>>
  BY <1>7 DEF Pays
<1>9. Call(p) = UpdateIf(b, set) /\ Rest(p) = rest
  <2>1. PICK x : x = <<UpdateIf(b, set)>>
    OBVIOUS
  <2>2. Head(<<x>> \o rest) = x /\ (Len(x) = 1 => RestOf(<<x>> \o rest) = rest)
    BY <1>8, OneLeft
  <2>3. Len(x) = 1 /\ Head(x) = UpdateIf(b, set) /\ s = <<x>> \o rest
    BY <1>5, <2>1
  <2> QED BY <1>3, <2>2, <2>3
<1>10. Call(p).id = b /\ Call(p).set = set
  BY <1>9 DEF UpdateIf
<1>11. Then(p, rest) /\ bookings' = rows1
  BY <1>6, <1>7, <1>9, <1>10 DEF update_booking_if_status
<1>12. rows1 = [x \in BookingId |-> rows1[x]] /\ credits = [k \in CreditId |-> credits[k]]
  BY <1>5, <1>6, TablesNow DEF Tables0
<1>13. KeepsIn(rest, request[p], rows1, credits, holidays)
  <2>1. \E E : rest \in Seq(E)
    <3>1. CASE rest = <<>>
      <4>1. <<>> \in Seq({})
        OBVIOUS
      <4> QED BY <3>1, <4>1
    <3>2. CASE \E c : rest = <<<<Consume(c)>>>>
      <4>1. PICK y : rest = <<y>>
        BY <3>2
      <4>2. <<y>> \in Seq({y})
        OBVIOUS
      <4> QED BY <4>1, <4>2
    <3> QED BY <1>8, <3>1, <3>2
  <2>2. Arrives(rest, request[p], rows1, credits, holidays)
    BY <1>7 DEF Arrives
  <2> QED BY <1>12, <2>1, <2>2, AtRest
<1>14. Bare(rows1)
  <2>1. rows1[b] = Updated(bookings[b], set) /\ \A a \in BookingId \ {b} : rows1[a] = bookings[a]
    BY <1>5, <1>6, TablesNow DEF Tables0
  <2>2. Bare(bookings)
    BY DEF SerialInv
  <2> QED BY <1>7, <2>1, <2>2 DEF Bare, RowsIn
<1>15. PICK cs1, hs1 : cs1 = credits /\ hs1 = holidays
  OBVIOUS
<1>16. /\ rows1 = bookings' /\ cs1 = credits' /\ hs1 = holidays'
       /\ cs1 = [k \in CreditId |-> cs1[k]]
       /\ KeepsIn(rest, request[p], rows1, cs1, hs1) /\ Apart(cs1)
  BY <1>1, <1>11, <1>12, <1>13, <1>15 DEF SerialInv
<1> QED BY <1>3, <1>11, <1>12, <1>14, <1>16, GoingOn

LEMMA InsertServed ==
  ASSUME SerialInv, NEW p \in Servers, insert_booking(p)
  PROVE  Serves(p)
<1>1. Calling(p, "insert_booking") /\ UNCHANGED <<today, credits, holidays>>
  BY DEF insert_booking
<1>2. PICK s : s = request[p].calls
  OBVIOUS
<1>3. /\ p \in InFlight /\ s # <<>> /\ Head(Head(s)).call = "insert_booking"
      /\ Arrives(s, request[p], bookings, credits, holidays)
      /\ Call(p) = Head(Head(s)) /\ Rest(p) = RestOf(s)
  BY <1>1, <1>2, BackNow
<1>4. Inserts(s, request[p], bookings, credits, holidays)
  BY <1>3, FirstLeft
<1>5. PICK row \in Booking :
        s = <<<<Insert(row)>>>> /\ Enters(row, request[p], bookings, credits, holidays)
  BY <1>4 DEF Inserts
<1>6. Call(p) = Insert(row)
  BY <1>3, <1>5
<1>7. Call(p).row = row
  BY <1>6 DEF Insert
<1>8. PICK n \in BookingId :
        /\ IsNextRow(n, bookings)
        /\ IF DayTaken(n, row)
           THEN Refuse(p) /\ UNCHANGED bookings
           ELSE /\ bookings' = [bookings EXCEPT ![n] = row]
                /\ Then(p, ThenConsume(n, row.category))
  BY <1>7 DEF insert_booking
<1>9. ~DayTaken(n, row)
  BY <1>5 DEF Enters, DayTaken, OccupyingOn, Booked, RowsIn
<1>10. PICK rows1, calls :
         rows1 = [bookings EXCEPT ![n] = row] /\ calls = ThenConsume(n, row.category)
  OBVIOUS
<1>11. bookings' = rows1 /\ Then(p, calls)
  BY <1>8, <1>9, <1>10
<1>12. rows1 = [x \in BookingId |-> rows1[x]] /\ credits = [k \in CreditId |-> credits[k]]
  BY <1>10, TablesNow DEF Tables0
<1>13. KeepsIn(calls, request[p], rows1, credits, holidays)
  <2>1. \E E : calls \in Seq(E)
    <3>1. CASE calls = <<>>
      <4>1. <<>> \in Seq({})
        OBVIOUS
      <4> QED BY <3>1, <4>1
    <3>2. CASE calls # <<>>
      <4>1. PICK y : calls = <<y>>
        BY <1>10, <3>2 DEF ThenConsume
      <4>2. <<y>> \in Seq({y})
        OBVIOUS
      <4> QED BY <4>1, <4>2
    <3> QED BY <3>1, <3>2
  <2>2. Pays(calls, request[p], rows1, credits, holidays)
    BY <1>5, <1>8, <1>10 DEF Enters
  <2>3. Arrives(calls, request[p], rows1, credits, holidays)
    BY <2>2 DEF Arrives
  <2> QED BY <1>12, <2>1, <2>3, AtRest
<1>14. Bare(rows1)
  <2>1. rows1[n] = row /\ \A a \in BookingId \ {n} : rows1[a] = bookings[a]
    BY <1>10, TablesNow DEF Tables0
  <2>2. Bare(bookings) /\ (row.status = "unrecognised" => row.category = NO_CATEGORY)
    BY <1>5 DEF SerialInv, Enters
  <2> QED BY <2>1, <2>2 DEF Bare, RowsIn
<1>15. PICK cs1, hs1 : cs1 = credits /\ hs1 = holidays
  OBVIOUS
<1>16. /\ rows1 = bookings' /\ cs1 = credits' /\ hs1 = holidays'
       /\ cs1 = [k \in CreditId |-> cs1[k]]
       /\ KeepsIn(calls, request[p], rows1, cs1, hs1) /\ Apart(cs1)
  BY <1>1, <1>11, <1>12, <1>13, <1>15 DEF SerialInv
<1> QED BY <1>3, <1>11, <1>12, <1>14, <1>16, GoingOn

LEMMA ClaimServed ==
  ASSUME SerialInv, NEW p \in Servers, insert_compoff_credit(p)
  PROVE  Serves(p)
<1>1. Calling(p, "insert_compoff_credit") /\ UNCHANGED <<today, bookings, holidays>> /\ Refuse(p)
  BY DEF insert_compoff_credit
<1>2. PICK s : s = request[p].calls
  OBVIOUS
<1>3. /\ p \in InFlight /\ s # <<>> /\ Head(Head(s)).call = "insert_compoff_credit"
      /\ Arrives(s, request[p], bookings, credits, holidays)
      /\ Call(p) = Head(Head(s)) /\ Rest(p) = RestOf(s)
  BY <1>1, <1>2, BackNow
<1>4. InsertsCredit(s, request[p], bookings, credits, holidays)
  BY <1>3, FirstLeft
<1>5. PICK row \in Credit :
        s = <<<<InsertCredit(row)>>>> /\ Claims(row, bookings, credits, holidays)
  BY <1>4 DEF InsertsCredit
<1>6. Call(p) = InsertCredit(row)
  BY <1>3, <1>5
<1>7. Call(p).row = row
  BY <1>6 DEF InsertCredit
<1>8. PICK n \in CreditId :
        /\ IsNextRow(n, credits)
        /\ credits' = IF WorkedDayClaimed(n, row) THEN credits ELSE [credits EXCEPT ![n] = row]
  BY <1>7 DEF insert_compoff_credit
<1>9. WorkedDayClaimed(n, row) <=> ClaimedIn(credits, row)
  <2>1. row.status \in CLAIMING_STATES
    BY <1>5 DEF Claims, CLAIMING_STATES
  <2>2. n \notin Claimed /\ Claimed = RowsOf(credits)
    BY <1>8 DEF IsNextRow, Claimed, RowsOf
  <2> QED BY <2>1, <2>2 DEF WorkedDayClaimed, ClaimedIn
<1>10. PICK cs1 : cs1 = IF ClaimedIn(credits, row) THEN credits ELSE [credits EXCEPT ![n] = row]
  OBVIOUS
<1>11. credits' = cs1 /\ Outcome(bookings, cs1, holidays)
  BY <1>5, <1>8, <1>9, <1>10 DEF Claims
<1>12. bookings = [x \in BookingId |-> bookings[x]] /\ cs1 = [k \in CreditId |-> cs1[k]]
  BY <1>10, TablesNow DEF Tables0
<1>13. KeepsIn(<<>>, request[p], bookings, cs1, holidays)
  <2>1. <<>> \in Seq({})
    OBVIOUS
  <2>2. Arrives(<<>>, request[p], bookings, cs1, holidays)
    BY <1>11 DEF Arrives, Pays
  <2> QED BY <1>12, <2>1, <2>2, AtRest
<1>14. Apart(cs1)
  <2>1. CASE ClaimedIn(credits, row)
    BY <1>10, <2>1 DEF SerialInv
  <2>2. CASE ~ClaimedIn(credits, row)
    <3>1. cs1[n] = row /\ \A k \in CreditId \ {n} : cs1[k] = credits[k]
      BY <1>10, <2>2, TablesNow DEF Tables0
    <3>2. Apart(credits)
      BY DEF SerialInv
    <3> QED BY <2>2, <3>1, <3>2 DEF Apart, ClaimedIn, RowsOf
  <2> QED BY <2>1, <2>2
<1>15. PICK rows1, hs1 : rows1 = bookings /\ hs1 = holidays
  OBVIOUS
<1>16. /\ rows1 = bookings' /\ cs1 = credits' /\ hs1 = holidays'
       /\ rows1 = [b \in BookingId |-> rows1[b]]
       /\ KeepsIn(<<>>, request[p], rows1, cs1, hs1) /\ Bare(rows1) /\ Then(p, <<>>)
  BY <1>1, <1>11, <1>12, <1>13, <1>15 DEF SerialInv, Then
<1> QED BY <1>3, <1>12, <1>14, <1>16, GoingOn

LEMMA HolidayServed ==
  ASSUME SerialInv, NEW p \in Servers, write_holiday(p)
  PROVE  Serves(p)
<1>1. Calling(p, "write_holiday") /\ UNCHANGED <<today, bookings, credits>>
  BY DEF write_holiday
<1>2. PICK s : s = request[p].calls
  OBVIOUS
<1>3. /\ p \in InFlight /\ s # <<>> /\ Head(Head(s)).call = "write_holiday"
      /\ Arrives(s, request[p], bookings, credits, holidays)
      /\ Call(p) = Head(Head(s)) /\ Rest(p) = RestOf(s)
  BY <1>1, <1>2, BackNow
<1>4. WritesHoliday(s, request[p], bookings, credits, holidays)
  BY <1>3, FirstLeft
<1>5. PICK old, new, d, l, hs1 :
        /\ s = <<<<WriteHoliday(old, new), ReleaseOn(d, l)>>>>
        /\ hs1 = (holidays \ old) \cup {new}
        /\ Releases(d, l, request[p], bookings, credits, hs1)
  BY <1>4 DEF WritesHoliday
<1>6. Call(p) = WriteHoliday(old, new)
  BY <1>3, <1>5
<1>7. holidays' = hs1
  BY <1>5, <1>6 DEF WriteHoliday, write_holiday
<1>8. Rest(p) = <<<<ReleaseOn(d, l)>>>>
  <2>1. PICK x, y : x = WriteHoliday(old, new) /\ y = ReleaseOn(d, l)
    OBVIOUS
  <2>2. s = <<<<x, y>>>>
    BY <1>5, <2>1
  <2>3. RestOf(<<<<x, y>>>>) = <<<<y>>>>
    BY DEF RestOf
  <2> QED BY <1>3, <2>1, <2>2, <2>3
<1>9. Then(p, <<<<ReleaseOn(d, l)>>>>)
  BY <1>8 DEF write_holiday
<1>10. PICK calls : calls = <<<<ReleaseOn(d, l)>>>>
  OBVIOUS
<1>11. bookings = [x \in BookingId |-> bookings[x]] /\ credits = [k \in CreditId |-> credits[k]]
  BY TablesNow DEF Tables0
<1>12. KeepsIn(calls, request[p], bookings, credits, hs1)
  <2>1. calls \in Seq({<<ReleaseOn(d, l)>>})
    BY <1>10
  <2>2. Arrives(calls, request[p], bookings, credits, hs1)
    BY <1>5, <1>10 DEF Arrives, ReleasesOn
  <2> QED BY <1>11, <2>1, <2>2, AtRest
<1>13. PICK rows1, cs1 : rows1 = bookings /\ cs1 = credits
  OBVIOUS
<1>14. /\ rows1 = bookings' /\ cs1 = credits' /\ hs1 = holidays'
       /\ rows1 = [b \in BookingId |-> rows1[b]] /\ cs1 = [k \in CreditId |-> cs1[k]]
       /\ KeepsIn(calls, request[p], rows1, cs1, hs1) /\ Bare(rows1) /\ Apart(cs1)
       /\ Then(p, calls)
  BY <1>1, <1>7, <1>9, <1>10, <1>11, <1>12, <1>13 DEF SerialInv
<1> QED BY <1>3, <1>14, GoingOn

LEMMA MovedTo ==
  ASSUME NEW row \in Booking, NEW status \in STATES, NEW who \in Users \cup {Nobody}
  PROVE  /\ Updated(row, To(status, who)) = Moved(row, status, who)
         /\ Moved(row, status, who) \in Booking /\ Moved(row, status, who).status = status
<1>1. /\ DOMAIN row = {"user", "day", "category", "duration", "status", "decided_by", "backfilled"}
      /\ DOMAIN To(status, who) = {"status", "decided_by"}
      /\ To(status, who)["status"] = status /\ To(status, who)["decided_by"] = who
  BY DEF Booking, To
<1>2. Moved(row, status, who) \in Booking /\ Moved(row, status, who).status = status
  BY DEF Moved, Booking
<1>3. /\ Moved(row, status, who) = [x \in DOMAIN row |-> Moved(row, status, who)[x]]
      /\ \A x \in DOMAIN row :
           Moved(row, status, who)[x] = IF x = "status" THEN status
                                        ELSE IF x = "decided_by" THEN who ELSE row[x]
  BY <1>1 DEF Moved, Booking
<1>4. Updated(row, To(status, who)) = Moved(row, status, who)
  BY <1>1, <1>3 DEF Updated
<1> QED BY <1>2, <1>4

SpendOn(b) == [status |-> "used", booking |-> b]

LEMMA CreditSpent ==
  ASSUME NEW credit \in Credit, NEW b \in BookingId
  PROVE  /\ Updated(credit, SpendOn(b)) = Used(credit, b)
         /\ Used(credit, b) \in Credit
<1>0. PICK set : set = SpendOn(b)
  OBVIOUS
<1>1. /\ DOMAIN credit = {"user", "worked_on", "days", "status", "expires", "booking"}
      /\ DOMAIN set = {"status", "booking"}
      /\ set["status"] = "used" /\ set["booking"] = b
  BY <1>0 DEF Credit, SpendOn
<1>3. /\ Used(credit, b) = [x \in DOMAIN credit |-> Used(credit, b)[x]]
      /\ \A x \in DOMAIN credit :
           Used(credit, b)[x] = IF x = "status" THEN "used"
                                ELSE IF x = "booking" THEN b ELSE credit[x]
  BY <1>1 DEF Used, Credit
<1>4. Updated(credit, set) = Used(credit, b)
  BY <1>1, <1>3 DEF Updated
<1>5. set \in CreditChanges
  BY <1>0 DEF CreditChanges, SpendOn
<1>6. Used(credit, b) \in Credit
  BY <1>4, <1>5, UpdatedCredit
<1> QED BY <1>0, <1>4, <1>6

(* The calls that end the bookings of S, and only they.                     *)
Ends(lists, S, status, who) ==
  \A c : Has(lists, c) <=>
           \E b \in S : \/ c = Update(b, To(status, who))
                        \/ bookings[b].category = "compoff" /\ c = ReleaseFor(b)

LEMMA EndingMoves ==
  ASSUME TypeOK, NEW S \in SUBSET RowsIn(bookings),
         NEW status \in {"rejected", "withdrawn", "released"}, NEW who \in Users \cup {Nobody},
         NEW lists \in Moves, Ends(lists, S, status, who)
  PROVE  Toward(lists, bookings, credits, MovedIn(bookings, S, status, who),
                FreedIn(bookings, credits, S))
<1>1. PICK rows, cs :
        rows = MovedIn(bookings, S, status, who) /\ cs = FreedIn(bookings, credits, S)
  OBVIOUS
<1>2. /\ S \subseteq BookingId /\ \A b \in S : bookings[b] \in Booking
      /\ \A k \in CreditId : credits[k] \in Credit \cup {NoRow}
      /\ status \in STATES /\ status \notin OCCUPYING_STATES
  BY DEF TypeOK, RowsIn, STATES, OCCUPYING_STATES
<1>3. /\ rows = [b \in BookingId |-> rows[b]] /\ cs = [k \in CreditId |-> cs[k]]
      /\ \A b \in BookingId : rows[b] = IF b \in S THEN Moved(bookings[b], status, who)
                                        ELSE bookings[b]
      /\ \A k \in CreditId :
           cs[k] = IF \E b \in S : bookings[b].category = "compoff" /\ Spends(credits, k, b)
                   THEN Returned(credits[k]) ELSE credits[k]
  BY <1>1 DEF MovedIn, FreedIn
<1>4. ASSUME NEW b \in S PROVE Fits(Update(b, To(status, who)), bookings, credits, rows, cs)
  <2>1. /\ rows[b] = Updated(bookings[b], To(status, who)) /\ rows[b] \in Booking
        /\ rows[b].status = status /\ bookings[b] \in Booking
    BY <1>2, <1>3, MovedTo
  <2>2. PICK c : c = Update(b, To(status, who))
    OBVIOUS
  <2>3. c.call = "update_booking" /\ c.id = b /\ c.set = To(status, who)
    BY <2>2 DEF Update
  <2>4. Fits(c, bookings, credits, rows, cs)
    BY <1>2, <2>1, <2>3, NoRowAssumption DEF Fits
  <2> QED BY <2>2, <2>4
<1>5. ASSUME NEW b \in S, bookings[b].category = "compoff"
      PROVE  Fits(ReleaseFor(b), bookings, credits, rows, cs)
  <2>1. PICK c : c = ReleaseFor(b)
    OBVIOUS
  <2>2. c.call = "release_for_booking" /\ c.id = b
    BY <2>1 DEF ReleaseFor
  <2>3. ASSUME NEW k \in CreditId, Spends(credits, k, b) PROVE cs[k] = Returned(credits[k])
    BY <1>3, <1>5, <2>3
  <2>4. ASSUME NEW k \in CreditId, Spends(cs, k, b) PROVE FALSE
    <3>1. CASE \E a \in S : bookings[a].category = "compoff" /\ Spends(credits, k, a)
      <4>1. cs[k] = Returned(credits[k]) /\ credits[k] \in Credit
        BY <1>2, <1>3, <3>1 DEF Spends
      <4> QED BY <2>4, <4>1, HandedBack DEF Spends
    <3>2. CASE ~\E a \in S : bookings[a].category = "compoff" /\ Spends(credits, k, a)
      <4>1. cs[k] = credits[k]
        BY <1>3, <3>2
      <4>2. Spends(credits, k, b)
        BY <2>4, <4>1 DEF Spends
      <4> QED BY <1>5, <3>2, <4>2
    <3> QED BY <3>1, <3>2
  <2>5. Fits(c, bookings, credits, rows, cs)
    BY <2>2, <2>3, <2>4 DEF Fits
  <2> QED BY <2>1, <2>5
<1>6. \A c : Has(lists, c) => Fits(c, bookings, credits, rows, cs)
  BY <1>4, <1>5 DEF Ends
<1>7. ASSUME NEW b \in BookingId
      PROVE  bookings[b] = rows[b] \/ \E set : Has(lists, Update(b, set))
  BY <1>3 DEF Ends
<1>8. ASSUME NEW k \in CreditId
      PROVE  \/ credits[k] = cs[k]
             \/ \E set : Has(lists, UpdateCredit(k, set))
             \/ \E b : Has(lists, ReleaseFor(b)) /\ Spends(credits, k, b)
  BY <1>3 DEF Ends
<1>9. Toward(lists, bookings, credits, rows, cs)
  BY <1>3, <1>6, <1>7, <1>8 DEF Toward
<1> QED BY <1>1, <1>9

(* One list of calls for each of them.                                      *)
LEMMA EndingLists ==
  ASSUME TypeOK, NEW S \in SUBSET RowsIn(bookings),
         NEW status \in {"rejected", "withdrawn", "released"}, NEW who \in Users \cup {Nobody},
         NEW order \in SetToSeqs(S),
         NEW lists, lists = [i \in DOMAIN order |-> EndCalls(order[i], status, who)]
  PROVE  lists \in Moves /\ Ends(lists, S, status, who)
<1>1. MaxBookings \in Nat /\ S \in SUBSET (1 .. MaxBookings)
  BY BoundsAssumption DEF RowsIn, BookingId
<1>2. PICK g : g = [b \in S |-> EndCalls(b, status, who)]
  OBVIOUS
<1>3. lists = [i \in DOMAIN order |-> g[order[i]]]
  <2>1. \A i \in DOMAIN order : order[i] \in S
    BY <1>1, EveryOne
  <2> QED BY <1>2, <2>1
<1>4. ASSUME NEW b \in S
      PROVE  /\ g[b] \in Seq(MovingCalls) \ {<<>>}
             /\ \A c : (\E j \in DOMAIN g[b] : g[b][j] = c)
                         <=> \/ c = Update(b, To(status, who))
                             \/ bookings[b].category = "compoff" /\ c = ReleaseFor(b)
  <2>1. PICK x, y : x = Update(b, To(status, who)) /\ y = ReleaseFor(b)
    OBVIOUS
  <2>2. x \in MovingCalls /\ y \in MovingCalls
    <3>1. b \in BookingId
      BY DEF RowsIn
    <3>2. To(status, who) \in BookingChanges
      BY DEF To, BookingChanges
    <3> QED BY <2>1, <3>1, <3>2 DEF Update, ReleaseFor, MovingCalls
  <2>3. CASE bookings[b].category = "compoff"
    <3>1. g[b] = <<x>> \o <<y>>
      BY <1>2, <2>1, <2>3 DEF EndCalls
    <3>20. PICK X : X = <<x>>
      OBVIOUS
    <3>21. PICK Y : Y = <<y>>
      OBVIOUS
    <3>22. X \in Seq(MovingCalls)
      BY <2>2, <3>20
    <3>23. Y \in Seq(MovingCalls)
      BY <2>2, <3>21
    <3>2. X = <<x>> /\ Y = <<y>> /\ X \in Seq(MovingCalls) /\ Y \in Seq(MovingCalls)
      BY <3>20, <3>21, <3>22, <3>23
    <3>3. Len(X) = 1 /\ X[1] = x /\ Len(Y) = 1 /\ Y[1] = y
      BY <3>2
    <3>40. PICK u : u = X \o Y
      OBVIOUS
    <3>4. /\ u = X \o Y /\ Len(u) = Len(X) + Len(Y) /\ u \in Seq(MovingCalls)
          /\ \A i \in 1 .. Len(X) + Len(Y) : u[i] = IF i <= Len(X) THEN X[i] ELSE Y[i - Len(X)]
      BY <3>22, <3>23, <3>40, ConcatProperties
    <3>5. DOMAIN u = {1, 2} /\ u[1] = x /\ u[2] = y /\ u # <<>>
      BY <3>3, <3>4
    <3>6. g[b] = u
      BY <3>1, <3>2, <3>4
    <3> QED BY <2>1, <2>3, <3>4, <3>5, <3>6
  <2>4. CASE bookings[b].category # "compoff"
    <3>1. g[b] = <<x>> \o <<>>
      BY <1>2, <2>1, <2>4 DEF EndCalls
    <3>2. <<x>> \o <<>> = <<x>>
      BY <2>2
    <3>3. /\ <<x>> \in Seq(MovingCalls) \ {<<>>} /\ DOMAIN <<x>> = {1} /\ <<x>>[1] = x
      BY <2>2
    <3> QED BY <2>1, <2>4, <3>1, <3>2, <3>3
  <2> QED BY <2>3, <2>4
<1>5. lists \in Moves
  <2>1. \A b \in S : g[b] \in Seq(MovingCalls) \ {<<>>}
    BY <1>4
  <2> QED BY <1>1, <1>3, <2>1, MovesForEach
<1>6. \A c : Has(lists, c) <=> InSome(g, S, c)
  BY <1>1, <1>3, ListForEach
<1>7. \A c : InSome(g, S, c) <=>
               \E b \in S : \/ c = Update(b, To(status, who))
                            \/ bookings[b].category = "compoff" /\ c = ReleaseFor(b)
  BY <1>4 DEF InSome
<1> QED BY <1>5, <1>6, <1>7 DEF Ends

(* What follows stands once they have all ended.                            *)
LEMMA EndingKeeps ==
  ASSUME TypeOK, NEW S \in SUBSET RowsIn(bookings),
         NEW status \in {"rejected", "withdrawn", "released"}, NEW who \in Users \cup {Nobody},
         NEW lists \in Moves, Ends(lists, S, status, who),
         NEW back, NEW E, back \in Seq(E), NEW r, NEW hs,
         Arrives(back, r, MovedIn(bookings, S, status, who), FreedIn(bookings, credits, S), hs)
  PROVE  KeepsIn(lists \o back, r, bookings, credits, hs)
BY EndingMoves DEF KeepsIn, Stands

LEMMA NothingFollows ==
  ASSUME NEW lists \in Moves
  PROVE  lists \o <<>> = lists
BY ConcatEmptySeq DEF Moves

LEMMA LeaveReleaseServed ==
  ASSUME SerialInv, NEW p \in Servers, release_on(p)
  PROVE  Serves(p)
<1>1. Calling(p, "release_for_holiday") /\ UNCHANGED <<today, tables>>
  BY DEF release_on
<1>2. PICK s : s = request[p].calls
  OBVIOUS
<1>3. /\ p \in InFlight /\ s # <<>> /\ Head(Head(s)).call = "release_for_holiday"
      /\ Arrives(s, request[p], bookings, credits, holidays)
      /\ Call(p) = Head(Head(s)) /\ Rest(p) = RestOf(s)
  BY <1>1, <1>2, BackNow
<1>4. ReleasesOn(s, request[p], bookings, credits, holidays)
  BY <1>3, FirstLeft
<1>5. PICK d, l :
        s = <<<<ReleaseOn(d, l)>>>> /\ Releases(d, l, request[p], bookings, credits, holidays)
  BY <1>4 DEF ReleasesOn
<1>6. Call(p) = ReleaseOn(d, l)
  BY <1>3, <1>5
<1>7. Call(p).day = d /\ Call(p).location = l
  BY <1>6 DEF ReleaseOn
<1>8. PICK S : S = Affected(bookings, d, l)
  OBVIOUS
<1>9. {b \in ConsumingOn(d) : l \in {Everywhere, LocationOf[bookings[b].user]}} = S
  BY <1>8 DEF Affected, ConsumingOn, Consuming, Booked, RowsIn
<1>10. PICK order \in SetToSeqs(S) :
         Then(p, [i \in DOMAIN order |-> EndCalls(order[i], "released", request[p].actor)])
  BY <1>7, <1>9 DEF release_on
<1>11. PICK who : who = request[p].actor
  OBVIOUS
<1>12. who \in Users \cup {Nobody}
  <2>1. request[p] # NoRequest /\ p \in Servers
    BY <1>3 DEF InFlight
  <2>2. request[p] \in RequestOf(bookings, credits, request[p].on)
    BY <2>1 DEF SerialInv, RequestsInv, AllInHand, InHand
  <2> QED BY <1>11, <2>2 DEF RequestOf
<1>13. PICK lists : lists = [i \in DOMAIN order |-> EndCalls(order[i], "released", who)]
  OBVIOUS
<1>14. Then(p, lists)
  BY <1>10, <1>11, <1>13
<1>15. TypeOK
  BY DEF SerialInv, RequestsInv, TablesOK
<1>16. S \in SUBSET RowsIn(bookings)
  BY <1>8 DEF Affected
<1>17. lists \in Moves /\ Ends(lists, S, "released", who)
  BY <1>10, <1>12, <1>13, <1>15, <1>16, EndingLists
<1>18. Arrives(<<>>, request[p], MovedIn(bookings, S, "released", who),
               FreedIn(bookings, credits, S), holidays)
  BY <1>5, <1>8, <1>11 DEF Releases, Arrives, Pays
<1>19. <<>> \in Seq({})
  OBVIOUS
<1>20. KeepsIn(lists \o <<>>, request[p], bookings, credits, holidays)
  BY <1>12, <1>15, <1>16, <1>17, <1>18, <1>19, EndingKeeps
<1>21. KeepsIn(lists, request[p], bookings, credits, holidays)
  BY <1>17, <1>20, NothingFollows
<1>22. PICK rows1, cs1, hs1 : rows1 = bookings /\ cs1 = credits /\ hs1 = holidays
  OBVIOUS
<1>23. /\ rows1 = bookings' /\ cs1 = credits' /\ hs1 = holidays'
       /\ rows1 = [b \in BookingId |-> rows1[b]] /\ cs1 = [k \in CreditId |-> cs1[k]]
       /\ KeepsIn(lists, request[p], rows1, cs1, hs1)
       /\ Bare(rows1) /\ Apart(cs1)
  BY <1>1, <1>21, <1>22, TablesNow DEF tables, Tables0, SerialInv
<1> QED BY <1>3, <1>14, <1>23, GoingOn

(* One change made to every row of a set, and to every credit of a set.     *)
LEMMA RowsMove ==
  ASSUME TypeOK, NEW S \in SUBSET RowsIn(bookings), NEW set \in BookingChanges,
         \A b \in S : bookings[b].status \in OCCUPYING_STATES,
         NEW order \in SetToSeqs(S),
         NEW lists, lists = [i \in DOMAIN order |-> <<Update(order[i], set)>>],
         NEW rows, rows = [b \in BookingId |-> IF b \in S THEN Updated(bookings[b], set)
                                                ELSE bookings[b]]
  PROVE  lists \in Moves /\ Toward(lists, bookings, credits, rows, credits)
<1>1. MaxBookings \in Nat /\ S \in SUBSET (1 .. MaxBookings)
  BY BoundsAssumption DEF RowsIn, BookingId
<1>2. PICK g : g = [b \in S |-> <<Update(b, set)>>]
  OBVIOUS
<1>3. \A b \in S : /\ g[b] \in Seq(MovingCalls) \ {<<>>} /\ DOMAIN g[b] = {1}
                   /\ g[b][1] = Update(b, set)
  <2>1. ASSUME NEW b \in S PROVE Update(b, set) \in MovingCalls
    BY DEF Update, MovingCalls, RowsIn
  <2>2. ASSUME NEW b \in S
        PROVE  /\ <<Update(b, set)>> \in Seq(MovingCalls) \ {<<>>}
               /\ DOMAIN <<Update(b, set)>> = {1}
    BY <2>1
  <2> QED BY <1>2, <2>2
<1>4. lists = [i \in DOMAIN order |-> g[order[i]]]
  <2>1. \A i \in DOMAIN order : order[i] \in S
    BY <1>1, EveryOne
  <2> QED BY <1>2, <2>1
<1>5. lists \in Moves
  <2>1. \A b \in S : g[b] \in Seq(MovingCalls) \ {<<>>}
    BY <1>3
  <2> QED BY <1>1, <1>4, <2>1, MovesForEach
<1>6. \A x : Has(lists, x) <=> \E b \in S : x = Update(b, set)
  <2>1. \A x : Has(lists, x) <=> InSome(g, S, x)
    BY <1>1, <1>4, ListForEach
  <2>2. \A x : InSome(g, S, x) <=> \E b \in S : x = Update(b, set)
    BY <1>3 DEF InSome
  <2> QED BY <2>1, <2>2
<1>7. /\ credits = [k \in CreditId |-> credits[k]] /\ rows = [b \in BookingId |-> rows[b]]
      /\ \A b \in BookingId : rows[b] = IF b \in S THEN Updated(bookings[b], set)
                                        ELSE bookings[b]
      /\ \A b \in S : bookings[b] \in Booking /\ b \in BookingId
  BY DEF TypeOK, RowsIn
<1>8. ASSUME NEW b \in S PROVE Fits(Update(b, set), bookings, credits, rows, credits)
  <2>1. PICK c : c = Update(b, set)
    OBVIOUS
  <2>2. c.call = "update_booking" /\ c.id = b /\ c.set = set
    BY <2>1 DEF Update
  <2>3. rows[b] = Updated(bookings[b], set) /\ rows[b] \in Booking /\ bookings[b] \in Booking
    BY <1>7, UpdatedRow
  <2>4. Fits(c, bookings, credits, rows, credits)
    BY <2>2, <2>3, NoRowAssumption DEF Fits
  <2> QED BY <2>1, <2>4
<1>9. \A x : Has(lists, x) => Fits(x, bookings, credits, rows, credits)
  BY <1>6, <1>8
<1>10. ASSUME NEW b \in BookingId
       PROVE  bookings[b] = rows[b] \/ \E changes : Has(lists, Update(b, changes))
  BY <1>6, <1>7
<1>11. Toward(lists, bookings, credits, rows, credits)
  BY <1>7, <1>9, <1>10 DEF Toward
<1> QED BY <1>5, <1>11

LEMMA CreditsMove ==
  ASSUME TypeOK, NEW C \in SUBSET RowsOf(credits), NEW set \in CreditChanges,
         \A k \in C : credits[k].status \in CLAIMING_STATES,
         NEW order \in SetToSeqs(C),
         NEW lists, lists = [i \in DOMAIN order |-> <<UpdateCredit(order[i], set)>>],
         NEW cs, cs = [k \in CreditId |-> IF k \in C THEN Updated(credits[k], set)
                                           ELSE credits[k]]
  PROVE  lists \in Moves /\ Toward(lists, bookings, credits, bookings, cs)
<1>1. MaxCredits \in Nat /\ C \in SUBSET (1 .. MaxCredits)
  BY BoundsAssumption DEF RowsOf, CreditId
<1>2. PICK g : g = [k \in C |-> <<UpdateCredit(k, set)>>]
  OBVIOUS
<1>3. \A k \in C : /\ g[k] \in Seq(MovingCalls) \ {<<>>} /\ DOMAIN g[k] = {1}
                   /\ g[k][1] = UpdateCredit(k, set)
  <2>1. ASSUME NEW k \in C PROVE UpdateCredit(k, set) \in MovingCalls
    BY DEF UpdateCredit, MovingCalls, RowsOf
  <2>2. ASSUME NEW k \in C
        PROVE  /\ <<UpdateCredit(k, set)>> \in Seq(MovingCalls) \ {<<>>}
               /\ DOMAIN <<UpdateCredit(k, set)>> = {1}
    BY <2>1
  <2> QED BY <1>2, <2>2
<1>4. lists = [i \in DOMAIN order |-> g[order[i]]]
  <2>1. \A i \in DOMAIN order : order[i] \in C
    BY <1>1, EveryOne
  <2> QED BY <1>2, <2>1
<1>5. lists \in Moves
  <2>1. \A k \in C : g[k] \in Seq(MovingCalls) \ {<<>>}
    BY <1>3
  <2> QED BY <1>1, <1>4, <2>1, MovesForEach
<1>6. \A x : Has(lists, x) <=> \E k \in C : x = UpdateCredit(k, set)
  <2>1. \A x : Has(lists, x) <=> InSome(g, C, x)
    BY <1>1, <1>4, ListForEach
  <2>2. \A x : InSome(g, C, x) <=> \E k \in C : x = UpdateCredit(k, set)
    BY <1>3 DEF InSome
  <2> QED BY <2>1, <2>2
<1>7. /\ cs = [k \in CreditId |-> cs[k]] /\ bookings = [a \in BookingId |-> bookings[a]]
      /\ \A k \in CreditId : cs[k] = IF k \in C THEN Updated(credits[k], set) ELSE credits[k]
      /\ \A k \in C : credits[k] \in Credit /\ k \in CreditId
  BY DEF TypeOK, RowsOf
<1>8. ASSUME NEW k \in C PROVE Fits(UpdateCredit(k, set), bookings, credits, bookings, cs)
  <2>1. PICK c : c = UpdateCredit(k, set)
    OBVIOUS
  <2>2. c.call = "update_compoff_credit" /\ c.id = k /\ c.set = set
    BY <2>1 DEF UpdateCredit
  <2>3. cs[k] = Updated(credits[k], set) /\ cs[k] \in Credit /\ credits[k] \in Credit
    BY <1>7, UpdatedCredit
  <2>4. Fits(c, bookings, credits, bookings, cs)
    BY <2>2, <2>3, NoRowAssumption DEF Fits
  <2> QED BY <2>1, <2>4
<1>9. \A x : Has(lists, x) => Fits(x, bookings, credits, bookings, cs)
  BY <1>6, <1>8
<1>10. ASSUME NEW k \in CreditId
       PROVE  credits[k] = cs[k] \/ \E changes : Has(lists, UpdateCredit(k, changes))
  BY <1>6, <1>7
<1>11. Toward(lists, bookings, credits, bookings, cs)
  BY <1>7, <1>9, <1>10 DEF Toward
<1> QED BY <1>5, <1>11

(* The credits of C are spent on b.                                         *)
SpentIn(cs, C, b) == [k \in CreditId |-> IF k \in C THEN Used(cs[k], b) ELSE cs[k]]

LEMMA SpendingMoves ==
  ASSUME TypeOK, NEW C \in SUBSET RowsOf(credits), NEW b \in BookingId,
         \A k \in C : credits[k].status = "approved",
         NEW order \in SetToSeqs(C),
         NEW lists, lists = [i \in DOMAIN order |-> <<UpdateCredit(order[i], SpendOn(b))>>]
  PROVE  lists \in Moves /\ Toward(lists, bookings, credits, bookings, SpentIn(credits, C, b))
<1>1. PICK set : set = SpendOn(b)
  OBVIOUS
<1>2. PICK cs :
        cs = [k \in CreditId |-> IF k \in C THEN Updated(credits[k], set) ELSE credits[k]]
  OBVIOUS
<1>3. set \in CreditChanges
  BY <1>1 DEF SpendOn, CreditChanges
<1>4. \A k \in C : credits[k].status \in CLAIMING_STATES
  BY DEF CLAIMING_STATES
<1>5. lists = [i \in DOMAIN order |-> <<UpdateCredit(order[i], set)>>]
  BY <1>1
<1>6. lists \in Moves /\ Toward(lists, bookings, credits, bookings, cs)
  BY <1>2, <1>3, <1>4, <1>5, CreditsMove
<1>7. cs = SpentIn(credits, C, b)
  <2>1. \A k \in C : credits[k] \in Credit
    BY DEF TypeOK, RowsOf
  <2>2. \A k \in C : Updated(credits[k], set) = Used(credits[k], b)
    BY <1>1, <2>1, CreditSpent
  <2> QED BY <1>2, <2>2 DEF SpentIn
<1> QED BY <1>6, <1>7

LEMMA ConsumeServed ==
  ASSUME SerialInv, NEW p \in Servers, consume(p)
  PROVE  Serves(p)
<1>1. Calling(p, "consume") /\ UNCHANGED <<today, tables>>
  BY DEF consume
<1>2. PICK s, r : s = request[p].calls /\ r = request[p]
  OBVIOUS
<1>3. /\ p \in InFlight /\ s # <<>> /\ Head(Head(s)).call = "consume"
      /\ Arrives(s, r, bookings, credits, holidays)
      /\ Call(p) = Head(Head(s)) /\ Rest(p) = RestOf(s)
  BY <1>1, <1>2, BackNow
<1>4. Pays(s, r, bookings, credits, holidays)
  BY <1>3, FirstLeft
<1>5. PICK b \in BookingId :
        /\ s = <<<<Consume(b)>>>>
        /\ \A spent \in ConsumeCredits(credits, r.user, r.duration, b, r.on) :
             Outcome(bookings, spent, holidays)
  BY <1>3, <1>4 DEF Pays
<1>6. Call(p).id = b
  BY <1>3, <1>5 DEF Consume
<1>7. PICK picks :
        picks = pick_credits(credits, ApprovedCredits(credits, r.user), r.duration, r.on)
  OBVIOUS
<1>8. \/ picks = {} /\ Refuse(p)
      \/ picks # {} /\ \E C \in picks : \E order \in SetToSeqs(C) :
           Then(p, [i \in DOMAIN order |->
                      <<UpdateCredit(order[i], [status |-> "used", booking |-> b])>>])
  BY <1>2, <1>6, <1>7 DEF consume
<1>9. bookings = [x \in BookingId |-> bookings[x]] /\ credits = [k \in CreditId |-> credits[k]]
  BY TablesNow DEF Tables0
<1>10. <<>> \in Seq({})
  OBVIOUS
<1>11. \E calls : Then(p, calls) /\ KeepsIn(calls, r, bookings, credits, holidays)
  <2>1. CASE picks = {} /\ Refuse(p)
    <3>1. Outcome(bookings, credits, holidays)
      BY <1>5, <1>7, <2>1 DEF ConsumeCredits
    <3>2. Arrives(<<>>, r, bookings, credits, holidays)
      BY <3>1 DEF Arrives, Pays
    <3>3. KeepsIn(<<>>, r, bookings, credits, holidays)
      BY <1>9, <1>10, <3>2, AtRest
    <3> QED BY <2>1, <3>3 DEF Then
  <2>2. CASE picks # {} /\ \E C \in picks : \E order \in SetToSeqs(C) :
               Then(p, [i \in DOMAIN order |->
                          <<UpdateCredit(order[i], [status |-> "used", booking |-> b])>>])
    <3>1. PICK C \in picks : \E order \in SetToSeqs(C) :
               Then(p, [i \in DOMAIN order |->
                          <<UpdateCredit(order[i], [status |-> "used", booking |-> b])>>])
      BY <2>2
    <3>2. PICK order \in SetToSeqs(C) :
               Then(p, [i \in DOMAIN order |->
                          <<UpdateCredit(order[i], [status |-> "used", booking |-> b])>>])
      BY <3>1
    <3>3. PICK lists : lists = [i \in DOMAIN order |-> <<UpdateCredit(order[i], SpendOn(b))>>]
      OBVIOUS
    <3>4. Then(p, lists)
      BY <3>2, <3>3 DEF SpendOn
    <3>5. C \in SUBSET RowsOf(credits) /\ \A k \in C : credits[k].status = "approved"
      BY <1>7, <3>1 DEF pick_credits, ApprovedCredits, RowsOf
    <3>6. TypeOK
      BY DEF SerialInv, RequestsInv, TablesOK
    <3>7. lists \in Moves /\ Toward(lists, bookings, credits, bookings, SpentIn(credits, C, b))
      BY <3>2, <3>3, <3>5, <3>6, SpendingMoves
    <3>8. Outcome(bookings, SpentIn(credits, C, b), holidays)
      <4>1. SpentIn(credits, C, b) \in ConsumeCredits(credits, r.user, r.duration, b, r.on)
        BY <1>7, <2>2, <3>1 DEF ConsumeCredits, SpentIn
      <4> QED BY <1>5, <4>1
    <3>9. Arrives(<<>>, r, bookings, SpentIn(credits, C, b), holidays)
      BY <3>8 DEF Arrives, Pays
    <3>10. lists = lists \o <<>>
      BY <3>7, NothingFollows
    <3>11. KeepsIn(lists, r, bookings, credits, holidays)
      BY <1>10, <3>7, <3>9, <3>10 DEF KeepsIn, Stands
    <3> QED BY <3>4, <3>11
  <2> QED BY <1>8, <2>1, <2>2
<1>12. PICK calls : Then(p, calls) /\ KeepsIn(calls, r, bookings, credits, holidays)
  BY <1>11
<1>13. PICK rows1, cs1, hs1 : rows1 = bookings /\ cs1 = credits /\ hs1 = holidays
  OBVIOUS
<1>14. /\ rows1 = bookings' /\ cs1 = credits' /\ hs1 = holidays'
       /\ rows1 = [x \in BookingId |-> rows1[x]] /\ cs1 = [k \in CreditId |-> cs1[k]]
       /\ KeepsIn(calls, request[p], rows1, cs1, hs1)
       /\ Bare(rows1) /\ Apart(cs1)
  BY <1>1, <1>2, <1>9, <1>12, <1>13 DEF tables, SerialInv
<1> QED BY <1>3, <1>12, <1>14, GoingOn

(* Taking up a request, when none is in flight                              *)

LEMMA TakenUpServes ==
  ASSUME SerialInv, NEW p \in Servers,
         NEW op, NEW actor, NEW u, NEW d, NEW category, NEW duration, NEW reason, NEW old,
         NEW r, r = Asked(op, actor, u, d, category, duration, reason, old),
         NEW calls, AcceptEach(p, r, calls),
         KeepsIn(calls, r, bookings, credits, holidays)
  PROVE  Serves(p)
<1>1. PICK r1 : r1 = [[r EXCEPT !.calls = calls] EXCEPT !.step = "calls"]
  OBVIOUS
<1>2. request' = [request EXCEPT ![p] = r1] /\ UNCHANGED <<today, tables>>
  BY <1>1 DEF AcceptEach, Accept
<1>3. /\ r1.user = r.user /\ r1.duration = r.duration /\ r1.on = r.on /\ r1.actor = r.actor
      /\ r1.step = "calls" /\ r1.calls = calls /\ r1.on = today /\ "step" \in DOMAIN r1
  BY <1>1 DEF Asked
<1>4. r1 # NoRequest
  <2>1. "step" \notin DOMAIN NoRequest
    BY DEF NoRequest
  <2> QED BY <1>3, <2>1
<1>5. PICK rows, cs, hs : rows = bookings' /\ cs = credits' /\ hs = holidays'
  OBVIOUS
<1>6. rows = bookings /\ cs = credits /\ hs = holidays
  BY <1>2, <1>5 DEF tables
<1>7. KeepsIn(calls, r1, rows, cs, hs)
  <2>1. KeepsIn(calls, r, rows, cs, hs)
    BY <1>6
  <2> QED BY <1>3, <2>1, KeepsFor
<1>8. Left(r1, rows, cs, hs)
  BY <1>3, <1>4, <1>7 DEF Left
<1>9. Bare(rows) /\ Apart(cs)
  BY <1>6 DEF SerialInv
<1> QED BY <1>2, <1>3, <1>5, <1>8, <1>9 DEF Serves

LEMMA TakenUpChecks ==
  ASSUME SerialInv, seen = Seen, NEW p \in Servers,
         NEW op, NEW actor, NEW u, NEW d, NEW category, NEW duration, NEW reason, NEW old,
         NEW r, r = Asked(op, actor, u, d, category, duration, reason, old),
         NEW step, step # "calls", Accept(p, r, step),
         NEW r1, r1 = [r EXCEPT !.step = step], Asks(r1)
  PROVE  Serves(p)
<1>2. request' = [request EXCEPT ![p] = r1] /\ UNCHANGED <<today, tables>>
  BY DEF Accept
<1>3. r1.step = step /\ r1.on = today /\ "step" \in DOMAIN r1
  BY DEF Asked
<1>4. r1 # NoRequest
  <2>1. "step" \notin DOMAIN NoRequest
    BY DEF NoRequest
  <2> QED BY <1>3, <2>1
<1>5. PICK rows, cs, hs : rows = bookings' /\ cs = credits' /\ hs = holidays'
  OBVIOUS
<1>6. rows = bookings /\ cs = credits /\ hs = holidays
  BY <1>2, <1>5 DEF tables
<1>7. rows = seen.bookings /\ cs = seen.credits /\ hs = seen.holidays
  BY <1>6 DEF Seen
<1>8. Left(r1, rows, cs, hs)
  BY <1>3, <1>4, <1>7 DEF Left
<1>9. Bare(rows) /\ Apart(cs)
  BY <1>6 DEF SerialInv
<1> QED BY <1>2, <1>3, <1>5, <1>8, <1>9 DEF Serves

LEMMA OneRow ==
  ASSUME NEW N \in Nat, NEW x \in 1 .. N
  PROVE  \E order \in SetToSeqs({x}) : DOMAIN order = {1} /\ order[1] = x
<1>1. {x} \in SUBSET (1 .. N) /\ IsFiniteSet({x}) /\ Cardinality({x}) = 1
  BY FS_Singleton
<1>2. PICK order : order = [i \in 1 .. 1 |-> x]
  OBVIOUS
<1>3. order \in [1 .. 1 -> {x}] /\ \A i, j \in 1 .. 1 : i # j => order[i] # order[j]
  BY <1>2
<1>4. order \in SetToSeqs({x})
  BY <1>1, <1>3 DEF SetToSeqs
<1>5. DOMAIN order = {1} /\ order[1] = x
  BY <1>2
<1> QED BY <1>4, <1>5

LEMMA EndedAsSeen ==
  ASSUME seen = Seen, NEW S \in SUBSET BookingId, NEW status, NEW who
  PROVE  /\ MovedIn(bookings, S, status, who) = Calendar!MoveAll(S, status, who)
         /\ FreedIn(bookings, credits, S)
              = Calendar!ReleaseCredits(Calendar!CompoffRows(S))
<1>1. MovedIn(bookings, S, status, who) = Calendar!MoveAll(S, status, who)
  BY SameReads DEF MovedIn, MoveAll
<1>2. Calendar!ReleaseCredits(Calendar!CompoffRows(S)) = ReleaseCredits(CompoffRows(S))
  BY SameReads
<1>3. \A k \in CreditId :
        (\E b \in CompoffRows(S) : k \in UsedBy(b))
          <=> (\E b \in S : bookings[b].category = "compoff" /\ Spends(credits, k, b))
  BY DEF CompoffRows, UsedBy, Claimed, Spends
<1>4. ReleaseCredits(CompoffRows(S)) = FreedIn(bookings, credits, S)
  BY <1>3 DEF ReleaseCredits, FreedIn
<1> QED BY <1>1, <1>2, <1>4

(* A booking that ends, if LeaveCalendar ends it.                           *)
LEMMA OneEnding ==
  ASSUME SerialInv, seen = Seen, NEW b \in RowsIn(bookings), NEW who \in Users,
         NEW status \in {"rejected", "withdrawn"},
         EndAs(b, who, status, Calendar!MoveAll({b}, status, who),
               Calendar!ReleaseCredits(Calendar!CompoffRows({b}))),
         NEW r
  PROVE  KeepsIn(<<EndCalls(b, status, who)>>, r, bookings, credits, holidays)
<1>1. MaxBookings \in Nat /\ b \in 1 .. MaxBookings /\ b \in BookingId
  BY BoundsAssumption DEF RowsIn, BookingId
<1>2. PICK order \in SetToSeqs({b}) : DOMAIN order = {1} /\ order[1] = b
  BY <1>1, OneRow
<1>3. PICK lists : lists = [i \in DOMAIN order |-> EndCalls(order[i], status, who)]
  OBVIOUS
<1>4. lists = <<EndCalls(b, status, who)>>
  <2>1. PICK list : list = EndCalls(b, status, who)
    OBVIOUS
  <2>2. lists = [i \in {1} |-> list]
    BY <1>2, <1>3, <2>1
  <2>3. [i \in {1} |-> list] = <<list>>
    OBVIOUS
  <2> QED BY <2>1, <2>2, <2>3
<1>5. TypeOK /\ {b} \in SUBSET RowsIn(bookings) /\ {b} \in SUBSET BookingId
  BY <1>1 DEF SerialInv, RequestsInv, TablesOK
<1>6. lists \in Moves /\ Ends(lists, {b}, status, who)
  BY <1>2, <1>3, <1>5, EndingLists
<1>7. PICK rows, cs :
        rows = MovedIn(bookings, {b}, status, who) /\ cs = FreedIn(bookings, credits, {b})
  OBVIOUS
<1>8. EndAs(b, who, status, rows, cs)
  BY <1>5, <1>7, EndedAsSeen
<1>9. Outcome(rows, cs, holidays)
  <2>1. b \in Calendar!Booked
    BY SameReads DEF Booked, RowsIn
  <2>2. status \in STATES
    BY DEF STATES
  <2>3. EndMakes(rows, cs)
    BY <1>8, <2>1, <2>2 DEF EndMakes
  <2> QED BY <2>3 DEF Outcome, Seen
<1>10. Arrives(<<>>, r, MovedIn(bookings, {b}, status, who), FreedIn(bookings, credits, {b}), holidays)
  BY <1>7, <1>9 DEF Arrives, Pays
<1>11. <<>> \in Seq({})
  OBVIOUS
<1>12. KeepsIn(lists \o <<>>, r, bookings, credits, holidays)
  BY <1>5, <1>6, <1>10, <1>11, EndingKeeps
<1> QED BY <1>4, <1>6, <1>12, NothingFollows

LEMMA AboutServes ==
  ASSUME SerialInv, NEW p \in Servers, NEW op, NEW actor, NEW b, NEW calls,
         AcceptCalls(p, About(op, actor, b), calls),
         \A r : r.actor = actor => KeepsIn(<<calls>>, r, bookings, credits, holidays)
  PROVE  Serves(p)
<1>1. PICK u, d, category, duration, reason, old, r :
        /\ r = Asked(op, actor, u, d, category, duration, reason, old)
        /\ r = About(op, actor, b)
  BY DEF About
<1>2. PICK lists : lists = <<calls>>
  OBVIOUS
<1>3. AcceptEach(p, r, lists)
  BY <1>1, <1>2 DEF AcceptCalls
<1>4. r.actor = actor
  BY <1>1 DEF Asked
<1>5. KeepsIn(lists, r, bookings, credits, holidays)
  BY <1>2, <1>4
<1> QED BY <1>1, <1>3, <1>5, TakenUpServes

LEMMA WithdrawServed ==
  ASSUME SerialInv, seen = Seen, NEW p \in Servers, withdraw_get(p)
  PROVE  Serves(p)
<1>1. PICK b \in Booked :
        /\ ~is_locked(bookings[b].day, today)
        /\ check_transition(bookings[b].status, "withdrawn")
        /\ AcceptCalls(p, About("withdraw", bookings[b].user, b),
                       EndCalls(b, "withdrawn", bookings[b].user))
  BY DEF withdraw_get
<1>2. PICK who : who = bookings[b].user
  OBVIOUS
<1>3. b \in RowsIn(bookings) /\ who \in Users
  <2>1. bookings[b] \in Booking
    BY <1>1, TablesNow DEF Tables0, Booked
  <2> QED BY <1>1, <1>2, <2>1 DEF Booked, RowsIn, Booking
<1>4. EndAs(b, who, "withdrawn", Calendar!MoveAll({b}, "withdrawn", who),
            Calendar!ReleaseCredits(Calendar!CompoffRows({b})))
  <2>1. /\ who = seen.bookings[b].user /\ ~Calendar!is_locked(seen.bookings[b].day, seen.today)
        /\ Calendar!check_transition(seen.bookings[b].status, "withdrawn")
    BY <1>1, <1>2, SameRules DEF Seen
  <2> QED BY <2>1 DEF EndAs
<1>5. \A r : KeepsIn(<<EndCalls(b, "withdrawn", who)>>, r, bookings, credits, holidays)
  BY <1>3, <1>4, OneEnding
<1>6. AcceptCalls(p, About("withdraw", who, b), EndCalls(b, "withdrawn", who))
  BY <1>1, <1>2
<1> QED BY <1>5, <1>6, AboutServes

(* A decision: a rejection ends the booking, an approval only moves it on.  *)
LEMMA ApprovalKeeps ==
  ASSUME SerialInv, seen = Seen, NEW b \in RowsIn(bookings), NEW actor \in Users,
         can_decide(Person(actor), Person(bookings[b].user)),
         check_transition(bookings[b].status, "approved"), NEW r
  PROVE  KeepsIn(<<<<Update(b, To("approved", actor))>>>>, r, bookings, credits, holidays)
<1>1. MaxBookings \in Nat /\ b \in 1 .. MaxBookings /\ b \in BookingId
  BY BoundsAssumption DEF RowsIn, BookingId
<1>2. PICK order \in SetToSeqs({b}) : DOMAIN order = {1} /\ order[1] = b
  BY <1>1, OneRow
<1>3. PICK set : set = To("approved", actor)
  OBVIOUS
<1>4. PICK lists : lists = [i \in DOMAIN order |-> <<Update(order[i], set)>>]
  OBVIOUS
<1>5. lists = <<<<Update(b, set)>>>>
  <2>1. PICK list : list = <<Update(b, set)>>
    OBVIOUS
  <2>2. lists = [i \in {1} |-> list]
    BY <1>2, <1>4, <2>1
  <2>3. [i \in {1} |-> list] = <<list>>
    OBVIOUS
  <2> QED BY <2>1, <2>2, <2>3
<1>6. PICK rows : rows = [a \in BookingId |-> IF a \in {b} THEN Updated(bookings[a], set)
                                              ELSE bookings[a]]
  OBVIOUS
<1>7. set \in BookingChanges
  BY <1>3 DEF To, BookingChanges
<1>8. /\ TypeOK /\ {b} \in SUBSET RowsIn(bookings)
      /\ \A a \in {b} : bookings[a].status \in OCCUPYING_STATES
  <2>1. bookings[b] \in Booking /\ TypeOK
    BY <1>1, TablesNow DEF Tables0, RowsIn, SerialInv, RequestsInv, TablesOK
  <2>2. bookings[b].status \in OCCUPYING_STATES
    BY <2>1 DEF check_transition, ALLOWED_TRANSITIONS, Booking, STATES, OCCUPYING_STATES
  <2> QED BY <2>1, <2>2
<1>9. lists \in Moves /\ Toward(lists, bookings, credits, rows, credits)
  BY <1>2, <1>4, <1>6, <1>7, <1>8, RowsMove
<1>10. rows = Calendar!MoveAll({b}, "approved", actor)
  <2>1. bookings[b] \in Booking /\ "approved" \in STATES
    BY <1>1, TablesNow DEF Tables0, RowsIn, STATES
  <2>2. Updated(bookings[b], set) = Moved(bookings[b], "approved", actor)
    BY <1>3, <2>1, MovedTo
  <2>3. rows = MoveAll({b}, "approved", actor)
    BY <1>6, <2>2 DEF MoveAll
  <2> QED BY <2>3, SameReads
<1>11. Outcome(rows, credits, holidays)
  <2>1. b \in Calendar!Booked
    BY SameReads DEF Booked, RowsIn
  <2>2. /\ Calendar!can_decide(Calendar!Person(actor), Calendar!Person(seen.bookings[b].user))
        /\ Calendar!check_transition(seen.bookings[b].status, "approved")
    BY SameRules DEF Seen
  <2>3. ApproveAs(actor, b, rows, credits)
    BY <1>10, <2>2 DEF ApproveAs, Seen
  <2>4. ApproveMakes(rows, credits)
    BY <2>1, <2>3 DEF ApproveMakes
  <2> QED BY <2>4 DEF Outcome, Seen
<1>12. Arrives(<<>>, r, rows, credits, holidays) /\ <<>> \in Seq({})
  BY <1>11 DEF Arrives, Pays
<1>13. lists = lists \o <<>>
  BY <1>9, NothingFollows
<1>14. KeepsIn(lists, r, bookings, credits, holidays)
  BY <1>9, <1>12, <1>13 DEF KeepsIn, Stands
<1> QED BY <1>3, <1>5, <1>14

LEMMA DecideServed ==
  ASSUME SerialInv, seen = Seen, NEW p \in Servers, decide_get(p)
  PROVE  Serves(p)
<1>1. PICK actor \in Users, b \in Booked, target \in {"approved", "rejected"} :
        /\ can_decide(Person(actor), Person(bookings[b].user))
        /\ check_transition(bookings[b].status, target)
        /\ AcceptCalls(p, About("decide", actor, b),
                       IF target = "rejected" THEN EndCalls(b, target, actor)
                       ELSE <<Update(b, To(target, actor))>>)
  BY DEF decide_get
<1>2. b \in RowsIn(bookings)
  BY DEF Booked, RowsIn
<1>3. CASE target = "rejected"
  <2>1. EndAs(b, actor, "rejected", Calendar!MoveAll({b}, "rejected", actor),
              Calendar!ReleaseCredits(Calendar!CompoffRows({b})))
    <3>1. /\ Calendar!can_decide(Calendar!Person(actor), Calendar!Person(seen.bookings[b].user))
          /\ Calendar!check_transition(seen.bookings[b].status, "rejected")
      BY <1>1, <1>3, SameRules DEF Seen
    <3> QED BY <3>1 DEF EndAs
  <2>2. \A r : KeepsIn(<<EndCalls(b, "rejected", actor)>>, r, bookings, credits, holidays)
    BY <1>2, <2>1, OneEnding
  <2>3. AcceptCalls(p, About("decide", actor, b), EndCalls(b, "rejected", actor))
    BY <1>1, <1>3
  <2> QED BY <2>2, <2>3, AboutServes
<1>4. CASE target = "approved"
  <2>1. \A r : KeepsIn(<<<<Update(b, To("approved", actor))>>>>, r, bookings, credits, holidays)
    BY <1>1, <1>2, <1>4, ApprovalKeeps
  <2>2. AcceptCalls(p, About("decide", actor, b), <<Update(b, To("approved", actor))>>)
    BY <1>1, <1>4
  <2> QED BY <2>1, <2>2, AboutServes
<1> QED BY <1>3, <1>4

LEMMA CreateTaken ==
  ASSUME SerialInv, seen = Seen, NEW p \in Servers, create_find(p)
  PROVE  Serves(p)
<1>1. PICK u, d, c, n, reason, old :
        /\ u \in Bookers /\ d \in Day /\ c \in Offered /\ n \in VALID_DURATIONS
        /\ reason \in BOOLEAN
        /\ old = OccupyingOn(u, d)
        /\ Replaceable(old, d, today)
        /\ Accept(p, Asked("create_or_replace", u, u, d, c, n, reason, old), "holiday")
  BY DEF create_find
<1>2. PICK r : r = Asked("create_or_replace", u, u, d, c, n, reason, old)
  OBVIOUS
<1>3. PICK r1 : r1 = [r EXCEPT !.step = "holiday"]
  OBVIOUS
<1>4. /\ r1.op = "create_or_replace" /\ r1.step = "holiday" /\ r1.user = u /\ r1.actor = u
      /\ r1.category = c /\ r1.day = d /\ r1.on = today /\ r1.old = old
  BY <1>1, <1>2, <1>3 DEF Asked
<1>5. Calendar!OccupyingOn(u, d) = old /\ Calendar!Replaceable(old, d, today)
  BY <1>1, SameReads
<1>6. Asks(r1)
  BY <1>1, <1>4, <1>5 DEF Asks, AsksLeave
<1>7. Accept(p, r, "holiday")
  BY <1>1, <1>2
<1> QED BY <1>2, <1>3, <1>6, <1>7, TakenUpChecks

LEMMA BackfillTaken ==
  ASSUME SerialInv, seen = Seen, NEW p \in Servers, backfill_holiday(p)
  PROVE  Serves(p)
<1>1. PICK admin \in Users, u \in Bookers, d \in Day, c \in Offered,
           n \in VALID_DURATIONS, reason \in BOOLEAN :
        /\ IsAdmin(admin)
        /\ check_backfill(d, c, reason, NonWorking(u, d), today)
        /\ Accept(p, Asked("backfill", admin, u, d, c, n, reason, {}), "find")
  BY DEF backfill_holiday
<1>2. PICK r : r = Asked("backfill", admin, u, d, c, n, reason, {})
  OBVIOUS
<1>3. PICK r1 : r1 = [r EXCEPT !.step = "find"]
  OBVIOUS
<1>4. /\ r1.op = "backfill" /\ r1.step = "find" /\ r1.user = u /\ r1.actor = admin
      /\ r1.category = c /\ r1.day = d /\ r1.on = today /\ r1.reason = reason
  BY <1>2, <1>3 DEF Asked
<1>5. check_backfill(d, c, reason, Calendar!NonWorking(u, d), today)
  BY <1>1, SameReads
<1>6. Asks(r1)
  BY <1>1, <1>4, <1>5 DEF Asks, AsksBackfill
<1>7. Accept(p, r, "find")
  BY <1>1, <1>2
<1> QED BY <1>2, <1>3, <1>6, <1>7, TakenUpChecks

LEMMA ConvertTaken ==
  ASSUME SerialInv, seen = Seen, NEW p \in Servers, convert_get(p)
  PROVE  Serves(p)
<1>1. PICK admin, b, c, n, reason, u, d :
        /\ admin \in Users /\ b \in Booked /\ c \in Offered /\ n \in VALID_DURATIONS
        /\ reason \in BOOLEAN
        /\ u = bookings[b].user /\ d = bookings[b].day
        /\ IsAdmin(admin)
        /\ bookings[b].status = "unrecognised"
        /\ Accept(p, Asked("convert", admin, u, d, c, n, reason, {b}), "holiday")
  BY DEF convert_get
<1>2. PICK r : r = Asked("convert", admin, u, d, c, n, reason, {b})
  OBVIOUS
<1>3. PICK r1 : r1 = [r EXCEPT !.step = "holiday"]
  OBVIOUS
<1>4. /\ r1.op = "convert" /\ r1.step = "holiday" /\ r1.user = u /\ r1.actor = admin
      /\ r1.category = c /\ r1.day = d /\ r1.old = {b}
  BY <1>2, <1>3 DEF Asked
<1>5. b \in Calendar!Booked /\ seen.bookings = bookings
  BY <1>1, SameReads DEF Seen
<1>6. Asks(r1)
  BY <1>1, <1>4, <1>5 DEF Asks, AsksConversion
<1>7. Accept(p, r, "holiday")
  BY <1>1, <1>2
<1> QED BY <1>2, <1>3, <1>6, <1>7, TakenUpChecks

LEMMA FlagTaken ==
  ASSUME SerialInv, seen = Seen, NEW p \in Servers, flag_find(p)
  PROVE  Serves(p)
<1>1. PICK actor, u, d, row :
        /\ actor \in Users /\ u \in Bookers /\ d \in Day
        /\ can_decide(Person(actor), Person(u))
        /\ d < today
        /\ OccupyingOn(u, d) = {}
        /\ row = NewBooking(u, d, NO_CATEGORY, FULL_DAY, "unrecognised", actor, FALSE)
        /\ AcceptCalls(
             p, Asked("flag", actor, u, d, NO_CATEGORY, FULL_DAY, TRUE, {}), <<Insert(row)>>)
  BY DEF flag_find
<1>2. PICK r : r = Asked("flag", actor, u, d, NO_CATEGORY, FULL_DAY, TRUE, {})
  OBVIOUS
<1>3. PICK calls : calls = <<<<Insert(row)>>>>
  OBVIOUS
<1>4. AcceptEach(p, r, calls)
  BY <1>1, <1>2, <1>3 DEF AcceptCalls
<1>5. /\ row \in Booking /\ row.user = u /\ row.day = d /\ row.status = "unrecognised"
      /\ row.category = NO_CATEGORY
  BY <1>1, InputsAssumption DEF NewBooking, Booking, FULL_DAY, VALID_DURATIONS, STATES
<1>6. ASSUME NEW n \in BookingId, IsNextRow(n, bookings), NEW rows,
             rows = [bookings EXCEPT ![n] = row]
      PROVE  Outcome(rows, credits, holidays)
  <2>1. FlagMakes(rows, credits)
    <3>1. /\ Calendar!can_decide(Calendar!Person(actor), Calendar!Person(u))
          /\ d < seen.today /\ Calendar!OccupyingOn(u, d) = {}
          /\ Calendar!IsNextRow(n, seen.bookings)
          /\ seen.bookings = bookings /\ seen.credits = credits
      BY <1>1, <1>6, SameReads, SameRules DEF Seen
    <3>2. row = Calendar!NewBooking(u, d, NO_CATEGORY, FULL_DAY, "unrecognised", actor, FALSE)
      BY <1>1 DEF NewBooking, Calendar!NewBooking
    <3> QED BY <1>1, <1>6, <3>1, <3>2 DEF FlagMakes
  <2> QED BY <2>1 DEF Outcome, Seen
<1>7. Enters(row, r, bookings, credits, holidays)
  <2>1. \A b \in RowsIn(bookings) : ~ /\ bookings[b].user = row.user
                                      /\ bookings[b].day = row.day
                                      /\ bookings[b].status \in OCCUPYING_STATES
    BY <1>1, <1>5 DEF OccupyingOn, RowsIn, Booked
  <2>2. \A n : ThenConsume(n, row.category) = <<>>
    BY <1>5 DEF ThenConsume, NO_CATEGORY
  <2>3. \A n \in BookingId :
          IsNextRow(n, bookings) =>
            Pays(ThenConsume(n, row.category), r, [bookings EXCEPT ![n] = row], credits, holidays)
    BY <1>6, <2>2 DEF Pays
  <2> QED BY <1>5, <2>1, <2>3 DEF Enters
<1>8. Arrives(calls, r, bookings, credits, holidays)
  BY <1>3, <1>5, <1>7 DEF Arrives, Inserts
<1>9. calls \in Seq({<<Insert(row)>>})
  BY <1>3
<1>10. bookings = [b \in BookingId |-> bookings[b]] /\ credits = [k \in CreditId |-> credits[k]]
  BY TablesNow DEF Tables0
<1>11. KeepsIn(calls, r, bookings, credits, holidays)
  BY <1>8, <1>9, <1>10, AtRest
<1> QED BY <1>2, <1>4, <1>11, TakenUpServes

(* Clearing an absence: it was charged to nothing, so no credit comes back. *)
LEMMA ClearingKeeps ==
  ASSUME SerialInv, seen = Seen, NEW b \in RowsIn(bookings), NEW admin \in Users,
         IsAdmin(admin), bookings[b].status = "unrecognised", NEW r
  PROVE  KeepsIn(<<<<UpdateIf(b, To("withdrawn", admin))>>>>, r, bookings, credits, holidays)
<1>1. PICK set : set = To("withdrawn", admin)
  OBVIOUS
<1>2. /\ b \in BookingId /\ {b} \in SUBSET BookingId /\ bookings[b] \in Booking
      /\ bookings = [a \in BookingId |-> bookings[a]]
      /\ credits = [k \in CreditId |-> credits[k]]
  BY TablesNow DEF Tables0, RowsIn
<1>3. bookings[b].category = NO_CATEGORY /\ bookings[b].category # "compoff"
  BY DEF SerialInv, Bare, NO_CATEGORY
<1>4. PICK rows : rows = [bookings EXCEPT ![b] = Updated(bookings[b], set)]
  OBVIOUS
<1>5. /\ Updated(bookings[b], set) = Moved(bookings[b], "withdrawn", admin)
      /\ Updated(bookings[b], set).status = "withdrawn"
  <2>1. "withdrawn" \in STATES
    BY DEF STATES
  <2>2. /\ Updated(bookings[b], set) = Moved(bookings[b], "withdrawn", admin)
        /\ Moved(bookings[b], "withdrawn", admin).status = "withdrawn"
    BY <1>1, <1>2, <2>1, MovedTo
  <2> QED BY <2>2
<1>6. rows = MovedIn(bookings, {b}, "withdrawn", admin)
  BY <1>2, <1>4, <1>5 DEF MovedIn
<1>7. credits = FreedIn(bookings, credits, {b})
  BY <1>2, <1>3 DEF FreedIn
<1>8. EndAs(b, admin, "withdrawn", rows, credits)
  <2>1. Calendar!IsAdmin(admin) /\ seen.bookings[b].status = "unrecognised"
    BY SameRules DEF Seen
  <2>2. /\ rows = Calendar!MoveAll({b}, "withdrawn", admin)
        /\ credits = Calendar!ReleaseCredits(Calendar!CompoffRows({b}))
    BY <1>2, <1>6, <1>7, EndedAsSeen
  <2> QED BY <2>1, <2>2 DEF EndAs
<1>9. Outcome(rows, credits, holidays)
  <2>1. b \in Calendar!Booked
    BY SameReads DEF Booked, RowsIn
  <2>2. "withdrawn" \in STATES
    BY DEF STATES
  <2>3. EndMakes(rows, credits)
    BY <1>8, <2>1, <2>2 DEF EndMakes
  <2> QED BY <2>3 DEF Outcome, Seen
<1>10. Settles(b, set, <<>>, r, bookings, credits, holidays)
  BY <1>4, <1>5, <1>9 DEF Settles, Pays
<1>11. PICK back : back = <<<<UpdateIf(b, set)>>>>
  OBVIOUS
<1>12. back \in Seq({<<UpdateIf(b, set)>>}) /\ back \o <<>> = back
  <2>1. back \in Seq({<<UpdateIf(b, set)>>})
    BY <1>11
  <2> QED BY <2>1, ConcatEmptySeq
<1>13. set \in AbsenceChanges
  BY <1>1 DEF To, AbsenceChanges
<1>14. Arrives(back, r, bookings, credits, holidays)
  <2>1. back = <<<<UpdateIf(b, set)>>>> \o <<>>
    BY <1>11, <1>12
  <2>2. UpdatesIf(back, r, bookings, credits, holidays)
    BY <1>2, <1>10, <1>13, <2>1 DEF UpdatesIf
  <2> QED BY <2>2 DEF Arrives
<1>15. KeepsIn(back, r, bookings, credits, holidays)
  BY <1>2, <1>12, <1>14, AtRest
<1> QED BY <1>1, <1>11, <1>15

LEMMA UndoTaken ==
  ASSUME SerialInv, seen = Seen, NEW p \in Servers, undo_get(p)
  PROVE  Serves(p)
<1>1. PICK admin \in Users, b \in Booked :
        /\ IsAdmin(admin)
        /\ \/ /\ bookings[b].status = "unrecognised"
              /\ AcceptCalls(p, About("undo", admin, b),
                             <<UpdateIf(b, To("withdrawn", admin))>>)
           \/ /\ bookings[b].backfilled /\ Consuming(b)
              /\ AcceptCalls(p, About("undo", admin, b),
                             EndCalls(b, "withdrawn", admin))
  BY DEF undo_get
<1>2. b \in RowsIn(bookings)
  BY DEF Booked, RowsIn
<1>3. CASE /\ bookings[b].status = "unrecognised"
           /\ AcceptCalls(p, About("undo", admin, b), <<UpdateIf(b, To("withdrawn", admin))>>)
  <2>1. \A r :
          KeepsIn(<<<<UpdateIf(b, To("withdrawn", admin))>>>>, r, bookings, credits, holidays)
    BY <1>1, <1>2, <1>3, ClearingKeeps
  <2> QED BY <1>3, <2>1, AboutServes
<1>4. CASE /\ bookings[b].backfilled /\ Consuming(b)
           /\ AcceptCalls(p, About("undo", admin, b), EndCalls(b, "withdrawn", admin))
  <2>1. EndAs(b, admin, "withdrawn", Calendar!MoveAll({b}, "withdrawn", admin),
              Calendar!ReleaseCredits(Calendar!CompoffRows({b})))
    <3>1. Calendar!IsAdmin(admin) /\ seen.bookings[b].backfilled /\ Calendar!Consuming(b)
      BY <1>1, <1>4, SameRules, SameReads DEF Seen
    <3> QED BY <3>1 DEF EndAs
  <2>2. \A r : KeepsIn(<<EndCalls(b, "withdrawn", admin)>>, r, bookings, credits, holidays)
    BY <1>1, <1>2, <2>1, OneEnding
  <2> QED BY <1>4, <2>2, AboutServes
<1> QED BY <1>1, <1>3, <1>4

LEMMA ClaimTaken ==
  ASSUME SerialInv, seen = Seen, NEW p \in Servers, claim_holiday(p)
  PROVE  Serves(p)
<1>1. PICK u, d, n, row :
        /\ u \in Bookers /\ d \in Day /\ n \in VALID_DURATIONS
        /\ check_claim(d, today, NonWorking(u, d), n)
        /\ row = NewClaim(u, d, n)
        /\ AcceptCalls(p, Asked("claim", u, u, d, "compoff", n, TRUE, {}),
                       <<InsertCredit(row)>>)
  BY DEF claim_holiday
<1>2. PICK r : r = Asked("claim", u, u, d, "compoff", n, TRUE, {})
  OBVIOUS
<1>3. PICK calls : calls = <<<<InsertCredit(row)>>>>
  OBVIOUS
<1>4. AcceptEach(p, r, calls)
  BY <1>1, <1>2, <1>3 DEF AcceptCalls
<1>5. row \in Credit /\ row.user = u /\ row.worked_on = d /\ row.status = "pending"
  BY <1>1, InputsAssumption DEF NewClaim, Credit, CREDIT_STATES, NoExpiry, NoBooking
<1>6. ASSUME NEW k \in CreditId, IsNextRow(k, credits), NEW cs,
             cs = IF ClaimedIn(credits, row) THEN credits ELSE [credits EXCEPT ![k] = row]
      PROVE  Outcome(bookings, cs, holidays)
  <2>1. CASE ClaimedIn(credits, row)
    BY <1>6, <2>1 DEF Outcome, Seen
  <2>2. CASE ~ClaimedIn(credits, row)
    <3>1. /\ Calendar!check_claim(d, seen.today, Calendar!NonWorking(u, d), n)
          /\ Calendar!IsNextRow(k, seen.credits) /\ Calendar!Claimed = RowsOf(credits)
          /\ seen.credits = credits /\ seen.bookings = bookings /\ seen.holidays = holidays
      BY <1>1, <1>6, SameReads, SameRules DEF Seen, Claimed, RowsOf
    <3>2. row = Calendar!NewClaim(u, d, n)
      BY <1>1 DEF NewClaim, Calendar!NewClaim, NoExpiry, Calendar!NoExpiry, NoBooking,
        Calendar!NoBooking
    <3>3. ClaimAs(u, d, n, k, cs)
      BY <1>5, <1>6, <2>2, <3>1, <3>2 DEF ClaimAs, ClaimedIn
    <3>4. ClaimMakes(bookings, cs)
      BY <1>1, <3>1, <3>3 DEF ClaimMakes
    <3> QED BY <3>1, <3>4 DEF Outcome
  <2> QED BY <2>1, <2>2
<1>7. Arrives(calls, r, bookings, credits, holidays)
  BY <1>3, <1>5, <1>6 DEF Arrives, InsertsCredit, Claims
<1>8. calls \in Seq({<<InsertCredit(row)>>})
  BY <1>3
<1>9. bookings = [b \in BookingId |-> bookings[b]] /\ credits = [k \in CreditId |-> credits[k]]
  BY TablesNow DEF Tables0
<1>10. KeepsIn(calls, r, bookings, credits, holidays)
  BY <1>7, <1>8, <1>9, AtRest
<1> QED BY <1>2, <1>4, <1>10, TakenUpServes

(* A set of rows moved on by one change, a set of credits likewise, is what *)
(* is left, if LeaveCalendar makes that of the tables.                      *)
LEMMA RowsKeep ==
  ASSUME SerialInv, NEW S \in SUBSET RowsIn(bookings), NEW set \in BookingChanges,
         \A b \in S : bookings[b].status \in OCCUPYING_STATES,
         NEW order \in SetToSeqs(S),
         NEW lists, lists = [i \in DOMAIN order |-> <<Update(order[i], set)>>],
         NEW rows, rows = [b \in BookingId |-> IF b \in S THEN Updated(bookings[b], set)
                                                ELSE bookings[b]],
         Outcome(rows, credits, holidays), NEW r
  PROVE  KeepsIn(lists, r, bookings, credits, holidays)
<1>1. TypeOK
  BY DEF SerialInv, RequestsInv, TablesOK
<1>2. lists \in Moves /\ Toward(lists, bookings, credits, rows, credits)
  BY <1>1, RowsMove
<1>3. Arrives(<<>>, r, rows, credits, holidays) /\ <<>> \in Seq({})
  BY DEF Arrives, Pays
<1>4. lists = lists \o <<>>
  BY <1>2, NothingFollows
<1> QED BY <1>2, <1>3, <1>4 DEF KeepsIn, Stands

LEMMA CreditsKeep ==
  ASSUME SerialInv, NEW C \in SUBSET RowsOf(credits), NEW set \in CreditChanges,
         \A k \in C : credits[k].status \in CLAIMING_STATES,
         NEW order \in SetToSeqs(C),
         NEW lists, lists = [i \in DOMAIN order |-> <<UpdateCredit(order[i], set)>>],
         NEW cs, cs = [k \in CreditId |-> IF k \in C THEN Updated(credits[k], set)
                                           ELSE credits[k]],
         Outcome(bookings, cs, holidays), NEW r
  PROVE  KeepsIn(lists, r, bookings, credits, holidays)
<1>1. TypeOK
  BY DEF SerialInv, RequestsInv, TablesOK
<1>2. lists \in Moves /\ Toward(lists, bookings, credits, bookings, cs)
  BY <1>1, CreditsMove
<1>3. Arrives(<<>>, r, bookings, cs, holidays) /\ <<>> \in Seq({})
  BY DEF Arrives, Pays
<1>4. lists = lists \o <<>>
  BY <1>2, NothingFollows
<1> QED BY <1>2, <1>3, <1>4 DEF KeepsIn, Stands

(* What a decision on a claim and the nightly tasks write.                  *)
LEMMA RowApproved ==
  ASSUME NEW row \in Booking, NEW set, set = [status |-> "approved"]
  PROVE  Updated(row, set) = [row EXCEPT !.status = "approved"]
<1>1. /\ DOMAIN row = {"user", "day", "category", "duration", "status", "decided_by", "backfilled"}
      /\ DOMAIN set = {"status"} /\ set["status"] = "approved"
      /\ row = [x \in DOMAIN row |-> row[x]]
  BY DEF Booking
<1> QED BY <1>1 DEF Updated

LEMMA CreditClosed ==
  ASSUME NEW credit \in Credit, NEW status, NEW set, set = [status |-> status]
  PROVE  Updated(credit, set) = [credit EXCEPT !.status = status]
<1>1. /\ DOMAIN credit = {"user", "worked_on", "days", "status", "expires", "booking"}
      /\ DOMAIN set = {"status"} /\ set["status"] = status
      /\ credit = [x \in DOMAIN credit |-> credit[x]]
  BY DEF Credit
<1> QED BY <1>1 DEF Updated

LEMMA CreditApproved ==
  ASSUME NEW credit \in Credit, NEW date, NEW set,
         set = [status |-> "approved", expires |-> date]
  PROVE  Updated(credit, set) = [credit EXCEPT !.status = "approved", !.expires = date]
<1>1. /\ DOMAIN credit = {"user", "worked_on", "days", "status", "expires", "booking"}
      /\ DOMAIN set = {"status", "expires"} /\ set["status"] = "approved"
      /\ set["expires"] = date
      /\ credit = [x \in DOMAIN credit |-> credit[x]]
  BY DEF Credit
<1>2. PICK c : c = [credit EXCEPT !.status = "approved", !.expires = date]
  OBVIOUS
<1>3. /\ c = [x \in DOMAIN credit |-> c[x]]
      /\ \A x \in DOMAIN credit : c[x] = IF x = "status" THEN "approved"
                                         ELSE IF x = "expires" THEN date ELSE credit[x]
  BY <1>1, <1>2
<1>4. Updated(credit, set) = c
  BY <1>1, <1>3 DEF Updated
<1> QED BY <1>2, <1>4

LEMMA DecisionOfClaim ==
  ASSUME SerialInv, seen = Seen, NEW actor \in Users, NEW k \in RowsOf(credits),
         NEW approve \in BOOLEAN,
         credits[k].status = "pending", can_decide(Person(actor), Person(credits[k].user)),
         NEW set, set = IF approve
                        THEN [status |-> "approved", expires |-> expiry(today, CompoffValidDays)]
                        ELSE [status |-> "rejected"],
         NEW r
  PROVE  KeepsIn(<<<<UpdateCredit(k, set)>>>>, r, bookings, credits, holidays)
<1>1. MaxCredits \in Nat /\ k \in 1 .. MaxCredits /\ k \in CreditId
  BY BoundsAssumption DEF RowsOf, CreditId
<1>2. PICK order \in SetToSeqs({k}) : DOMAIN order = {1} /\ order[1] = k
  BY <1>1, OneRow
<1>3. PICK lists : lists = [i \in DOMAIN order |-> <<UpdateCredit(order[i], set)>>]
  OBVIOUS
<1>4. lists = <<<<UpdateCredit(k, set)>>>>
  <2>1. PICK list : list = <<UpdateCredit(k, set)>>
    OBVIOUS
  <2>2. lists = [i \in {1} |-> list]
    BY <1>2, <1>3, <2>1
  <2>3. [i \in {1} |-> list] = <<list>>
    OBVIOUS
  <2> QED BY <2>1, <2>2, <2>3
<1>5. PICK cs :
        cs = [j \in CreditId |-> IF j \in {k} THEN Updated(credits[j], set) ELSE credits[j]]
  OBVIOUS
<1>6. PICK date : date = expiry(today, CompoffValidDays)
  OBVIOUS
<1>7. date \in Int /\ credits[k] \in Credit /\ credits = [j \in CreditId |-> credits[j]]
  <2>1. today \in Int /\ CompoffValidDays \in Nat
    BY BoundsAssumption DEF SerialInv, RequestsInv, TablesOK, TypeOK, Day
  <2>2. date \in Int
    BY <1>6, <2>1 DEF expiry, NoExpiry
  <2> QED BY <1>1, <2>2, TablesNow DEF Tables0, RowsOf
<1>8. set \in CreditChanges
  BY <1>6, <1>7 DEF CreditChanges
<1>9. Updated(credits[k], set) = Calendar!Decided(credits[k], approve)
  <2>1. Calendar!expiry(seen.today, CompoffValidDays) = date
    BY <1>6, SameRules DEF Seen
  <2>2. CASE approve
    <3>1. set = [status |-> "approved", expires |-> date]
      BY <1>6, <2>2
    <3>2. Updated(credits[k], set) = [credits[k] EXCEPT !.status = "approved", !.expires = date]
      BY <1>7, <3>1, CreditApproved
    <3> QED BY <2>1, <2>2, <3>2 DEF Calendar!Decided
  <2>3. CASE ~approve
    <3>1. set = [status |-> "rejected"]
      BY <2>3
    <3>2. Updated(credits[k], set) = [credits[k] EXCEPT !.status = "rejected"]
      BY <1>7, <3>1, CreditClosed
    <3> QED BY <2>3, <3>2 DEF Calendar!Decided
  <2> QED BY <2>2, <2>3
<1>10. Outcome(bookings, cs, holidays)
  <2>1. cs = [credits EXCEPT ![k] = Calendar!Decided(credits[k], approve)]
    BY <1>1, <1>5, <1>7, <1>9
  <2>2. /\ Calendar!can_decide(Calendar!Person(actor), Calendar!Person(seen.credits[k].user))
        /\ k \in Calendar!Claimed /\ seen.credits = credits
    BY SameReads, SameRules DEF Seen, Claimed, RowsOf
  <2>3. DecideAs(actor, k, approve, cs)
    BY <2>1, <2>2 DEF DecideAs
  <2>4. ClaimMakes(bookings, cs)
    BY <2>2, <2>3 DEF ClaimMakes, Seen
  <2> QED BY <2>4 DEF Outcome, Seen
<1>11. {k} \in SUBSET RowsOf(credits) /\ \A j \in {k} : credits[j].status \in CLAIMING_STATES
  BY DEF CLAIMING_STATES
<1>12. KeepsIn(lists, r, bookings, credits, holidays)
  BY <1>2, <1>3, <1>5, <1>8, <1>10, <1>11, CreditsKeep
<1> QED BY <1>4, <1>12

LEMMA DecideClaimTaken ==
  ASSUME SerialInv, seen = Seen, NEW p \in Servers, decide_claim_get(p)
  PROVE  Serves(p)
<1>1. PICK actor, k, approve, set :
        /\ actor \in Users /\ k \in Claimed /\ approve \in BOOLEAN
        /\ credits[k].status = "pending"
        /\ can_decide(Person(actor), Person(credits[k].user))
        /\ set = IF approve
                 THEN [status |-> "approved", expires |-> expiry(today, CompoffValidDays)]
                 ELSE [status |-> "rejected"]
        /\ AcceptCalls(p, Asked("decide_claim", actor, credits[k].user,
                                credits[k].worked_on, "compoff", FULL_DAY, TRUE, {}),
                       <<UpdateCredit(k, set)>>)
  BY DEF decide_claim_get
<1>2. PICK u, d : u = credits[k].user /\ d = credits[k].worked_on
  OBVIOUS
<1>3. PICK r : r = Asked("decide_claim", actor, u, d, "compoff", FULL_DAY, TRUE, {})
  OBVIOUS
<1>4. PICK calls : calls = <<<<UpdateCredit(k, set)>>>>
  OBVIOUS
<1>5. AcceptEach(p, r, calls)
  BY <1>1, <1>2, <1>3, <1>4 DEF AcceptCalls
<1>6. k \in RowsOf(credits)
  BY <1>1 DEF Claimed, RowsOf
<1>7. KeepsIn(calls, r, bookings, credits, holidays)
  BY <1>1, <1>4, <1>6, DecisionOfClaim
<1> QED BY <1>3, <1>5, <1>7, TakenUpServes

LEMMA SweepTaken ==
  ASSUME SerialInv, seen = Seen, sweep_list
  PROVE  Serves(Worker)
<1>1. PICK S, set : S = PendingBefore(today) /\ set = [status |-> "approved"]
  OBVIOUS
<1>2. AutoApproveAtLock /\ S # {}
  BY <1>1 DEF sweep_list
<1>3. PICK order \in SetToSeqs(S) :
        AcceptEach(Worker, Task("sweep"), [i \in DOMAIN order |-> <<Update(order[i], set)>>])
  BY <1>1 DEF sweep_list
<1>4. PICK r : r = Asked("sweep", Nobody, Nobody, today, NO_CATEGORY, FULL_DAY, TRUE, {})
  OBVIOUS
<1>5. PICK lists : lists = [i \in DOMAIN order |-> <<Update(order[i], set)>>]
  OBVIOUS
<1>6. AcceptEach(Worker, r, lists)
  BY <1>3, <1>4, <1>5 DEF Task
<1>7. S \in SUBSET RowsIn(bookings) /\ \A b \in S : bookings[b].status \in OCCUPYING_STATES
  BY <1>1 DEF PendingBefore, Booked, RowsIn, OCCUPYING_STATES
<1>8. set \in BookingChanges
  BY <1>1 DEF BookingChanges
<1>9. PICK rows : rows = [b \in BookingId |-> IF b \in S THEN Updated(bookings[b], set)
                                              ELSE bookings[b]]
  OBVIOUS
<1>10. Outcome(rows, credits, holidays)
  <2>1. \A b \in S : Updated(bookings[b], set) = [bookings[b] EXCEPT !.status = "approved"]
    <3>1. \A b \in S : bookings[b] \in Booking
      BY <1>7, TablesNow DEF Tables0, RowsIn
    <3> QED BY <1>1, <3>1, RowApproved
  <2>2. Calendar!PendingBefore(seen.today) = S
    BY <1>1, SameReads DEF Seen
  <2>3. NightMakes(rows, credits)
    BY <1>2, <1>9, <2>1, <2>2 DEF NightMakes, Seen
  <2> QED BY <2>3 DEF Outcome, Seen
<1>11. KeepsIn(lists, r, bookings, credits, holidays)
  BY <1>3, <1>5, <1>7, <1>8, <1>9, <1>10, RowsKeep
<1>12. Worker \in Servers
  BY DEF Servers
<1> QED BY <1>4, <1>6, <1>11, <1>12, TakenUpServes

LEMMA LapseTaken ==
  ASSUME SerialInv, seen = Seen, lapse_list
  PROVE  Serves(Worker)
<1>1. PICK C, set : C = Expired /\ set = [status |-> "lapsed"]
  OBVIOUS
<1>2. C # {}
  BY <1>1 DEF lapse_list
<1>3. PICK order \in SetToSeqs(C) :
        AcceptEach(Worker, Task("lapse"), [i \in DOMAIN order |-> <<UpdateCredit(order[i], set)>>])
  BY <1>1 DEF lapse_list
<1>4. PICK r : r = Asked("lapse", Nobody, Nobody, today, NO_CATEGORY, FULL_DAY, TRUE, {})
  OBVIOUS
<1>5. PICK lists : lists = [i \in DOMAIN order |-> <<UpdateCredit(order[i], set)>>]
  OBVIOUS
<1>6. AcceptEach(Worker, r, lists)
  BY <1>3, <1>4, <1>5 DEF Task
<1>7. C \in SUBSET RowsOf(credits) /\ \A k \in C : credits[k].status \in CLAIMING_STATES
  BY <1>1 DEF Expired, Claimed, RowsOf, CLAIMING_STATES
<1>8. set \in CreditChanges
  BY <1>1 DEF CreditChanges
<1>9. PICK cs : cs = [k \in CreditId |-> IF k \in C THEN Updated(credits[k], set)
                                         ELSE credits[k]]
  OBVIOUS
<1>10. Outcome(bookings, cs, holidays)
  <2>1. \A k \in C : Updated(credits[k], set) = [credits[k] EXCEPT !.status = "lapsed"]
    <3>1. \A k \in C : credits[k] \in Credit
      BY <1>7, TablesNow DEF Tables0, RowsOf
    <3> QED BY <1>1, <3>1, CreditClosed
  <2>2. Calendar!Expired = C
    BY <1>1, SameReads
  <2>3. NightMakes(bookings, cs)
    BY <1>2, <1>9, <2>1, <2>2 DEF NightMakes, Seen
  <2> QED BY <2>3 DEF Outcome, Seen
<1>11. KeepsIn(lists, r, bookings, credits, holidays)
  BY <1>3, <1>5, <1>7, <1>8, <1>9, <1>10, CreditsKeep
<1>12. Worker \in Servers
  BY DEF Servers
<1> QED BY <1>4, <1>6, <1>11, <1>12, TakenUpServes

(* A holiday is written and the leave of its day released.                  *)
LEMMA HolidayTaken ==
  ASSUME SerialInv, seen = Seen, NEW p \in Servers, NEW admin \in Users,
         NEW old, NEW new, NEW d, NEW l, NEW hs, hs = (holidays \ old) \cup {new},
         NEW S, S = Affected(bookings, d, l),
         HolidayMakes(Calendar!MoveAll(S, "released", admin),
                      Calendar!ReleaseCredits(Calendar!CompoffRows(S)), hs),
         AcceptCalls(p, AskedOfHolidays(admin), <<WriteHoliday(old, new), ReleaseOn(d, l)>>)
  PROVE  Serves(p)
<1>1. PICK r : r = Asked("holiday", admin, admin, today, NO_CATEGORY, FULL_DAY, TRUE, {})
  OBVIOUS
<1>2. PICK calls : calls = <<<<WriteHoliday(old, new), ReleaseOn(d, l)>>>>
  OBVIOUS
<1>3. AcceptEach(p, r, calls) /\ r.actor = admin
  <2>1. AcceptEach(p, r, calls)
    BY <1>1, <1>2 DEF AcceptCalls, AskedOfHolidays
  <2>2. r.actor = admin
    BY <1>1 DEF Asked
  <2> QED BY <2>1, <2>2
<1>4. S \in SUBSET BookingId
  BY DEF Affected, RowsIn
<1>5. PICK rows, cs :
        rows = MovedIn(bookings, S, "released", admin) /\ cs = FreedIn(bookings, credits, S)
  OBVIOUS
<1>6. HolidayMakes(rows, cs, hs)
  BY <1>4, <1>5, EndedAsSeen
<1>7. Outcome(rows, cs, hs)
  BY <1>6 DEF Outcome
<1>8. Releases(d, l, r, bookings, credits, hs)
  BY <1>3, <1>5, <1>7 DEF Releases
<1>9. Arrives(calls, r, bookings, credits, holidays)
  BY <1>2, <1>8 DEF Arrives, WritesHoliday
<1>10. calls \in Seq({<<WriteHoliday(old, new), ReleaseOn(d, l)>>})
  BY <1>2
<1>11. bookings = [b \in BookingId |-> bookings[b]] /\ credits = [k \in CreditId |-> credits[k]]
  BY TablesNow DEF Tables0
<1>12. KeepsIn(calls, r, bookings, credits, holidays)
  BY <1>9, <1>10, <1>11, AtRest
<1> QED BY <1>1, <1>3, <1>12, TakenUpServes

LEMMA SameAffected ==
  ASSUME seen = Seen
  PROVE  \A d, l : Affected(bookings, d, l)
                     = {b \in Calendar!ConsumingOn(d) :
                          l \in {Everywhere, LocationOf[seen.bookings[b].user]}}
<1>1. \A d : Calendar!ConsumingOn(d) = ConsumingOn(d)
  BY SameReads
<1>2. seen.bookings = bookings
  BY DEF Seen
<1> QED BY <1>1, <1>2 DEF Affected, ConsumingOn, Consuming, Booked, RowsIn

LEMMA DeclareTaken ==
  ASSUME SerialInv, seen = Seen, NEW p \in Servers, declare_clash(p)
  PROVE  Serves(p)
<1>1. PICK admin, d, l, new :
        /\ admin \in Users /\ d \in HolidayDays /\ l \in Locations \cup {Everywhere}
        /\ IsAdmin(admin)
        /\ ~clash(d, l)
        /\ new = [day |-> d, location |-> l]
        /\ AcceptCalls(p, AskedOfHolidays(admin), <<WriteHoliday({}, new), ReleaseOn(d, l)>>)
  BY DEF declare_clash
<1>2. PICK S, hs : S = Affected(bookings, d, l) /\ hs = (holidays \ {}) \cup {new}
  OBVIOUS
<1>3. S \in SUBSET BookingId
  BY <1>2 DEF Affected, RowsIn
<1>4. /\ Calendar!IsAdmin(admin) /\ ~Calendar!clash(d, l) /\ seen.holidays = holidays
      /\ S = {b \in Calendar!ConsumingOn(d) : l \in {Everywhere, LocationOf[seen.bookings[b].user]}}
  BY <1>1, <1>2, SameRules, SameReads, SameAffected DEF Seen
<1>5. hs = seen.holidays \cup {[day |-> d, location |-> l]}
  BY <1>1, <1>2, <1>4
<1>6. HolidayMakes(Calendar!MoveAll(S, "released", admin),
                   Calendar!ReleaseCredits(Calendar!CompoffRows(S)), hs)
  <2>1. PICK rows, cs : /\ rows = Calendar!MoveAll(S, "released", admin)
                        /\ cs = Calendar!ReleaseCredits(Calendar!CompoffRows(S))
    OBVIOUS
  <2>2. HolidayMakes(rows, cs, hs)
    <3>1. \E m \in Locations \cup {Everywhere} :
            /\ ~Calendar!clash(d, m)
            /\ hs = seen.holidays \cup {[day |-> d, location |-> m]}
            /\ S = {b \in Calendar!ConsumingOn(d) :
                      m \in {Everywhere, LocationOf[seen.bookings[b].user]}}
      <4>1. l \in Locations \cup {Everywhere}
        BY <1>1
      <4> WITNESS l \in Locations \cup {Everywhere}
      <4> QED BY <1>4, <1>5
    <3> QED BY <1>1, <1>3, <1>4, <2>1, <3>1 DEF HolidayMakes
  <2> QED BY <2>1, <2>2
<1> QED BY <1>1, <1>2, <1>6, HolidayTaken

LEMMA EditTaken ==
  ASSUME SerialInv, seen = Seen, NEW p \in Servers, edit_clash(p)
  PROVE  Serves(p)
<1>1. PICK admin, h, d, new :
        /\ admin \in Users /\ h \in holidays /\ d \in HolidayDays
        /\ IsAdmin(admin)
        /\ \A g \in holidays : g.day # d
        /\ new = [h EXCEPT !.day = d]
        /\ AcceptCalls(p, AskedOfHolidays(admin),
                       <<WriteHoliday({h}, new), ReleaseOn(d, Everywhere)>>)
  BY DEF edit_clash
<1>2. PICK S, hs : S = Affected(bookings, d, Everywhere) /\ hs = (holidays \ {h}) \cup {new}
  OBVIOUS
<1>3. S \in SUBSET BookingId
  BY <1>2 DEF Affected, RowsIn
<1>4. Calendar!IsAdmin(admin) /\ seen.holidays = holidays /\ S = Calendar!ConsumingOn(d)
  <2>1. S = {b \in Calendar!ConsumingOn(d) :
               Everywhere \in {Everywhere, LocationOf[seen.bookings[b].user]}}
    BY <1>2, SameAffected
  <2>2. S = Calendar!ConsumingOn(d)
    BY <2>1
  <2>3. Calendar!IsAdmin(admin)
    BY <1>1, SameRules
  <2> QED BY <2>2, <2>3 DEF Seen
<1>5. /\ hs = (seen.holidays \ {h}) \cup {[h EXCEPT !.day = d]}
      /\ h \in seen.holidays /\ \A g \in seen.holidays : g.day # d
  BY <1>1, <1>2, <1>4
<1>6. HolidayMakes(Calendar!MoveAll(S, "released", admin),
                   Calendar!ReleaseCredits(Calendar!CompoffRows(S)), hs)
  <2>1. PICK rows, cs : /\ rows = Calendar!MoveAll(S, "released", admin)
                        /\ cs = Calendar!ReleaseCredits(Calendar!CompoffRows(S))
    OBVIOUS
  <2>2. HolidayMakes(rows, cs, hs)
    BY <1>1, <1>3, <1>4, <1>5, <2>1 DEF HolidayMakes
  <2> QED BY <2>1, <2>2
<1> QED BY <1>1, <1>2, <1>6, HolidayTaken

(* Every request taken up is on its way to a step of LeaveCalendar.         *)
LEMMA TakenUpServed ==
  ASSUME SerialInv, seen = Seen,
         NEW p \in Threads, AcceptRequest(p)
  PROVE  Serves(p)
<1>1. p \in Servers
  BY DEF Servers
<1> QED
  BY <1>1, CreateTaken, WithdrawServed, DecideServed, FlagTaken, BackfillTaken, UndoTaken,
     ConvertTaken, DeclareTaken, EditTaken, ClaimTaken, DecideClaimTaken
  DEF AcceptRequest

-----------------------------------------------------------------------------
(* The checks of a request in flight                                        *)

LEMMA ChecksNow ==
  ASSUME SerialInv, NEW p \in Servers, NEW op, NEW step, Serving(p, op, step), step # "calls"
  PROVE  /\ p \in InFlight /\ seen = Seen /\ request[p].on = today
         /\ request[p].op = op /\ request[p].step = step
         /\ Asks(request[p]) /\ request[p] \in RequestOf(bookings, credits, today)
<1>1. /\ p \in InFlight /\ request[p].op = op /\ request[p].step = step
      /\ request[p] # NoRequest
  BY DEF Serving, InFlight
<1>2. request[p].on = today /\ OnItsWay(p) /\ seen = Record(seen) /\ seen.today = today
  BY <1>1 DEF SerialInv
<1>3. /\ bookings = seen.bookings /\ credits = seen.credits /\ holidays = seen.holidays
      /\ Asks(request[p])
  BY <1>1, <1>2 DEF OnItsWay, Left
<1>4. seen = Seen
  BY <1>2, <1>3 DEF Record, Seen
<1>5. request[p] \in RequestOf(bookings, credits, today)
  BY <1>1, <1>2 DEF SerialInv, RequestsInv, AllInHand, InHand
<1> QED BY <1>1, <1>2, <1>3, <1>4, <1>5

LEMMA RefusedServes ==
  ASSUME SerialInv, seen = Seen, NEW p \in Servers, Refuse(p), UNCHANGED <<today, tables>>
  PROVE  Serves(p)
<1>1. PICK rows, cs, hs : rows = bookings' /\ cs = credits' /\ hs = holidays'
  OBVIOUS
<1>2. rows = bookings /\ cs = credits /\ hs = holidays
  BY <1>1 DEF tables
<1>3. Left(NoRequest, rows, cs, hs)
  BY <1>2 DEF Left, Outcome, Seen
<1>4. Bare(rows) /\ Apart(cs)
  BY <1>2 DEF SerialInv
<1> QED BY <1>1, <1>3, <1>4 DEF Serves, Refuse, GoOn

LEMMA CheckedServes ==
  ASSUME SerialInv, seen = Seen, NEW p \in Servers, NEW r,
         request' = [request EXCEPT ![p] = r], UNCHANGED <<today, tables>>,
         r.on = today, r # NoRequest,
         \/ r.step # "calls" /\ Asks(r)
         \/ r.step = "calls" /\ KeepsIn(r.calls, r, bookings, credits, holidays)
  PROVE  Serves(p)
<1>1. PICK rows, cs, hs : rows = bookings' /\ cs = credits' /\ hs = holidays'
  OBVIOUS
<1>2. /\ rows = bookings /\ cs = credits /\ hs = holidays
      /\ rows = seen.bookings /\ cs = seen.credits /\ hs = seen.holidays
  BY <1>1 DEF tables, Seen
<1>3. Left(r, rows, cs, hs)
  BY <1>2 DEF Left
<1>4. Bare(rows) /\ Apart(cs)
  BY <1>2 DEF SerialInv
<1> QED BY <1>1, <1>3, <1>4 DEF Serves

LEMMA CallsFollow ==
  ASSUME SerialInv, NEW p \in InFlight, NEW calls, Then(p, calls), UNCHANGED <<today, tables>>,
         KeepsIn(calls, request[p], bookings, credits, holidays)
  PROVE  Serves(p)
<1>1. PICK rows, cs, hs : rows = bookings' /\ cs = credits' /\ hs = holidays'
  OBVIOUS
<1>2. rows = bookings /\ cs = credits /\ hs = holidays
  BY <1>1 DEF tables
<1>3. rows = [b \in BookingId |-> rows[b]] /\ cs = [k \in CreditId |-> cs[k]]
  BY <1>2, TablesNow DEF Tables0
<1>4. KeepsIn(calls, request[p], rows, cs, hs) /\ Bare(rows) /\ Apart(cs)
  BY <1>2 DEF SerialInv
<1> QED BY <1>1, <1>3, <1>4, GoingOn

(* What may be spent on a booking, and the call that spends it.             *)
SpentFrom(cs, r, category, b) ==
  IF category = "compoff" THEN ConsumeCredits(cs, r.user, r.duration, b, r.on) ELSE {cs}

LEMMA PaysFor ==
  ASSUME NEW b \in BookingId, NEW r, NEW rows, NEW cs, NEW hs, NEW category,
         \A spent \in SpentFrom(cs, r, category, b) : Outcome(rows, spent, hs)
  PROVE  Pays(ThenConsume(b, category), r, rows, cs, hs)
BY DEF Pays, ThenConsume, SpentFrom

LEMMA SpentAsSeen ==
  ASSUME seen = Seen, NEW r, r.on = today, NEW category, NEW b
  PROVE  SpentFrom(credits, r, category, b) = Spent(r.user, r.duration, category, b)
<1>1. seen.today = today /\ seen.credits = credits
  BY DEF Seen
<1>2. Calendar!ConsumeCredits(credits, r.user, r.duration, b, today)
        = ConsumeCredits(credits, r.user, r.duration, b, today)
  BY SameConsumption
<1> QED BY <1>1, <1>2 DEF SpentFrom, Spent

(* A day recorded after the fact where nothing stands.                      *)
RecordOf(r) ==
  NewBooking(r.user, r.day, r.category, r.duration, "approved", r.actor, TRUE)

LEMMA RecordKeeps ==
  ASSUME SerialInv, seen = Seen, NEW r \in RequestOf(bookings, credits, today),
         r.user \in Bookers, r.category \in Offered, r.actor \in Users, IsAdmin(r.actor),
         check_backfill(r.day, r.category, r.reason, Calendar!NonWorking(r.user, r.day), r.on),
         Calendar!OccupyingOn(r.user, r.day) = {},
         r.category = "compoff" => available(r.user, r.on) >= r.duration
  PROVE  KeepsIn(<<<<Insert(RecordOf(r))>>>>, r, bookings, credits, holidays)
<1>1. /\ r.on = today /\ r.day \in Day /\ r.duration \in VALID_DURATIONS
      /\ r.reason \in BOOLEAN /\ r.category \in CATEGORIES
  BY InputsAssumption DEF RequestOf
<1>2. PICK row : row = RecordOf(r)
  OBVIOUS
<1>3. /\ row \in Booking /\ row.user = r.user /\ row.day = r.day /\ row.status = "approved"
      /\ row.category = r.category
  BY <1>1, <1>2, InputsAssumption DEF RecordOf, NewBooking, Booking, STATES
<1>4. seen.today = today /\ seen.bookings = bookings /\ seen.credits = credits
      /\ seen.holidays = holidays
  BY DEF Seen
<1>5. ASSUME NEW n \in BookingId, IsNextRow(n, bookings), NEW rows,
             rows = [bookings EXCEPT ![n] = row], NEW cs \in SpentFrom(credits, r, r.category, n)
      PROVE  Outcome(rows, cs, holidays)
  <2>1. cs \in Spent(r.user, r.duration, r.category, n)
    BY <1>1, <1>5, SpentAsSeen
  <2>2. row = Calendar!NewBooking(r.user, r.day, r.category, r.duration, "approved", r.actor, TRUE)
    BY <1>2 DEF RecordOf, NewBooking, Calendar!NewBooking
  <2>3. /\ Calendar!IsAdmin(r.actor) /\ Calendar!IsNextRow(n, seen.bookings)
        /\ Calendar!check_backfill(r.day, r.category, r.reason,
                                   Calendar!NonWorking(r.user, r.day), seen.today)
        /\ r.category = "compoff" => Calendar!available(r.user, seen.today) >= r.duration
    BY <1>1, <1>4, <1>5, SameRules, SameReads, SameAvailable
  <2>4. BackfillAs(r.actor, r.user, r.day, r.category, r.duration, r.reason, n, rows, cs)
    BY <1>4, <1>5, <2>1, <2>2, <2>3 DEF BackfillAs
  <2>5. BackfillMakes(rows, cs)
    BY <1>1, <2>4 DEF BackfillMakes
  <2> QED BY <1>4, <2>5 DEF Outcome
<1>6. Enters(row, r, bookings, credits, holidays)
  <2>1. \A b \in RowsIn(bookings) : ~ /\ bookings[b].user = row.user
                                      /\ bookings[b].day = row.day
                                      /\ bookings[b].status \in OCCUPYING_STATES
    <3>1. OccupyingOn(r.user, r.day) = {}
      BY SameReads
    <3> QED BY <1>3, <3>1 DEF OccupyingOn, RowsIn, Booked
  <2>2. ASSUME NEW n \in BookingId, IsNextRow(n, bookings)
        PROVE  Pays(ThenConsume(n, row.category), r, [bookings EXCEPT ![n] = row], credits, holidays)
    <3>1. PICK rows : rows = [bookings EXCEPT ![n] = row]
      OBVIOUS
    <3>2. \A cs \in SpentFrom(credits, r, row.category, n) : Outcome(rows, cs, holidays)
      BY <1>3, <1>5, <2>2, <3>1
    <3>3. Pays(ThenConsume(n, row.category), r, rows, credits, holidays)
      BY <3>2, PaysFor
    <3> QED BY <3>1, <3>3
  <2> QED BY <1>3, <2>1, <2>2 DEF Enters
<1>7. PICK calls : calls = <<<<Insert(row)>>>>
  OBVIOUS
<1>8. Arrives(calls, r, bookings, credits, holidays) /\ calls \in Seq({<<Insert(row)>>})
  <2>1. Arrives(calls, r, bookings, credits, holidays)
    BY <1>3, <1>6, <1>7 DEF Arrives, Inserts
  <2> QED BY <1>7, <2>1
<1>9. bookings = [b \in BookingId |-> bookings[b]] /\ credits = [k \in CreditId |-> credits[k]]
  BY TablesNow DEF Tables0
<1>10. KeepsIn(calls, r, bookings, credits, holidays)
  BY <1>8, <1>9, AtRest
<1> QED BY <1>2, <1>7, <1>10

(* An absence turned into leave.                                            *)
ConversionOf(r) ==
  [status |-> "approved", category |-> r.category, duration |-> r.duration,
   decided_by |-> r.actor, backfilled |-> TRUE]

LEMMA ConvertedTo ==
  ASSUME NEW row \in Booking, NEW r
  PROVE  Updated(row, ConversionOf(r)) = Converted(row, r.category, r.duration, r.actor)
<1>1. PICK set : set = ConversionOf(r)
  OBVIOUS
<1>2. /\ DOMAIN row = {"user", "day", "category", "duration", "status", "decided_by", "backfilled"}
      /\ DOMAIN set = {"status", "category", "duration", "decided_by", "backfilled"}
      /\ set["status"] = "approved" /\ set["category"] = r.category
      /\ set["duration"] = r.duration /\ set["decided_by"] = r.actor
      /\ set["backfilled"] = TRUE
  BY <1>1 DEF Booking, ConversionOf
<1>3. PICK c : c = Converted(row, r.category, r.duration, r.actor)
  OBVIOUS
<1>4. /\ c = [x \in DOMAIN row |-> c[x]]
      /\ \A x \in DOMAIN row : c[x] = IF x \in DOMAIN set THEN set[x] ELSE row[x]
  BY <1>2, <1>3 DEF Converted, Booking
<1>5. Updated(row, set) = c
  BY <1>4 DEF Updated
<1> QED BY <1>1, <1>3, <1>5

(* What LeaveCalendar asks of a conversion of b.                            *)
MayConvert(r, b) ==
  \/ /\ r.user \in Bookers /\ r.day \in Day
     /\ b \in Calendar!OccupyingOn(r.user, r.day)
     /\ \A a \in Calendar!OccupyingOn(r.user, r.day) :
          seen.bookings[a].status = "unrecognised"
     /\ Calendar!check_backfill(r.day, r.category, r.reason,
                                Calendar!NonWorking(r.user, r.day), seen.today)
  \/ /\ Calendar!check_absence_conversion(
          seen.bookings[b].status, r.day, r.category, r.reason,
          Calendar!NonWorking(r.user, r.day), seen.today)
     /\ r.category \in ALLOWANCE_CATEGORIES =>
          Calendar!check_allowance(
            Calendar!RemainingFor(r.user, r.day, r.category, {}), r.duration, AllowExcess,
            Calendar!IsConfigured(r.user, r.day, r.category))

LEMMA ConversionKeeps ==
  ASSUME SerialInv, seen = Seen, NEW r \in RequestOf(bookings, credits, today),
         r.category \in Offered, r.actor \in Users, IsAdmin(r.actor),
         NEW b \in RowsIn(bookings), bookings[b].status = "unrecognised",
         r.user = bookings[b].user, r.day = bookings[b].day, MayConvert(r, b),
         r.category = "compoff" => available(r.user, r.on) >= r.duration
  PROVE  KeepsIn(<<<<UpdateIf(b, ConversionOf(r))>>>> \o ThenConsume(b, r.category), r,
                 bookings, credits, holidays)
<1>1. /\ r.on = today /\ r.day \in Day /\ r.duration \in VALID_DURATIONS
      /\ r.reason \in BOOLEAN /\ r.category \in CATEGORIES
  BY InputsAssumption DEF RequestOf
<1>2. PICK set : set = ConversionOf(r)
  OBVIOUS
<1>3. /\ b \in BookingId /\ bookings[b] \in Booking
      /\ bookings = [a \in BookingId |-> bookings[a]]
      /\ credits = [k \in CreditId |-> credits[k]]
  BY TablesNow DEF Tables0, RowsIn
<1>4. PICK rows : rows = [bookings EXCEPT ![b] = Updated(bookings[b], set)]
  OBVIOUS
<1>5. /\ Updated(bookings[b], set) = Converted(bookings[b], r.category, r.duration, r.actor)
      /\ Updated(bookings[b], set).status = "approved"
  <2>1. Updated(bookings[b], set) = Converted(bookings[b], r.category, r.duration, r.actor)
    BY <1>2, <1>3, ConvertedTo
  <2>2. Converted(bookings[b], r.category, r.duration, r.actor).status = "approved"
    BY <1>3 DEF Converted, Booking
  <2> QED BY <2>1, <2>2
<1>6. ASSUME NEW cs \in SpentFrom(credits, r, r.category, b)
      PROVE  Outcome(rows, cs, holidays)
  <2>1. cs \in Spent(r.user, r.duration, r.category, b)
    BY <1>1, <1>6, SpentAsSeen
  <2>2. /\ seen.today = today /\ seen.bookings = bookings /\ seen.holidays = holidays
        /\ b \in Calendar!Booked /\ Calendar!IsAdmin(r.actor)
    BY SameRules, SameReads DEF Seen, Booked, RowsIn
  <2>3. r.category = "compoff" => Calendar!available(r.user, seen.today) >= r.duration
    BY <1>1, <2>2, SameAvailable
  <2>4. rows = [seen.bookings EXCEPT
                  ![b] = Calendar!Converted(seen.bookings[b], r.category, r.duration, r.actor)]
    BY <1>4, <1>5, <2>2 DEF Converted, Calendar!Converted
  <2>5. ConvertMakes(rows, cs)
    BY <1>1, <2>1, <2>2, <2>3, <2>4 DEF ConvertMakes, ConvertAs, MayConvert
  <2> QED BY <2>2, <2>5 DEF Outcome
<1>7. PICK rest : rest = ThenConsume(b, r.category)
  OBVIOUS
<1>8. Pays(rest, r, rows, credits, holidays)
  <2>1. \A cs \in SpentFrom(credits, r, r.category, b) : Outcome(rows, cs, holidays)
    BY <1>6
  <2> QED BY <1>3, <1>7, <2>1, PaysFor
<1>9. Settles(b, set, rest, r, bookings, credits, holidays)
  BY <1>4, <1>5, <1>8 DEF Settles
<1>10. set \in AbsenceChanges
  BY <1>1, <1>2 DEF ConversionOf, AbsenceChanges
<1>11. PICK back : back = <<<<UpdateIf(b, set)>>>> \o rest
  OBVIOUS
<1>12. Arrives(back, r, bookings, credits, holidays)
  BY <1>3, <1>9, <1>10, <1>11 DEF Arrives, UpdatesIf
<1>13. \E E : back \in Seq(E)
  <2>1. PICK x, y : x = <<UpdateIf(b, set)>> /\ y = <<Consume(b)>>
    OBVIOUS
  <2>2. PICK D : D = {x, y}
    OBVIOUS
  <2>3. PICK u : u = <<x>>
    OBVIOUS
  <2>4. u \in Seq(D)
    BY <2>2, <2>3
  <2>5. rest \in Seq(D)
    <3>1. <<y>> \in Seq(D) /\ <<>> \in Seq(D)
      BY <2>2
    <3> QED BY <1>7, <2>1, <3>1 DEF ThenConsume
  <2>6. u \o rest \in Seq(D)
    BY <2>4, <2>5, ConcatProperties
  <2> QED BY <1>11, <2>1, <2>3, <2>6
<1>14. KeepsIn(back, r, bookings, credits, holidays)
  BY <1>3, <1>12, <1>13, AtRest
<1> QED BY <1>2, <1>7, <1>11, <1>14

LEMMA ActorNow ==
  ASSUME SerialInv, NEW p \in InFlight, request[p].step # "calls"
  PROVE  request[p].actor \in Users
<1>1. request[p] # NoRequest /\ p \in Servers
  BY DEF InFlight
<1>2. InHand(request[p], bookings, credits, today)
  BY <1>1 DEF SerialInv, RequestsInv, AllInHand
<1> QED BY <1>2 DEF InHand, Checking

(* What a backfill has to write, once it has found the day.                 *)
LEMMA BackfillRecords ==
  ASSUME SerialInv, seen = Seen, NEW r \in RequestOf(bookings, credits, today),
         r.user \in Bookers, r.category \in Offered, r.actor \in Users, IsAdmin(r.actor),
         check_backfill(r.day, r.category, r.reason, Calendar!NonWorking(r.user, r.day), r.on),
         r.old = OccupyingOn(r.user, r.day),
         \A b \in r.old : bookings[b].status = "unrecognised",
         r.category = "compoff" => available(r.user, r.on) >= r.duration
  PROVE  KeepsIn(RecordCalls(r), r, bookings, credits, holidays)
<1>1. Calendar!OccupyingOn(r.user, r.day) = r.old
  BY SameReads
<1>2. CASE r.old = {}
  <2>1. RecordCalls(r) = <<<<Insert(RecordOf(r))>>>>
    BY <1>2 DEF RecordCalls, RecordOf
  <2> QED BY <1>1, <1>2, <2>1, RecordKeeps
<1>3. CASE r.old # {}
  <2>1. PICK b : b = CHOOSE x \in r.old : TRUE
    OBVIOUS
  <2>2. b \in r.old
    BY <1>3, <2>1
  <2>3. RecordCalls(r) = <<<<UpdateIf(b, ConversionOf(r))>>>> \o ThenConsume(b, r.category)
    BY <1>3, <2>1 DEF RecordCalls, ConversionOf
  <2>4. /\ b \in RowsIn(bookings) /\ bookings[b].status = "unrecognised"
        /\ r.user = bookings[b].user /\ r.day = bookings[b].day
    BY <2>2 DEF OccupyingOn, Booked, RowsIn
  <2>5. MayConvert(r, b)
    <3>1. r.day \in Day /\ r.on = today /\ seen.today = today /\ seen.bookings = bookings
      BY DEF RequestOf, Seen
    <3>2. Calendar!check_backfill(r.day, r.category, r.reason,
                                  Calendar!NonWorking(r.user, r.day), seen.today)
      BY <3>1, SameRules
    <3> QED BY <1>1, <2>2, <3>1, <3>2 DEF MayConvert
  <2> QED BY <2>3, <2>4, <2>5, ConversionKeeps
<1> QED BY <1>2, <1>3

LEMMA BackfillFindServed ==
  ASSUME SerialInv, NEW p \in Servers, backfill_find(p)
  PROVE  Serves(p)
<1>1. Serving(p, "backfill", "find") /\ UNCHANGED <<today, tables>>
  BY DEF backfill_find
<1>2. PICK q : q = request[p]
  OBVIOUS
<1>3. /\ p \in InFlight /\ seen = Seen /\ q.on = today /\ q.op = "backfill" /\ q.step = "find"
      /\ Asks(q) /\ q \in RequestOf(bookings, credits, today) /\ q.actor \in Users
  BY <1>1, <1>2, ChecksNow, ActorNow
<1>4. AsksBackfill(q)
  BY <1>3 DEF Asks
<1>5. PICK old : old = OccupyingOn(q.user, q.day)
  OBVIOUS
<1>6. PICK r : r = [q EXCEPT !.old = old]
  OBVIOUS
<1>7. \/ (\E b \in old : bookings[b].status # "unrecognised") /\ Refuse(p)
      \/ /\ \A b \in old : bookings[b].status = "unrecognised"
         /\ r.category = "compoff" /\ GoOn(p, [r EXCEPT !.step = "afford"])
      \/ /\ \A b \in old : bookings[b].status = "unrecognised"
         /\ r.category # "compoff"
         /\ GoOn(p, [r EXCEPT !.step = "calls", !.calls = RecordCalls(r)])
  BY <1>2, <1>5, <1>6 DEF backfill_find
<1>8. /\ r.user = q.user /\ r.day = q.day /\ r.category = q.category /\ r.actor = q.actor
      /\ r.reason = q.reason /\ r.on = q.on /\ r.op = q.op /\ r.old = old
      /\ r.duration = q.duration
      /\ r \in RequestOf(bookings, credits, today)
  <2>1. old \in SUBSET BookingId
    BY <1>5 DEF OccupyingOn, Booked
  <2> QED BY <1>3, <1>6, <2>1 DEF RequestOf
<1>9. /\ r.user \in Bookers /\ r.category \in Offered /\ r.actor \in Users /\ IsAdmin(r.actor)
      /\ check_backfill(r.day, r.category, r.reason, Calendar!NonWorking(r.user, r.day), r.on)
      /\ r.old = OccupyingOn(r.user, r.day)
      /\ Calendar!OccupyingOn(r.user, r.day) = r.old /\ seen.bookings = bookings
  BY <1>3, <1>4, <1>5, <1>8, SameReads DEF AsksBackfill, Seen
<1>10. CASE Refuse(p)
  BY <1>1, <1>3, <1>10, RefusedServes
<1>11. CASE /\ \A b \in old : bookings[b].status = "unrecognised"
            /\ r.category = "compoff" /\ GoOn(p, [r EXCEPT !.step = "afford"])
  <2>1. PICK r1 : r1 = [r EXCEPT !.step = "afford"]
    OBVIOUS
  <2>2. /\ r1.user = r.user /\ r1.day = r.day /\ r1.category = r.category
        /\ r1.actor = r.actor /\ r1.reason = r.reason /\ r1.on = r.on /\ r1.op = r.op
        /\ r1.old = r.old /\ r1.step = "afford"
    BY <1>8, <2>1 DEF RequestOf
  <2>3. Asks(r1)
    BY <1>3, <1>8, <1>9, <1>11, <2>2 DEF Asks, AsksBackfill
  <2>4. r1 # NoRequest /\ r1.on = today /\ r1.step # "calls"
    BY <1>3, <1>8, <2>2 DEF NoRequest
  <2>5. request' = [request EXCEPT ![p] = r1]
    BY <1>11, <2>1 DEF GoOn
  <2> QED BY <1>1, <1>3, <2>3, <2>4, <2>5, CheckedServes
<1>12. CASE /\ \A b \in old : bookings[b].status = "unrecognised"
            /\ r.category # "compoff"
            /\ GoOn(p, [r EXCEPT !.step = "calls", !.calls = RecordCalls(r)])
  <2>1. PICK calls : calls = RecordCalls(r)
    OBVIOUS
  <2>2. PICK r1 : r1 = [r EXCEPT !.step = "calls", !.calls = calls]
    OBVIOUS
  <2>3. /\ r1.user = r.user /\ r1.duration = r.duration /\ r1.actor = r.actor
        /\ r1.on = r.on /\ r1.op = r.op /\ r1.step = "calls" /\ r1.calls = calls
    BY <1>8, <2>2 DEF RequestOf
  <2>4. KeepsIn(calls, r, bookings, credits, holidays)
    BY <1>3, <1>8, <1>9, <1>12, <2>1, BackfillRecords
  <2>5. KeepsIn(calls, r1, bookings, credits, holidays)
    BY <2>3, <2>4, KeepsFor
  <2>6. r1 # NoRequest /\ r1.on = today
    BY <1>3, <1>8, <2>3 DEF NoRequest
  <2>7. request' = [request EXCEPT ![p] = r1]
    BY <1>12, <2>1, <2>2 DEF GoOn
  <2> QED BY <1>1, <1>3, <2>3, <2>5, <2>6, <2>7, CheckedServes
<1> QED BY <1>7, <1>10, <1>11, <1>12

LEMMA BackfillAffordServed ==
  ASSUME SerialInv, NEW p \in Servers, backfill_afford(p)
  PROVE  Serves(p)
<1>1. Serving(p, "backfill", "afford") /\ UNCHANGED <<today, tables>>
  BY DEF backfill_afford
<1>2. PICK r : r = request[p]
  OBVIOUS
<1>3. /\ p \in InFlight /\ seen = Seen /\ r.on = today /\ r.op = "backfill" /\ r.step = "afford"
      /\ Asks(r) /\ r \in RequestOf(bookings, credits, today) /\ r.actor \in Users
  BY <1>1, <1>2, ChecksNow, ActorNow
<1>4. AsksBackfill(r)
  BY <1>3 DEF Asks
<1>5. \/ available(r.user, r.on) >= r.duration /\ Then(p, RecordCalls(r))
      \/ Refuse(p)
  BY <1>2 DEF backfill_afford
<1>6. CASE Refuse(p)
  BY <1>1, <1>3, <1>6, RefusedServes
<1>7. CASE available(r.user, r.on) >= r.duration /\ Then(p, RecordCalls(r))
  <2>1. /\ r.user \in Bookers /\ r.category \in Offered /\ IsAdmin(r.actor)
        /\ check_backfill(r.day, r.category, r.reason, Calendar!NonWorking(r.user, r.day), r.on)
        /\ r.old = OccupyingOn(r.user, r.day)
        /\ \A b \in r.old : bookings[b].status = "unrecognised"
    BY <1>3, <1>4, SameReads DEF AsksBackfill, Seen
  <2>2. KeepsIn(RecordCalls(r), r, bookings, credits, holidays)
    BY <1>3, <1>7, <2>1, BackfillRecords
  <2> QED BY <1>1, <1>2, <1>3, <1>7, <2>2, CallsFollow
<1> QED BY <1>5, <1>6, <1>7

(* One check passed, the next to come.                                      *)
LEMMA NextCheckServes ==
  ASSUME SerialInv, NEW p \in InFlight, seen = Seen, NEW r, r = request[p],
         r \in RequestOf(bookings, credits, today), NEW step, step # "calls", Check(p, step),
         UNCHANGED <<today, tables>>, NEW r1, r1 = [r EXCEPT !.step = step], Asks(r1)
  PROVE  Serves(p)
<1>1. p \in Servers
  BY DEF InFlight
<1>2. r1.on = today /\ r1.op = r.op /\ r1.step = step
  BY DEF RequestOf
<1>3. r1 # NoRequest
  BY <1>2 DEF RequestOf, HANDLERS, NoRequest
<1>4. request' = [request EXCEPT ![p] = r1]
  BY DEF Check, GoOn
<1> QED BY <1>1, <1>2, <1>3, <1>4, CheckedServes

LEMMA ConvertHolidayServed ==
  ASSUME SerialInv, NEW p \in Servers, convert_holiday(p)
  PROVE  Serves(p)
<1>1. Serving(p, "convert", "holiday") /\ UNCHANGED <<today, tables>>
  BY DEF convert_holiday
<1>2. PICK r : r = request[p]
  OBVIOUS
<1>3. /\ p \in InFlight /\ seen = Seen /\ r.on = today /\ r.op = "convert" /\ r.step = "holiday"
      /\ Asks(r) /\ r \in RequestOf(bookings, credits, today)
  BY <1>1, <1>2, ChecksNow
<1>4. AsksConversion(r)
  BY <1>3 DEF Asks
<1>5. \/ /\ check_backfill(r.day, r.category, r.reason, NonWorking(r.user, r.day), r.on)
         /\ Check(p, "afford")
      \/ Refuse(p)
  BY <1>2 DEF convert_holiday
<1>6. CASE Refuse(p)
  BY <1>1, <1>3, <1>6, RefusedServes
<1>7. CASE /\ check_backfill(r.day, r.category, r.reason, NonWorking(r.user, r.day), r.on)
           /\ Check(p, "afford")
  <2>1. PICK r1 : r1 = [r EXCEPT !.step = "afford"]
    OBVIOUS
  <2>2. /\ r1.user = r.user /\ r1.day = r.day /\ r1.category = r.category
        /\ r1.actor = r.actor /\ r1.reason = r.reason /\ r1.on = r.on /\ r1.op = r.op
        /\ r1.old = r.old /\ r1.step = "afford"
    BY <1>3, <2>1 DEF RequestOf
  <2>3. check_backfill(r.day, r.category, r.reason, Calendar!NonWorking(r.user, r.day), r.on)
    BY <1>3, <1>7, SameReads
  <2>4. Asks(r1)
    BY <1>3, <1>4, <2>2, <2>3 DEF Asks, AsksConversion
  <2> QED BY <1>1, <1>2, <1>3, <1>7, <2>1, <2>4, NextCheckServes
<1> QED BY <1>5, <1>6, <1>7

LEMMA ConvertAffordServed ==
  ASSUME SerialInv, NEW p \in Servers, convert_afford(p)
  PROVE  Serves(p)
<1>1. Serving(p, "convert", "afford") /\ UNCHANGED <<today, tables>>
  BY DEF convert_afford
<1>2. PICK r : r = request[p]
  OBVIOUS
<1>3. /\ p \in InFlight /\ seen = Seen /\ r.on = today /\ r.op = "convert" /\ r.step = "afford"
      /\ Asks(r) /\ r \in RequestOf(bookings, credits, today) /\ r.actor \in Users
  BY <1>1, <1>2, ChecksNow, ActorNow
<1>4. AsksConversion(r)
  BY <1>3 DEF Asks
<1>5. \/ /\ r.category = "compoff" => available(r.user, r.on) >= r.duration
         /\ r.category \in ALLOWANCE_CATEGORIES =>
              check_allowance(RemainingFor(r.user, r.day, r.category, {}), r.duration,
                              AllowExcess, IsConfigured(r.user, r.day, r.category))
         /\ Then(p, RecordCalls(r))
      \/ Refuse(p)
  BY <1>2 DEF convert_afford
<1>6. CASE Refuse(p)
  BY <1>1, <1>3, <1>6, RefusedServes
<1>7. CASE /\ r.category = "compoff" => available(r.user, r.on) >= r.duration
           /\ r.category \in ALLOWANCE_CATEGORIES =>
                check_allowance(RemainingFor(r.user, r.day, r.category, {}), r.duration,
                                AllowExcess, IsConfigured(r.user, r.day, r.category))
           /\ Then(p, RecordCalls(r))
  <2>1. PICK b \in Calendar!Booked :
          /\ r.old = {b} /\ seen.bookings[b].status = "unrecognised"
          /\ r.user = seen.bookings[b].user /\ r.day = seen.bookings[b].day
    BY <1>4 DEF AsksConversion
  <2>2. /\ b \in RowsIn(bookings) /\ bookings[b].status = "unrecognised"
        /\ r.user = bookings[b].user /\ r.day = bookings[b].day
    BY <1>3, <2>1, SameReads DEF Seen, Booked, RowsIn
  <2>3. RecordCalls(r) = <<<<UpdateIf(b, ConversionOf(r))>>>> \o ThenConsume(b, r.category)
    <3>1. (CHOOSE x \in {b} : TRUE) = b
      OBVIOUS
    <3>2. r.old # {} /\ (CHOOSE x \in r.old : TRUE) = b
      BY <2>1, <3>1
    <3> QED BY <3>2 DEF RecordCalls, ConversionOf
  <2>4. MayConvert(r, b)
    <3>1. PICK off : off = Calendar!NonWorking(r.user, r.day)
      OBVIOUS
    <3>2. check_backfill(r.day, r.category, r.reason, off, r.on)
      BY <1>3, <1>4, <3>1 DEF AsksConversion
    <3>3. check_absence_conversion(seen.bookings[b].status, r.day, r.category, r.reason, off, r.on)
      BY <2>1, <3>2 DEF check_absence_conversion
    <3>4. seen.today = r.on
      BY <1>3 DEF Seen
    <3>5. Calendar!check_absence_conversion(seen.bookings[b].status, r.day, r.category, r.reason,
                                            off, seen.today)
      BY <3>3, <3>4, SameRules
    <3>6. r.category \in ALLOWANCE_CATEGORIES =>
            Calendar!check_allowance(
              Calendar!RemainingFor(r.user, r.day, r.category, {}), r.duration, AllowExcess,
              Calendar!IsConfigured(r.user, r.day, r.category))
      <4>1. PICK left, set : /\ left = RemainingFor(r.user, r.day, r.category, {})
                             /\ set = IsConfigured(r.user, r.day, r.category)
        OBVIOUS
      <4>2. /\ left = Calendar!RemainingFor(r.user, r.day, r.category, {})
            /\ set = Calendar!IsConfigured(r.user, r.day, r.category)
        BY <1>3, <4>1, SameRemaining
      <4>3. r.category \in ALLOWANCE_CATEGORIES =>
              Calendar!check_allowance(left, r.duration, AllowExcess, set)
        BY <1>7, <4>1, SameRules
      <4> QED BY <4>2, <4>3
    <3> QED BY <3>1, <3>5, <3>6 DEF MayConvert
  <2>5. r.category \in Offered /\ IsAdmin(r.actor)
    BY <1>4 DEF AsksConversion
  <2>6. KeepsIn(RecordCalls(r), r, bookings, credits, holidays)
    BY <1>3, <1>7, <2>2, <2>3, <2>4, <2>5, ConversionKeeps
  <2> QED BY <1>1, <1>2, <1>3, <1>7, <2>6, CallsFollow
<1> QED BY <1>5, <1>6, <1>7

LEMMA CreateHolidayServed ==
  ASSUME SerialInv, NEW p \in Servers, create_holiday(p)
  PROVE  Serves(p)
<1>1. Serving(p, "create_or_replace", "holiday") /\ UNCHANGED <<today, tables>>
  BY DEF create_holiday
<1>2. PICK r : r = request[p]
  OBVIOUS
<1>3. /\ p \in InFlight /\ seen = Seen /\ r.on = today /\ r.op = "create_or_replace"
      /\ r.step = "holiday" /\ Asks(r) /\ r \in RequestOf(bookings, credits, today)
  BY <1>1, <1>2, ChecksNow
<1>4. AsksLeave(r)
  BY <1>3 DEF Asks
<1>5. \/ ~NonWorking(r.user, r.day) /\ Check(p, "afford")
      \/ Refuse(p)
  BY <1>2 DEF create_holiday
<1>6. CASE Refuse(p)
  BY <1>1, <1>3, <1>6, RefusedServes
<1>7. CASE ~NonWorking(r.user, r.day) /\ Check(p, "afford")
  <2>1. PICK r1 : r1 = [r EXCEPT !.step = "afford"]
    OBVIOUS
  <2>2. /\ r1.user = r.user /\ r1.day = r.day /\ r1.category = r.category
        /\ r1.actor = r.actor /\ r1.reason = r.reason /\ r1.on = r.on /\ r1.op = r.op
        /\ r1.old = r.old /\ r1.step = "afford"
    BY <1>3, <2>1 DEF RequestOf
  <2>3. ~Calendar!NonWorking(r.user, r.day)
    BY <1>3, <1>7, SameReads
  <2>4. Asks(r1)
    BY <1>3, <1>4, <2>2, <2>3 DEF Asks, AsksLeave
  <2> QED BY <1>1, <1>2, <1>3, <1>7, <2>1, <2>4, NextCheckServes
<1> QED BY <1>5, <1>6, <1>7

(* The booking that is asked for, and the tables once what it replaces has  *)
(* ended.                                                                   *)
RequestFor(r) ==
  NewBooking(r.user, r.day, r.category, r.duration, "pending", Nobody, FALSE)

LEMMA LeaveEnters ==
  ASSUME SerialInv, seen = Seen, NEW r \in RequestOf(bookings, credits, today),
         AsksLeave(r), r.step = "afford",
         AcceptsBooking(r.user, r.day, r.category, r.duration, r.reason, r.old, FALSE, r.on)
  PROVE  Enters(RequestFor(r), r, MovedIn(bookings, r.old, "withdrawn", r.actor),
                FreedIn(bookings, credits, r.old), holidays)
<1>1. /\ r.on = today /\ r.day \in Day /\ r.duration \in VALID_DURATIONS
      /\ r.reason \in BOOLEAN /\ r.category \in CATEGORIES /\ r.user \in Users
      /\ r.user \in Bookers /\ r.category \in Offered /\ r.actor = r.user
  BY InputsAssumption DEF RequestOf, AsksLeave
<1>2. PICK row : row = RequestFor(r)
  OBVIOUS
<1>3. /\ row \in Booking /\ row.user = r.user /\ row.day = r.day /\ row.status = "pending"
      /\ row.category = r.category
  BY <1>1, <1>2 DEF RequestFor, NewBooking, Booking, STATES
<1>4. /\ seen.today = today /\ seen.bookings = bookings /\ seen.credits = credits
      /\ seen.holidays = holidays
  BY DEF Seen
<1>5. PICK S : S = r.old
  OBVIOUS
<1>6. /\ S = Calendar!OccupyingOn(r.user, r.day) /\ S = OccupyingOn(r.user, r.day)
      /\ S \in SUBSET BookingId /\ S \subseteq RowsIn(bookings)
  BY <1>5, SameReads DEF AsksLeave, OccupyingOn, Booked, RowsIn
<1>7. PICK rows : rows = MovedIn(bookings, S, "withdrawn", r.actor)
  OBVIOUS
<1>8. PICK cs : cs = FreedIn(bookings, credits, S)
  OBVIOUS
<1>9. /\ rows = Calendar!MoveAll(S, "withdrawn", r.user)
      /\ cs = Calendar!ReleaseCredits(Calendar!CompoffRows(S))
  BY <1>1, <1>6, <1>7, <1>8, EndedAsSeen
<1>10. \A b \in BookingId : rows[b] = IF b \in S THEN Moved(bookings[b], "withdrawn", r.actor)
                                      ELSE bookings[b]
  BY <1>7 DEF MovedIn
<1>11. \A b \in S : rows[b] # NoRow /\ bookings[b] # NoRow /\ rows[b].status = "withdrawn"
  <2>1. \A b \in S : bookings[b] \in Booking
    BY <1>6, TablesNow DEF Tables0, RowsIn
  <2>2. "withdrawn" \in STATES /\ r.actor \in Users \cup {Nobody}
    BY <1>1 DEF STATES
  <2>3. \A b \in S : Moved(bookings[b], "withdrawn", r.actor) \in Booking
                       /\ Moved(bookings[b], "withdrawn", r.actor).status = "withdrawn"
    BY <2>1, <2>2, MovedTo
  <2> QED BY <1>6, <1>10, <2>1, <2>3, NoRowAssumption
<1>12. \A b \in RowsIn(rows) : ~ /\ rows[b].user = row.user
                                 /\ rows[b].day = row.day
                                 /\ rows[b].status \in OCCUPYING_STATES
  BY <1>3, <1>6, <1>10, <1>11 DEF OccupyingOn, RowsIn, Booked, OCCUPYING_STATES
<1>13. ASSUME NEW n \in BookingId, IsNextRow(n, rows)
       PROVE  Pays(ThenConsume(n, row.category), r, [rows EXCEPT ![n] = row], cs, holidays)
  <2>1. PICK rows1 : rows1 = [rows EXCEPT ![n] = row]
    OBVIOUS
  <2>2. Calendar!IsNextRow(n, seen.bookings)
    <3>1. \A m \in BookingId : rows[m] = NoRow <=> bookings[m] = NoRow
      BY <1>10, <1>11
    <3>2. 1 .. (n - 1) \subseteq BookingId
      BY BoundsAssumption DEF BookingId
    <3>3. IsNextRow(n, bookings)
      BY <1>13, <3>1, <3>2 DEF IsNextRow
    <3> QED BY <1>4, <3>3, SameReads
  <2>3. PICK off : off = Calendar!NonWorking(r.user, r.day)
    OBVIOUS
  <2>4. off = FALSE
    BY <2>3 DEF AsksLeave, Calendar!NonWorking
  <2>5. /\ Calendar!Replaceable(S, r.day, seen.today)
        /\ Calendar!AcceptsBooking(r.user, r.day, r.category, r.duration, r.reason, S, off,
                                   seen.today)
    <3>1. AcceptsBooking(r.user, r.day, r.category, r.duration, r.reason, S, off, today)
      BY <1>1, <1>5, <2>4
    <3>2. Calendar!AcceptsBooking(r.user, r.day, r.category, r.duration, r.reason, S, off, today)
      BY <3>1, SameTests
    <3>3. Calendar!Replaceable(S, r.day, today)
      BY <1>1, <1>5 DEF AsksLeave
    <3> QED BY <1>4, <3>2, <3>3
  <2>6. row = Calendar!NewBooking(r.user, r.day, r.category, r.duration, "pending", Nobody, FALSE)
    BY <1>2 DEF RequestFor, NewBooking, Calendar!NewBooking
  <2>7. ASSUME NEW spent \in SpentFrom(cs, r, r.category, n)
        PROVE  Outcome(rows1, spent, holidays)
    <3>1. spent \in IF r.category = "compoff"
                    THEN Calendar!ConsumeCredits(cs, r.user, r.duration, n, seen.today)
                    ELSE {cs}
      BY <1>1, <1>4, <2>7, SameConsumption DEF SpentFrom
    <3>2. CreateAs(r.user, r.day, r.category, r.duration, r.reason, n, rows1, spent)
      BY <1>6, <1>9, <2>1, <2>2, <2>3, <2>5, <2>6, <3>1 DEF CreateAs
    <3>3. CreateMakes(rows1, spent)
      BY <1>1, <3>2 DEF CreateMakes
    <3> QED BY <1>4, <3>3 DEF Outcome
  <2>8. Pays(ThenConsume(n, r.category), r, rows1, cs, holidays)
    BY <2>7, PaysFor
  <2> QED BY <1>3, <2>1, <2>8
<1>14. Enters(row, r, rows, cs, holidays)
  BY <1>3, <1>12, <1>13 DEF Enters
<1> QED BY <1>2, <1>5, <1>7, <1>8, <1>14

LEMMA CreateAffordServed ==
  ASSUME SerialInv, NEW p \in Servers, create_afford(p)
  PROVE  Serves(p)
<1>1. Serving(p, "create_or_replace", "afford") /\ UNCHANGED <<today, tables>>
  BY DEF create_afford
<1>2. PICK r : r = request[p]
  OBVIOUS
<1>3. /\ p \in InFlight /\ seen = Seen /\ r.on = today /\ r.op = "create_or_replace"
      /\ r.step = "afford" /\ Asks(r) /\ r \in RequestOf(bookings, credits, today)
      /\ r.actor \in Users
  BY <1>1, <1>2, ChecksNow, ActorNow
<1>4. AsksLeave(r)
  BY <1>3 DEF Asks
<1>5. PICK row : row = RequestFor(r)
  OBVIOUS
<1>6. \/ /\ AcceptsBooking(r.user, r.day, r.category, r.duration, r.reason, r.old, FALSE, r.on)
         /\ \E order \in SetToSeqs(r.old) :
              Then(p, Append([i \in DOMAIN order |-> EndCalls(order[i], "withdrawn", r.actor)],
                             <<Insert(row)>>))
      \/ Refuse(p)
  BY <1>2, <1>5 DEF create_afford, RequestFor
<1>7. CASE Refuse(p)
  BY <1>1, <1>3, <1>7, RefusedServes
<1>8. CASE /\ AcceptsBooking(r.user, r.day, r.category, r.duration, r.reason, r.old, FALSE, r.on)
           /\ \E order \in SetToSeqs(r.old) :
                Then(p, Append([i \in DOMAIN order |-> EndCalls(order[i], "withdrawn", r.actor)],
                               <<Insert(row)>>))
  <2>1. PICK S : S = r.old
    OBVIOUS
  <2>2. PICK order \in SetToSeqs(S) :
          Then(p, Append([i \in DOMAIN order |-> EndCalls(order[i], "withdrawn", r.actor)],
                         <<Insert(row)>>))
    BY <1>8, <2>1
  <2>3. PICK lists : lists = [i \in DOMAIN order |-> EndCalls(order[i], "withdrawn", r.actor)]
    OBVIOUS
  <2>4. PICK last, back : last = <<Insert(row)>> /\ back = <<last>>
    OBVIOUS
  <2>5. Then(p, Append(lists, last))
    BY <2>2, <2>3, <2>4
  <2>6. S \in SUBSET RowsIn(bookings)
    BY <1>3, <1>4, <2>1, SameReads DEF AsksLeave, OccupyingOn, Booked, RowsIn
  <2>7. TypeOK /\ r.actor \in Users \cup {Nobody}
    BY <1>3 DEF SerialInv, RequestsInv, TablesOK
  <2>8. lists \in Moves /\ Ends(lists, S, "withdrawn", r.actor)
    BY <2>2, <2>3, <2>6, <2>7, EndingLists
  <2>9. Append(lists, last) = lists \o back
    <3>1. PICK D : D = (Seq(MovingCalls) \ {<<>>}) \cup {last}
      OBVIOUS
    <3>2. lists \in Seq(D)
      <4>1. PICK B : B = Seq(MovingCalls) \ {<<>>}
        OBVIOUS
      <4>2. lists \in Seq(B) /\ B \subseteq D
        BY <2>8, <3>1, <4>1 DEF Moves
      <4> QED BY <4>2, SeqMonotonic
    <3>3. last \in D
      BY <3>1
    <3> QED BY <2>4, <3>2, <3>3, AppendIsConcat
  <2>10. Enters(row, r, MovedIn(bookings, S, "withdrawn", r.actor),
                FreedIn(bookings, credits, S), holidays)
    BY <1>3, <1>4, <1>5, <1>8, <2>1, LeaveEnters
  <2>11. row \in Booking
    BY <1>3, <1>4, <1>5, InputsAssumption
    DEF AsksLeave, RequestOf, RequestFor, NewBooking, Booking, STATES
  <2>12. Arrives(back, r, MovedIn(bookings, S, "withdrawn", r.actor),
                 FreedIn(bookings, credits, S), holidays)
    BY <2>4, <2>10, <2>11 DEF Arrives, Inserts
  <2>13. back \in Seq({last})
    BY <2>4
  <2>14. KeepsIn(lists \o back, r, bookings, credits, holidays)
    BY <2>6, <2>7, <2>8, <2>12, <2>13, EndingKeeps
  <2>15. PICK calls : calls = lists \o back
    OBVIOUS
  <2>16. Then(p, calls) /\ KeepsIn(calls, r, bookings, credits, holidays)
    BY <2>5, <2>9, <2>14, <2>15
  <2> QED BY <1>1, <1>2, <1>3, <2>16, CallsFollow
<1> QED BY <1>6, <1>7, <1>8

LEMMA GoneOnServed ==
  ASSUME SerialInv, NEW p \in Servers, Serve(p)
  PROVE  Serves(p)
<1>1. CASE create_holiday(p) \/ create_afford(p) \/ backfill_find(p) \/ backfill_afford(p)
             \/ convert_holiday(p) \/ convert_afford(p)
  BY <1>1, CreateHolidayServed, CreateAffordServed, BackfillFindServed,
     BackfillAffordServed,
     ConvertHolidayServed, ConvertAffordServed
<1>2. CASE update_booking(p) \/ update_booking_if_status(p) \/ insert_booking(p)
             \/ release_for_booking(p) \/ consume(p)
  BY <1>2, UpdateServed, AbsenceServed, InsertServed, ReleaseServed, ConsumeServed
<1>3. CASE update_compoff_credit(p) \/ insert_compoff_credit(p) \/ write_holiday(p)
             \/ release_on(p)
  BY <1>3, CreditServed, ClaimServed, HolidayServed, LeaveReleaseServed
<1> QED BY <1>1, <1>2, <1>3 DEF Serve

(* With room for one request, one is taken up only when none is in flight.  *)
LEMMA NoneInFlight ==
  ASSUME SerialInv, Cardinality(InFlight) < 1
  PROVE  InFlight = {} /\ seen = Seen
<1>1. InFlight = {}
  <2> SUFFICES ASSUME NEW p \in InFlight PROVE FALSE
    OBVIOUS
  <2>1. InFlight = {p}
    BY DEF SerialInv
  <2>2. Cardinality({p}) = 1
    BY FS_Singleton
  <2> QED BY <2>1, <2>2
<1> QED BY <1>1 DEF SerialInv

LEMMA KeptInvariant ==
  ASSUME RequestsInv, ServerNext
  PROVE  RequestsInv'
<1>1. Kept
  BY EachStep
<1>2. RequestsInv' <=> /\ TypeOK' /\ AllCharged(bookings') /\ OnePerDay(bookings')
                       /\ AllInHand(request', bookings', credits', today')
  BY DEF RequestsInv, TablesOK
<1> QED BY <1>1, <1>2 DEF Kept

LEMMA ServesOne ==
  ASSUME NEW p \in Servers, Serve(p)
  PROVE  p \in InFlight /\ today' = today
<1>1. CASE create_holiday(p) \/ create_afford(p) \/ backfill_find(p) \/ backfill_afford(p)
             \/ convert_holiday(p) \/ convert_afford(p)
  BY <1>1
  DEF create_holiday, create_afford, backfill_find, backfill_afford, convert_holiday,
    convert_afford, Serving
<1>2. CASE update_booking(p) \/ update_booking_if_status(p) \/ insert_booking(p)
             \/ release_for_booking(p) \/ consume(p)
  BY <1>2 DEF update_booking, update_booking_if_status, insert_booking, release_for_booking,
    consume, Calling
<1>3. CASE update_compoff_credit(p) \/ insert_compoff_credit(p) \/ write_holiday(p)
             \/ release_on(p)
  BY <1>3
  DEF update_compoff_credit, insert_compoff_credit, write_holiday, release_on, Calling
<1> QED BY <1>1, <1>2, <1>3 DEF Serve

LEMMA TakesUpOne ==
  ASSUME MaxInFlight = 1, SerialInv,
         (\E p \in Threads : AcceptRequest(p)) \/ sweep_list \/ lapse_list
  PROVE  /\ InFlight = {} /\ seen = Seen /\ today' = today
         /\ \E p \in Servers : Serves(p)
<1>1. \E p, r, step : Accept(p, r, step)
  <2>1. ASSUME NEW p \in Threads, AcceptRequest(p)
        PROVE  \E r, step : Accept(p, r, step)
    BY <2>1 DEF AcceptRequest, create_find, withdraw_get, decide_get, flag_find,
                backfill_holiday, undo_get, convert_get, declare_clash, edit_clash,
                claim_holiday, decide_claim_get, AcceptCalls, AcceptEach
  <2>2. ASSUME sweep_list \/ lapse_list
        PROVE  \E r, step : Accept(Worker, r, step)
    BY <2>2 DEF sweep_list, lapse_list, AcceptEach
  <2> QED BY <2>1, <2>2
<1>2. Cardinality(InFlight) < 1 /\ today' = today
  BY <1>1 DEF Accept
<1>3. InFlight = {} /\ seen = Seen
  BY <1>2, NoneInFlight
<1>4. \E p \in Servers : Serves(p)
  <2>1. Worker \in Servers /\ Threads \subseteq Servers
    BY DEF Servers
  <2> QED BY <1>3, <2>1, TakenUpServed, SweepTaken, LapseTaken
<1> QED BY <1>2, <1>3, <1>4

(* Between two requests a holiday is deleted, or a day ends.                *)
LEMMA BetweenRequests ==
  ASSUME SerialInv, RequestsInv', InFlight = {}, seen = Seen, request' = request,
         UNCHANGED <<bookings, credits>>,
         seen' = IF InFlight' = {} THEN Seen' ELSE seen
  PROVE  SerialInv' /\ seen' = Seen'
<1>1. InFlight' = {}
  BY DEF InFlight
<1>2. seen' = Seen'
  BY <1>1
<1>3. seen'.today = today' /\ (seen = Record(seen))'
  BY <1>2 DEF Seen, Record
<1>4. Bare(bookings)' /\ Apart(credits)'
  BY DEF SerialInv, Bare, Apart, RowsIn, RowsOf
<1> QED BY <1>1, <1>2, <1>3, <1>4 DEF SerialInv

LEMMA SerialStep ==
  ASSUME MaxInFlight = 1, MayStop = FALSE, ClockMayTurn = FALSE, SerialInv, SerialNext
  PROVE  SerialInv' /\ StepOfCalendar
<1>1. RequestsInv' /\ seen' = IF InFlight' = {} THEN Seen' ELSE seen
  BY KeptInvariant DEF SerialInv, SerialNext
<1>2. CASE (\E p \in Threads : AcceptRequest(p)) \/ sweep_list \/ lapse_list
  <2>1. /\ InFlight = {} /\ seen = Seen /\ today' = today
        /\ \E p \in Servers : Serves(p)
    BY <1>2, TakesUpOne
  <2> QED BY <1>1, <2>1, ServedInStep
<1>3. ASSUME NEW p \in Servers, Serve(p)
      PROVE  SerialInv' /\ StepOfCalendar
  <2>1. p \in InFlight /\ today' = today
    BY <1>3, ServesOne
  <2>2. \A q \in InFlight : q = p
    BY <2>1 DEF SerialInv
  <2>3. Serves(p)
    BY <1>3, GoneOnServed
  <2> QED BY <1>1, <2>1, <2>2, <2>3, ServedInStep
<1>4. CASE delete_holiday
  <2>1. PICK admin \in Users, h \in holidays :
          Cardinality(InFlight) < MaxInFlight /\ remove_holiday(admin, h) /\ request' = request
    BY <1>4 DEF delete_holiday
  <2>2. InFlight = {} /\ seen = Seen
    BY <2>1, NoneInFlight
  <2>3. /\ IsAdmin(admin) /\ holidays' = holidays \ {h}
        /\ UNCHANGED <<today, bookings, credits>>
    BY <2>1 DEF remove_holiday
  <2>4. SerialInv' /\ seen' = Seen'
    BY <1>1, <2>1, <2>2, <2>3, BetweenRequests
  <2>5. Calendar!remove_holiday(admin, h) /\ h \in seen.holidays
    BY <2>2, <2>3, <2>4, SameRules DEF Seen, Calendar!remove_holiday
  <2> QED BY <2>4, <2>5 DEF StepOfCalendar, Calendar!Next, Calendar!AdminStep
<1>5. CASE clock
  <2>1. NextDay /\ request' = request /\ InFlight = {}
    BY <1>5 DEF clock
  <2>2. seen = Seen
    BY <2>1 DEF SerialInv
  <2>3. SerialInv' /\ seen' = Seen'
    BY <1>1, <2>1, <2>2, BetweenRequests DEF NextDay
  <2>4. Calendar!NextDay
    BY <2>1, <2>2, <2>3 DEF Seen, NextDay, Calendar!NextDay
  <2> QED BY <2>3, <2>4 DEF StepOfCalendar, Calendar!Next
<1>6. \A p \in Servers : ~stop(p)
  BY DEF stop
<1> QED BY <1>2, <1>3, <1>4, <1>5, <1>6 DEF SerialNext, ServerNext

LEMMA SerialStutter ==
  ASSUME SerialInv, UNCHANGED <<serverVars, seen>>
  PROVE  SerialInv' /\ StepOfCalendar
<1>1. UNCHANGED <<today, bookings, credits, holidays, request, seen>>
  BY DEF serverVars
<1>2. InFlight' = InFlight /\ Seen' = Seen
  BY <1>1 DEF InFlight, Seen
<1>3. RequestsInv'
  BY <1>1 DEF SerialInv, RequestsInv, TablesOK, TypeOK
<1>4. Bare(bookings)' /\ Apart(credits)'
  BY <1>1 DEF SerialInv, Bare, Apart, RowsIn, RowsOf
<1>5. ASSUME NEW p \in InFlight PROVE OnItsWay(p)'
  <2>1. PICK r, rows, cs, hs :
          /\ r = request[p] /\ rows = bookings /\ cs = credits /\ hs = holidays
          /\ Left(r, rows, cs, hs)
    BY DEF SerialInv, OnItsWay
  <2>2. Left(r, rows, cs, hs)'
    BY <1>1, <2>1, SeenLeft
  <2> QED BY <1>1, <2>1, <2>2 DEF OnItsWay
<1>6. \A p \in InFlight' : request'[p].on = today' /\ OnItsWay(p)'
  BY <1>1, <1>2, <1>5 DEF SerialInv
<1>7. /\ \A p, q \in InFlight' : p = q
      /\ seen'.today = today' /\ (seen = Record(seen))'
      /\ InFlight' = {} => seen' = Seen'
  BY <1>1, <1>2 DEF SerialInv, Record
<1>8. SerialInv'
  BY <1>3, <1>4, <1>6, <1>7 DEF SerialInv
<1> QED BY <1>1, <1>8 DEF StepOfCalendar

LEMMA SerialFirst ==
  ASSUME SerialInit PROVE SerialInv /\ Calendar!Init
<1>1. RequestsInv /\ InFlight = {} /\ seen = Seen
  BY FirstState DEF SerialInit, ServerInit, InFlight
<1>2. Calendar!Init
  BY <1>1
  DEF SerialInit, ServerInit, Init, Seen, Calendar!Init, Calendar!BookingId, BookingId,
    Calendar!CreditId, CreditId
<1>3. RowsIn(bookings) = {} /\ RowsOf(credits) = {}
  BY DEF SerialInit, ServerInit, Init, RowsIn, RowsOf
<1>4. Bare(bookings) /\ Apart(credits)
  BY <1>3 DEF Bare, Apart
<1>5. seen.today = today /\ seen = Record(seen)
  BY <1>1 DEF Seen, Record
<1> QED BY <1>1, <1>2, <1>4, <1>5 DEF SerialInv

(* services/bookings.py, compoff.py, holidays.py and jobs.py: the checks    *)
(* and calls of one handler, taken together, are the one step LeaveCalendar *)
(* makes of its request, a refusal half way through included.  It takes     *)
(* that requests do not overlap, that none is cut short and that no         *)
(* midnight falls inside one: the other runs show what each of these costs. *)
THEOREM OneRequestIsOneStep ==
  ASSUME MaxInFlight = 1, MayStop = FALSE, ClockMayTurn = FALSE
  PROVE  SerialSpec => ServesAsOneStep
<1>1. SerialInit => SerialInv /\ Calendar!Init
  BY SerialFirst
<1>2. SerialInv /\ [SerialNext]_<<serverVars, seen>>
        => SerialInv' /\ [Calendar!Next]_(Calendar!vars)
  <2> SUFFICES ASSUME SerialInv, [SerialNext]_<<serverVars, seen>>
               PROVE  SerialInv' /\ [Calendar!Next]_(Calendar!vars)
    OBVIOUS
  <2>1. SerialInv' /\ StepOfCalendar
    BY SerialStep, SerialStutter
  <2>2. StepOfCalendar => [Calendar!Next]_(Calendar!vars)
    BY DEF StepOfCalendar, Calendar!vars
  <2> QED BY <2>1, <2>2
<1> QED BY <1>1, <1>2, PTL DEF SerialSpec, ServesAsOneStep, Calendar!Spec
=============================================================================
