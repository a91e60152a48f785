------------------------------ MODULE LeaveStore ------------------------------
(***************************************************************************)
(* The tables the leave calendar keeps, what the services read from them,  *)
(* and the single-statement writes they are changed by.                    *)
(***************************************************************************)
EXTENDS LeaveRules, Ledger

CONSTANTS
  Users,
  Role,             \* [Users -> {"member", "lead", "manager", "admin"}]
  LeadOf,           \* [Users -> Users \cup {Nobody}]: profiles.lead_id
  LocationOf,       \* [Users -> Locations], the default location resolved
  Locations,
  Everywhere,       \* the location of a holiday that applies to all
  Nobody,           \* a NULL person
  NoRow,            \* an id no row has taken yet
  MaxDay,           \* bound: the calendar has the days 0 .. MaxDay
  Weekend,          \* the days that are a Saturday or a Sunday
  DaysPerPeriod,    \* the length of a month
  MaxBookings,      \* bound on the rows of bookings
  MaxCredits,       \* bound on the rows of compoff_credits
  Grants,           \* the rows of allowances
  CarryForwardPolicy,
  NoCarryForward,   \* no_carry_forward_categories
  AllowExcess,      \* allow_excess_booking
  AutoApproveAtLock,
  MaxFutureDays,    \* max_future_booking_days
  CompoffValidDays

Day == 0 .. MaxDay
BookingId == 1 .. MaxBookings
CreditId == 1 .. MaxCredits
NoBooking == 0

ASSUME BoundsAssumption ==
  /\ MaxDay \in Nat /\ MaxBookings \in Nat /\ MaxCredits \in Nat
  /\ DaysPerPeriod \in Nat \ {0}
  /\ CompoffValidDays \in Nat /\ MaxFutureDays \in Nat
  /\ Weekend \subseteq Day

ASSUME PeopleAssumption ==
  /\ Role \in [Users -> {"member", "lead", "manager", "admin"}]
  /\ LeadOf \in [Users -> Users \cup {Nobody}]
  /\ LocationOf \in [Users -> Locations]
  /\ Nobody \notin Users /\ Everyone \notin Users
  /\ Everywhere \notin Locations

ASSUME SettingsAssumption ==
  /\ CarryForwardPolicy \in {ROLLING, POOLING}
  /\ NoCarryForward \subseteq ALLOWANCE_CATEGORIES
  /\ AllowExcess \in BOOLEAN /\ AutoApproveAtLock \in BOOLEAN

Booking ==
  [user : Users, day : Day, category : CATEGORIES \cup {NO_CATEGORY},
   duration : VALID_DURATIONS, status : STATES,
   decided_by : Users \cup {Nobody}, backfilled : BOOLEAN]

Credit ==
  [user : Users, worked_on : Day, days : VALID_DURATIONS,
   status : CREDIT_STATES, expires : Int, booking : BookingId \cup {NoBooking}]

Holiday == [day : Day, location : Locations \cup {Everywhere}]

ASSUME NoRowAssumption == NoRow \notin Booking /\ NoRow \notin Credit

VARIABLES
  today,      \* today_in_company_tz()
  bookings,
  credits,
  holidays

-----------------------------------------------------------------------------
(* Reads *)

Booked == {b \in BookingId : bookings[b] # NoRow}
Claimed == {k \in CreditId : credits[k] # NoRow}

(* Mutant: an unrecognised absence is not seen to take its day. *)
ConsumingRowsOn(u, d) ==
  {b \in Booked : /\ bookings[b].user = u
                  /\ bookings[b].day = d
                  /\ bookings[b].status \in CONSUMING_STATES}

OccupyingOn(u, d) ==
  {b \in Booked : /\ bookings[b].user = u
                  /\ bookings[b].day = d
                  /\ bookings[b].status \in OCCUPYING_STATES}

Consuming(b) == bookings[b].status \in CONSUMING_STATES

ApprovedCredits(cs, u) ==
  {k \in CreditId :
     cs[k] # NoRow /\ cs[k].user = u /\ cs[k].status = "approved"}

UsedBy(b) == {k \in Claimed : credits[k].status = "used" /\ credits[k].booking = b}

available(u, on) ==
  DaysOf(credits, {k \in ApprovedCredits(credits, u) : usable(credits[k], on)})

HolidayFor(u, d) ==
  \E h \in holidays : h.day = d /\ h.location \in {Everywhere, LocationOf[u]}

NonWorking(u, d) == d \in Weekend \/ HolidayFor(u, d)

Person(u) == [id |-> u, role |-> Role[u], lead |-> LeadOf[u], active |-> TRUE]
IsAdmin(u) == Role[u] = "admin"

-----------------------------------------------------------------------------
(* Balances *)

period_of(day) == day \div DaysPerPeriod

GrantsFor(u) == {g \in Grants : g.user \in {u, Everyone}}

ConsumptionFor(u) ==
  {[id |-> b, period |-> period_of(bookings[b].day),
    category |-> bookings[b].category, duration |-> bookings[b].duration] :
     b \in {c \in Booked : /\ bookings[c].user = u
                           /\ Consuming(c)
                           /\ bookings[c].category # NO_CATEGORY}}

BalanceOf(u, period, category) ==
  balance_for(GrantsFor(u), ConsumptionFor(u), period, category,
              CarryForwardPolicy, category \notin NoCarryForward)

(* Mutant: a change is tested as if the old booking stayed. *)
NothingGivenBack(old, category) == 0

(* What the rows in `old` of this category would give back. *)
GivenBack(old, category) ==
  MapThenSumSet(LAMBDA b : bookings[b].duration,
                {b \in old : bookings[b].category = category})

RemainingFor(u, day, category, old) ==
  BalanceOf(u, period_of(day), category).remaining + GivenBack(old, category)

IsConfigured(u, day, category) ==
  is_configured(GrantsFor(u), period_of(day), category)

-----------------------------------------------------------------------------
(* Writes *)

IsNextRow(n, rows) == rows[n] = NoRow /\ \A m \in 1 .. (n - 1) : rows[m] # NoRow

NewBooking(u, d, category, duration, status, decider, backfilled) ==
  [user |-> u, day |-> d, category |-> category, duration |-> duration,
   status |-> status, decided_by |-> decider, backfilled |-> backfilled]

NewClaim(u, worked_on, days) ==
  [user |-> u, worked_on |-> worked_on, days |-> days, status |-> "pending",
   expires |-> NoExpiry, booking |-> NoBooking]

Moved(row, status, decider) ==
  [row EXCEPT !.status = status, !.decided_by = decider]

(* Every row of S moved to `status`. *)
MoveAll(S, status, decider) ==
  [b \in BookingId |->
     IF b \in S THEN Moved(bookings[b], status, decider) ELSE bookings[b]]

Converted(row, category, duration, admin) ==
  [row EXCEPT !.status = "approved", !.category = category,
              !.duration = duration, !.decided_by = admin,
              !.backfilled = TRUE]

(* Mutant: a credit is written with a status the table does not know. *)
UsedUp(credit, b) == [credit EXCEPT !.status = "consumed", !.booking = b]

Returned(credit) == [credit EXCEPT !.status = "approved", !.booking = NoBooking]
Used(credit, b) == [credit EXCEPT !.status = "used", !.booking = b]

CompoffRows(S) == {b \in S : bookings[b].category = "compoff"}

(* release_for_booking, for every booking of S. *)
ReleaseCredits(S) ==
  [k \in CreditId |->
     IF \E b \in S : k \in UsedBy(b) THEN Returned(credits[k]) ELSE credits[k]]

(* Mutant: short of credits, what there is is used. *)
ConsumeWhatIsLeft(cs, u, needed, b, on) ==
  LET mine == ApprovedCredits(cs, u)
      picks == pick_credits(cs, mine, needed, on)
      open == {k \in mine : usable(cs[k], on)}
  IN {[k \in CreditId |-> IF k \in C THEN Used(cs[k], b) ELSE cs[k]] :
        C \in IF picks = {} THEN {open} ELSE picks}

(* consume: the tables that can follow.  Short of credits, the refusal is   *)
(* raised after the booking row is written and nothing is used.             *)
ConsumeCredits(cs, u, needed, b, on) ==
  LET picks == pick_credits(cs, ApprovedCredits(cs, u), needed, on)
  IN IF picks = {} THEN {cs}
     ELSE {[k \in CreditId |-> IF k \in C THEN Used(cs[k], b) ELSE cs[k]] :
             C \in picks}
=============================================================================
