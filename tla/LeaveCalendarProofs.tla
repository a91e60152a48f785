-------------------------- MODULE LeaveCalendarProofs --------------------------
(***************************************************************************)
(* What holds of LeaveCalendar for every set of people, every calendar,    *)
(* every allowance and every setting.                                      *)
(***************************************************************************)
EXTENDS LeaveCalendar, TLAPS

Bookings == [BookingId -> Booking \cup {NoRow}]
Credits == [CreditId -> Credit \cup {NoRow}]

-----------------------------------------------------------------------------
(* The writes *)

(* Moving rows to another status (update_booking) keeps the table well      *)
(* formed.                                                                  *)
LEMMA MoveAllType ==
  ASSUME bookings \in Bookings, NEW S \in SUBSET Booked,
         NEW status \in STATES, NEW decider \in Users \cup {Nobody}
  PROVE  MoveAll(S, status, decider) \in Bookings
BY DEF Bookings, Booked, Booking, MoveAll, Moved

(* So does handing credits back (release_for_booking).                      *)
LEMMA ReleaseType ==
  ASSUME credits \in Credits, NEW S
  PROVE  ReleaseCredits(S) \in Credits
BY DEF Credits, Credit, CREDIT_STATES, ReleaseCredits, Returned, UsedBy, Claimed

(* consume marks approved credits of the person as used by the booking, and *)
(* touches no other.                                                        *)
LEMMA ConsumeShape ==
  ASSUME NEW cs \in Credits, NEW u, NEW needed, NEW b, NEW on,
         NEW new \in ConsumeCredits(cs, u, needed, b, on)
  PROVE  \E C \in SUBSET ApprovedCredits(cs, u) :
           new = [k \in CreditId |-> IF k \in C THEN Used(cs[k], b) ELSE cs[k]]
<1> DEFINE picks == pick_credits(cs, ApprovedCredits(cs, u), needed, on)
<1>1. CASE picks = {}
  <2>1. new = cs
    BY <1>1 DEF ConsumeCredits
  <2>2. cs = [k \in CreditId |-> IF k \in {} THEN Used(cs[k], b) ELSE cs[k]]
    BY DEF Credits
  <2> WITNESS {} \in SUBSET ApprovedCredits(cs, u)
  <2> QED BY <2>1, <2>2
<1>2. CASE picks # {}
  <2>1. PICK C \in picks :
          new = [k \in CreditId |-> IF k \in C THEN Used(cs[k], b) ELSE cs[k]]
    BY <1>2 DEF ConsumeCredits
  <2>2. C \in SUBSET ApprovedCredits(cs, u)
    BY DEF pick_credits
  <2> WITNESS C \in SUBSET ApprovedCredits(cs, u)
  <2> QED BY <2>1
<1> QED BY <1>1, <1>2

LEMMA ConsumeType ==
  ASSUME NEW cs \in Credits, NEW u, NEW needed, NEW b \in BookingId, NEW on,
         NEW new \in ConsumeCredits(cs, u, needed, b, on)
  PROVE  new \in Credits
<1>1. PICK C \in SUBSET ApprovedCredits(cs, u) :
        new = [k \in CreditId |-> IF k \in C THEN Used(cs[k], b) ELSE cs[k]]
  BY ConsumeShape
<1>2. ASSUME NEW k \in C
      PROVE  Used(cs[k], b) \in Credit
  <2>1. k \in CreditId /\ cs[k] \in Credit
    BY DEF ApprovedCredits, Credits
  <2> QED BY <2>1 DEF Credit, CREDIT_STATES, Used
<1> QED BY <1>1, <1>2 DEF Credits

(* A row inserted into bookings (insert_booking).                           *)
LEMMA InsertType ==
  ASSUME NEW rows \in Bookings, NEW i \in BookingId, NEW row \in Booking
  PROVE  [rows EXCEPT ![i] = row] \in Bookings
BY DEF Bookings

LEMMA NewBookingType ==
  ASSUME NEW u \in Users, NEW d \in Day,
         NEW c \in CATEGORIES \cup {NO_CATEGORY}, NEW n \in VALID_DURATIONS,
         NEW status \in STATES, NEW decider \in Users \cup {Nobody},
         NEW backfilled \in BOOLEAN
  PROVE  NewBooking(u, d, c, n, status, decider, backfilled) \in Booking
BY DEF NewBooking, Booking

(* Converting an absence (update_booking_if_status and consume).            *)
LEMMA ConvertType ==
  ASSUME TypeOK, NEW admin \in Users, NEW b \in Booked, NEW c \in Offered,
         NEW n \in VALID_DURATIONS, NEW check \in BOOLEAN,
         ConvertAbsence(admin, b, c, n, check)
  PROVE  TypeOK'
<1>1. bookings[b] \in Booking /\ b \in BookingId
  BY DEF TypeOK, Booked
<1>2. Converted(bookings[b], c, n, admin) \in Booking
  BY <1>1, InputsAssumption DEF Converted, Booking, STATES
<1>3. bookings' \in Bookings
  BY <1>1, <1>2, InsertType DEF TypeOK, Bookings, ConvertAbsence
<1>4. credits' \in Credits
  BY <1>1, ConsumeType DEF TypeOK, Credits, ConvertAbsence
<1> QED BY <1>3, <1>4 DEF TypeOK, Bookings, Credits, ConvertAbsence

-----------------------------------------------------------------------------
(* Type correctness *)

LEMMA TypeInit == Init => TypeOK
BY BoundsAssumption DEF Init, TypeOK, Day, Holiday

LEMMA TypeNext == TypeOK /\ [Next]_vars => TypeOK'
<1> SUFFICES ASSUME TypeOK, [Next]_vars PROVE TypeOK'
  OBVIOUS
<1> USE InputsAssumption
<1>t. /\ today \in Day
      /\ bookings \in Bookings
      /\ credits \in Credits
      /\ holidays \in SUBSET Holiday
  BY DEF TypeOK, Bookings, Credits
<1>s. {"pending", "approved", "rejected", "withdrawn", "released", "unrecognised"}
        \subseteq STATES
  BY DEF STATES
<1>1. ASSUME NEW u \in Bookers, NEW d \in Day, NEW c \in Offered,
             NEW n \in VALID_DURATIONS, NEW reason \in BOOLEAN,
             create_or_replace(u, d, c, n, reason)
      PROVE  TypeOK'
  <2> DEFINE old == OccupyingOn(u, d)
             freed == ReleaseCredits(CompoffRows(old))
  <2>1. PICK i \in BookingId :
          /\ bookings' = [MoveAll(old, "withdrawn", u) EXCEPT
                            ![i] = NewBooking(u, d, c, n, "pending", Nobody, FALSE)]
          /\ credits' \in IF c = "compoff"
                          THEN ConsumeCredits(freed, u, n, i, today) ELSE {freed}
          /\ UNCHANGED <<today, holidays>>
    BY <1>1 DEF create_or_replace
  <2>2. MoveAll(old, "withdrawn", u) \in Bookings
    BY <1>t, <1>s, MoveAllType DEF OccupyingOn
  <2>3. NewBooking(u, d, c, n, "pending", Nobody, FALSE) \in Booking
    BY <1>s, NewBookingType
  <2>4. bookings' \in Bookings
    BY <2>1, <2>2, <2>3, InsertType
  <2>5. freed \in Credits
    BY <1>t, ReleaseType
  <2>6. credits' \in Credits
    BY <2>1, <2>5, ConsumeType
  <2> QED BY <2>1, <2>4, <2>6 DEF TypeOK, Bookings, Credits
<1>2. ASSUME NEW b \in BookingId, withdraw(b) PROVE TypeOK'
  <2>1. b \in Booked /\ bookings[b].user \in Users
    BY <1>2 DEF withdraw, TypeOK, Booked, Booking
  <2>2. bookings' \in Bookings
    BY <1>2, <1>t, <1>s, <2>1, MoveAllType DEF withdraw
  <2>3. credits' \in Credits
    BY <1>2, <1>t, ReleaseType DEF withdraw
  <2> QED BY <1>2, <2>2, <2>3 DEF TypeOK, Bookings, Credits, withdraw
<1>3. ASSUME NEW u \in Bookers, NEW d \in Day, NEW n \in VALID_DURATIONS,
             claim(u, d, n)
      PROVE  TypeOK'
  <2>1. NewClaim(u, d, n) \in Credit
    BY DEF NewClaim, Credit, CREDIT_STATES, NoExpiry
  <2> QED BY <1>3, <2>1 DEF claim, TypeOK
<1>4. ASSUME NEW actor \in Users, NEW b \in BookingId,
             NEW target \in {"approved", "rejected"}, decide(actor, b, target)
      PROVE  TypeOK'
  <2>1. bookings' \in Bookings
    BY <1>4, <1>t, <1>s, MoveAllType DEF decide
  <2>2. credits' \in Credits
    BY <1>4, <1>t, ReleaseType DEF decide
  <2> QED BY <1>4, <2>1, <2>2 DEF TypeOK, Bookings, Credits, decide
<1>5. ASSUME NEW actor \in Users, NEW u \in Bookers, NEW d \in Day,
             flag_unrecognised(actor, u, d)
      PROVE  TypeOK'
  <2>1. NewBooking(u, d, NO_CATEGORY, FULL_DAY, "unrecognised", actor, FALSE)
          \in Booking
    BY <1>s, NewBookingType DEF VALID_DURATIONS
  <2> QED BY <1>5, <2>1 DEF flag_unrecognised, TypeOK
<1>6. ASSUME NEW actor \in Users, NEW k \in CreditId, NEW approve \in BOOLEAN,
             decide_claim(actor, k, approve)
      PROVE  TypeOK'
  <2>1. credits[k] \in Credit
    BY <1>6 DEF decide_claim, TypeOK, Claimed
  <2>2. expiry(today, CompoffValidDays) \in Int
    BY BoundsAssumption DEF expiry, TypeOK, Day
  <2>3. Decided(credits[k], approve) \in Credit
    BY <2>1, <2>2 DEF Decided, Credit, CREDIT_STATES
  <2> QED BY <1>6, <2>3 DEF decide_claim, TypeOK
<1>7. ASSUME NEW admin \in Users, NEW u \in Bookers, NEW d \in Day,
             NEW c \in Offered, NEW n \in VALID_DURATIONS, NEW reason \in BOOLEAN,
             backfill(admin, u, d, c, n, reason)
      PROVE  TypeOK'
  <2>1. CASE \E b \in OccupyingOn(u, d) : ConvertAbsence(admin, b, c, n, FALSE)
    BY <2>1, ConvertType DEF OccupyingOn
  <2>2. CASE \E i \in BookingId :
               /\ bookings' = [bookings EXCEPT
                    ![i] = NewBooking(u, d, c, n, "approved", admin, TRUE)]
               /\ credits' \in IF c = "compoff"
                               THEN ConsumeCredits(credits, u, n, i, today)
                               ELSE {credits}
               /\ UNCHANGED <<today, holidays>>
    <3>1. NewBooking(u, d, c, n, "approved", admin, TRUE) \in Booking
      BY <1>s, NewBookingType
    <3>2. bookings' \in Bookings
      BY <1>t, <2>2, <3>1, InsertType
    <3>3. credits' \in Credits
      BY <1>t, <2>2, ConsumeType
    <3> QED BY <2>2, <3>2, <3>3 DEF TypeOK, Bookings, Credits
  <2> QED BY <1>7, <2>1, <2>2 DEF backfill
<1>8. ASSUME NEW admin \in Users, NEW b \in BookingId, undo_backfill(admin, b)
      PROVE  TypeOK'
  <2>1. bookings' \in Bookings
    BY <1>8, <1>t, <1>s, MoveAllType DEF undo_backfill
  <2>2. credits' \in Credits
    BY <1>8, <1>t, ReleaseType DEF undo_backfill
  <2> QED BY <1>8, <2>1, <2>2 DEF TypeOK, Bookings, Credits, undo_backfill
<1>9. ASSUME NEW admin \in Users, NEW b \in BookingId, NEW c \in Offered,
             NEW n \in VALID_DURATIONS, NEW reason \in BOOLEAN,
             convert_absence(admin, b, c, n, reason)
      PROVE  TypeOK'
  BY <1>9, ConvertType DEF convert_absence
<1>10. ASSUME NEW admin \in Users, NEW S \in SUBSET Booked,
              release_for_holiday(admin, S)
       PROVE  bookings' \in Bookings /\ credits' \in Credits
  <2>1. bookings' \in Bookings
    BY <1>10, <1>t, <1>s, MoveAllType DEF release_for_holiday
  <2>2. credits' \in Credits
    BY <1>10, <1>t, ReleaseType DEF release_for_holiday
  <2> QED BY <2>1, <2>2
<1>11. ASSUME NEW admin \in Users, NEW d \in HolidayDays,
              NEW l \in Locations \cup {Everywhere}, declare_holiday(admin, d, l)
       PROVE  TypeOK'
  <2>1. bookings' \in Bookings /\ credits' \in Credits
    BY <1>10, <1>11 DEF declare_holiday, ConsumingOn
  <2>2. holidays' \in SUBSET Holiday
    BY <1>11, <1>t DEF declare_holiday, Holiday
  <2> QED BY <1>11, <2>1, <2>2 DEF TypeOK, Bookings, Credits, declare_holiday
<1>12. ASSUME NEW admin \in Users, NEW h \in holidays, NEW d \in HolidayDays,
              edit_holiday(admin, h, d)
       PROVE  TypeOK'
  <2>1. bookings' \in Bookings /\ credits' \in Credits
    BY <1>10, <1>12 DEF edit_holiday, ConsumingOn
  <2>2. holidays' \in SUBSET Holiday
    BY <1>12, <1>t DEF edit_holiday, Holiday
  <2> QED BY <1>12, <2>1, <2>2 DEF TypeOK, Bookings, Credits, edit_holiday
<1>13. ASSUME NEW admin \in Users, NEW h \in holidays, remove_holiday(admin, h)
       PROVE  TypeOK'
  BY <1>13 DEF remove_holiday, TypeOK
<1>14. CASE lapse_expired
  <2>1. credits' \in Credits
    BY <1>14, <1>t DEF lapse_expired, Expired, Claimed, Credits, Credit, CREDIT_STATES
  <2> QED BY <1>14, <2>1 DEF lapse_expired, TypeOK, Credits
<1>15. CASE sweep
  <2>1. bookings' \in Bookings
    BY <1>15, <1>t, <1>s DEF sweep, PendingBefore, Booked, Bookings, Booking
  <2> QED BY <1>15, <2>1 DEF sweep, TypeOK, Bookings
<1>16. CASE NextDay
  BY <1>16, BoundsAssumption DEF NextDay, TypeOK, Day
<1>17. CASE UNCHANGED vars
  BY <1>17 DEF vars, TypeOK
<1> QED
  BY <1>1, <1>2, <1>3, <1>4, <1>5, <1>6, <1>7, <1>8, <1>9, <1>11, <1>12,
     <1>13, <1>14, <1>15, <1>16, <1>17
  DEF Next, PersonStep, DeciderStep, AdminStep

(* The tables hold well-formed rows, whoever asks for what on which days.   *)
THEOREM TypeCorrect == Spec => []TypeOK
<1>1. Init => TypeOK
  BY TypeInit
<1>2. TypeOK /\ [Next]_vars => TypeOK'
  BY TypeNext
<1> QED BY <1>1, <1>2, PTL DEF Spec

-----------------------------------------------------------------------------
(* What a step can do to one booking.  Every property of single rows below  *)
(* follows from this description and not from the actions.                  *)

ByApprover(row) ==
  /\ row.decided_by \in Users \ {row.user}
  /\ IsAdmin(row.decided_by) \/ LeadOf[row.user] = row.decided_by

OnWorkingDay(row) == holidays' = holidays /\ ~NonWorking(row.user, row.day)

Entered(new) ==
  /\ new \in Booking
  /\ \/ /\ new.status = "pending"
        /\ new.decided_by = Nobody
        /\ ~new.backfilled
        /\ OnWorkingDay(new)
     \/ new.status = "unrecognised" /\ ~new.backfilled
     \/ new.status = "approved" /\ new.backfilled /\ OnWorkingDay(new)

Settled(old, new) ==
  /\ old.status = "unrecognised"
  /\ new.status = "approved"
  /\ new.backfilled
  /\ OnWorkingDay(new)

Ended(old, new) ==
  /\ new = [old EXCEPT !.status = new.status, !.decided_by = new.decided_by]
  /\ \/ old.status = "unrecognised" /\ new.status = "withdrawn"
     \/ /\ old.status = "pending" /\ new.status = "approved"
        /\ new.decided_by = old.decided_by
        /\ old.day < today
     \/ /\ old.status = "pending"
        /\ new.status \in {"approved", "rejected"}
        /\ ByApprover(new)
     \/ /\ old.status \in CONSUMING_STATES
        /\ new.status = "withdrawn"
        /\ old.day >= today \/ old.backfilled
     \/ /\ old.status \in CONSUMING_STATES
        /\ new.status = "released"
        /\ \E h \in holidays' : h.day = old.day

RowChange(old, new) ==
  \/ new = old
  \/ old = NoRow /\ Entered(new)
  \/ /\ old # NoRow
     /\ new \in Booking
     /\ new.user = old.user /\ new.day = old.day
     /\ Settled(old, new) \/ Ended(old, new)

LEMMA ConvertRow ==
  ASSUME TypeOK, NEW admin \in Users, NEW b \in Booked, NEW c \in Offered,
         NEW n \in VALID_DURATIONS, NEW check \in BOOLEAN,
         ConvertAbsence(admin, b, c, n, check),
         bookings[b].status = "unrecognised",
         ~NonWorking(bookings[b].user, bookings[b].day)
  PROVE  \A x \in BookingId : RowChange(bookings[x], bookings'[x])
<1>1. bookings[b] \in Booking /\ b \in BookingId /\ bookings[b] # NoRow
  BY NoRowAssumption DEF TypeOK, Booked
<1>2. bookings' = [bookings EXCEPT ![b] = Converted(bookings[b], c, n, admin)]
  BY DEF ConvertAbsence
<1>3. Converted(bookings[b], c, n, admin) \in Booking
  BY <1>1, InputsAssumption DEF Converted, Booking, STATES
<1>4. RowChange(bookings[b], Converted(bookings[b], c, n, admin))
  BY <1>1, <1>3 DEF RowChange, Settled, OnWorkingDay, Converted, Booking,
                    ConvertAbsence
<1> QED BY <1>1, <1>2, <1>4 DEF RowChange, TypeOK

LEMMA EndRows ==
  ASSUME TypeOK, NEW S \in SUBSET Booked, NEW status \in STATES,
         NEW decider \in Users,
         bookings' = MoveAll(S, status, decider),
         \A b \in S : Ended(bookings[b], Moved(bookings[b], status, decider))
  PROVE  \A b \in BookingId : RowChange(bookings[b], bookings'[b])
<1> SUFFICES ASSUME NEW b \in BookingId PROVE RowChange(bookings[b], bookings'[b])
  OBVIOUS
<1>1. CASE b \notin S
  BY <1>1 DEF MoveAll, RowChange
<1>2. CASE b \in S
  <2>1. bookings[b] \in Booking /\ bookings[b] # NoRow
    BY <1>2 DEF TypeOK, Booked
  <2>2. bookings'[b] = Moved(bookings[b], status, decider)
    BY <1>2 DEF MoveAll
  <2>3. /\ Moved(bookings[b], status, decider) \in Booking
        /\ Moved(bookings[b], status, decider).user = bookings[b].user
        /\ Moved(bookings[b], status, decider).day = bookings[b].day
    BY <2>1 DEF Moved, Booking
  <2> QED BY <1>2, <2>1, <2>2, <2>3 DEF RowChange
<1> QED BY <1>1, <1>2

LEMMA InsertRow ==
  ASSUME NEW i \in BookingId, NEW row,
         bookings[i] = NoRow, Entered(row), TypeOK,
         bookings' = [bookings EXCEPT ![i] = row]
  PROVE  \A b \in BookingId : RowChange(bookings[b], bookings'[b])
BY DEF RowChange, TypeOK

LEMMA EveryRow ==
  ASSUME TypeOK, [Next]_vars
  PROVE  \A b \in BookingId : RowChange(bookings[b], bookings'[b])
<1> DEFINE Goal == \A b \in BookingId : RowChange(bookings[b], bookings'[b])
<1> SUFFICES Goal
  OBVIOUS
<1> USE InputsAssumption
<1>r. \A b \in Booked : b \in BookingId /\ bookings[b] \in Booking /\ bookings[b] # NoRow
  BY DEF TypeOK, Booked
<1>0. ASSUME bookings' = bookings PROVE Goal
  BY <1>0 DEF RowChange
<1>1. ASSUME NEW u \in Bookers, NEW d \in Day, NEW c \in Offered,
             NEW n \in VALID_DURATIONS, NEW reason \in BOOLEAN,
             create_or_replace(u, d, c, n, reason)
      PROVE  Goal
  <2> DEFINE old == OccupyingOn(u, d)
             row == NewBooking(u, d, c, n, "pending", Nobody, FALSE)
  <2>1. PICK i \in BookingId :
          /\ IsNextRow(i, bookings)
          /\ bookings' = [MoveAll(old, "withdrawn", u) EXCEPT ![i] = row]
          /\ UNCHANGED <<today, holidays>>
    BY <1>1 DEF create_or_replace
  <2>2. row \in Booking
    BY NewBookingType DEF STATES
  <2>3. Entered(row)
    <3>1. ~NonWorking(u, d)
      BY <1>1 DEF create_or_replace, AcceptsBooking, validate_booking
    <3> QED BY <2>1, <2>2, <3>1 DEF Entered, OnWorkingDay, NewBooking
  <2>4. ASSUME NEW b \in old
        PROVE  RowChange(bookings[b], Moved(bookings[b], "withdrawn", u))
    <3>1. bookings[b] \in Booking /\ bookings[b] # NoRow /\ bookings[b].day = d
      BY <1>r DEF OccupyingOn
    <3>2. bookings[b].status \in CONSUMING_STATES /\ d >= today
      BY <1>1, <2>4, <3>1 DEF create_or_replace, Replaceable, is_locked, OccupyingOn,
            OCCUPYING_STATES, CONSUMING_STATES, TypeOK, Day
    <3>3. /\ Moved(bookings[b], "withdrawn", u) \in Booking
          /\ Moved(bookings[b], "withdrawn", u).user = bookings[b].user
          /\ Moved(bookings[b], "withdrawn", u).day = bookings[b].day
      BY <3>1 DEF Moved, Booking, STATES
    <3>4. Ended(bookings[b], Moved(bookings[b], "withdrawn", u))
      BY <3>1, <3>2 DEF Ended, Moved, Booking
    <3> QED BY <3>1, <3>3, <3>4 DEF RowChange
  <2>5. \A b \in BookingId : bookings'[b] = IF b = i THEN row
                                            ELSE IF b \in old
                                            THEN Moved(bookings[b], "withdrawn", u)
                                            ELSE bookings[b]
    BY <2>1 DEF MoveAll
  <2>6. bookings[i] = NoRow
    BY <2>1 DEF IsNextRow
  <2> QED BY <2>3, <2>4, <2>5, <2>6 DEF RowChange
<1>2. ASSUME NEW b \in BookingId, withdraw(b) PROVE Goal
  <2>1. b \in Booked
    BY <1>2 DEF withdraw
  <2>2. bookings[b].status \in CONSUMING_STATES /\ bookings[b].day >= today
    BY <1>2, <1>r, <2>1 DEF withdraw, check_transition, ALLOWED_TRANSITIONS,
          CONSUMING_STATES, is_locked, TypeOK, Booking, Day, STATES
  <2>3. Ended(bookings[b], Moved(bookings[b], "withdrawn", bookings[b].user))
    BY <1>r, <2>1, <2>2 DEF Ended, Moved, Booking
  <2>4. bookings[b].user \in Users
    BY <1>r, <2>1 DEF Booking
  <2> QED BY <1>2, <2>1, <2>3, <2>4, EndRows DEF withdraw, STATES
<1>3. ASSUME NEW u \in Bookers, NEW d \in Day, NEW n \in VALID_DURATIONS,
             claim(u, d, n)
      PROVE  Goal
  BY <1>0, <1>3 DEF claim
<1>4. ASSUME NEW actor \in Users, NEW b \in BookingId,
             NEW target \in {"approved", "rejected"}, decide(actor, b, target)
      PROVE  Goal
  <2>1. b \in Booked
    BY <1>4 DEF decide
  <2>2. bookings[b].status = "pending"
    BY <1>4, <1>r, <2>1 DEF decide, check_transition, ALLOWED_TRANSITIONS, STATES, Booking
  <2>3. /\ actor # bookings[b].user
        /\ IsAdmin(actor) \/ LeadOf[bookings[b].user] = actor
    BY <1>4 DEF decide, can_decide, Person, IsAdmin
  <2>4. Ended(bookings[b], Moved(bookings[b], target, actor))
    BY <1>r, <2>1, <2>2, <2>3 DEF Ended, Moved, Booking, ByApprover
  <2> QED BY <1>4, <2>1, <2>4, EndRows DEF decide, STATES
<1>5. ASSUME NEW actor \in Users, NEW u \in Bookers, NEW d \in Day,
             flag_unrecognised(actor, u, d)
      PROVE  Goal
  <2> DEFINE row == NewBooking(u, d, NO_CATEGORY, FULL_DAY, "unrecognised", actor, FALSE)
  <2>1. row \in Booking
    BY NewBookingType DEF VALID_DURATIONS, STATES
  <2>2. Entered(row)
    BY <2>1 DEF Entered, NewBooking
  <2> QED BY <1>5, <2>2, InsertRow DEF flag_unrecognised, IsNextRow
<1>6. ASSUME NEW actor \in Users, NEW k \in CreditId, NEW approve \in BOOLEAN,
             decide_claim(actor, k, approve)
      PROVE  Goal
  BY <1>0, <1>6 DEF decide_claim
<1>7. ASSUME NEW admin \in Users, NEW u \in Bookers, NEW d \in Day,
             NEW c \in Offered, NEW n \in VALID_DURATIONS, NEW reason \in BOOLEAN,
             backfill(admin, u, d, c, n, reason)
      PROVE  Goal
  <2>1. ~NonWorking(u, d)
    BY <1>7 DEF backfill, check_backfill
  <2>2. ASSUME NEW b \in OccupyingOn(u, d), ConvertAbsence(admin, b, c, n, FALSE)
        PROVE  Goal
    <3>1. bookings[b].status = "unrecognised"
      BY <1>7, <2>2 DEF backfill
    <3>2. b \in Booked /\ bookings[b].user = u /\ bookings[b].day = d
      BY DEF OccupyingOn
    <3> QED BY <2>1, <2>2, <3>1, <3>2, ConvertRow
  <2>3. ASSUME NEW i \in BookingId, IsNextRow(i, bookings),
               bookings' = [bookings EXCEPT
                    ![i] = NewBooking(u, d, c, n, "approved", admin, TRUE)],
               UNCHANGED <<today, holidays>>
        PROVE  Goal
    <3> DEFINE row == NewBooking(u, d, c, n, "approved", admin, TRUE)
    <3>1. row \in Booking
      BY NewBookingType DEF STATES
    <3>2. Entered(row)
      BY <2>1, <2>3, <3>1 DEF Entered, NewBooking, OnWorkingDay
    <3> QED BY <2>3, <3>2, InsertRow DEF IsNextRow
  <2> QED BY <1>7, <2>2, <2>3 DEF backfill
<1>8. ASSUME NEW admin \in Users, NEW b \in BookingId, undo_backfill(admin, b)
      PROVE  Goal
  <2>1. b \in Booked
    BY <1>8 DEF undo_backfill
  <2>2. Ended(bookings[b], Moved(bookings[b], "withdrawn", admin))
    BY <1>8, <1>r, <2>1 DEF undo_backfill, Ended, Moved, Booking, Consuming
  <2>3. bookings' = MoveAll({b}, "withdrawn", admin)
    BY <1>8 DEF undo_backfill
  <2>4. {b} \in SUBSET Booked /\ "withdrawn" \in STATES
    BY <2>1 DEF STATES
  <2> QED BY <2>2, <2>3, <2>4, EndRows
<1>9. ASSUME NEW admin \in Users, NEW b \in BookingId, NEW c \in Offered,
             NEW n \in VALID_DURATIONS, NEW reason \in BOOLEAN,
             convert_absence(admin, b, c, n, reason)
      PROVE  Goal
  <2>1. /\ b \in Booked
        /\ bookings[b].status = "unrecognised"
        /\ ~NonWorking(bookings[b].user, bookings[b].day)
        /\ ConvertAbsence(admin, b, c, n, TRUE)
    BY <1>9 DEF convert_absence, check_absence_conversion, check_backfill
  <2> QED BY <2>1, ConvertRow
<1>10. ASSUME NEW admin \in Users, NEW S \in SUBSET Booked, NEW d,
              \A b \in S : Consuming(b) /\ bookings[b].day = d,
              release_for_holiday(admin, S),
              \E h \in holidays' : h.day = d
       PROVE  Goal
  <2>1. ASSUME NEW b \in S
        PROVE  Ended(bookings[b], Moved(bookings[b], "released", admin))
    BY <1>10, <1>r DEF Ended, Moved, Booking, Consuming
  <2> QED BY <1>10, <2>1, EndRows DEF release_for_holiday, STATES
<1>11. ASSUME NEW admin \in Users, NEW d \in HolidayDays,
              NEW l \in Locations \cup {Everywhere}, declare_holiday(admin, d, l)
       PROVE  Goal
  <2>1. \E h \in holidays' : h.day = d
    <3>1. [day |-> d, location |-> l] \in holidays'
      BY <1>11 DEF declare_holiday
    <3> QED BY <3>1
  <2> QED BY <1>10, <1>11, <2>1 DEF declare_holiday, ConsumingOn
<1>12. ASSUME NEW admin \in Users, NEW h \in holidays, NEW d \in HolidayDays,
              edit_holiday(admin, h, d)
       PROVE  Goal
  <2>1. \E g \in holidays' : g.day = d
    <3>1. [h EXCEPT !.day = d] \in holidays' /\ h \in Holiday
      BY <1>12 DEF edit_holiday, TypeOK
    <3>2. [h EXCEPT !.day = d].day = d
      BY <3>1 DEF Holiday
    <3> QED BY <3>1, <3>2
  <2> QED BY <1>10, <1>12, <2>1 DEF edit_holiday, ConsumingOn
<1>13. ASSUME NEW admin \in Users, NEW h \in holidays, remove_holiday(admin, h)
       PROVE  Goal
  BY <1>0, <1>13 DEF remove_holiday
<1>14. CASE lapse_expired
  BY <1>0, <1>14 DEF lapse_expired
<1>15. CASE sweep
  <2> SUFFICES ASSUME NEW b \in BookingId PROVE RowChange(bookings[b], bookings'[b])
    OBVIOUS
  <2>1. CASE b \notin PendingBefore(today)
    BY <1>15, <2>1 DEF sweep, RowChange
  <2>2. CASE b \in PendingBefore(today)
    <3>1. bookings'[b] = [bookings[b] EXCEPT !.status = "approved"]
      BY <1>15, <2>2 DEF sweep
    <3>2. bookings[b] \in Booking /\ bookings[b] # NoRow
      BY <1>r, <2>2 DEF PendingBefore
    <3>3. /\ bookings'[b] \in Booking
          /\ bookings'[b].user = bookings[b].user
          /\ bookings'[b].day = bookings[b].day
      BY <3>1, <3>2 DEF Booking, STATES
    <3>4. Ended(bookings[b], bookings'[b])
      BY <2>2, <3>1, <3>2 DEF Ended, PendingBefore, Booking
    <3> QED BY <3>2, <3>3, <3>4 DEF RowChange
  <2> QED BY <2>1, <2>2
<1>16. CASE NextDay
  BY <1>0, <1>16 DEF NextDay
<1>17. CASE UNCHANGED vars
  BY <1>0, <1>17 DEF vars
<1> QED
  BY <1>1, <1>2, <1>3, <1>4, <1>5, <1>6, <1>7, <1>8, <1>9, <1>11, <1>12,
     <1>13, <1>14, <1>15, <1>16, <1>17
  DEF Next, PersonStep, DeciderStep, AdminStep

-----------------------------------------------------------------------------
(* Properties of single bookings *)

(* The state diagram of section 6.4: no step takes a booking off its        *)
(* arrows, and no row enters in any state but the three it may.             *)
THEOREM TransitionsLegal == Spec => LegalTransitions
<1> DEFINE Legal ==
      \A b \in BookingId :
       IF bookings[b] = NoRow
       THEN \/ bookings'[b] = NoRow
            \/ bookings'[b].status \in EntryStates
            \/ bookings'[b].status = "approved" /\ bookings'[b].backfilled
       ELSE /\ bookings'[b] # NoRow
            /\ LET from == bookings[b].status
                   to == bookings'[b].status
               IN \/ to = from
                  \/ check_transition(from, to)
                  \/ /\ from = "unrecognised"
                     /\ \/ to = "approved" /\ bookings'[b].backfilled
                        \/ to = "withdrawn"
<1>1. TypeOK /\ [Next]_vars => Legal
  <2> SUFFICES ASSUME TypeOK, [Next]_vars, NEW b \in BookingId,
                      RowChange(bookings[b], bookings'[b])
               PROVE  IF bookings[b] = NoRow
       THEN \/ bookings'[b] = NoRow
            \/ bookings'[b].status \in EntryStates
            \/ bookings'[b].status = "approved" /\ bookings'[b].backfilled
       ELSE /\ bookings'[b] # NoRow
            /\ LET from == bookings[b].status
                   to == bookings'[b].status
               IN \/ to = from
                  \/ check_transition(from, to)
                  \/ /\ from = "unrecognised"
                     /\ \/ to = "approved" /\ bookings'[b].backfilled
                        \/ to = "withdrawn"
    BY EveryRow
  <2>1. CASE bookings'[b] = bookings[b]
    BY <2>1
  <2>2. CASE bookings[b] = NoRow /\ Entered(bookings'[b])
    BY <2>2 DEF Entered, EntryStates
  <2>3. CASE /\ bookings[b] # NoRow
             /\ bookings'[b] \in Booking
             /\ Settled(bookings[b], bookings'[b]) \/ Ended(bookings[b], bookings'[b])
    BY <2>3, NoRowAssumption DEF Settled, Ended, check_transition, STATES,
       ALLOWED_TRANSITIONS, CONSUMING_STATES
  <2> QED BY <2>1, <2>2, <2>3 DEF RowChange
<1>2. TypeOK /\ [Next]_vars => [Legal]_vars
  BY <1>1
<1> HIDE DEF Legal
<1>3. Spec => [][Legal]_vars
  BY <1>2, TypeCorrect, PTL DEF Spec
<1> QED BY <1>3 DEF LegalTransitions, Legal

(* The lock of section 6.3, for every set of requests: what a person had    *)
(* booked when the day passed cannot be withdrawn any more, nor re-priced,  *)
(* and once approved it yields to a holiday only.                           *)
THEOREM LockHolds == Spec => LockedLeaveStands
<1> DEFINE Stands ==
      \A b \in Booked :
       /\ bookings[b].day < today
       /\ Consuming(b)
       /\ ~bookings[b].backfilled
       => /\ bookings'[b].status # "withdrawn"
          /\ bookings'[b].category = bookings[b].category
          /\ bookings'[b].duration = bookings[b].duration
          /\ bookings[b].status = "approved" =>
               \/ bookings'[b].status = "approved"
               \/ \E h \in holidays' : h.day = bookings[b].day
<1>1. TypeOK /\ [Next]_vars => Stands
  <2> SUFFICES ASSUME TypeOK, [Next]_vars, NEW b \in Booked,
                      bookings[b].day < today, Consuming(b),
                      ~bookings[b].backfilled
               PROVE  /\ bookings'[b].status # "withdrawn"
                      /\ bookings'[b].category = bookings[b].category
                      /\ bookings'[b].duration = bookings[b].duration
                      /\ bookings[b].status = "approved" =>
                           \/ bookings'[b].status = "approved"
                           \/ \E h \in holidays' : h.day = bookings[b].day
    OBVIOUS
  <2>1. /\ bookings[b] \in Booking /\ bookings[b] # NoRow
        /\ today \in Int /\ bookings[b].day \in Int
        /\ bookings[b].status \in {"pending", "approved"}
    BY DEF TypeOK, Booked, Booking, Day, Consuming, CONSUMING_STATES
  <2>2. RowChange(bookings[b], bookings'[b])
    BY EveryRow DEF Booked
  <2>3. CASE bookings'[b] = bookings[b]
    BY <2>1, <2>3
  <2>4. CASE Settled(bookings[b], bookings'[b])
    BY <2>1, <2>4 DEF Settled
  <2>5. CASE Ended(bookings[b], bookings'[b])
    <3>1. /\ bookings'[b].category = bookings[b].category
          /\ bookings'[b].duration = bookings[b].duration
      BY <2>1, <2>5 DEF Ended, Booking
    <3> QED BY <2>1, <2>5, <3>1 DEF Ended
  <2> QED BY <2>1, <2>2, <2>3, <2>4, <2>5 DEF RowChange
<1>2. TypeOK /\ [Next]_vars => [Stands]_vars
  BY <1>1
<1> HIDE DEF Stands
<1>3. Spec => [][Stands]_vars
  BY <1>2, TypeCorrect, PTL DEF Spec
<1> QED BY <1>3 DEF LockedLeaveStands, Stands

(* Only midnight moves the date, and only a declared or a moved holiday     *)
(* adds to the holidays.                                                    *)
LEMMA ClockAndHolidays ==
  ASSUME [Next]_vars
  PROVE  /\ today' = today \/ NextDay
         /\ \/ holidays' \subseteq holidays
            \/ \E admin \in Users :
                 \/ \E d \in HolidayDays, l \in Locations \cup {Everywhere} :
                      declare_holiday(admin, d, l)
                 \/ \E h \in holidays, d \in HolidayDays : edit_holiday(admin, h, d)
<1>1. CASE PersonStep
  <2>1. ASSUME NEW u \in Bookers, NEW d \in Day, NEW c \in Offered,
               NEW n \in VALID_DURATIONS, NEW reason \in BOOLEAN,
               create_or_replace(u, d, c, n, reason)
        PROVE  UNCHANGED <<today, holidays>>
    BY <2>1 DEF create_or_replace
  <2>2. ASSUME NEW b \in BookingId, withdraw(b) PROVE UNCHANGED <<today, holidays>>
    BY <2>2 DEF withdraw
  <2>3. ASSUME NEW u \in Bookers, NEW d \in Day, NEW n \in VALID_DURATIONS,
               claim(u, d, n)
        PROVE  UNCHANGED <<today, holidays>>
    BY <2>3 DEF claim
  <2> QED BY <1>1, <2>1, <2>2, <2>3 DEF PersonStep
<1>2. CASE DeciderStep
  BY <1>2 DEF DeciderStep, decide, flag_unrecognised, decide_claim
<1>3. CASE AdminStep
  <2>1. ASSUME NEW admin \in Users, NEW u \in Bookers, NEW d \in Day,
               NEW c \in Offered, NEW n \in VALID_DURATIONS, NEW reason \in BOOLEAN,
               backfill(admin, u, d, c, n, reason)
        PROVE  UNCHANGED <<today, holidays>>
    BY <2>1 DEF backfill, ConvertAbsence
  <2>2. ASSUME NEW admin \in Users, NEW b \in BookingId, NEW c \in Offered,
               NEW n \in VALID_DURATIONS, NEW reason \in BOOLEAN,
               convert_absence(admin, b, c, n, reason)
        PROVE  UNCHANGED <<today, holidays>>
    BY <2>2 DEF convert_absence, ConvertAbsence
  <2>3. ASSUME NEW admin \in Users, NEW b \in BookingId, undo_backfill(admin, b)
        PROVE  UNCHANGED <<today, holidays>>
    BY <2>3 DEF undo_backfill
  <2>4. ASSUME NEW admin \in Users, NEW h \in holidays, remove_holiday(admin, h)
        PROVE  today' = today /\ holidays' \subseteq holidays
    BY <2>4 DEF remove_holiday
  <2>5. ASSUME NEW admin \in Users, NEW d, NEW l, declare_holiday(admin, d, l)
        PROVE  today' = today
    BY <2>5 DEF declare_holiday
  <2>6. ASSUME NEW admin \in Users, NEW h, NEW d, edit_holiday(admin, h, d)
        PROVE  today' = today
    BY <2>6 DEF edit_holiday
  <2> QED BY <1>3, <2>1, <2>2, <2>3, <2>4, <2>5, <2>6 DEF AdminStep
<1>4. CASE lapse_expired \/ sweep \/ NextDay \/ UNCHANGED vars
  BY <1>4 DEF lapse_expired, sweep, NextDay, vars
<1> QED BY <1>1, <1>2, <1>3, <1>4 DEF Next

(* Approval needs one thing besides: nobody has decided a request that is   *)
(* still pending, so what the sweep approves carries no decider.            *)
PendingUndecided ==
  \A b \in Booked :
    bookings[b].status = "pending" => bookings[b].decided_by = Nobody

(* Every decision on leave that was asked for is its approver's, or the     *)
(* nightly sweep's once the day is over.                                    *)
THEOREM DecisionsAreApprovers == Spec => []DecidedByApprover
<1> DEFINE Inv == TypeOK /\ PendingUndecided /\ DecidedByApprover
<1>1. Init => Inv
  BY TypeInit DEF Init, Booked, PendingUndecided, DecidedByApprover
<1>2. Inv /\ [Next]_vars => Inv'
  <2> SUFFICES ASSUME Inv, [Next]_vars PROVE Inv'
    OBVIOUS
  <2>1. TypeOK' /\ \A b \in BookingId : RowChange(bookings[b], bookings'[b])
    BY TypeNext, EveryRow
  <2>2. today \in Int /\ today' \in Int /\ today' >= today
    <3>1. today' = today \/ today' = today + 1
      BY ClockAndHolidays DEF NextDay
    <3> QED BY <3>1 DEF TypeOK, Day
  <2> SUFFICES ASSUME NEW b \in BookingId, bookings'[b] # NoRow,
                      bookings'[b] \in Booking
               PROVE  /\ bookings'[b].status = "pending" =>
                           bookings'[b].decided_by = Nobody
                      /\ /\ bookings'[b].status \in {"approved", "rejected"}
                         /\ ~bookings'[b].backfilled
                         => \/ /\ bookings'[b].decided_by = Nobody
                               /\ bookings'[b].day < today'
                            \/ ByApprover(bookings'[b])
    BY <2>1 DEF PendingUndecided, DecidedByApprover, Booked, ByApprover, IsAdmin,
       TypeOK
  <2>3. CASE bookings'[b] = bookings[b]
    <3>1. b \in Booked /\ bookings[b].day \in Int
      BY <2>3 DEF Booked, Booking, Day
    <3> QED BY <2>2, <2>3, <3>1 DEF PendingUndecided, DecidedByApprover, ByApprover, IsAdmin
  <2>4. CASE Entered(bookings'[b])
    BY <2>4 DEF Entered
  <2>5. CASE Settled(bookings[b], bookings'[b])
    BY <2>5 DEF Settled
  <2>6. CASE bookings[b] # NoRow /\ Ended(bookings[b], bookings'[b])
    <3>1. b \in Booked /\ bookings[b] \in Booking /\ bookings[b].day \in Int
      BY <2>6 DEF Booked, TypeOK, Booking, Day
    <3>2. bookings'[b].day = bookings[b].day
      BY <2>6, <3>1 DEF Ended, Booking
    <3> QED BY <2>2, <2>6, <3>1, <3>2 DEF Ended, PendingUndecided
  <2> QED BY <2>1, <2>3, <2>4, <2>5, <2>6 DEF RowChange
<1>3. Inv => DecidedByApprover
  OBVIOUS
<1> QED BY <1>1, <1>2, <1>3, PTL DEF Spec

-----------------------------------------------------------------------------
(* Days off *)

(* A holiday that comes to cover somebody leaves no leave of theirs on its  *)
(* day.                                                                     *)
LEMMA NewDayOff ==
  ASSUME TypeOK, [Next]_vars, NEW b \in Booked, NEW u, NEW d,
         Consuming(b), bookings[b].user = u, bookings[b].day = d,
         bookings'[b].status \in CONSUMING_STATES,
         HolidayFor(u, d)'
  PROVE  HolidayFor(u, d)
<1> USE DEF HolidayFor
<1>1. bookings[b] \in Booking /\ b \in BookingId
  BY DEF TypeOK, Booked
<1>2. CASE holidays' \subseteq holidays
  BY <1>2
<1>3. ASSUME NEW admin \in Users, NEW e \in HolidayDays,
             NEW l \in Locations \cup {Everywhere}, declare_holiday(admin, e, l)
      PROVE  HolidayFor(u, d)
  <2>1. CASE d = e /\ l \in {Everywhere, LocationOf[u]}
    <3>1. bookings'[b].status = "released"
      BY <1>1, <1>3, <2>1 DEF declare_holiday, release_for_holiday, ConsumingOn,
         MoveAll, Moved, Booking
    <3> QED BY <3>1 DEF CONSUMING_STATES
  <2>2. CASE ~(d = e /\ l \in {Everywhere, LocationOf[u]})
    BY <1>3, <2>2 DEF declare_holiday
  <2> QED BY <2>1, <2>2
<1>4. ASSUME NEW admin \in Users, NEW h \in holidays, NEW e \in HolidayDays,
             edit_holiday(admin, h, e)
      PROVE  HolidayFor(u, d)
  <2>1. CASE d = e
    <3>1. bookings'[b].status = "released"
      BY <1>1, <1>4, <2>1 DEF edit_holiday, release_for_holiday, ConsumingOn,
         MoveAll, Moved, Booking
    <3> QED BY <3>1 DEF CONSUMING_STATES
  <2>2. CASE d # e
    <3>1. h \in Holiday
      BY DEF TypeOK
    <3>2. [h EXCEPT !.day = e].day = e
      BY <3>1 DEF Holiday
    <3> QED BY <1>4, <2>2, <3>2 DEF edit_holiday
  <2> QED BY <2>1, <2>2
<1> QED BY <1>2, <1>3, <1>4, ClockAndHolidays

(* No leave is ever charged for a day off of the person's own, whatever the *)
(* order in which bookings and holidays come.                               *)
THEOREM NoLeaveCharged == Spec => []NoLeaveOnDayOff
<1> DEFINE Inv == TypeOK /\ NoLeaveOnDayOff
<1>1. Init => Inv
  BY TypeInit DEF Init, Booked, NoLeaveOnDayOff
<1>2. Inv /\ [Next]_vars => Inv'
  <2> SUFFICES ASSUME Inv, [Next]_vars PROVE Inv'
    OBVIOUS
  <2>1. TypeOK' /\ \A b \in BookingId : RowChange(bookings[b], bookings'[b])
    BY TypeNext, EveryRow
  <2> SUFFICES ASSUME NEW b \in BookingId, bookings'[b] # NoRow,
                      bookings'[b].status \in CONSUMING_STATES,
                      NEW u, NEW d, u = bookings'[b].user, d = bookings'[b].day,
                      NonWorking(u, d)'
               PROVE  FALSE
    BY <2>1 DEF NoLeaveOnDayOff, Booked, Consuming, NonWorking, HolidayFor
  <2>2. CASE /\ bookings[b] # NoRow /\ Consuming(b)
             /\ bookings[b].user = u
             /\ bookings[b].day = d
    <3>1. ~NonWorking(u, d)
      BY <2>2 DEF NoLeaveOnDayOff, Booked
    <3>2. HolidayFor(u, d)'
      BY <3>1 DEF NonWorking
    <3>3. HolidayFor(u, d)
      BY <2>2, <3>2, NewDayOff DEF Booked
    <3> QED BY <3>1, <3>3 DEF NonWorking
  <2>3. CASE OnWorkingDay(bookings'[b])
    BY <2>3 DEF OnWorkingDay, NonWorking, HolidayFor
  <2>4. CASE bookings'[b] = bookings[b]
    BY <2>2, <2>4 DEF Consuming
  <2>5. CASE Entered(bookings'[b])
    BY <2>3, <2>5 DEF Entered, CONSUMING_STATES
  <2>6. CASE /\ bookings[b] # NoRow
             /\ bookings'[b].user = bookings[b].user
             /\ bookings'[b].day = bookings[b].day
             /\ Settled(bookings[b], bookings'[b]) \/ Ended(bookings[b], bookings'[b])
    BY <2>2, <2>3, <2>6 DEF Settled, Ended, Consuming, CONSUMING_STATES
  <2> QED BY <2>1, <2>4, <2>5, <2>6 DEF RowChange
<1>3. Inv => NoLeaveOnDayOff
  OBVIOUS
<1> QED BY <1>1, <1>2, <1>3, PTL DEF Spec

-----------------------------------------------------------------------------
(* One booking per day *)

(* A row that enters finds its day free, or ends what was there.            *)
LEMMA NewRowAlone ==
  ASSUME TypeOK, [Next]_vars,
         NEW b \in BookingId, bookings[b] = NoRow, bookings'[b] # NoRow,
         NEW a \in BookingId, a # b, bookings'[a] # NoRow,
         bookings'[a].status \in OCCUPYING_STATES
  PROVE  ~(bookings'[a].user = bookings'[b].user /\ bookings'[a].day = bookings'[b].day)
<1> DEFINE Alone == ~ /\ bookings'[a].user = bookings'[b].user
                      /\ bookings'[a].day = bookings'[b].day
<1> SUFFICES Alone
  OBVIOUS
<1>2. ASSUME NEW S \in SUBSET Booked, NEW status, NEW decider,
             bookings' = MoveAll(S, status, decider)
      PROVE  FALSE
  BY <1>2 DEF MoveAll, Booked
<1>3. ASSUME NEW e \in Booked, NEW row, bookings' = [bookings EXCEPT ![e] = row]
      PROVE  FALSE
  BY <1>3 DEF TypeOK, Booked
<1>4. ASSUME bookings' = bookings PROVE FALSE
  BY <1>4
<1>5. CASE PersonStep
  <2>1. ASSUME NEW u \in Bookers, NEW d \in Day, NEW c \in Offered,
               NEW n \in VALID_DURATIONS, NEW reason \in BOOLEAN,
               create_or_replace(u, d, c, n, reason)
        PROVE  Alone
    <3> DEFINE old == OccupyingOn(u, d)
               row == NewBooking(u, d, c, n, "pending", Nobody, FALSE)
    <3>1. PICK i \in BookingId :
            bookings' = [MoveAll(old, "withdrawn", u) EXCEPT ![i] = row]
      BY <2>1 DEF create_or_replace
    <3>2. \A x \in BookingId \ {i} :
            bookings'[x] = IF x \in old THEN Moved(bookings[x], "withdrawn", u)
                           ELSE bookings[x]
      BY <3>1 DEF MoveAll
    <3>3. b = i /\ bookings'[b] = row
      BY <3>1, <3>2 DEF MoveAll, OccupyingOn, Booked
    <3>4. CASE a \in old
      <4>1. bookings[a] \in Booking
        BY <3>4 DEF OccupyingOn, Booked, TypeOK
      <4>2. bookings'[a].status = "withdrawn"
        BY <3>2, <3>3, <3>4, <4>1 DEF Moved, Booking
      <4> QED BY <4>2 DEF OCCUPYING_STATES
    <3>5. CASE a \notin old
      BY <3>2, <3>3, <3>5 DEF OccupyingOn, Booked, NewBooking
    <3> QED BY <3>4, <3>5
  <2>2. ASSUME NEW e \in BookingId, withdraw(e) PROVE FALSE
    BY <1>2, <2>2 DEF withdraw
  <2>3. ASSUME NEW u \in Bookers, NEW d \in Day, NEW n \in VALID_DURATIONS,
               claim(u, d, n)
        PROVE  FALSE
    BY <1>4, <2>3 DEF claim
  <2> QED BY <1>5, <2>1, <2>2, <2>3 DEF PersonStep
<1>6. CASE DeciderStep
  <2>1. ASSUME NEW actor \in Users, NEW e \in BookingId,
               NEW target \in {"approved", "rejected"}, decide(actor, e, target)
        PROVE  FALSE
    BY <1>2, <2>1 DEF decide
  <2>2. ASSUME NEW actor \in Users, NEW u \in Bookers, NEW d \in Day,
               flag_unrecognised(actor, u, d)
        PROVE  Alone
    <3> DEFINE row == NewBooking(u, d, NO_CATEGORY, FULL_DAY, "unrecognised",
                                 actor, FALSE)
    <3>1. row.user = u /\ row.day = d
      BY DEF NewBooking
    <3>2. PICK i \in BookingId : bookings' = [bookings EXCEPT ![i] = row]
      BY <2>2 DEF flag_unrecognised
    <3>3. OccupyingOn(u, d) = {}
      BY <2>2 DEF flag_unrecognised
    <3> HIDE DEF row
    <3>4. b = i /\ bookings'[b] = row /\ bookings'[a] = bookings[a]
      BY <3>2 DEF TypeOK
    <3> QED BY <3>1, <3>3, <3>4 DEF OccupyingOn, Booked
  <2>3. ASSUME NEW actor \in Users, NEW k \in CreditId, NEW approve \in BOOLEAN,
               decide_claim(actor, k, approve)
        PROVE  FALSE
    BY <1>4, <2>3 DEF decide_claim
  <2> QED BY <1>6, <2>1, <2>2, <2>3 DEF DeciderStep
<1>7. CASE AdminStep
  <2>1. ASSUME NEW admin \in Users, NEW u \in Bookers, NEW d \in Day,
               NEW c \in Offered, NEW n \in VALID_DURATIONS, NEW reason \in BOOLEAN,
               backfill(admin, u, d, c, n, reason)
        PROVE  Alone
    <3>1. CASE \E e \in OccupyingOn(u, d) : ConvertAbsence(admin, e, c, n, FALSE)
      BY <1>3, <3>1 DEF ConvertAbsence, OccupyingOn
    <3>2. CASE /\ OccupyingOn(u, d) = {}
               /\ \E i \in BookingId :
                    bookings' = [bookings EXCEPT
                      ![i] = NewBooking(u, d, c, n, "approved", admin, TRUE)]
      <4> DEFINE row == NewBooking(u, d, c, n, "approved", admin, TRUE)
      <4>1. row.user = u /\ row.day = d
        BY DEF NewBooking
      <4>2. PICK i \in BookingId : bookings' = [bookings EXCEPT ![i] = row]
        BY <3>2
      <4> HIDE DEF row
      <4>3. b = i /\ bookings'[b] = row /\ bookings'[a] = bookings[a]
        BY <4>2 DEF TypeOK
      <4> QED BY <3>2, <4>1, <4>3 DEF OccupyingOn, Booked
    <3> QED BY <2>1, <3>1, <3>2 DEF backfill
  <2>2. ASSUME NEW admin \in Users, NEW e \in BookingId, undo_backfill(admin, e)
        PROVE  FALSE
    BY <1>2, <2>2 DEF undo_backfill
  <2>3. ASSUME NEW admin \in Users, NEW e \in BookingId, NEW c \in Offered,
               NEW n \in VALID_DURATIONS, NEW reason \in BOOLEAN,
               convert_absence(admin, e, c, n, reason)
        PROVE  FALSE
    BY <1>3, <2>3 DEF convert_absence, ConvertAbsence
  <2>4. ASSUME NEW admin \in Users, NEW d \in HolidayDays,
               NEW l \in Locations \cup {Everywhere}, declare_holiday(admin, d, l)
        PROVE  FALSE
    BY <1>2, <2>4 DEF declare_holiday, release_for_holiday, ConsumingOn
  <2>5. ASSUME NEW admin \in Users, NEW h \in holidays, NEW d \in HolidayDays,
               edit_holiday(admin, h, d)
        PROVE  FALSE
    BY <1>2, <2>5 DEF edit_holiday, release_for_holiday, ConsumingOn
  <2>6. ASSUME NEW admin \in Users, NEW h \in holidays, remove_holiday(admin, h)
        PROVE  FALSE
    BY <1>4, <2>6 DEF remove_holiday
  <2> QED BY <1>7, <2>1, <2>2, <2>3, <2>4, <2>5, <2>6 DEF AdminStep
<1>8. CASE lapse_expired \/ NextDay \/ UNCHANGED vars
  BY <1>4, <1>8 DEF lapse_expired, NextDay, vars
<1>9. CASE sweep
  BY <1>9 DEF sweep, PendingBefore, Booked
<1> QED BY <1>5, <1>6, <1>7, <1>8, <1>9 DEF Next

(* A day holds at most one booking by the services' own checks, for every   *)
(* order of requests.                                                       *)
THEOREM OneBooking == Spec => []OneBookingPerDay
<1> DEFINE Inv == TypeOK /\ OneBookingPerDay
<1>1. Init => Inv
  BY TypeInit DEF Init, Booked, OneBookingPerDay
<1>2. Inv /\ [Next]_vars => Inv'
  <2> SUFFICES ASSUME Inv, [Next]_vars PROVE Inv'
    OBVIOUS
  <2>1. TypeOK' /\ \A b \in BookingId : RowChange(bookings[b], bookings'[b])
    BY TypeNext, EveryRow
  <2> SUFFICES ASSUME NEW a \in BookingId, NEW b \in BookingId,
                      bookings'[a] # NoRow, bookings'[b] # NoRow,
                      bookings'[a].user = bookings'[b].user,
                      bookings'[a].day = bookings'[b].day,
                      bookings'[a].status \in OCCUPYING_STATES,
                      bookings'[b].status \in OCCUPYING_STATES,
                      a # b
               PROVE  FALSE
    BY <2>1 DEF OneBookingPerDay, Booked
  <2>2. bookings[a] # NoRow /\ bookings[b] # NoRow
    BY NewRowAlone
  <2>3. ASSUME NEW x \in {a, b}
        PROVE  /\ bookings[x].user = bookings'[x].user
               /\ bookings[x].day = bookings'[x].day
               /\ bookings[x].status \in OCCUPYING_STATES
    <3>1. RowChange(bookings[x], bookings'[x]) /\ bookings[x] # NoRow
      BY <2>1, <2>2
    <3>2. bookings'[x].status \in OCCUPYING_STATES
      OBVIOUS
    <3> QED BY <3>1, <3>2 DEF RowChange, Settled, Ended, OCCUPYING_STATES,
       CONSUMING_STATES
  <2> QED BY <2>2, <2>3 DEF OneBookingPerDay, Booked
<1>3. Inv => OneBookingPerDay
  OBVIOUS
<1> QED BY <1>1, <1>2, <1>3, PTL DEF Spec

-----------------------------------------------------------------------------
(* Credits and bookings are two tables that no transaction holds together: *)
(* that they agree rests on every operation that ends, replaces or pays    *)
(* for a comp-off booking.                                                 *)

(* What a credit row says agrees with the bookings in `rows`.               *)
Held(credit, rows) ==
  IF credit.status = "used"
  THEN LET b == credit.booking
       IN /\ b \in BookingId
          /\ rows[b] # NoRow
          /\ rows[b].category = "compoff"
          /\ rows[b].user = credit.user
          /\ rows[b].status \in CONSUMING_STATES
  ELSE credit.booking = NoBooking

Follow(cs, rows) == \A k \in CreditId : cs[k] # NoRow => Held(cs[k], rows)

-----------------------------------------------------------------------------
(* The writes *)

(* A row no credit can be spent on is written over, or a new one inserted.  *)
LEMMA WriteFreeRow ==
  ASSUME NEW cs, NEW rows \in Bookings, Follow(cs, rows),
         NEW n \in BookingId, NEW row,
         rows[n] = NoRow \/ rows[n].status \notin CONSUMING_STATES
  PROVE  Follow(cs, [rows EXCEPT ![n] = row])
BY DEF Follow, Held, Bookings

(* consume, for a comp-off booking of the credits' owner that stands.       *)
LEMMA PayFor ==
  ASSUME NEW cs \in Credits, NEW rows, Follow(cs, rows),
         NEW b \in BookingId, rows[b] # NoRow, rows[b].category = "compoff",
         rows[b].status \in CONSUMING_STATES,
         NEW needed, NEW on,
         NEW new \in ConsumeCredits(cs, rows[b].user, needed, b, on)
  PROVE  Follow(new, rows)
<1>1. PICK C \in SUBSET ApprovedCredits(cs, rows[b].user) :
        new = [k \in CreditId |-> IF k \in C THEN Used(cs[k], b) ELSE cs[k]]
  BY ConsumeShape
<1> SUFFICES ASSUME NEW k \in CreditId, new[k] # NoRow PROVE Held(new[k], rows)
  BY DEF Follow
<1>2. CASE k \in C
  <2>1. cs[k] \in Credit /\ cs[k].user = rows[b].user
    BY <1>2 DEF ApprovedCredits, Credits
  <2>2. new[k] = Used(cs[k], b)
    BY <1>1, <1>2
  <2>3. /\ Used(cs[k], b).status = "used"
        /\ Used(cs[k], b).booking = b
        /\ Used(cs[k], b).user = cs[k].user
    BY <2>1 DEF Used, Credit
  <2> QED BY <2>1, <2>2, <2>3 DEF Held
<1>3. CASE k \notin C
  BY <1>1, <1>3 DEF Follow
<1> QED BY <1>2, <1>3

(* A booking is entered on a free row and, if it is comp-off, paid for.     *)
LEMMA EnterAndPay ==
  ASSUME NEW cs \in Credits, NEW rows \in Bookings, Follow(cs, rows),
         NEW n \in BookingId,
         rows[n] = NoRow \/ rows[n].status \notin CONSUMING_STATES,
         NEW row \in Booking, row.status \in CONSUMING_STATES,
         NEW needed, NEW on,
         NEW new \in IF row.category = "compoff"
                     THEN ConsumeCredits(cs, row.user, needed, n, on) ELSE {cs}
  PROVE  Follow(new, [rows EXCEPT ![n] = row])
<1> DEFINE rows1 == [rows EXCEPT ![n] = row]
<1>1. Follow(cs, rows1)
  BY WriteFreeRow
<1>2. rows1[n] = row
  BY DEF Bookings
<1>3. row # NoRow
  BY NoRowAssumption
<1> HIDE DEF rows1
<1>4. CASE row.category = "compoff"
  <2>1. new \in ConsumeCredits(cs, rows1[n].user, needed, n, on)
    BY <1>2, <1>4
  <2>2. Follow(new, rows1)
    BY <1>1, <1>2, <1>3, <1>4, <2>1, PayFor
  <2> QED BY <2>2 DEF rows1
<1>5. CASE row.category # "compoff"
  BY <1>1, <1>5 DEF rows1
<1> QED BY <1>4, <1>5

(* Bookings end and their credits come back.                                *)
LEMMA EndAndReturn ==
  ASSUME TypeOK, Follow(credits, bookings), NEW S \in SUBSET Booked,
         NEW status, NEW decider
  PROVE  Follow(ReleaseCredits(CompoffRows(S)), MoveAll(S, status, decider))
<1> DEFINE cs == ReleaseCredits(CompoffRows(S))
           rows == MoveAll(S, status, decider)
<1> SUFFICES ASSUME NEW k \in CreditId, cs[k] # NoRow PROVE Held(cs[k], rows)
  BY DEF Follow
<1>1. CASE \E b \in CompoffRows(S) : k \in UsedBy(b)
  <2>1. cs[k] = Returned(credits[k]) /\ credits[k] \in Credit
    BY <1>1 DEF ReleaseCredits, UsedBy, Claimed, TypeOK
  <2>2. /\ Returned(credits[k]).status = "approved"
        /\ Returned(credits[k]).booking = NoBooking
    BY <2>1 DEF Returned, Credit
  <2> QED BY <2>1, <2>2 DEF Held
<1>2. CASE ~\E b \in CompoffRows(S) : k \in UsedBy(b)
  <2>1. cs[k] = credits[k] /\ credits[k] # NoRow
    BY <1>2 DEF ReleaseCredits
  <2>2. Held(credits[k], bookings)
    BY <2>1 DEF Follow
  <2>3. CASE credits[k].status = "used"
    <3> DEFINE b == credits[k].booking
    <3>1. b \in BookingId /\ bookings[b].category = "compoff"
      BY <2>2, <2>3 DEF Held
    <3>2. k \in UsedBy(b)
      BY <2>1, <2>3 DEF UsedBy, Claimed
    <3>3. b \notin S
      BY <1>2, <3>1, <3>2 DEF CompoffRows
    <3>4. rows[b] = bookings[b]
      BY <3>1, <3>3 DEF MoveAll
    <3> QED BY <2>1, <2>2, <2>3, <3>4 DEF Held
  <2>4. CASE credits[k].status # "used"
    BY <2>1, <2>2, <2>4 DEF Held
  <2> QED BY <2>3, <2>4
<1> QED BY <1>1, <1>2

(* Bookings that are only moved on still hold what was spent on them.       *)
LEMMA MoveOn ==
  ASSUME TypeOK, Follow(credits, bookings), NEW rows,
         \A b \in Booked :
           \/ rows[b] = bookings[b]
           \/ \E decider \in Users \cup {Nobody} :
                rows[b] = Moved(bookings[b], "approved", decider)
  PROVE  Follow(credits, rows)
<1> SUFFICES ASSUME NEW k \in CreditId, credits[k] # NoRow,
                    credits[k].status = "used"
             PROVE  Held(credits[k], rows)
  BY DEF Follow, Held
<1> DEFINE b == credits[k].booking
<1>1. Held(credits[k], bookings)
  BY DEF Follow
<1>2. b \in Booked /\ bookings[b] \in Booking
  BY <1>1 DEF Held, Booked, TypeOK
<1>3. CASE rows[b] = bookings[b]
  BY <1>1, <1>3 DEF Held
<1>4. ASSUME NEW decider \in Users \cup {Nobody},
             rows[b] = Moved(bookings[b], "approved", decider)
      PROVE  Held(credits[k], rows)
  <2>1. /\ rows[b] \in Booking
        /\ rows[b].user = bookings[b].user
        /\ rows[b].category = bookings[b].category
        /\ rows[b].status = "approved"
    BY <1>2, <1>4 DEF Moved, Booking, STATES
  <2> QED BY <1>1, <2>1, NoRowAssumption DEF Held, CONSUMING_STATES
<1> QED BY <1>2, <1>3, <1>4

-----------------------------------------------------------------------------
(* Every operation *)

LEMMA FollowsConverting ==
  ASSUME TypeOK, Follow(credits, bookings),
         NEW admin \in Users, NEW b \in Booked, NEW c \in Offered,
         NEW n \in VALID_DURATIONS, NEW check \in BOOLEAN,
         ConvertAbsence(admin, b, c, n, check),
         bookings[b].status = "unrecognised"
  PROVE  Follow(credits, bookings)'
<1> DEFINE row == Converted(bookings[b], c, n, admin)
<1>1. b \in BookingId /\ bookings[b] \in Booking
  BY DEF TypeOK, Booked
<1>2. /\ row \in Booking
      /\ row.status = "approved" /\ row.category = c
      /\ row.user = bookings[b].user
  BY <1>1, InputsAssumption DEF Converted, Booking, STATES
<1>3. /\ bookings' = [bookings EXCEPT ![b] = row]
      /\ credits' \in IF c = "compoff"
                      THEN ConsumeCredits(credits, bookings[b].user, n, b, today)
                      ELSE {credits}
  BY DEF ConvertAbsence
<1>4. credits \in Credits /\ bookings \in Bookings
  BY DEF TypeOK, Credits, Bookings
<1>5. credits' \in IF row.category = "compoff"
                   THEN ConsumeCredits(credits, row.user, n, b, today)
                   ELSE {credits}
  BY <1>2, <1>3
<1>6. row.status \in CONSUMING_STATES /\ bookings[b].status \notin CONSUMING_STATES
  BY <1>2 DEF CONSUMING_STATES
<1> HIDE DEF row
<1>7. Follow(credits', [bookings EXCEPT ![b] = row])
  BY <1>1, <1>2, <1>4, <1>5, <1>6, EnterAndPay
<1> QED BY <1>3, <1>7 DEF Follow, Held

LEMMA FollowsEnding ==
  ASSUME TypeOK, Follow(credits, bookings), NEW S \in SUBSET Booked,
         NEW status, NEW decider,
         bookings' = MoveAll(S, status, decider),
         credits' = ReleaseCredits(CompoffRows(S))
  PROVE  Follow(credits, bookings)'
<1>1. Follow(ReleaseCredits(CompoffRows(S)), MoveAll(S, status, decider))
  BY EndAndReturn
<1> QED BY <1>1 DEF Follow, Held

LEMMA FollowsPersonStep ==
  ASSUME TypeOK, Follow(credits, bookings), PersonStep
  PROVE  Follow(credits, bookings)'
<1> DEFINE Goal == Follow(credits, bookings)'
<1> SUFFICES Goal
  OBVIOUS
<1> USE InputsAssumption
<1>t. bookings \in Bookings /\ credits \in Credits
  BY DEF TypeOK, Bookings, Credits
<1>1. ASSUME NEW u \in Bookers, NEW d \in Day, NEW c \in Offered,
             NEW n \in VALID_DURATIONS, NEW reason \in BOOLEAN,
             create_or_replace(u, d, c, n, reason)
      PROVE  Goal
  <2> DEFINE old == OccupyingOn(u, d)
             freed == ReleaseCredits(CompoffRows(old))
             ended == MoveAll(old, "withdrawn", u)
             row == NewBooking(u, d, c, n, "pending", Nobody, FALSE)
  <2>1. PICK i \in BookingId :
          /\ IsNextRow(i, bookings)
          /\ bookings' = [ended EXCEPT ![i] = row]
          /\ credits' \in IF c = "compoff"
                          THEN ConsumeCredits(freed, u, n, i, today) ELSE {freed}
    BY <1>1 DEF create_or_replace
  <2>2. /\ row \in Booking
        /\ row.status \in CONSUMING_STATES /\ row.category = c /\ row.user = u
    BY NewBookingType DEF STATES, NewBooking, CONSUMING_STATES
  <2>3. old \in SUBSET Booked
    BY DEF OccupyingOn
  <2>4. Follow(freed, ended) /\ freed \in Credits /\ ended \in Bookings
    <3>1. ended \in Bookings
      BY <1>t, <2>3, MoveAllType DEF STATES
    <3>2. freed \in Credits
      BY <1>t, ReleaseType
    <3> QED BY <2>3, <3>1, <3>2, EndAndReturn
  <2>5. ended[i] = NoRow
    BY <2>1, <2>3 DEF IsNextRow, MoveAll, Booked
  <2>6. credits' \in IF row.category = "compoff"
                     THEN ConsumeCredits(freed, row.user, n, i, today) ELSE {freed}
    BY <2>1, <2>2
  <2> HIDE DEF row, ended, freed
  <2>7. Follow(credits', [ended EXCEPT ![i] = row])
    BY <2>2, <2>4, <2>5, <2>6, EnterAndPay
  <2> QED BY <2>1, <2>7 DEF Follow, Held
<1>2. ASSUME NEW b \in BookingId, withdraw(b) PROVE Goal
  <2>1. {b} \in SUBSET Booked
    BY <1>2 DEF withdraw
  <2> QED BY <1>2, <2>1, FollowsEnding DEF withdraw
<1>3. ASSUME NEW u \in Bookers, NEW d \in Day, NEW n \in VALID_DURATIONS,
             claim(u, d, n)
      PROVE  Goal
  <2> SUFFICES ASSUME NEW k \in CreditId, credits'[k] # NoRow
               PROVE  Held(credits'[k], bookings')
    BY DEF Follow, Held
  <2>1. credits'[k] = credits[k] \/ credits'[k] = NewClaim(u, d, n)
    BY <1>3, <1>t DEF claim, Credits
  <2>2. bookings' = bookings
    BY <1>3 DEF claim
  <2> QED BY <2>1, <2>2 DEF Follow, Held, NewClaim
<1> QED BY <1>1, <1>2, <1>3 DEF PersonStep

LEMMA FollowsDeciderStep ==
  ASSUME TypeOK, Follow(credits, bookings), DeciderStep
  PROVE  Follow(credits, bookings)'
<1> DEFINE Goal == Follow(credits, bookings)'
<1> SUFFICES Goal
  OBVIOUS
<1> USE InputsAssumption
<1>t. bookings \in Bookings /\ credits \in Credits
  BY DEF TypeOK, Bookings, Credits
<1>1. ASSUME NEW actor \in Users, NEW b \in BookingId,
             NEW target \in {"approved", "rejected"}, decide(actor, b, target)
      PROVE  Goal
  <2>1. {b} \in SUBSET Booked
    BY <1>1 DEF decide
  <2>2. CASE target = "rejected"
    BY <1>1, <2>1, <2>2, FollowsEnding DEF decide
  <2>3. CASE target = "approved"
    <3>1. bookings' = MoveAll({b}, "approved", actor) /\ credits' = credits
      BY <1>1, <2>3 DEF decide
    <3>2. Follow(credits, MoveAll({b}, "approved", actor))
      BY MoveOn DEF MoveAll, Booked
    <3> QED BY <3>1, <3>2 DEF Follow, Held
  <2> QED BY <2>2, <2>3
<1>2. ASSUME NEW actor \in Users, NEW u \in Bookers, NEW d \in Day,
             flag_unrecognised(actor, u, d)
      PROVE  Goal
  <2> DEFINE row == NewBooking(u, d, NO_CATEGORY, FULL_DAY, "unrecognised",
                               actor, FALSE)
  <2>1. PICK i \in BookingId :
          /\ IsNextRow(i, bookings)
          /\ bookings' = [bookings EXCEPT ![i] = row]
          /\ credits' = credits
    BY <1>2 DEF flag_unrecognised
  <2> HIDE DEF row
  <2>2. Follow(credits, [bookings EXCEPT ![i] = row])
    BY <1>t, <2>1, WriteFreeRow DEF IsNextRow
  <2> QED BY <2>1, <2>2 DEF Follow, Held
<1>3. ASSUME NEW actor \in Users, NEW k \in CreditId, NEW approve \in BOOLEAN,
             decide_claim(actor, k, approve)
      PROVE  Goal
  <2>1. /\ credits[k] \in Credit /\ credits[k] # NoRow
        /\ credits[k].status = "pending"
    BY <1>3 DEF decide_claim, Claimed, TypeOK
  <2>2. /\ Decided(credits[k], approve).status # "used"
        /\ Decided(credits[k], approve).booking = NoBooking
    BY <2>1 DEF Decided, Credit, Follow, Held
  <2>3. /\ credits' = [credits EXCEPT ![k] = Decided(credits[k], approve)]
        /\ bookings' = bookings
    BY <1>3 DEF decide_claim
  <2> QED BY <1>t, <2>2, <2>3 DEF Follow, Held, Credits
<1> QED BY <1>1, <1>2, <1>3 DEF DeciderStep

LEMMA FollowsAdminStep ==
  ASSUME TypeOK, Follow(credits, bookings), AdminStep
  PROVE  Follow(credits, bookings)'
<1> DEFINE Goal == Follow(credits, bookings)'
<1> SUFFICES Goal
  OBVIOUS
<1> USE InputsAssumption
<1>t. bookings \in Bookings /\ credits \in Credits
  BY DEF TypeOK, Bookings, Credits
<1>1. ASSUME NEW admin \in Users, NEW u \in Bookers, NEW d \in Day,
             NEW c \in Offered, NEW n \in VALID_DURATIONS, NEW reason \in BOOLEAN,
             backfill(admin, u, d, c, n, reason)
      PROVE  Goal
  <2>1. ASSUME NEW b \in OccupyingOn(u, d), ConvertAbsence(admin, b, c, n, FALSE)
        PROVE  Goal
    <3>1. b \in Booked /\ bookings[b].status = "unrecognised"
      BY <1>1, <2>1 DEF backfill, OccupyingOn
    <3> QED BY <2>1, <3>1, FollowsConverting
  <2>2. ASSUME NEW i \in BookingId, IsNextRow(i, bookings),
               bookings' = [bookings EXCEPT
                 ![i] = NewBooking(u, d, c, n, "approved", admin, TRUE)],
               credits' \in IF c = "compoff"
                            THEN ConsumeCredits(credits, u, n, i, today)
                            ELSE {credits}
        PROVE  Goal
    <3> DEFINE row == NewBooking(u, d, c, n, "approved", admin, TRUE)
    <3>1. /\ row \in Booking
          /\ row.status \in CONSUMING_STATES /\ row.category = c /\ row.user = u
      BY NewBookingType DEF STATES, NewBooking, CONSUMING_STATES
    <3>2. credits' \in IF row.category = "compoff"
                       THEN ConsumeCredits(credits, row.user, n, i, today)
                       ELSE {credits}
      BY <2>2, <3>1
    <3>3. bookings' = [bookings EXCEPT ![i] = row] /\ bookings[i] = NoRow
      BY <2>2 DEF IsNextRow
    <3> HIDE DEF row
    <3>4. Follow(credits', [bookings EXCEPT ![i] = row])
      BY <1>t, <3>1, <3>2, <3>3, EnterAndPay
    <3> QED BY <3>3, <3>4 DEF Follow, Held
  <2> QED BY <1>1, <2>1, <2>2 DEF backfill
<1>2. ASSUME NEW admin \in Users, NEW b \in BookingId, undo_backfill(admin, b)
      PROVE  Goal
  <2>1. {b} \in SUBSET Booked
    BY <1>2 DEF undo_backfill
  <2> QED BY <1>2, <2>1, FollowsEnding DEF undo_backfill
<1>3. ASSUME NEW admin \in Users, NEW b \in BookingId, NEW c \in Offered,
             NEW n \in VALID_DURATIONS, NEW reason \in BOOLEAN,
             convert_absence(admin, b, c, n, reason)
      PROVE  Goal
  <2>1. /\ b \in Booked /\ bookings[b].status = "unrecognised"
        /\ ConvertAbsence(admin, b, c, n, TRUE)
    BY <1>3 DEF convert_absence, check_absence_conversion
  <2> QED BY <2>1, FollowsConverting
<1>4. ASSUME NEW admin \in Users, NEW d \in HolidayDays,
             NEW l \in Locations \cup {Everywhere}, declare_holiday(admin, d, l)
      PROVE  Goal
  BY <1>4, FollowsEnding DEF declare_holiday, release_for_holiday, ConsumingOn
<1>5. ASSUME NEW admin \in Users, NEW h \in holidays, NEW d \in HolidayDays,
             edit_holiday(admin, h, d)
      PROVE  Goal
  BY <1>5, FollowsEnding DEF edit_holiday, release_for_holiday, ConsumingOn
<1>6. ASSUME NEW admin \in Users, NEW h \in holidays, remove_holiday(admin, h)
      PROVE  Goal
  BY <1>6 DEF remove_holiday, Follow, Held
<1> QED BY <1>1, <1>2, <1>3, <1>4, <1>5, <1>6 DEF AdminStep

(* The nightly tasks: lapsing touches credits that are spent on nothing,    *)
(* and a request approved at the lock keeps what pays for it.               *)
LEMMA FollowsTasks ==
  ASSUME TypeOK, Follow(credits, bookings), lapse_expired \/ sweep
  PROVE  Follow(credits, bookings)'
<1>1. CASE lapse_expired
  <2> SUFFICES ASSUME NEW k \in CreditId, credits'[k] # NoRow
               PROVE  Held(credits'[k], bookings')
    BY DEF Follow, Held
  <2>1. bookings' = bookings
    BY <1>1 DEF lapse_expired
  <2>2. CASE k \in Expired
    <3>1. /\ credits[k] \in Credit /\ credits[k] # NoRow
          /\ credits[k].status = "approved"
          /\ credits'[k] = [credits[k] EXCEPT !.status = "lapsed"]
      BY <1>1, <2>2 DEF lapse_expired, Expired, Claimed, TypeOK
    <3>2. credits[k].booking = NoBooking
      BY <3>1 DEF Follow, Held
    <3> QED BY <3>1, <3>2 DEF Held, Credit
  <2>3. CASE k \notin Expired
    BY <1>1, <2>1, <2>3 DEF lapse_expired, Follow
  <2> QED BY <2>2, <2>3
<1>2. CASE sweep
  <2> DEFINE rows == [b \in BookingId |->
                        IF b \in PendingBefore(today)
                        THEN [bookings[b] EXCEPT !.status = "approved"]
                        ELSE bookings[b]]
  <2>1. bookings' = rows /\ credits' = credits
    BY <1>2 DEF sweep
  <2>2. ASSUME NEW b \in Booked
        PROVE  \/ rows[b] = bookings[b]
               \/ \E decider \in Users \cup {Nobody} :
                    rows[b] = Moved(bookings[b], "approved", decider)
    <3>1. b \in BookingId /\ bookings[b] \in Booking
      BY DEF Booked, TypeOK
    <3>2. CASE b \notin PendingBefore(today)
      BY <3>1, <3>2
    <3>3. CASE b \in PendingBefore(today)
      <4>1. rows[b] = [bookings[b] EXCEPT !.status = "approved"]
        BY <3>1, <3>3
      <4>2. /\ bookings[b].decided_by \in Users \cup {Nobody}
            /\ [bookings[b] EXCEPT !.status = "approved"]
                 = Moved(bookings[b], "approved", bookings[b].decided_by)
        BY <3>1 DEF Booking, Moved
      <4> QED BY <4>1, <4>2
    <3> QED BY <3>2, <3>3
  <2> HIDE DEF rows
  <2>3. Follow(credits, rows)
    BY <2>2, MoveOn
  <2> QED BY <2>1, <2>3 DEF Follow, Held
<1> QED BY <1>1, <1>2

LEMMA FollowsNext ==
  ASSUME TypeOK, Follow(credits, bookings), [Next]_vars
  PROVE  Follow(credits, bookings)'
<1>1. CASE NextDay \/ UNCHANGED vars
  BY <1>1 DEF NextDay, vars, Follow, Held
<1> QED
  BY <1>1, FollowsPersonStep, FollowsDeciderStep, FollowsAdminStep, FollowsTasks
  DEF Next

(* A spent credit always belongs to a comp-off booking of its owner that    *)
(* still takes its day, and any other credit to none: whichever operation   *)
(* ends the booking hands back what it was paid with.                       *)
THEOREM CreditsFollow == Spec => []CreditsFollowBookings
<1> DEFINE Inv == TypeOK /\ Follow(credits, bookings)
<1>1. Init => Inv
  BY TypeInit DEF Init, Follow
<1>2. Inv /\ [Next]_vars => Inv'
  BY TypeNext, FollowsNext
<1>3. Inv => CreditsFollowBookings
  BY DEF Follow, Held, CreditsFollowBookings, Claimed, Booked, Consuming
<1> QED BY <1>1, <1>2, <1>3, PTL DEF Spec

-----------------------------------------------------------------------------
(* What is paid for is paid in full *)

SpentOn(cs, b) ==
  {k \in CreditId : cs[k] # NoRow /\ cs[k].status = "used" /\ cs[k].booking = b}

(* The credits spent on this booking, if there are any, come to its length. *)
PaidInFull(cs, b, row) ==
  row # NoRow /\ row.category = "compoff" /\ row.status \in CONSUMING_STATES =>
    SpentOn(cs, b) = {} \/ DaysOf(cs, SpentOn(cs, b)) >= row.duration

AllPaid(cs, rows) == \A b \in BookingId : PaidInFull(cs, b, rows[b])

(* A sum over credits is one of what is summed, whatever else they say.     *)
LEMMA SameDays ==
  ASSUME NEW cs, NEW ds, NEW S, \A k \in S : ds[k].days = cs[k].days
  PROVE  DaysOf(ds, S) = DaysOf(cs, S)
<1>1. [k \in S |-> ds[k].days] = [k \in S |-> cs[k].days]
  OBVIOUS
<1> QED BY <1>1 DEF DaysOf

(* A booking whose credits are as before is paid for as before.             *)
LEMMA PaidAsBefore ==
  ASSUME NEW cs, NEW ds, NEW b, NEW row,
         SpentOn(ds, b) = SpentOn(cs, b),
         \A k \in SpentOn(cs, b) : ds[k].days = cs[k].days,
         PaidInFull(cs, b, row)
  PROVE  PaidInFull(ds, b, row)
<1>1. DaysOf(ds, SpentOn(cs, b)) = DaysOf(cs, SpentOn(cs, b))
  BY SameDays
<1> QED BY <1>1 DEF PaidInFull

(* consume uses credits that come to what is needed, or none.               *)
LEMMA ConsumeEnough ==
  ASSUME NEW cs \in Credits, NEW u, NEW needed, NEW b, NEW on,
         NEW new \in ConsumeCredits(cs, u, needed, b, on)
  PROVE  \/ new = cs
         \/ \E C \in SUBSET ApprovedCredits(cs, u) :
              /\ new = [k \in CreditId |-> IF k \in C THEN Used(cs[k], b) ELSE cs[k]]
              /\ DaysOf(cs, C) >= needed
<1> DEFINE picks == pick_credits(cs, ApprovedCredits(cs, u), needed, on)
<1>1. CASE picks = {}
  BY <1>1 DEF ConsumeCredits
<1>2. CASE picks # {}
  <2>1. PICK C \in picks :
          new = [k \in CreditId |-> IF k \in C THEN Used(cs[k], b) ELSE cs[k]]
    BY <1>2 DEF ConsumeCredits
  <2>2. C \in SUBSET ApprovedCredits(cs, u) /\ DaysOf(cs, C) >= needed
    BY DEF pick_credits
  <2> QED BY <2>1, <2>2
<1> QED BY <1>1, <1>2

(* A booking that nothing was spent on is entered, or a row written over by *)
(* one, and consume pays for its whole length if it pays at all.            *)
LEMMA EnterInFull ==
  ASSUME NEW cs \in Credits, NEW rows \in Bookings, Follow(cs, rows),
         AllPaid(cs, rows), NEW n \in BookingId,
         rows[n] = NoRow \/ rows[n].status \notin CONSUMING_STATES,
         NEW row \in Booking, NEW on,
         NEW new \in IF row.category = "compoff"
                     THEN ConsumeCredits(cs, row.user, row.duration, n, on)
                     ELSE {cs}
  PROVE  AllPaid(new, [rows EXCEPT ![n] = row])
<1> DEFINE rows1 == [rows EXCEPT ![n] = row]
<1>1. SpentOn(cs, n) = {}
  BY DEF SpentOn, Follow, Held
<1>2. ASSUME NEW b \in BookingId PROVE PaidInFull(cs, b, rows1[b])
  <2>1. CASE b = n
    BY <1>1, <2>1 DEF PaidInFull
  <2>2. CASE b # n
    <3>1. rows1[b] = rows[b]
      BY <2>2 DEF Bookings
    <3> QED BY <3>1 DEF AllPaid
  <2> QED BY <2>1, <2>2
<1>3. CASE new = cs
  BY <1>2, <1>3 DEF AllPaid
<1>4. CASE new # cs
  <2>1. new \in ConsumeCredits(cs, row.user, row.duration, n, on)
    BY <1>4
  <2>2. PICK C \in SUBSET ApprovedCredits(cs, row.user) :
          /\ new = [k \in CreditId |-> IF k \in C THEN Used(cs[k], n) ELSE cs[k]]
          /\ DaysOf(cs, C) >= row.duration
    BY <1>4, <2>1, ConsumeEnough
  <2>3. ASSUME NEW k \in C
        PROVE  /\ k \in CreditId /\ cs[k] # NoRow /\ cs[k].status = "approved"
               /\ new[k] # NoRow /\ new[k].status = "used"
               /\ new[k].booking = n /\ new[k].days = cs[k].days
    <3>1. /\ k \in CreditId /\ cs[k] \in Credit
          /\ cs[k] # NoRow /\ cs[k].status = "approved"
      BY DEF ApprovedCredits, Credits
    <3>2. new[k] = Used(cs[k], n)
      BY <2>2, <3>1
    <3>3. Used(cs[k], n) \in Credit
      BY <3>1 DEF Used, Credit, CREDIT_STATES
    <3>4. /\ Used(cs[k], n).status = "used"
          /\ Used(cs[k], n).booking = n
          /\ Used(cs[k], n).days = cs[k].days
      BY <3>1 DEF Used, Credit
    <3> QED BY <3>1, <3>2, <3>3, <3>4, NoRowAssumption
  <2>4. ASSUME NEW k \in CreditId \ C PROVE new[k] = cs[k]
    BY <2>2
  <2>5. SpentOn(new, n) = C
    BY <1>1, <2>3, <2>4 DEF SpentOn
  <2>6. DaysOf(new, C) = DaysOf(cs, C)
    BY <2>3, SameDays
  <2>7. rows1[n] = row
    BY DEF Bookings
  <2>8. PaidInFull(new, n, rows1[n])
    BY <2>2, <2>5, <2>6, <2>7 DEF PaidInFull
  <2>9. ASSUME NEW b \in BookingId, b # n PROVE PaidInFull(new, b, rows1[b])
    <3>1. SpentOn(new, b) = SpentOn(cs, b)
      BY <2>3, <2>4, <2>9 DEF SpentOn
    <3>2. \A k \in SpentOn(cs, b) : new[k].days = cs[k].days
      BY <2>3, <2>4 DEF SpentOn
    <3> QED BY <1>2, <3>1, <3>2, PaidAsBefore
  <2> QED BY <2>8, <2>9 DEF AllPaid
<1> QED BY <1>3, <1>4

(* Bookings that end take nothing, and the others keep all they had.        *)
LEMMA EndInFull ==
  ASSUME TypeOK, AllPaid(credits, bookings), NEW S \in SUBSET Booked,
         NEW status \in STATES \ CONSUMING_STATES, NEW decider
  PROVE  AllPaid(ReleaseCredits(CompoffRows(S)), MoveAll(S, status, decider))
<1> DEFINE cs == ReleaseCredits(CompoffRows(S))
           rows == MoveAll(S, status, decider)
<1> SUFFICES ASSUME NEW b \in BookingId PROVE PaidInFull(cs, b, rows[b])
  BY DEF AllPaid
<1>1. CASE b \in S
  <2>1. rows[b] = Moved(bookings[b], status, decider) /\ bookings[b] \in Booking
    BY <1>1 DEF MoveAll, Booked, TypeOK
  <2>2. rows[b].status = status
    BY <2>1 DEF Moved, Booking
  <2> QED BY <2>2 DEF PaidInFull
<1>2. CASE b \notin S
  <2>1. rows[b] = bookings[b]
    BY <1>2 DEF MoveAll
  <2>2. ASSUME NEW k \in CreditId, \E s \in CompoffRows(S) : k \in UsedBy(s)
        PROVE  /\ k \notin SpentOn(credits, b)
               /\ k \notin SpentOn(cs, b)
    <3>1. /\ cs[k] = Returned(credits[k]) /\ credits[k] \in Credit
          /\ credits[k].booking # b
      BY <1>2, <2>2 DEF ReleaseCredits, UsedBy, Claimed, TypeOK, CompoffRows
    <3>2. cs[k].status = "approved"
      BY <3>1 DEF Returned, Credit
    <3> QED BY <3>1, <3>2 DEF SpentOn
  <2>3. ASSUME NEW k \in CreditId, ~\E s \in CompoffRows(S) : k \in UsedBy(s)
        PROVE  cs[k] = credits[k]
    BY <2>3 DEF ReleaseCredits
  <2>4. SpentOn(cs, b) = SpentOn(credits, b)
    BY <2>2, <2>3 DEF SpentOn
  <2>5. \A k \in SpentOn(credits, b) : cs[k].days = credits[k].days
    BY <2>2, <2>3 DEF SpentOn
  <2> QED BY <2>1, <2>4, <2>5, PaidAsBefore DEF AllPaid
<1> QED BY <1>1, <1>2

(* Credits that nothing was spent from change, and no booking does.         *)
LEMMA FreeCreditsMove ==
  ASSUME NEW cs, NEW ds, NEW rows, AllPaid(cs, rows),
         \A k \in CreditId :
           \/ ds[k] = cs[k]
           \/ /\ cs[k] = NoRow \/ cs[k].status # "used"
              /\ ds[k].status # "used"
  PROVE  AllPaid(ds, rows)
<1> SUFFICES ASSUME NEW b \in BookingId PROVE PaidInFull(ds, b, rows[b])
  BY DEF AllPaid
<1>1. SpentOn(ds, b) = SpentOn(cs, b)
  BY DEF SpentOn
<1>2. \A k \in SpentOn(cs, b) : ds[k].days = cs[k].days
  BY DEF SpentOn
<1> QED BY <1>1, <1>2, PaidAsBefore DEF AllPaid

(* Bookings move on, or are flagged, and cost what they did.                *)
LEMMA MoveOnInFull ==
  ASSUME NEW cs, NEW rows, NEW rows1, AllPaid(cs, rows),
         \A b \in BookingId :
           \/ rows1[b] = rows[b]
           \/ rows1[b].category # "compoff"
           \/ /\ rows[b] # NoRow
              /\ rows1[b].category = rows[b].category
              /\ rows1[b].duration = rows[b].duration
              /\ rows[b].status \in CONSUMING_STATES
  PROVE  AllPaid(cs, rows1)
BY DEF AllPaid, PaidInFull

LEMMA PaidConverting ==
  ASSUME TypeOK, Follow(credits, bookings), AllPaid(credits, bookings),
         NEW admin \in Users, NEW b \in Booked, NEW c \in Offered,
         NEW n \in VALID_DURATIONS, NEW check \in BOOLEAN,
         ConvertAbsence(admin, b, c, n, check),
         bookings[b].status = "unrecognised"
  PROVE  AllPaid(credits', bookings')
<1> DEFINE row == Converted(bookings[b], c, n, admin)
<1>1. b \in BookingId /\ bookings[b] \in Booking
  BY DEF TypeOK, Booked
<1>2. /\ row \in Booking
      /\ row.category = c /\ row.user = bookings[b].user /\ row.duration = n
  BY <1>1, InputsAssumption DEF Converted, Booking, STATES
<1>3. /\ bookings' = [bookings EXCEPT ![b] = row]
      /\ credits' \in IF row.category = "compoff"
                      THEN ConsumeCredits(credits, row.user, row.duration, b, today)
                      ELSE {credits}
  BY <1>2 DEF ConvertAbsence
<1>4. credits \in Credits /\ bookings \in Bookings
  BY DEF TypeOK, Credits, Bookings
<1>5. bookings[b].status \notin CONSUMING_STATES
  BY DEF CONSUMING_STATES
<1> HIDE DEF row
<1> QED BY <1>1, <1>2, <1>3, <1>4, <1>5, EnterInFull

LEMMA PaidEnding ==
  ASSUME TypeOK, AllPaid(credits, bookings), NEW S \in SUBSET Booked,
         NEW status \in {"withdrawn", "rejected", "released"}, NEW decider,
         bookings' = MoveAll(S, status, decider),
         credits' = ReleaseCredits(CompoffRows(S))
  PROVE  AllPaid(credits', bookings')
BY EndInFull DEF STATES, CONSUMING_STATES

LEMMA PaidPersonStep ==
  ASSUME TypeOK, Follow(credits, bookings), AllPaid(credits, bookings), PersonStep
  PROVE  AllPaid(credits', bookings')
<1> DEFINE Goal == AllPaid(credits', bookings')
<1> SUFFICES Goal
  OBVIOUS
<1> USE InputsAssumption
<1>t. bookings \in Bookings /\ credits \in Credits
  BY DEF TypeOK, Bookings, Credits
<1>1. ASSUME NEW u \in Bookers, NEW d \in Day, NEW c \in Offered,
             NEW n \in VALID_DURATIONS, NEW reason \in BOOLEAN,
             create_or_replace(u, d, c, n, reason)
      PROVE  Goal
  <2> DEFINE old == OccupyingOn(u, d)
             freed == ReleaseCredits(CompoffRows(old))
             ended == MoveAll(old, "withdrawn", u)
             row == NewBooking(u, d, c, n, "pending", Nobody, FALSE)
  <2>1. PICK i \in BookingId :
          /\ IsNextRow(i, bookings)
          /\ bookings' = [ended EXCEPT ![i] = row]
          /\ credits' \in IF c = "compoff"
                          THEN ConsumeCredits(freed, u, n, i, today) ELSE {freed}
    BY <1>1 DEF create_or_replace
  <2>2. row \in Booking /\ row.category = c /\ row.user = u /\ row.duration = n
    BY NewBookingType DEF STATES, NewBooking
  <2>3. old \in SUBSET Booked
    BY DEF OccupyingOn
  <2>4. /\ Follow(freed, ended) /\ AllPaid(freed, ended)
        /\ freed \in Credits /\ ended \in Bookings
    <3>1. ended \in Bookings
      BY <1>t, <2>3, MoveAllType DEF STATES
    <3>2. freed \in Credits
      BY <1>t, ReleaseType
    <3>3. Follow(freed, ended)
      BY <2>3, EndAndReturn
    <3>4. AllPaid(freed, ended)
      BY <2>3, EndInFull DEF STATES, CONSUMING_STATES
    <3> QED BY <3>1, <3>2, <3>3, <3>4
  <2>5. ended[i] = NoRow
    BY <2>1, <2>3 DEF IsNextRow, MoveAll, Booked
  <2>6. credits' \in IF row.category = "compoff"
                     THEN ConsumeCredits(freed, row.user, row.duration, i, today)
                     ELSE {freed}
    BY <2>1, <2>2
  <2> HIDE DEF row, ended, freed
  <2>7. AllPaid(credits', [ended EXCEPT ![i] = row])
    BY <2>2, <2>4, <2>5, <2>6, EnterInFull
  <2> QED BY <2>1, <2>7
<1>2. ASSUME NEW b \in BookingId, withdraw(b) PROVE Goal
  <2>1. {b} \in SUBSET Booked
    BY <1>2 DEF withdraw
  <2> QED BY <1>2, <2>1, PaidEnding DEF withdraw
<1>3. ASSUME NEW u \in Bookers, NEW d \in Day, NEW n \in VALID_DURATIONS,
             claim(u, d, n)
      PROVE  Goal
  <2>1. PICK i \in CreditId :
          IsNextRow(i, credits) /\ credits' = [credits EXCEPT ![i] = NewClaim(u, d, n)]
    BY <1>3 DEF claim
  <2>2. NewClaim(u, d, n).status # "used"
    BY DEF NewClaim
  <2>3. \A k \in CreditId :
          \/ credits'[k] = credits[k]
          \/ /\ credits[k] = NoRow \/ credits[k].status # "used"
             /\ credits'[k].status # "used"
    BY <1>t, <2>1, <2>2 DEF Credits, IsNextRow
  <2>4. bookings' = bookings
    BY <1>3 DEF claim
  <2> QED BY <2>3, <2>4, FreeCreditsMove
<1> QED BY <1>1, <1>2, <1>3 DEF PersonStep

LEMMA PaidDeciderStep ==
  ASSUME TypeOK, Follow(credits, bookings), AllPaid(credits, bookings), DeciderStep
  PROVE  AllPaid(credits', bookings')
<1> DEFINE Goal == AllPaid(credits', bookings')
<1> SUFFICES Goal
  OBVIOUS
<1> USE InputsAssumption
<1>t. bookings \in Bookings /\ credits \in Credits
  BY DEF TypeOK, Bookings, Credits
<1>1. ASSUME NEW actor \in Users, NEW b \in BookingId,
             NEW target \in {"approved", "rejected"}, decide(actor, b, target)
      PROVE  Goal
  <2>1. b \in Booked /\ {b} \in SUBSET Booked
    BY <1>1 DEF decide
  <2>2. CASE target = "rejected"
    BY <1>1, <2>1, <2>2, PaidEnding DEF decide
  <2>3. CASE target = "approved"
    <3>1. /\ bookings' = MoveAll({b}, "approved", actor) /\ credits' = credits
          /\ check_transition(bookings[b].status, "approved")
      BY <1>1, <2>3 DEF decide
    <3>2. bookings[b] \in Booking /\ bookings[b] # NoRow
      BY <2>1 DEF Booked, TypeOK
    <3>3. bookings[b].status \in CONSUMING_STATES
      BY <3>1, <3>2
      DEF check_transition, ALLOWED_TRANSITIONS, STATES, Booking, CONSUMING_STATES
    <3>4. /\ Moved(bookings[b], "approved", actor).category = bookings[b].category
          /\ Moved(bookings[b], "approved", actor).duration = bookings[b].duration
      BY <3>2 DEF Moved, Booking
    <3>5. bookings'[b] = Moved(bookings[b], "approved", actor)
      BY <2>1, <3>1 DEF MoveAll, Booked
    <3>6. \A x \in BookingId \ {b} : bookings'[x] = bookings[x]
      BY <3>1 DEF MoveAll
    <3>7. ASSUME NEW x \in BookingId
          PROVE  \/ bookings'[x] = bookings[x]
                 \/ bookings'[x].category # "compoff"
                 \/ /\ bookings[x] # NoRow
                    /\ bookings'[x].category = bookings[x].category
                    /\ bookings'[x].duration = bookings[x].duration
                    /\ bookings[x].status \in CONSUMING_STATES
      BY <3>2, <3>3, <3>4, <3>5, <3>6
    <3>8. AllPaid(credits, bookings')
      BY <3>7, MoveOnInFull
    <3> QED BY <3>1, <3>8
  <2> QED BY <2>2, <2>3
<1>2. ASSUME NEW actor \in Users, NEW u \in Bookers, NEW d \in Day,
             flag_unrecognised(actor, u, d)
      PROVE  Goal
  <2> DEFINE row == NewBooking(u, d, NO_CATEGORY, FULL_DAY, "unrecognised",
                               actor, FALSE)
  <2>1. PICK i \in BookingId :
          bookings' = [bookings EXCEPT ![i] = row] /\ credits' = credits
    BY <1>2 DEF flag_unrecognised
  <2>2. row.category # "compoff"
    BY DEF NewBooking, NO_CATEGORY
  <2>3. \A b \in BookingId :
          bookings'[b] = bookings[b] \/ bookings'[b].category # "compoff"
    BY <1>t, <2>1, <2>2 DEF Bookings
  <2> QED BY <2>1, <2>3, MoveOnInFull
<1>3. ASSUME NEW actor \in Users, NEW k \in CreditId, NEW approve \in BOOLEAN,
             decide_claim(actor, k, approve)
      PROVE  Goal
  <2>1. credits[k] \in Credit /\ credits[k].status = "pending"
    BY <1>3 DEF decide_claim, Claimed, TypeOK
  <2>2. Decided(credits[k], approve).status # "used"
    BY <2>1 DEF Decided, Credit
  <2>3. /\ credits' = [credits EXCEPT ![k] = Decided(credits[k], approve)]
        /\ bookings' = bookings
    BY <1>3 DEF decide_claim
  <2>4. credits'[k].status # "used" /\ credits[k].status # "used"
    BY <1>t, <2>1, <2>2, <2>3 DEF Credits
  <2>5. \A j \in CreditId \ {k} : credits'[j] = credits[j]
    BY <1>t, <2>3 DEF Credits
  <2>6. ASSUME NEW j \in CreditId
        PROVE  \/ credits'[j] = credits[j]
               \/ /\ credits[j] = NoRow \/ credits[j].status # "used"
                  /\ credits'[j].status # "used"
    BY <2>4, <2>5
  <2>7. AllPaid(credits', bookings)
    BY <2>6, FreeCreditsMove
  <2> QED BY <2>3, <2>7
<1> QED BY <1>1, <1>2, <1>3 DEF DeciderStep

LEMMA PaidAdminStep ==
  ASSUME TypeOK, Follow(credits, bookings), AllPaid(credits, bookings), AdminStep
  PROVE  AllPaid(credits', bookings')
<1> DEFINE Goal == AllPaid(credits', bookings')
<1> SUFFICES Goal
  OBVIOUS
<1> USE InputsAssumption
<1>t. bookings \in Bookings /\ credits \in Credits
  BY DEF TypeOK, Bookings, Credits
<1>1. ASSUME NEW admin \in Users, NEW u \in Bookers, NEW d \in Day,
             NEW c \in Offered, NEW n \in VALID_DURATIONS, NEW reason \in BOOLEAN,
             backfill(admin, u, d, c, n, reason)
      PROVE  Goal
  <2>1. ASSUME NEW b \in OccupyingOn(u, d), ConvertAbsence(admin, b, c, n, FALSE)
        PROVE  Goal
    <3>1. b \in Booked /\ bookings[b].status = "unrecognised"
      BY <1>1, <2>1 DEF backfill, OccupyingOn
    <3> QED BY <2>1, <3>1, PaidConverting
  <2>2. ASSUME NEW i \in BookingId, IsNextRow(i, bookings),
               bookings' = [bookings EXCEPT
                 ![i] = NewBooking(u, d, c, n, "approved", admin, TRUE)],
               credits' \in IF c = "compoff"
                            THEN ConsumeCredits(credits, u, n, i, today)
                            ELSE {credits}
        PROVE  Goal
    <3> DEFINE row == NewBooking(u, d, c, n, "approved", admin, TRUE)
    <3>1. row \in Booking /\ row.category = c /\ row.user = u /\ row.duration = n
      BY NewBookingType DEF STATES, NewBooking
    <3>2. credits' \in IF row.category = "compoff"
                       THEN ConsumeCredits(credits, row.user, row.duration, i, today)
                       ELSE {credits}
      BY <2>2, <3>1
    <3>3. bookings' = [bookings EXCEPT ![i] = row] /\ bookings[i] = NoRow
      BY <2>2 DEF IsNextRow
    <3> HIDE DEF row
    <3> QED BY <1>t, <3>1, <3>2, <3>3, EnterInFull
  <2> QED BY <1>1, <2>1, <2>2 DEF backfill
<1>2. ASSUME NEW admin \in Users, NEW b \in BookingId, undo_backfill(admin, b)
      PROVE  Goal
  <2>1. {b} \in SUBSET Booked
    BY <1>2 DEF undo_backfill
  <2> QED BY <1>2, <2>1, PaidEnding DEF undo_backfill
<1>3. ASSUME NEW admin \in Users, NEW b \in BookingId, NEW c \in Offered,
             NEW n \in VALID_DURATIONS, NEW reason \in BOOLEAN,
             convert_absence(admin, b, c, n, reason)
      PROVE  Goal
  <2>1. /\ b \in Booked /\ bookings[b].status = "unrecognised"
        /\ ConvertAbsence(admin, b, c, n, TRUE)
    BY <1>3 DEF convert_absence, check_absence_conversion
  <2> QED BY <2>1, PaidConverting
<1>4. ASSUME NEW admin \in Users, NEW d \in HolidayDays,
             NEW l \in Locations \cup {Everywhere}, declare_holiday(admin, d, l)
      PROVE  Goal
  BY <1>4, PaidEnding DEF declare_holiday, release_for_holiday, ConsumingOn
<1>5. ASSUME NEW admin \in Users, NEW h \in holidays, NEW d \in HolidayDays,
             edit_holiday(admin, h, d)
      PROVE  Goal
  BY <1>5, PaidEnding DEF edit_holiday, release_for_holiday, ConsumingOn
<1>6. ASSUME NEW admin \in Users, NEW h \in holidays, remove_holiday(admin, h)
      PROVE  Goal
  BY <1>6 DEF remove_holiday
<1> QED BY <1>1, <1>2, <1>3, <1>4, <1>5, <1>6 DEF AdminStep

LEMMA PaidTasks ==
  ASSUME TypeOK, AllPaid(credits, bookings), lapse_expired \/ sweep
  PROVE  AllPaid(credits', bookings')
<1>1. CASE lapse_expired
  <2>1. ASSUME NEW k \in Expired
        PROVE  /\ credits'[k].status # "used" /\ credits[k].status # "used"
    <3>1. /\ credits[k] \in Credit /\ k \in CreditId
          /\ credits[k].status = "approved"
          /\ credits'[k] = [credits[k] EXCEPT !.status = "lapsed"]
      BY <1>1 DEF lapse_expired, Expired, Claimed, TypeOK
    <3> QED BY <3>1 DEF Credit
  <2>2. \A k \in CreditId \ Expired : credits'[k] = credits[k]
    BY <1>1 DEF lapse_expired
  <2>3. bookings' = bookings
    BY <1>1 DEF lapse_expired
  <2> QED BY <2>1, <2>2, <2>3, FreeCreditsMove
<1>2. CASE sweep
  <2>1. credits' = credits
    BY <1>2 DEF sweep
  <2>2. ASSUME NEW b \in PendingBefore(today)
        PROVE  /\ bookings[b] # NoRow
               /\ bookings'[b].category = bookings[b].category
               /\ bookings'[b].duration = bookings[b].duration
               /\ bookings[b].status \in CONSUMING_STATES
    <3>1. /\ bookings[b] \in Booking /\ bookings[b] # NoRow
          /\ bookings[b].status = "pending"
          /\ bookings'[b] = [bookings[b] EXCEPT !.status = "approved"]
      BY <1>2 DEF sweep, PendingBefore, Booked, TypeOK
    <3> QED BY <3>1 DEF Booking, CONSUMING_STATES
  <2>3. \A b \in BookingId \ PendingBefore(today) : bookings'[b] = bookings[b]
    BY <1>2 DEF sweep
  <2> QED BY <2>1, <2>2, <2>3, MoveOnInFull
<1> QED BY <1>1, <1>2

(* A comp-off booking that takes its day is paid for its whole length or    *)
(* not at all, and no operation pays a part of it or takes a part back.     *)
THEOREM PaidOrNot == Spec => []NeverHalfPaid
<1> DEFINE Inv == TypeOK /\ Follow(credits, bookings) /\ AllPaid(credits, bookings)
<1>1. Init => Inv
  <2>1. Init => Follow(credits, bookings) /\ AllPaid(credits, bookings)
    BY DEF Init, Follow, AllPaid, PaidInFull
  <2> QED BY <2>1, TypeInit
<1>2. Inv /\ [Next]_vars => Inv'
  <2> SUFFICES ASSUME TypeOK, Follow(credits, bookings), AllPaid(credits, bookings),
                      [Next]_vars
               PROVE  Inv'
    OBVIOUS
  <2>1. TypeOK' /\ Follow(credits, bookings)'
    BY TypeNext, FollowsNext
  <2>2. AllPaid(credits', bookings')
    <3>1. CASE NextDay \/ UNCHANGED vars
      BY <3>1 DEF NextDay, vars
    <3> QED
      BY <3>1, PaidPersonStep, PaidDeciderStep, PaidAdminStep, PaidTasks DEF Next
  <2> QED BY <2>1, <2>2 DEF AllPaid, PaidInFull, SpentOn
<1>3. Inv => NeverHalfPaid
  <2> SUFFICES ASSUME Inv, NEW b \in CompoffRows(Booked), Consuming(b)
               PROVE  \/ UsedBy(b) = {}
                      \/ DaysOf(credits, UsedBy(b)) >= bookings[b].duration
    BY DEF NeverHalfPaid
  <2>1. UsedBy(b) = SpentOn(credits, b)
    BY DEF UsedBy, SpentOn, Claimed
  <2>2. b \in BookingId /\ bookings[b] # NoRow /\ bookings[b].category = "compoff"
    BY DEF CompoffRows, Booked
  <2> QED BY <2>1, <2>2 DEF AllPaid, PaidInFull, Consuming
<1> QED BY <1>1, <1>2, <1>3, PTL DEF Spec
=============================================================================
