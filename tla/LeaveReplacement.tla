--------------------------- MODULE LeaveReplacement ---------------------------
(***************************************************************************)
(* Changing a booking compared with withdrawing it and booking afresh.     *)
(***************************************************************************)
EXTENDS LeaveCalendar

(* The tables as they would stand had the person withdrawn what they have   *)
(* on day d.                                                                *)
Without(u, d) ==
  INSTANCE LeaveCalendar WITH
    bookings <- MoveAll(OccupyingOn(u, d), "withdrawn", u),
    credits  <- ReleaseCredits(CompoffRows(OccupyingOn(u, d)))

(* Changing what is charged to an allowance is judged as withdrawing it and  *)
(* booking again would be (services/bookings.py:74-76): a change is neither  *)
(* refused for want of what it hands back, nor allowed on the strength of    *)
(* what it cannot use.  Of comp-off this is not so: what a change is granted *)
(* is the old duration, and not the credits that come free.                  *)
ReplaceAsRebook ==
  \A u \in Bookers, d \in Day, c \in Offered \ {"compoff"}, n \in VALID_DURATIONS :
    (\E b \in OccupyingOn(u, d) : Consuming(b) /\ ~is_locked(d, today)) =>
      (AcceptsBooking(u, d, c, n, TRUE, OccupyingOn(u, d), NonWorking(u, d), today)
         <=> Without(u, d)!AcceptsBooking(u, d, c, n, TRUE, {}, NonWorking(u, d),
                                          today))
=============================================================================
