------------------------------ MODULE LeaveRules ------------------------------
(***************************************************************************)
(* The rules of the leave calendar as they stand in the domain layer:      *)
(* booking states and categories, the lock window, what may be booked      *)
(* when, who decides, and how comp-off credits are chosen.  Every operator *)
(* is a function of its arguments, as in the source; no state is read.     *)
(*                                                                         *)
(* A day is a natural number, a duration a number of HALF days, so that    *)
(* the half-day arithmetic of the code is integer arithmetic here.  A      *)
(* refusal message is abstracted to the rule holding or not.               *)
(***************************************************************************)
EXTENDS Integers, FiniteSetsExt

HALF_DAY == 1
FULL_DAY == 2
VALID_DURATIONS == {HALF_DAY, FULL_DAY}

CATEGORIES == {"wfh", "casual", "sick", "compoff", "additional"}
ALLOWANCE_CATEGORIES == {"wfh", "casual", "sick"}
NO_CATEGORY == "none"

REASON_REQUIRED == {"casual", "sick", "additional"}
ALLOWS_SAME_DAY == {"wfh", "sick", "additional"}
ALLOWS_FUTURE == {"wfh", "casual", "compoff", "additional"}

STATES ==
  {"pending", "approved", "rejected", "withdrawn", "released", "unrecognised"}
CONSUMING_STATES == {"pending", "approved"}
OCCUPYING_STATES == {"pending", "approved", "unrecognised"}
TERMINAL_STATES == {"rejected", "withdrawn", "released"}

ALLOWED_TRANSITIONS ==
  [s \in STATES |->
     CASE s = "pending"  -> {"approved", "rejected", "withdrawn", "released"}
       [] s = "approved" -> {"withdrawn", "released"}
       [] OTHER          -> {}]

check_transition(current, target) == target \in ALLOWED_TRANSITIONS[current]

-----------------------------------------------------------------------------
(* When a day may be booked *)

is_locked(day, today) == day < today

check_reason(category, reason) == category \in REASON_REQUIRED => reason

check_timing(day, category, today, max_future_days) ==
  /\ ~is_locked(day, today)
  /\ day = today => category \in ALLOWS_SAME_DAY
  /\ day > today => /\ category \in ALLOWS_FUTURE
                    /\ day - today <= max_future_days

(* Additional leave is the fallback for sick leave today, for casual leave  *)
(* on a later day.                                                          *)
additional_stands_in_for(day, today) ==
  IF day = today THEN "sick" ELSE "casual"

check_additional(duration, fallback_remaining) == fallback_remaining < duration

(* Mutant: anything may be booked while something is left. *)
check_allowance_not_empty(remaining, duration, allow_excess, configured) ==
  allow_excess \/ (configured /\ remaining > 0)

check_allowance(remaining, duration, allow_excess, configured) ==
  allow_excess \/ (configured /\ duration <= remaining)

(* A backfill keeps the calendar and the reason, and drops the allowance.   *)
check_backfill(day, category, reason, non_working, today) ==
  /\ category \in CATEGORIES
  /\ check_reason(category, reason)
  /\ ~non_working
  /\ day < today

check_absence_conversion(status, day, category, reason, non_working, today) ==
  /\ status = "unrecognised"
  /\ check_backfill(day, category, reason, non_working, today)

validate_booking(day, category, duration, reason, non_working, remaining, today, max_future_days, allow_excess, configured) ==
  /\ category \in CATEGORIES
  /\ duration \in VALID_DURATIONS
  /\ check_reason(category, reason)
  /\ ~non_working
  /\ check_timing(day, category, today, max_future_days)
  /\ check_allowance(remaining, duration, allow_excess, configured)

-----------------------------------------------------------------------------
(* Who decides *)

(* Mutant: the self-approval bar is left out. *)
can_decide_oneself(actor, subject) ==
  /\ actor.active
  /\ \/ actor.role = "admin"
     \/ actor.role \in {"lead", "manager"} /\ subject.lead = actor.id

(* The actor and the subject are given as records [id, role, lead, active]. *)
can_decide(actor, subject) ==
  /\ actor.active
  /\ actor.id # subject.id
  /\ \/ actor.role = "admin"
     \/ actor.role \in {"lead", "manager"} /\ subject.lead = actor.id

-----------------------------------------------------------------------------
(* Comp-off credits: [user, worked_on, days, status, expires, booking] *)

CREDIT_STATES == {"pending", "approved", "rejected", "used", "lapsed"}
(* The states that hold the one claim a person may have for a worked day.   *)
CLAIMING_STATES == {"pending", "approved", "used"}

check_claim(worked_on, today, non_working, days) ==
  worked_on <= today /\ non_working /\ days \in VALID_DURATIONS

expiry(approved_on, valid_days) == approved_on + valid_days

NoExpiry == -1    \* expires_on is NULL until the claim is approved

usable(credit, on) ==
  /\ credit.status = "approved"
  /\ credit.expires = NoExpiry \/ on <= credit.expires

DaysOf(credits, S) == SumFunction([k \in S |-> credits[k].days])

(* Listed by the day worked, then sorted by expiry (the sort is stable).    *)
NoLaterThan(a, b) ==
  \/ a.expires < b.expires
  \/ a.expires = b.expires /\ a.worked_on <= b.worked_on

(* The choices the greedy loop can make over the credits S of one person:   *)
(* a shortest prefix of the order that covers `needed`; none when short.    *)
pick_credits(credits, S, needed, on) ==
  LET open == {k \in S : usable(credits[k], on)}
  IN {C \in SUBSET open :
        \E last \in C :
          /\ DaysOf(credits, C) >= needed
          /\ DaysOf(credits, C \ {last}) < needed
          /\ \A k \in C : NoLaterThan(credits[k], credits[last])
          /\ \A k \in open \ C : NoLaterThan(credits[last], credits[k])}
=============================================================================
