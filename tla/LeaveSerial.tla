------------------------------ MODULE LeaveSerial ------------------------------
(***************************************************************************)
(* LeaveRequests implements LeaveCalendar when requests do not overlap.    *)
(*                                                                         *)
(* LeaveCalendar moves in one step where a handler makes several calls, so *)
(* it is shown the tables as they last stood between two requests.         *)
(***************************************************************************)
EXTENDS LeaveRequests

VARIABLE seen   \* the tables when last no request was in flight

Seen == [today |-> today, bookings |-> bookings, credits |-> credits,
         holidays |-> holidays]

SerialInit == ServerInit /\ seen = Seen

SerialNext ==
  /\ ServerNext
  /\ seen' = IF InFlight' = {} THEN Seen' ELSE seen

SerialSpec == SerialInit /\ [][SerialNext]_<<serverVars, seen>>

Calendar ==
  INSTANCE LeaveCalendar WITH
    today <- seen.today, bookings <- seen.bookings,
    credits <- seen.credits, holidays <- seen.holidays

(* With one request at a time the calls of a handler, taken together, are   *)
(* the one step that LeaveCalendar makes of it, a refusal half way          *)
(* included; what is proved and checked there then holds of the tables      *)
(* between requests.                                                        *)
ServesAsOneStep == Calendar!Spec
=============================================================================
