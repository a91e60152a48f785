---------------------------- MODULE MCLeaveRequests ----------------------------
(***************************************************************************)
(* Small instances of LeaveRequests: the people and grants of              *)
(* MCLeaveCalendar, two request threads and a worker.                      *)
(***************************************************************************)
EXTENDS LeaveRequests, MCLeaveCalendar

CONSTANTS t1, t2, worker

AllOperations ==
  {"create_or_replace", "withdraw", "decide", "flag", "backfill", "undo",
   "convert", "holiday", "claim", "decide_claim", "sweep", "lapse"}
=============================================================================
