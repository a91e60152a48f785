----------------------------- MODULE MCLeaveSerial -----------------------------
(***************************************************************************)
(* Small instances of LeaveSerial: one thread, one request at a time.      *)
(***************************************************************************)
EXTENDS LeaveSerial, MCLeaveRequests
=============================================================================
