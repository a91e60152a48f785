------------------------------ MODULE MCTimesheets ------------------------------
(* Constants for checking Timesheets. *)
EXTENDS Timesheets

CONSTANTS emp, p1, learning

MCSubmissions ==
  {<<>>, [k \in {p1} |-> 1], [k \in {p1, learning} |-> IF k = p1 THEN 2 ELSE 1]}
MCChanges ==
  {[archived |-> FALSE, tentative |-> FALSE], [archived |-> TRUE, tentative |-> FALSE],
   [archived |-> FALSE, tentative |-> TRUE]}
MCJoined == [u \in People |-> 0]
MCLeft == [u \in People |-> MaxDay]
=============================================================================
