-------------------------------- MODULE MCTasks --------------------------------
(* Constants for checking Tasks: either a CRM task that recurs, edited by  *)
(* an administrator and worked by a viewer, or a private one handed about. *)
EXTENDS Tasks, TLC

CONSTANTS ann, bob, cid

MCRole == [u \in Users |-> CASE u = ann -> "admin" [] u = bob -> "viewer" [] OTHER -> "none"]
MCCreations ==
  {[creator |-> ann, crm |-> FALSE, assignee |-> ann],
   [creator |-> ann, crm |-> TRUE, assignee |-> bob]}
Sent(crm, values, expects) == [crm |-> crm, values |-> values, expects |-> expects]
MCPatches ==
  {Sent(FALSE, [assignee |-> bob], FALSE), Sent(FALSE, [assignee |-> cid], FALSE),
   Sent(TRUE, [due |-> 1], FALSE), Sent(TRUE, [recurs |-> TRUE], FALSE),
   Sent(TRUE, [due |-> 0, status |-> "cancelled"], TRUE),
   Sent(TRUE, [due |-> 0, status |-> "cancelled"], FALSE)}
MCSymmetry == Permutations(Requests)
=============================================================================
