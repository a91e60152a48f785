-------------------------------- MODULE Pipeline --------------------------------
(* The stages of a deal and of its company, as domain/crm/pipeline.py names *)
(* them, for the modules that move either.                                   *)
EXTENDS Integers

CONSTANT None  \* a null column, no record

OPEN == {"discovery", "qualification", "proposal", "negotiation"}
CLOSED == {"closed_won", "closed_lost"}
OPENABLE == {"qualified", "deal_open", "customer", "partner"}
ON_DEALS == {"deal_open", "customer", "partner"}
MANUAL_LEAD_STAGES == {"new", "contacted", "nurturing", "qualified", "disqualified"}
PROJECT_STAGES == {"proposal", "negotiation"}

default_probability(stage) ==
  CASE stage = "discovery" -> 10 [] stage = "qualification" -> 25
    [] stage = "proposal" -> 50 [] stage = "negotiation" -> 75
    [] stage = "closed_won" -> 100 [] stage = "closed_lost" -> 0

(* What a company becomes when a deal opens on it.                           *)
opens_at(stage) == IF stage = "qualified" THEN "deal_open" ELSE stage
=============================================================================
