-------------------------------- MODULE Ledger --------------------------------
(***************************************************************************)
(* The balance ledger.  A balance is derived, never stored: it is computed *)
(* from what was granted and from the bookings that consume it.            *)
(*                                                                         *)
(*   grant       [period, category, days, user]; user = Everyone is the    *)
(*               organisation default                                      *)
(*   consumption [id, period, category, duration]                          *)
(*                                                                         *)
(* A period is a month, numbered from 0.  Days are counted in half days.   *)
(***************************************************************************)
EXTENDS Integers, FiniteSetsExt

CONSTANTS
  Everyone,         \* the owner of an organisation default
  MonthsPerYear     \* 12 in the code; the runs use a shorter year

ASSUME MonthsPerYearAssumption == MonthsPerYear \in Nat \ {0}

ROLLING == "rolling"
POOLING == "pooling"

year_start(period) == (period \div MonthsPerYear) * MonthsPerYear

is_configured(grants, period, category) ==
  \E g \in grants : g.category = category /\ g.period <= period

(* A personal grant holds for its own month; otherwise the latest           *)
(* organisation default up to the month; otherwise nothing.                 *)
resolve_allowance(grants, period, category) ==
  LET own == {g \in grants : /\ g.user # Everyone
                             /\ g.period = period
                             /\ g.category = category}
      defaults == {g \in grants : /\ g.user = Everyone
                                  /\ g.period <= period
                                  /\ g.category = category}
      latest == CHOOSE g \in defaults :
                  \A h \in defaults : h.period <= g.period
  IN IF own # {} THEN (CHOOSE g \in own : TRUE).days
     ELSE IF defaults # {} THEN latest.days
     ELSE 0

consumed(entries, period, category) ==
  MapThenSumSet(LAMBDA e : e.duration,
                {e \in entries : e.period = period /\ e.category = category})

earliest_period(grants, entries, default) ==
  LET periods == {g.period : g \in grants} \cup {e.period : e \in entries}
  IN IF periods = {} THEN default ELSE Min(periods)

opening_balance(grants, entries, period, category, policy, tracking_start) ==
  LET start == IF policy = POOLING
               THEN Max({tracking_start, year_start(period)})
               ELSE tracking_start
  IN MapThenSumSet(
       LAMBDA q : resolve_allowance(grants, q, category)
                  - consumed(entries, q, category),
       start .. (period - 1))

balance_for(grants, entries, period, category, policy, carry_forward) ==
  LET start     == earliest_period(grants, entries, period)
      opening   == IF carry_forward
                   THEN opening_balance(grants, entries, period, category,
                                        policy, start)
                   ELSE 0
      allowance == resolve_allowance(grants, period, category)
      used      == consumed(entries, period, category)
  IN [opening    |-> opening,
      allowance  |-> allowance,
      used       |-> used,
      remaining  |-> opening + allowance - used,
      configured |-> is_configured(grants, period, category)]
=============================================================================
