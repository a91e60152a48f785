---------------------------- MODULE MCLeaveCalendar ----------------------------
(***************************************************************************)
(* Small instances of LeaveCalendar: one member of staff and the admin who *)
(* decides for them, in one office or in two.                              *)
(***************************************************************************)
EXTENDS LeaveReplacement, TLC

CONSTANTS emp, adm, north, south

MCRole == (emp :> "member") @@ (adm :> "admin")
MCLeadOf == (emp :> adm) @@ (adm :> Nobody)
(* A lead's leave goes to the admin; the admin has a lead as well. *)
MCLeadRole == (emp :> "lead") @@ (adm :> "admin")
MCEachOther == (emp :> adm) @@ (adm :> emp)
MCOneOffice == (emp :> north) @@ (adm :> north)
MCTwoOffices == (emp :> north) @@ (adm :> south)

DefaultGrant(period, category, days) ==
  [period |-> period, category |-> category, days |-> days, user |-> Everyone]

(* One full day of each, or half a day; the default carries to later months. *)
MCGrants == {DefaultGrant(0, "casual", 2), DefaultGrant(0, "wfh", 2)}
MCLeaveGrants == {DefaultGrant(0, "casual", 1), DefaultGrant(0, "sick", 1)}
=============================================================================
