SPECIFICATION ServerSpec
CONSTANTS
  Everyone = Everyone
  Everywhere = Everywhere
  Nobody = Nobody
  NoRow = NoRow
  emp = emp
  adm = adm
  north = north
  south = south
  Users = {emp, adm}
  Role <- MCRole
  LeadOf <- MCLeadOf
  Locations = {north}
  LocationOf <- MCOneOffice
  Bookers = {emp}
  MaxDay = 2
  Weekend = {}
  DaysPerPeriod = 4
  MonthsPerYear = 2
  MaxBookings = 2
  MaxCredits = 0
  Grants <- MCGrants
  CarryForwardPolicy = "rolling"
  NoCarryForward = {}
  AllowExcess = FALSE
  AutoApproveAtLock = TRUE
  MaxFutureDays = 2
  CompoffValidDays = 1
  Offered = {"wfh"}
  HolidayDays = {}
  t1 = t1
  t2 = t2
  worker = worker
  Threads = {t1, t2}
  Worker = worker
  Operations = {"create_or_replace", "withdraw", "decide"}
  MaxInFlight = 2
  MayStop = FALSE
  ClockMayTurn = FALSE
PROPERTIES
  LegalTransitions
CHECK_DEADLOCK FALSE
