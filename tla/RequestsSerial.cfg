SPECIFICATION SerialSpec
CONSTANTS
  Everyone = Everyone
  Everywhere = Everywhere
  Nobody = Nobody
  NoRow = NoRow
  emp = emp
  adm = adm
  north = north
  south = south
  Users = {emp, adm}
  Role <- MCRole
  LeadOf <- MCLeadOf
  Locations = {north}
  LocationOf <- MCOneOffice
  Bookers = {emp}
  MaxDay = 2
  Weekend = {0}
  DaysPerPeriod = 4
  MonthsPerYear = 2
  MaxBookings = 2
  MaxCredits = 1
  Grants <- MCGrants
  CarryForwardPolicy = "rolling"
  NoCarryForward = {}
  AllowExcess = FALSE
  AutoApproveAtLock = TRUE
  MaxFutureDays = 2
  CompoffValidDays = 1
  Offered = {"compoff"}
  HolidayDays = {1}
  t1 = t1
  t2 = t2
  worker = worker
  Threads = {t1}
  Worker = worker
  Operations <- AllOperations
  MaxInFlight = 1
  MayStop = FALSE
  ClockMayTurn = FALSE
PROPERTIES
  ServesAsOneStep
CHECK_DEADLOCK FALSE
