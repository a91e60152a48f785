SPECIFICATION Spec
CONSTANTS
  Everyone = Everyone
  Everywhere = Everywhere
  Nobody = Nobody
  NoRow = NoRow
  emp = emp
  adm = adm
  north = north
  south = south
  Users = {emp, adm}
  Role <- MCRole
  LeadOf <- MCLeadOf
  Locations = {north}
  LocationOf <- MCOneOffice
  Bookers = {emp}
  MaxDay = 3
  Weekend = {0, 1}
  DaysPerPeriod = 4
  MonthsPerYear = 2
  MaxBookings = 2
  MaxCredits = 2
  Grants <- MCGrants
  CarryForwardPolicy = "rolling"
  NoCarryForward = {}
  AllowExcess = FALSE
  AutoApproveAtLock = TRUE
  MaxFutureDays = 2
  CompoffValidDays = 1
  Offered = {"compoff"}
  HolidayDays = {}
INVARIANTS
  NeverHalfPaid
CHECK_DEADLOCK FALSE
