SPECIFICATION Spec
CONSTANTS
  Everyone = Everyone
  Everywhere = Everywhere
  Nobody = Nobody
  NoRow = NoRow
  emp = emp
  adm = adm
  north = north
  south = south
  Users = {emp, adm}
  Role <- MCRole
  LeadOf <- MCLeadOf
  Locations = {north}
  LocationOf <- MCOneOffice
  Bookers = {emp}
  MaxDay = 3
  Weekend = {}
  DaysPerPeriod = 2
  MonthsPerYear = 2
  MaxBookings = 2
  MaxCredits = 0
  Grants <- MCLeaveGrants
  CarryForwardPolicy = "rolling"
  NoCarryForward = {"sick", "wfh"}
  AllowExcess = FALSE
  AutoApproveAtLock = TRUE
  MaxFutureDays = 2
  CompoffValidDays = 1
  Offered = {"casual", "sick", "additional"}
  HolidayDays = {1, 2}
INVARIANTS
  SpentInOrderFits
  ReplaceAsRebook
