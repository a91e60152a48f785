SPECIFICATION FairSpec
CONSTANTS
  Everyone = Everyone
  Everywhere = Everywhere
  Nobody = Nobody
  NoRow = NoRow
  emp = emp
  adm = adm
  north = north
  south = south
  Users = {emp, adm}
  Role <- MCLeadRole
  LeadOf <- MCEachOther
  Locations = {north, south}
  LocationOf <- MCTwoOffices
  Bookers = {adm}
  MaxDay = 2
  Weekend = {0}
  DaysPerPeriod = 4
  MonthsPerYear = 2
  MaxBookings = 2
  MaxCredits = 1
  Grants <- MCGrants
  CarryForwardPolicy = "rolling"
  NoCarryForward = {}
  AllowExcess = FALSE
  AutoApproveAtLock = TRUE
  MaxFutureDays = 2
  CompoffValidDays = 1
  Offered = {"casual", "compoff"}
  HolidayDays = {1}
INVARIANTS
  TypeOK
  CreditsFollowBookings
  NoLeaveOnDayOff
  DecidedByApprover
PROPERTIES
  LegalTransitions
  CreditsRunOut
