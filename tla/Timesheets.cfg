SPECIFICATION TimesheetSpec
CONSTANTS
  emp = emp
  p1 = p1
  learning = learning
  People = {emp}
  Projects = {p1}
  Activities = {learning}
  Savers = {s1, s2}
  MaxDay = 6
  DaysPerWeek = 2
  GraceDays = 1
  RecentWeeks = 2
  MaxHours = 3
  PortalStart = 0
  JoinedOn <- MCJoined
  LeftOn <- MCLeft
  MaxOutage = 1
  LogDays = {0}
  SignWeeks = {0}
  MaxInFlight = 2
  Submissions <- MCSubmissions
  NoLine = 0
  ProjectChanges <- MCChanges
INVARIANTS
  NoWeekForgotten
  SavedAsSubmitted
PROPERTIES
  RecordsStand
