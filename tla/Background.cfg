SPECIFICATION MCSpec
CONSTANTS
  Candidates = {c1, c2}
  Requests = {r1, r2}
  MaxFaults = 1
  N = 2
  Labels = {"l1", "l2"}
  LabelLists <- MCLabelLists
  Found <- MCFound
  MaxEvents = 2
  MaxRelabels = 1
  MaxDeaths = 1
  Workspaces <- MCWorkspaces
  BoxCounts <- MCBoxCounts
  MaxStarts = 3
  MaxErrors = 1
  CtcRequests = {r1, r2}
  WeekLen = 3
  MonthLen = 6
  Threshold = 60
  Target = 75
  PortalStart = 0
  TermsDays = 3
  LastDay = 7
  MaxChanges = 2
  CtcStarts = {4, 7}
  CtcEnds = {0}
  Raises <- MCRaises
INVARIANTS
  FiguresAgree
  PipelineApart
  SavedOnceOrGivenBack
  Mirrored
  OneSyncShown
PROPERTIES
  PastFiguresStand
  RecordingsErased
  CatchesUp
CHECK_DEADLOCK FALSE
