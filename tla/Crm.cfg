SPECIFICATION MCSpec
CONSTANTS
  LinkTasks = {t1, t2}
  Records = {1, 2, 3}
  InTrash = {3}
  Connections = {s1, s2}
  Links0 <- MCLinks
  Approvals = {s1, s2}
  MaxVersion = 2
  MaxItems = 2
  MaxMishaps = 1
SYMMETRY Symmetry
INVARIANTS
  CrmTaskKeepsLink
  OnlyKnownDeadlocks
  ApprovedIsMadeOnce
PROPERTIES
  ChangedAsShown
  DecidedStaysDecided
CHECK_DEADLOCK FALSE
