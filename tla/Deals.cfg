SPECIFICATION MCSpec
CONSTANTS
  c1 = c1
  c2 = c2
  d1 = d1
  d2 = d2
  p1 = p1
  p2 = p2
  s1 = s1
  s2 = s2
  None = None
  Companies = {c1, c2}
  DealIds = {d1, d2}
  Projects = {p1, p2}
  Sessions = {s1, s2}
  Targets = {"negotiation", "proposal", "closed_won", "closed_lost"}
  OnLoss = {"nurturing"}
  HandStages = {"disqualified"}
  Edits = {60}
  Stamping = {FALSE}
  MaxWrites = 3
  Members = {"ann"}
  Importers = {"imp", "ann"}
  Runs = {s1, s2}
  MaxPlans = 2
  MaxHand = 1
  HandChanges <- MCHand
  Calls = {s1, s2}
  MaxDryRuns = 2
  MaxCalls = 2
  Chunk = 2
  MaxMeanwhile = 1
SYMMETRY Symmetry
INVARIANTS
  ProjectFollowsDeal
  ImportSettles
  CsvSettles
PROPERTIES CompanyFollowsDeals LossClosesTasks HandArchiveStands
CHECK_DEADLOCK FALSE
