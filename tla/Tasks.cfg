SPECIFICATION TaskSpec
CONSTANTS
  ann = ann
  bob = bob
  cid = cid
  Users = {ann, bob, cid}
  CrmRole <- MCRole
  Requests = {r1, r2}
  MaxTask = 3
  MaxCreated = 1
  MaxWrites = 5
  MaxDue = 2
  Patches <- MCPatches
  Creations <- MCCreations
  Nobody = Nobody
  NoTask = NoTask
  Purged = Purged
SYMMETRY MCSymmetry
INVARIANTS
  OneSuccessor
  TakenUpByAssignee
CHECK_DEADLOCK FALSE
