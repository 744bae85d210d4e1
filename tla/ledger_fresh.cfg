SPECIFICATION Spec
CONSTANTS
  Items = {i1}
  Reqs = {r1, r2, r3}
  Users = {staff}
  Owners = {}
  Keys = {k1}
  Qtys = {0, 2}
  OpeningQty = 1
  Handlers <- LockFirst
  Adjustments <- Unforced
  AuditsHappen = FALSE
  NoKey = NoKey
  NoItem = NoItem
  NoReq = NoReq
  NoJob = NoJob
  NoMove = NoMove
  NotLoaded = NotLoaded
SYMMETRY Symmetry
INVARIANTS LedgerBalanced NoConflictingEdits
PROPERTY ImplementsBook
CHECK_DEADLOCK FALSE
