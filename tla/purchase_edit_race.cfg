SPECIFICATION Spec
CONSTANTS
  Workers = {w1, w2}
  Handlers <- Editing
  Ordered = {1, 2}
  Counted = {2}
  OpeningQty = 0
  MaxUsed = 0
  MaxRequests = 3
  StartStatuses = {"active"}
  NoCount = NoCount
  NotLoaded = NotLoaded
SYMMETRY Symmetry
INVARIANT CommittedIsInStock
CHECK_DEADLOCK FALSE
