SPECIFICATION Spec
CONSTANTS
  Workers = {w1}
  Handlers <- Cancelling
  Ordered = {1}
  Counted = {1}
  OpeningQty = 0
  MaxUsed = 0
  MaxRequests = 4
  StartStatuses = {"active"}
  NoCount = NoCount
  NotLoaded = NotLoaded
SYMMETRY Symmetry
INVARIANT CancelledHoldsNoStock
CHECK_DEADLOCK FALSE
