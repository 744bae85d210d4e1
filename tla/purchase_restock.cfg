SPECIFICATION Spec
CONSTANTS
  Workers = {w1}
  Handlers <- Revoking
  Ordered = {1}
  Counted = {1}
  OpeningQty = 0
  MaxUsed = 0
  MaxRequests = 6
  StartStatuses = {"active"}
  NoCount = NoCount
  NotLoaded = NotLoaded
SYMMETRY Symmetry
PROPERTY CommitAddsStock
CHECK_DEADLOCK FALSE
