SPECIFICATION Spec
CONSTANTS
  Workers = {w1, w2}
  Handlers <- Everything
  Ordered = {2}
  Counted = {2}
  OpeningQty = 2
  MaxUsed = 3
  MaxRequests = 6
  StartStatuses = {"active", "supplier_confirmed"}
  NoCount = NoCount
  NotLoaded = NotLoaded
SYMMETRY Symmetry
CONSTRAINT EditsAlone
INVARIANTS TypeOK CommittedIsInStock DeliveredHoldsStock
PROPERTY ImplementsReceipt
CHECK_DEADLOCK FALSE
