SPECIFICATION Spec
CONSTANTS
  Items = {i1}
  Reqs = {r1, r2, r3}
  Users = {owner}
  Owners = {owner}
  Keys = {k1}
  Qtys = {2}
  OpeningQty = 1
  Handlers <- Everything
  Adjustments <- OneCorrection
  AuditsHappen = FALSE
  NoKey = NoKey
  NoItem = NoItem
  NoReq = NoReq
  NoJob = NoJob
  NoMove = NoMove
  NotLoaded = NotLoaded
SYMMETRY Symmetry
INVARIANTS TypeOK OneMovementPerKey
CHECK_DEADLOCK FALSE
