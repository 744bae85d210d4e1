SPECIFICATION Spec
CONSTANTS
  Items = {i1}
  Reqs = {r1, r2}
  Users = {owner}
  Owners = {owner}
  Keys = {k1}
  Qtys = {0, 2}
  OpeningQty = 1
  Handlers <- DeviceEdits
  Adjustments <- OneCorrection
  AuditsHappen = FALSE
  NoKey = NoKey
  NoItem = NoItem
  NoReq = NoReq
  NoJob = NoJob
  NoMove = NoMove
  NotLoaded = NotLoaded
SYMMETRY Symmetry
INVARIANT NoConflictingEdits
CHECK_DEADLOCK FALSE
