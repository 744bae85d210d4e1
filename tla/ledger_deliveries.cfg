SPECIFICATION FairSpec
CONSTANTS
  Items = {i1, i2}
  Reqs = {r1, r2, r3}
  Users = {staff}
  Owners = {}
  Keys = {k1, k2}
  Qtys = {2}
  OpeningQty = 1
  Handlers <- Deliveries
  Adjustments <- OneCorrection
  AuditsHappen = TRUE
  NoKey = NoKey
  NoItem = NoItem
  NoReq = NoReq
  NoJob = NoJob
  NoMove = NoMove
  NotLoaded = NotLoaded

INVARIANT AnswersTellTheLedger
PROPERTY Answered
CHECK_DEADLOCK FALSE
