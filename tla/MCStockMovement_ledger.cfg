CONSTANTS
  w1 = w1
  w2 = w2
  m1 = m1
  t1 = t1
  t2 = t2
  t3 = t3
  d1 = d1
  NoReq = NoReq
  Orphan = Orphan
  SrcOf <- Sources
  TgtOf <- Targets
  PlaceOf <- Places
  Req = {r1, r2}
  Warehouse = {w1, w2}
  Material = {m1}
  Quantity <- Pieces
  Counts <- OnlyOne
  QtyOf <- OneOfEach
  InitRows <- FirstRow
  InitStock <- OnePiece
  LockMode = "redis"
  Transfer = {t1, t2, t3}
  Requisition = {d1}
  RedisFaults = TRUE
  Faults = {"adjust", "reply", "status"}
  Crashes = TRUE
SPECIFICATION Spec
CHECK_DEADLOCK FALSE
INVARIANTS NothingLeftOnTheRoad NoKeyLeftBehind
PROPERTIES LedgerKept MovementsReturn
