CONSTANTS
  o1 = o1
  i1 = i1
  i2 = i2
  w1 = w1
  w2 = w2
  m1 = m1
  m2 = m2
  NoReq = NoReq
  Orphan = Orphan
  Order = {o1}
  OrderOf <- OneOrder
  Material = {m1}
  MatOf <- OneMaterial
  ItemTenantColumn = TRUE
  LockMode = "redis"
  Req = {r1, r2}
  Warehouse = {w1}
  Item = {i1}
  Ordered <- OneOfEach
  InitRows <- RowsEverywhere
  InitStock <- ThreePieces
  RedisFaults = FALSE
  Faults = {}
  Crashes = FALSE
  Operations = {"ship"}
SPECIFICATION Spec
CHECK_DEADLOCK FALSE
INVARIANT ShippedOnce
