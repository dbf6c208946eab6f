CONSTANTS
  o1 = o1
  i1 = i1
  i2 = i2
  m1 = m1
  m2 = m2
  NoReq = NoReq
  Orphan = Orphan
  Warehouse = {w1}
  Order = {o1}
  Inspection = {q1}
  Ordered <- OneOfEach
  LockMode = "redis"
  Req = {r1, r2}
  Material = {m1, m2}
  Item = {i1, i2}
  OrderOf <- TwoItems
  MatOf <- TwoMaterials
  RedisFaults = TRUE
  ItemTenantColumn = TRUE
  Faults = {"create", "adjust", "record", "status"}
  Crashes = TRUE
SPECIFICATION Spec
CHECK_DEADLOCK FALSE
SYMMETRY Callers
INVARIANTS ReceivedMeansStocked RecordedMeansStocked NoKeyLeftBehind OverstockHasCause
