CONSTANTS
  i1 = i1
  a = a
  b = b
  c = c
  finance = finance
  legal = legal
  NoFlow = NoFlow
  End = End
  NoStep = NoStep
  NoBranch = NoBranch
  Req = {r1, r2, r3}
  Definition = {d1}
  Instance = {i1}
  StepName <- Names
  Branch = {finance, legal}
  Drafts <- SomeFlows
  Batches <- Twice
  BusinessDataLoaded = TRUE
  Faults = {"read", "write", "reply"}
  Crashes = TRUE
SPECIFICATION Spec
CHECK_DEADLOCK FALSE
SYMMETRY Callers
INVARIANTS RouteIsApproved HistoryIsComplete
PROPERTIES DecisionIsFinal
