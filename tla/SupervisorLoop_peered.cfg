SPECIFICATION Spec
CONSTANTS
  Requests <- PeeredRequests
  Docs = {d1}
  NeedLists <- FewNeeds
  MaxSteps = 4
  MaxSearches = 1
  MaxPeerRuns = 2
  ErrorBudget = 2
  MaxRegrounds = 1
  AskFirst = TRUE
  CanEvict = FALSE
INVARIANTS
  StepBound SearchesBounded ComposedOnce
  UnresolvedReported
PROPERTIES
  WorkAccumulates NoFruitlessRerun
CHECK_DEADLOCK FALSE
