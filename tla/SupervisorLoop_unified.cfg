SPECIFICATION FairSpec
CONSTANTS
  Requests <- EitherRequest
  Docs = {d1}
  NeedLists <- FewNeeds
  MaxSteps = 3
  MaxSearches = 1
  MaxPeerRuns = 2
  ErrorBudget = 1
  MaxRegrounds = 1
  AskFirst = FALSE
  CanEvict = TRUE
INVARIANTS NeverAnswersUnworked LedgerExact
PROPERTY Termination
CHECK_DEADLOCK FALSE
