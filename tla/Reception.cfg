SPECIFICATION Spec
CONSTANTS
  Domains = {d1, d2}
  spfLookupBudget = 3
  DepthLimit = 3
  MaxTerms = 2
  TaskCount = 3
  Limit = 2
  MaxRounds = 2
INVARIANTS SilenceIsTemperror OwnPolicy LoopIsReal BudgetStopsFirst ResultsComplete OneVerdict TlsKept
PROPERTY ReportComes
CHECK_DEADLOCK FALSE
