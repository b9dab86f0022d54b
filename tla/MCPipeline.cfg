SPECIFICATION Spec
CONSTANTS
  a = a
  b = b
  Classes = {a, b}
  None = None
  Annotated = {a}
  Uses <- BTakesA
  MaxDepth = 2
  Requests <- AllRequests
  MaxRuns = 3
  MaxEvents = 2
INVARIANTS ContractsAreCurrent PlannedHavePacks PlanIsFromReport
CHECK_DEADLOCK FALSE
