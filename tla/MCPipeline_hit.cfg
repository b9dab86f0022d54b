SPECIFICATION Spec
CONSTANTS
  a = a
  b = b
  Classes = {a, b}
  None = None
  Annotated = {a}
  Uses <- BTakesA
  MaxDepth = 2
  Requests <- AllRequests
  MaxRuns = 2
  MaxEvents = 0
INVARIANTS HitIsSound
CHECK_DEADLOCK FALSE
