SPECIFICATION Spec
CONSTANTS
  t1 = t1
  t2 = t2
  t3 = t3
  t4 = t4
  NoTarget = NoTarget
  Plan <- FourPlan
  Refused <- SecondTarget
  MaxCycles = 5
  MaxZeroDelta = 2
  Cap = 4
  BaselineSets <- BothPlaces
  MaxRuns = 3
INVARIANTS StallIsMeasured RecordIsPrefix CallsAreBounded CleanStop
PROPERTIES BrakesStopWriting
