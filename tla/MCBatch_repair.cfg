SPECIFICATION Spec
CONSTANTS
  t1 = t1
  t2 = t2
  t3 = t3
  c1 = c1
  c2 = c2
  e1 = e1
  e2 = e2
  g1 = g1
  f1 = f1
  None = None
  CompileErrors = {e1, e2}
  Rejections = {g1, f1}
  Blocked = {g1}
  Class = {c1, c2}
  NoEvidence = {}
  Existing = {c1}
  BatchSize = 2
  MaxRepairRounds = 2
  MaxBatches = 2
  MaxCycles = 3
  MaxRuns = 1
  MaxRepairItems = 2
  RepeatedItems = TRUE
  Crashes = FALSE
  Target <- ThreeTargets
  Plan <- ThreePlan
  ClassOf <- ThreeClassOf
INVARIANTS TypeOK RoundsInStep RejectionIsExplained NothingLeftOpen BrakeHolds
PROPERTIES GreenStaysGreen VerdictIsTrue
