SPECIFICATION Spec
CONSTANTS
  Methods = {m1, m2}
  Fixes = {f1}
  MaxFailed = 2
  MaxTestcase = 3
  MaxAttempts = 0
  MaxPatches = 3
  MaxViolations = 2
PROPERTY RepairReachesDisk
CHECK_DEADLOCK FALSE
