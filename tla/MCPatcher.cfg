SPECIFICATION Spec
CONSTANTS
  Methods = {m1, m2}
  Fixes = {f1}
  MaxFailed = 1
  MaxTestcase = 1
  MaxAttempts = 2
  MaxPatches = 3
  MaxViolations = 1
INVARIANTS OldMethodsSurvive ReportIsBacked FixesAreBounded 
PROPERTIES RefusedLeavesFile KeptIsLinted
CHECK_DEADLOCK FALSE
