SPECIFICATION Spec
CONSTANTS
  t1 = t1  t2 = t2
  NoTarget = NoTarget
  Runs = {r1, r2}
  Dirs = {d1}
  Plan <- MCPlan
  IdeDir <- MCIdeDir
  MaxCycles = 3
  MaxSecond = 1
  MaxRestarts = 1
  OneRunPerDir = TRUE
INVARIANTS AnswerIsForTarget PendingIsMine
PROPERTIES PolledRunEnds
CHECK_DEADLOCK FALSE
