SPECIFICATION Spec
CONSTANTS
  None = None
  MaxCycles = 3
  MaxMinutes = 2
  MaxTime = 7
INVARIANTS NoFalseAlarm ClockMeasuresWork
PROPERTIES NothingExpiresInAWait
