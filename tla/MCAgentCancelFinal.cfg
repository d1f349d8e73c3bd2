CONSTANTS
  RunIds = {r1, r2}
  NoRun = NoRun
  MaxCapacity = 1
  InitCapacity = 1
  MaxAgentRuns = 1
SPECIFICATION Spec
PROPERTIES
  CancelledIsFinal
