CONSTANTS
  RunIds = {r1, r2}
  NoRun = NoRun
  MaxCapacity = 2
  InitCapacity = 2
  MaxAgentRuns = 1
SPECIFICATION Spec
SYMMETRY RunSymmetry
INVARIANTS
  CapacityAccounted
  SecretsConfined
  SlotsDurable
  SomeoneWillFinish
PROPERTIES
  RelayMovesForward
  OutcomeKept
