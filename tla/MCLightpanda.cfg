CONSTANTS
  Dashboards = {d1, d2}
  ToolCalls = {t1, t2}
  Nobody = Nobody
  MaxServers = 2
  MaxClients = 4
  MaxErrors = 2
SPECIFICATION HalvesSpec
SYMMETRY LightpandaSymmetry
INVARIANTS
  OneServer
  NativeClientOwned
  HealthyClientKept
  FailsOnlyAfterFaults
CHECK_DEADLOCK FALSE
