CONSTANTS
  Servers = {s1}
  Admins = {a1, a2}
  Callers = {c1}
  NoServer = NoServer
  NoActor = NoActor
  Operations = {"add", "connect", "disconnect", "update", "remove"}
  SavesFail = TRUE
  MaxClients = 2
SPECIFICATION FairExternalSpec
INVARIANTS
  ToolsMatchConnections
  ClientsOwned
  DisabledStaysDown
PROPERTIES
  LockReleased
