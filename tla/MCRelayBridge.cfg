CONSTANTS
  Runs = {r1, r2}
  Clients = {c1, c2}
  NoClient = NoClient
SPECIFICATION FairBridgeSpec
INVARIANTS
  HandedOutOnce
  NoLostWakeup
PROPERTIES
  ImplementsQueue
  DispatchSettles
