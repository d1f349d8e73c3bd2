CONSTANTS
  RunIds = {r1}
  NoRun = NoRun
  MaxCapacity = 1
  InitCapacity = 1
  MaxAgentRuns = 1
  Clients = {c1, c2}
  NoClient = NoClient
SPECIFICATION FairDeliverySpec
INVARIANTS
  BridgeNeverAhead
  SentMeansSubmitted
PROPERTIES
  RunsFinish
