CONSTANTS
  Callers = {d1, d2}
  NamedTunnel = TRUE
  MaxTunnels = 2
  Registrable = {c1}
  Legacy = Legacy
  Omitted = Omitted
  Paths = {mcp, v2}
  Origins <- MCOrigins
  OwnerTokenSet = FALSE
  NoPage = NoPage
  MaxCodes = 1
  MaxLives = 2
SPECIFICATION PartsSpec
SYMMETRY CallerSymmetry
INVARIANTS
  OnlyOverlapLosesTunnels
  CommandWillBeCleared
  ConsentedAccessOnly
  RegistrationDurable
PROPERTIES
  CodeSettledOnce
CHECK_DEADLOCK FALSE
