SPECIFICATION SpecIn
CONSTANTS
  Chains = {c1, c2}
  NoChain = NoChain
  Provider = "claude"
  MayFail = TRUE
  MayAbort = TRUE
  MaxSessions = 3
  MaxRequests = 5
  MaxCrashes = 1
  MaxSpawnDepth = 2
  MaxAgents = 4
  MaxHandoffs = 1
  MaxRuns = 4
CHECK_DEADLOCK FALSE
INVARIANTS
  StateIsTrue
  SessionServesOne
  SpawnsAreShallow
PROPERTIES
  SessionsGetOn
  AgentsGetStarted
