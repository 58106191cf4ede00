SPECIFICATION SpecIn
CONSTANTS
  Agents = {a1, a2}
  Calls = {k1, g1, g2}
  RequiresApproval = {g1, g2}
  Chains = {c1, c2}
  NoAgent = NoAgent
  NoChain = NoChain
  NoCall = NoCall
  MaxToolSteps = 1
  MaxSendAttempts = 2
  Synthesis = {FALSE, TRUE}
  GitMayFail = FALSE
  Batches = FALSE
  CoordinatorUnblocks = TRUE
  PendingOnly = TRUE
  MaxRuns = 2
  MaxStops = 0
  MaxDecisions = 1
  MaxCrashes = 1
CHECK_DEADLOCK FALSE
INVARIANTS
  MapsAgree
  OneRunAtATime
  RunsAreWorkedOff
PROPERTIES
  LifecyclePromise
  RunsGetOn
