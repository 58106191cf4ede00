SPECIFICATION Spec
CONSTANTS
  Agents = {a1}
  Calls = {k1, g1}
  RequiresApproval = {g1}
  Chains = {c1, c2}
  NoAgent = NoAgent
  NoChain = NoChain
  NoCall = NoCall
  MaxToolSteps = 1
  MaxSendAttempts = 2
  Synthesis = {TRUE}
  GitMayFail = TRUE
  Batches = TRUE
  CoordinatorUnblocks = TRUE
  PendingOnly = FALSE
  MaxRuns = 2
  MaxStops = 1
  MaxDecisions = 2
  MaxCrashes = 1
SYMMETRY Symmetry
CHECK_DEADLOCK FALSE
INVARIANTS
  TypeOK
  ExecutionsAreGranted
  SessionExclusive
