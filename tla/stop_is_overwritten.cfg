SPECIFICATION Spec
CONSTANTS
  Agents = {a1}
  Calls = {k1, g1, g2}
  RequiresApproval = {g1, g2}
  Chains = {c1, c2}
  NoAgent = NoAgent
  NoChain = NoChain
  NoCall = NoCall
  MaxToolSteps = 1
  MaxSendAttempts = 2
  Synthesis = {FALSE}
  GitMayFail = FALSE
  Batches = FALSE
  CoordinatorUnblocks = FALSE
  PendingOnly = TRUE
  MaxRuns = 2
  MaxStops = 1
  MaxDecisions = 1
  MaxCrashes = 0
SYMMETRY Symmetry
CHECK_DEADLOCK FALSE
PROPERTIES
  TerminalStatesAreFinal
