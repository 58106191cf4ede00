SPECIFICATION SpecIn
CONSTANTS
  Agents = {a1, a2}
  Chains = {c1, c2}
  Handoffs = {h1}
  Synthesis = {FALSE}
  AskCap = 2
  PacketCap = 3
  MaxPrompts = 2
  MaxStarts = 1
  MaxBriefs = 1
  MaxDecisions = 2
  MaxCrashes = 0
CHECK_DEADLOCK FALSE
PROPERTIES
  AskIsSteady
  RefreshesLoseNothing
  UndecidedArePassed
  
