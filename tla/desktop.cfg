SPECIFICATION SpecIn
CONSTANTS
  Viewers = {a1, a2}
  Shown = {"overview", "runs"}
  MaxWrites = 2
  MaxEvents = 1
  MaxDrops = 0
  MaxSelections = 1
  MaxFailures = 0
  MaxAgents = 2
  MaxMessages = 2
  MaxChanges = 1
  MaxErrors = 1
CHECK_DEADLOCK FALSE
INVARIANTS
  MessagesRunOnce

  
