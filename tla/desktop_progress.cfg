SPECIFICATION FairSpecIn
CONSTANTS
  Viewers = {a1}
  Shown = {"overview", "artifacts"}
  MaxWrites = 2
  MaxEvents = 1
  MaxDrops = 1
  MaxSelections = 0
  MaxFailures = 1
  MaxAgents = 2
  MaxMessages = 2
  MaxChanges = 0
  MaxErrors = 1
CHECK_DEADLOCK FALSE
PROPERTIES
  DesktopRecovers
