SPECIFICATION SpecIn
CONSTANTS
  Tools = {"watch"}
  NamesRun = TRUE
  Limit = 2
  LastN = 2
  MaxTimeout = 2
  ToolTimeout = 3
  MaxRuns = 2
  MaxEntries = 4
  MaxCalls = 4
  Agents = {a1, a2}
  Keys = {"plan"}
  Mounted = 1
  Shared = 1
  Window = 4
  MaxTime = 1
  MaxMessages = 1
  MaxVersion = 2
  Summarised = {a1}
  MaxFinished = 3
CHECK_DEADLOCK FALSE
INVARIANTS
  NothingSkipped
  ContextIsCutRight
PROPERTIES
  MemoryIsGuarded
