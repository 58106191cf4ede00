SPECIFICATION SpecIn
CONSTANTS
  Callers = {c1}
  Sharers = {c1, c2}
  Resets = TRUE
  Enclosed = FALSE
  MaxWork = 2
  MaxFaults = 2
  MaxCrashes = 1
  Labels = {"pnpm test", "cargo check"}
  MaxCalls = 3
  MaxEdits = 1
  MaxEnds = 1
  Planes = {p1, p2}
  Origins = {"empty", "initial"}
  Prefixes = {0, 1, 4, 8, 13, 14, 15, 16}
  MaxDowns = 2
  PathNames = {1, 2, 3}
  Skipped = {3}
  RootFiles = {1, 2}
  SourceRoots = {1, 2}
  Depth = 3
  MaxNodes = 3
  MaxChanges = 1
  TreeLimit = 2
  SearchLimit = 1
  CandidateLimit = 1
  WalkDepth = 0
  MaxDepth = 1
  MaxSize = 2
  MaxBytesPerChar = 3
CHECK_DEADLOCK FALSE
INVARIANTS
  WorkIsLasting
  ReadyRowsAreTrue
  ServedSchemaIsSound
  WalksAnswerRight
PROPERTIES
  ChangesWereSeen
  NextCallerIsServed
  NothingIsLost
  ServesAtLast
