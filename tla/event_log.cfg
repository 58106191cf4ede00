SPECIFICATION SpecIn
CONSTANTS
  Agents = {a1, a2}
  Chains = {c1, c2}
  NoChain = NoChain
  MaxFork = 1
  MayFail = TRUE
  MaxEvents = 3
  MaxNotes = 2
  MaxClock = 0
  MaxCrashes = 1
  Page = 1
INVARIANTS
  Gapless
  RowShowsLatestEvent
  
PROPERTIES
  FeedPromise
  TransactionsEnd
