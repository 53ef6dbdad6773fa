CONSTANTS
  s1 = s1
  s2 = s2
  w1 = w1
  Entry = {s1, s2, w1}
  WorkerEntry = {w1}
  MaxClock = 2
  NoEntry = NoEntry
  Limit = 1
  Since = {0, 2}
  Selection <- Selections
SPECIFICATION ReaderSpec
INVARIANTS
  ForksAreOverlaps
  WorkerLinksToItsPast
  LastPageIsComplete
  ExportIsAChain
CHECK_DEADLOCK FALSE
