CONSTANTS
  Claude <- None
  Codex <- Only
  Dir <- MCDir
  Parent <- MCParent
  Lookback = 1
  Kinds <- Mixed
  HeadRows = 1
  Rows <- TwoRows
  Gens <- TwoLives
  Kills = 1
  LastDay = 1
  LastTime = 3
  Unset = Unset
  x = x
  y = y
SPECIFICATION Spec
CHECK_DEADLOCK FALSE
INVARIANTS StoreAtOffset ToldIsStored NothingSkipped
PROPERTIES ToldOnce RowsReachTheStore
