CONSTANTS
  Claude <- None
  Codex <- Both
  Dir <- MCDir
  Parent <- MCParent
  Lookback = 1
  Kinds <- NamedRow
  HeadRows = 1
  Rows <- OneRow
  Gens <- OneLife
  Kills = 0
  LastDay = 1
  LastTime = 4
  Unset = Unset
  x = x
  y = y
SPECIFICATION Spec
CHECK_DEADLOCK FALSE
PROPERTIES TouchedDayIsScanned
