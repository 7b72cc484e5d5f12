SPECIFICATION FairSpec
INVARIANTS CarriesTheUnion
PROPERTIES BackoffServed KeepsPromise QuietlyServed StopTerminates
CONSTANTS
  p1 = p1
  Path = {p1}
  NoPath = NoPath
  Debounce = 1
  DeferStart = 1
  DeferMax = 3
CHECK_DEADLOCK FALSE
