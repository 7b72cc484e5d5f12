CONSTANTS
  a = a
  b = b
  r1 = r1
  r2 = r2
  Name <- MCName
  Root <- MCRoot
  Registries <- MCRegistries
  Unreadable = Unreadable
  NoRoot = NoRoot
  NoFile = NoFile
  Other = Other
  Hazards = {}
  Edits = 2
  Deaths = 1
  Starts = 1
SPECIFICATION Spec
CHECK_DEADLOCK FALSE
INVARIANTS OneEnginePerProject NothingLeftBehind
PROPERTIES RegistryIsFollowed
