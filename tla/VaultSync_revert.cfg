CONSTANTS
  Names = {1, 2}
  LastPath <- Greatest
  Descs = {short, long}
  ReadBack <- Lead
  Links = {link}
  Docs <- Two
  First <- Doc1
  Edits = 1
  Compiles = 0
  Kills = 0
  Events = 3
  Torn = Torn
  None = None
  short = short
  long = long
SPECIFICATION Spec
CHECK_DEADLOCK FALSE
PROPERTIES RecompileStable
