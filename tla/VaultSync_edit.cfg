CONSTANTS
  Names = {1, 2}
  LastPath <- Greatest
  Descs = {short, long}
  ReadBack <- Lead
  Links = {link}
  Docs <- Two
  First <- Doc1
  Edits = 2
  Compiles = 1
  Kills = 1
  Events = 3
  Torn = Torn
  None = None
  short = short
  long = long
SPECIFICATION Spec
CHECK_DEADLOCK FALSE
INVARIANTS SettledAgree NothingForgotten
PROPERTIES   RoundTripStable QuietlyApplied ExtractionArrives Quiesces
