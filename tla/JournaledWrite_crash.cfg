CONSTANTS
  w1 = w1
  w2 = w2
  a = a
  b = b
  Writer <- MCWriter
  Content <- MCContent
  Unlocked = {}
  Plain = {}
  Foreign = {w2}
  NoFile = NoFile
  Torn = Torn
  NoCheck = NoCheck
  Free = Free
  Rec = Rec
  FaultSets = {{"kill", "unlink"}, {"power", "fsync"}}
SPECIFICATION Spec
SYMMETRY ContentSymmetry
INVARIANTS TempIsNamed TargetNeverTorn
PROPERTIES RolledOverPrior UpdateNotLost AcknowledgedIsDurable ReplacedInOneStep
