CONSTANTS
  u1 = u1
  Unit <- MCEngine
  Slots = 1
  Budget = 2
  DistillCalls = 1
SPECIFICATION Spec
INVARIANTS PassSeesOneGraph
PROPERTIES AbandonedForABlockedRun NoCallWhileBlocked RunIsServed TickIsServed
