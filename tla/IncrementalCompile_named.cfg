CONSTANTS
  Docs <- MCDocs
  Contents <- MCContents
  Absent = Absent
  Entities <- MCEntities
  Asserts <- MCAsserts
  Kin <- MCKin
  Calls <- EngineCalls
  Writes = 2
  Kills = 0
  Hazards = {}
SPECIFICATION Spec
INVARIANT CompleteIsWhole
