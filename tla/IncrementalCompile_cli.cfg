CONSTANTS
  Docs <- MCDocs
  Contents <- MCContents
  Absent = Absent
  Entities <- MCEntities
  Asserts <- MCAsserts
  Kin <- MCKin
  Calls <- CliCalls
  Writes = 3
  Kills = 1
  Hazards = {}
SPECIFICATION Spec
INVARIANTS CompleteIsWhole Parity RowsExact
