CONSTANTS
  p1 = p1
  p2 = p2
  p3 = p3
  Proc <- MCProc
  Remote <- MCRemote
  Once = {p1}
  PidOf <- MCPidOf
  NoFile = NoFile
  Nobody = Nobody
SPECIFICATION Spec
CONSTRAINT OneGap
INVARIANTS OneEngine RunningIsRecorded LeaseHeld CleanExit
