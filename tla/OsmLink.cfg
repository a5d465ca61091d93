SPECIFICATION Spec
CONSTANTS
  Conns = {c1, c2}
  NoConn = NoConn
  MaxUp = 1
  MaxJobs = 2
  MaxFaults = 1
INVARIANTS OTypeOK OneEntity DbFollowsOsm WaitsForThisRun
PROPERTIES OffIsNoticed UpIsNoticed
CHECK_DEADLOCK FALSE
