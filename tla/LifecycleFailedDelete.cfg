SPECIFICATION FairSpec
CONSTANTS
  Clients = {c1}
  Runners = {r1}
  Sweeper = sweeper
  Nil = nil
  StopAfter = 1
  DeleteAfter = 2
  SafetyBuffer = 2
  MaxLatency = 2
  MaxCall = 1
  MaxIdle = 5
  MaxOps = 3
  MaxFaults = 1
  Firecracker = TRUE
PROPERTIES
  FailedDeleteRetried
