SPECIFICATION FairSpec
CONSTANTS
  Clients = {c1, c2}
  Runners = {r1}
  Sweeper = sweeper
  Nil = nil
  StopAfter = 1
  DeleteAfter = 1
  SafetyBuffer = 1
  MaxLatency = 1
  MaxCall = 1
  MaxIdle = 3
  MaxOps = 3
  MaxFaults = 1
  Firecracker = FALSE
INVARIANTS
  EphemeralNeverStopped
PROPERTIES
  IdleDeleteSparesRequests
  RowOutlivesSandbox
  IdleSandboxesReclaimed
