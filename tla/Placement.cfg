SPECIFICATION Spec
CONSTANTS
    Runners = {r1}
    Streams = {s1, s2}
    Sandboxes = {c1}
    Backends = {"memory", "postgres"}
    Runtime = "firecracker"
    Capacity = 1
    Interval = 1
    HeartbeatGrace = 1
    OrphanReapBuffer = 3
    MaxInFlight = 1
    MaxFaults = 1
    MaxCordons = 2
    Others = {o1}
    CreatePlacementAttempts = 2
    None = None
SYMMETRY Symmetry
INVARIANTS NoGhostRunner CordonKnown LiveRunnerNotOrphaned CreatedOnce
