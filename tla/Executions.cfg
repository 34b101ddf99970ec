SPECIFICATION FairSpec
CONSTANTS
    Streams = {s1}
    Caller = s1
    Pipes = {"stdout"}
    MaxIncarnations = 2
    MaxOutput = 1
    MaxEventBytes = 3
    OutputBytes = 2
    MaxUint = 4
    ExecMaxRetries = 1
    MaxFaults = 1
    Nil = Nil
CHECK_DEADLOCK FALSE
INVARIANTS
    HistoryExact
    TerminalIsLast
    TakeoverAfterRemoval
    BodyIsComplete
PROPERTIES
    StreamContract
