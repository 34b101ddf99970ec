SPECIFICATION Spec
CONSTANTS
    Ids = {a}
    Threads = {t1, t2}
    Capacity = 1
    MaxIncarnations = 2
    MaxOps = 4
    MaxFaults = 1
    MaxCrashes = 1
    MayShutdown = TRUE
    Nil = Nil
ACTION_CONSTRAINT ShutdownBound
SYMMETRY Symmetry
CHECK_DEADLOCK FALSE
INVARIANTS
    TypeOK
    RestoreMatchesDisk
    OperationsExclusive
    NoOrphanGuest
    KillIsNotDeath
    ServedGuestAnswers
    SlotsAccounted
    ShutdownLeavesNoGuest
