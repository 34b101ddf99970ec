SPECIFICATION FairSpec
CONSTANTS
    Ids = {a}
    Threads = {t1, t2}
    Capacity = 1
    MaxIncarnations = 1
    MaxOps = 3
    MaxFaults = 0
    MaxCrashes = 1
    MayShutdown = FALSE
    Nil = Nil

CHECK_DEADLOCK FALSE
PROPERTIES OperationsFinish DeathIsHandled FreeSlotsGetWired
