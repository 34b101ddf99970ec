SPECIFICATION Spec
CONSTANTS
    Containers = {1, 2}
    Addresses = {a1, a2}
    NoAddress = NoAddress
    MaxCrashes = 2
    MaxFaults = 2
    MaxOps = 1
SYMMETRY Symmetry
INVARIANTS CrashesNoticed
PROPERTIES RulesOutliveContainer
CHECK_DEADLOCK FALSE
