SPECIFICATION Spec
CONSTANTS
    Containers = {1, 2}
    Addresses = {a1, a2}
    NoAddress = NoAddress
    MaxCrashes = 2
    MaxFaults = 0
    MaxOps = 1
SYMMETRY Symmetry
INVARIANTS OnlyStreamLossIsSilent
CHECK_DEADLOCK FALSE
