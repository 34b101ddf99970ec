SPECIFICATION Spec
CONSTANTS
    Settings = {s1, s2}
    Capacity = 1
    MaxBuilds = 6
    MaxEdits = 3
    MaxFaults = 2
INVARIANTS
    SnapshotSetConsistent
    CanariesFreeTheirSlots
PROPERTY
    AdmittedUnlessOperator
CHECK_DEADLOCK FALSE
