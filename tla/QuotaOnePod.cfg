SPECIFICATION FairSpec
CONSTANTS
    p1 = p1
    p2 = p2
    c1 = c1
    c2 = c2
    c3 = c3
    Creates = {c1, c2}
    Pods = {p1}
    PodOf <- OnePod
    Limits = {0, 1}
    MaxReads = 2
    Nil = Nil
INVARIANTS
    OnePodQuota
    EntryAccounted
PROPERTIES
    CreatesFinish
CHECK_DEADLOCK FALSE
