SPECIFICATION Spec
CONSTANTS
    p1 = p1
    p2 = p2
    c1 = c1
    c2 = c2
    c3 = c3
    Creates = {c1, c2, c3}
    Pods = {p1, p2}
    PodOf <- TwoPods
    Limits = {1, 2}
    MaxReads = 1
    Nil = Nil
SYMMETRY PodSymmetry
INVARIANTS
    StoreQuota
    NoRowWithoutTenant
    
CHECK_DEADLOCK FALSE
