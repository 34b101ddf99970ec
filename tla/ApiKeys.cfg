SPECIFICATION Spec
CONSTANTS
    Replicas = {p1, p2}
    Tenants = {t}
    Keys = {k1, k2, k3}
    TenantOf <- OneTenant
    Requests = {r1, r2}
    At <- OneReplica
    Admins = {c1}
    TTL = 2
    MaxEntries = 2
    MaxRead = 1
    MaxTime = 3
    Nil = Nil
INVARIANTS RevokedHere ActiveKeysWork CacheBounded
PROPERTY RevokedWithinTTL
CHECK_DEADLOCK FALSE
SYMMETRY Symmetry
