\* Every kind of request; one tenant, so that all of them meet on it.
CONSTANTS
    Tenants = {t1}
    Bridges = {b1, b2}
    Workers = {w1, w2}
    Health = health
    Requests = {"call", "reconnect", "settings", "clear", "disable", "delete"}
    MaxFailures = 2
    NoTenant = noTenant
    NoBridge = noBridge
SPECIFICATION Spec
INVARIANTS TypeOK RestartExclusive NoWaitOnStopped
SYMMETRY Symmetry
CHECK_DEADLOCK FALSE
