\* Every kind of request, from a clean database: two processes for a tenant.
CONSTANTS
    Tenants = {t1}
    Bridges = {b1, b2, b3}
    Workers = {w1, w2}
    Health = health
    Requests = {"call", "reconnect", "settings", "clear", "disable", "delete"}
    MaxFailures = 2
    NoTenant = noTenant
    NoBridge = noBridge
SPECIFICATION CleanSpec
INVARIANTS OwnBridge
CHECK_DEADLOCK FALSE
