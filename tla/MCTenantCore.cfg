\* No administration: crashes, events, restarts, the health loop and calls.
CONSTANTS
    Tenants = {t1}
    Bridges = {b1, b2, b3}
    Workers = {w1, w2, w3}
    Health = health
    Requests = {"call"}
    MaxFailures = 2
    NoTenant = noTenant
    NoBridge = noBridge
SPECIFICATION FairCleanSpec
INVARIANTS NoOrphan OwnBridge
PROPERTIES CrashHandled RestartEnds
CHECK_DEADLOCK FALSE
