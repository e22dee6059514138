\* No administration: the health loop ends when a bridge it asks is restarted.
CONSTANTS
    Tenants = {t1}
    Bridges = {b1, b2, b3}
    Workers = {w1, w2}
    Health = health
    Requests = {"call"}
    MaxFailures = 2
    NoTenant = noTenant
    NoBridge = noBridge
SPECIFICATION FairCleanSpec
PROPERTIES SelfHealing
CHECK_DEADLOCK FALSE
