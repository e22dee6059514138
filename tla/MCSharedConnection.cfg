\* A write that is retried, a purge, a new tenant and a deletion, with failures.
CONSTANTS
    w = w
    r = r
    p = p
    Writers = {r, p}
    Does <- MCDoes
    Savers = {s}
    Deleters = {d}
    Failing = TRUE
    Attempts = 2
SPECIFICATION FairSpec
INVARIANTS TypeOK OnlyOthersLose Whole OpenOwned
PROPERTIES JobsEnd
CHECK_DEADLOCK FALSE
