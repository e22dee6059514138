\* Two calls, one of them the health loop's, on one bridge.
CONSTANTS
    Calls = {c1, h}
    Impatient = {h}
    None = none
SPECIFICATION FairSpec
INVARIANTS TypeOK AnswerMatches WaiterReachable NoStrayEntry
PROPERTIES CallEnds StopFrees PromiseKept
CHECK_DEADLOCK FALSE
