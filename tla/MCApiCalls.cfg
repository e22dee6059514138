CONSTANTS
    Calls = {c1, c2}
    MaxSockets = 2
SPECIFICATION Spec
INVARIANTS
    TypesOK
    OneSocket
    AnswerIsTrue
PROPERTIES
    OpenIsSynced
CHECK_DEADLOCK FALSE
