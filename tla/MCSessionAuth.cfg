\* Three renewals, so that two can be in flight and one be old; two events in
\* the pipe and two writes under way.
CONSTANTS
    Newest = 3
    Room = 2
SPECIFICATION Spec
INVARIANTS TypeOK RowAgrees EndedForgotten
PROPERTIES OpensWithKnown RestoresNewest
CHECK_DEADLOCK FALSE
