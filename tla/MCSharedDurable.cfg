\* One plain write and one new tenant; nothing fails by itself.
CONSTANTS
    w = w
    r = r
    p = p
    Writers = {w}
    Does <- MCDoes
    Savers = {s}
    Deleters = {}
    Failing = FALSE
    Attempts = 3
SPECIFICATION Spec
INVARIANTS Durable
CHECK_DEADLOCK FALSE
