\* Two tenants; a window of 4 ticks holding 2 restarts, a cooldown of 1 tick
\* and a cleanup due every 3, so that cleanups fall inside windows.
CONSTANTS
    Tenants = {t1, t2}
    MaxRestartAttempts = 2
    RestartWindow = 4
    RestartCooldown = 1
    CleanupInterval = 3
    AutoRestart = TRUE
    Horizon = 7
SPECIFICATION Spec
INVARIANTS TypeOK RestartBudget RestartSpacing HistoryComplete
CHECK_DEADLOCK FALSE
