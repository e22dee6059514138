CONSTANTS
    i1 = i1
    i2 = i2
    w1 = w1
    w2 = w2
    s1 = s1
    t1 = t1
    d1 = d1
    Ips = {i1, i2}
    Workers = {w1, w2}
    Minute = 1
    Hour = 3
    PerMinute = 1
    PerHour = 2
    BlockFor = 1
    MaxFailed = 2
    FailWindow = 1
    CleanupEvery = 2
    MaxClock = 4
    Sessions = {s1, s2, s3}
    Browsers = {b1, b2}
    Sockets = {k1, k2}
    Threads = {t1}
    Directs = {d1}
    MaxQueue = 1
    MaxBuffer = 2
    Configs <- MCConfigs
SPECIFICATION Spec
SYMMETRY Symmetry
INVARIANTS
    TypeOK
    DashboardHolds
PROPERTY LetThrough
CHECK_DEADLOCK FALSE
