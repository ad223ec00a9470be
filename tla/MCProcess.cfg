CONSTANTS
    Connections = {k1, k2}
    Jobs = {j1, j2}
    Signals = {s1, s2}
    START_WORKER = TRUE
    Probes = {p1}
    Workers = {w1, w3}
    InProcess = {w3}
    HEARTBEAT_TTL = 3
    c1 = c1
    c2 = c2
    c3 = c3
    OTP_MAX = 5
    AUTH_MAX = 20
    WINDOW = 3
    OTP_TTL = 2
    MAX_OTP_ATTEMPTS = 5
    MaxStray = 6
SPECIFICATION MCSpec
INVARIANTS ServedByOpenClients CleanExitCutsNothing NoFalseAlarm HealthyWasTrue
PROPERTIES SignalEndsProcess GoneIsForgotten AnsweredWhenRedisReturns LockoutEnds VerifiedAtLast
\* The process ends.
CHECK_DEADLOCK FALSE
