CONSTANTS
    BookingLogs = {b1}
    b1 = b1
    t1 = t1
    OtpLogs = {t1}
    WorkerLogs = {w1}
    NoLog = NoLog
    Jobs = {j1, j2}
    MAX_ATTEMPTS = 2
    SWEEP_TAKE = 1
    CONCURRENCY = 2
    MAX_STALLS = 1
    Broadcasts = 1
    MaxFaults = 1
SPECIFICATION MCSpec
PROPERTIES AllPendingAreFound
\* Once every row is settled and the queue is empty nothing is left to do.
CHECK_DEADLOCK FALSE
