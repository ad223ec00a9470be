CONSTANTS
    BookingLogs = {b1}
    OtpLogs = {}
    WorkerLogs = {}
    NoLog = NoLog
    Jobs = {j1, j2}
    MAX_ATTEMPTS = 3
    SWEEP_TAKE = 1
    CONCURRENCY = 2
    MAX_STALLS = 1
    Broadcasts = 0
    MaxFaults = 0
    b1 = b1
    t1 = t1
SPECIFICATION Spec
INVARIANTS OneConfirmation
\* Once every row is settled and the queue is empty nothing is left to do.
CHECK_DEADLOCK FALSE
