SPECIFICATION FairSpec
CONSTANTS
    a = a
    b = b
    t1 = t1
    t2 = t2
    None = None
    Callers = {a, b}
    Timers = {t1, t2}
    FlushMs = 1
    MinRetryMs = 1
    MaxRetryMs = 4
    Size = 2
    MaxRequestEvents = 2
    MaxConsecutiveFailures = 2
    SuccessesBeforeWidening = 2
    DropsBeforeWarning = 1
    Roles <- ProducerAndFlusher
    MaxQueue = 2
    CloseBudget = 2
    FlushOnExit = FALSE
    MaxEvents = 3
    Statuses = {200, 413, 400, 503}
    Advised = {0}
    Oversized = {}
    Poison = {3}
    LoggerTakesName = TRUE
    StartCanFail = FALSE
INVARIANTS
    TypeOK
    InFlightIsHead
    Accounted
    FirstInFirstOut
    FlushPending
    TimerRefIsLive
PROPERTY
    EventuallyLeaves
