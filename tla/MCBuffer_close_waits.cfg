SPECIFICATION Spec
CONSTANTS
    a = a
    b = b
    t1 = t1
    t2 = t2
    None = None
    Callers = {a, b}
    Timers = {t1, t2}
    FlushMs = 1
    MinRetryMs = 1
    MaxRetryMs = 4
    Size = 2
    MaxRequestEvents = 2
    MaxConsecutiveFailures = 2
    SuccessesBeforeWidening = 2
    DropsBeforeWarning = 1
    Roles <- CloserAndFlusher
    FlushOnExit = FALSE
    Advised = {4}
    Oversized = {}
    Poison = {}
    LoggerTakesName = TRUE
    StartCanFail = FALSE
    MaxQueue = 2
    CloseBudget = 3
    MaxEvents = 2
    Statuses = {200, 503}
INVARIANT
    CloseKeepsBudget
