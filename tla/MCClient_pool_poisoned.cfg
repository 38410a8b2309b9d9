SPECIFICATION Spec
CONSTANTS
    a = a
    b = b
    d = d
    w1 = w1
    w2 = w2
    None = None
    Callers = {a, b}
    Workers = {w1, w2}
    Roles <- ReaderAndWriter
    Endpoints <- Hosts
    Configs <- Both
    FirstConfig <- First0
    KeepAlive = TRUE
    MaxEvents = 2
    OddFeedIds = TRUE
    BadPayloads = FALSE
INVARIANT
    FailuresDoNotSpread
