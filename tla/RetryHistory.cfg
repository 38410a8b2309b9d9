SPECIFICATION Spec
CONSTANTS
    Size = 4
    MaxRequestEvents = 3
    FlushMs = 1
    MinRetryMs = 1
    MaxRetryMs = 4
    MaxConsecutiveFailures = 3
    SuccessesBeforeWidening = 2
    DropsBeforeWarning = 2
    MaxAnswers = 6
INVARIANTS
    TypeOK
    FailuresAreARow
    NoticePerRow
    ReductionEnds
PROPERTY
    WideningIsEarned
