SPECIFICATION Spec
CONSTANTS
    None = None
    Junk = Junk
    Default = Default
    DefaultHost = "api.intempt.com"
    DefaultTimeout = 10
    DefaultLimit = 2
    DefaultLogger = "intempt"
    Loggers = {"intempt", "mine"}
    MaxSeconds = 1000
    MaxNamed = 2
    MaxBatch = 3
    MaxChoices = 2
    Keys = {"k1", "k2"}
    Options <- Options_
    Patches <- Patches_
    People <- People_
    Contexts <- Contexts_
    Happenings <- Happenings_
    Batches <- Batches_
    Orders <- Orders_
    Answers <- Answers_
    Evaluations <- Evaluations_
INVARIANTS
    FlagReadsNeverRaise
