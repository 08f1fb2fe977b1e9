SPECIFICATION Spec
CONSTANTS
    a = a
    b = b
    NoTime = NoTime
    Topics <- TwoTopics
    Broker <- TwoLogs
    Earlier <- OneBefore
    Resets = {"earliest", "latest"}
    Gating <- AllGating
    Windows <- TwoSizes
    Joins <- BothJoins
    RateUnit = 2
    Rates = {0, 2}
    Delays = {1}
    MaxPuts = 0
    MaxPollInterval = 9
    MayFail = FALSE
INVARIANT NothingSkipped
