\* Two streams, two PUTs of any kind, no meter polled: safety.
SPECIFICATION Spec
CONSTANTS
    a = a
    b = b
    NoTime = NoTime
    Topics <- TwoTopics
    TopicOrder <- TwoInOrder
    Tape <- ShortTapes
    RateUnit = 2
    Rates = {0, 1, 2, 4}
    Lags = {0, 2}
    SpeedUnit = 1
    Speeds = {1, 2}
    SinkTimes = {0, 1}
    SleepTimes = {1, 2}
    Stops = {"cancel", "error"}
    PolledTopics = {}
    MaxPuts = 2
    Horizon = 5
INVARIANTS SchedulerInv NothingEligibleLeft
PROPERTIES NoStreamLeadsFrontier PositionsNeverRetreat PauseNotBanked ImplementsStreams
