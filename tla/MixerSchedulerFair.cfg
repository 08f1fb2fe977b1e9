\* No stop; half speed, a muted and a doubled rate, one topic's meters polled.
SPECIFICATION FairSpec
CONSTANTS
    a = a
    b = b
    NoTime = NoTime
    Topics <- TwoTopics
    TopicOrder <- TwoInOrder
    Tape <- ShortTapes
    RateUnit = 1
    Rates = {0, 1, 2}
    Lags = {0, 2}
    SpeedUnit = 2
    Speeds = {1}
    SinkTimes = {0}
    SleepTimes = {2}
    Stops = {}
    PolledTopics = {a}
    MaxPuts = 2
    Horizon = 5
INVARIANTS MeterLagNotNegative
PROPERTIES DrainsWhenPlayed
