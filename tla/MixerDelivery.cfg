CONSTANTS
    a = a
    b = b
    FeedTopics <- MCTopics
    Feed <- MCFeed
    QueueLimit = 2
    WithConsumer = TRUE
    Faults <- AllFaults
SPECIFICATION DeliveryFairSpec
INVARIANTS OrderKept EndsHonestly
PROPERTIES FailureShutsDown
