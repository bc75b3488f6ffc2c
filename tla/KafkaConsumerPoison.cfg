CONSTANTS
    w1 = w1  w2 = w2  p1 = p1  p2 = p2
    Messages = {"poison"}
    Poison = {"poison"}
    Partitions = {p1}
    Workers = {w1}
    HasDeadLetterTopic = TRUE
    MaxEvents = 1
    MaxFaults = 1
    NoWorker = NoWorker
    NoEvent = NoEvent
SPECIFICATION FairSpec
PROPERTY StopEndsStart
CHECK_DEADLOCK FALSE
