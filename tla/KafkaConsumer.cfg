CONSTANTS
    w1 = w1  w2 = w2  p1 = p1  p2 = p2
    Messages = {"good", "poison"}
    Poison = {"poison"}
    Partitions = {p1}
    Workers = {w1, w2}
    HasDeadLetterTopic = TRUE
    MaxEvents = 2
    MaxFaults = 2
    NoWorker = NoWorker
    NoEvent = NoEvent
SPECIFICATION FairSpec
INVARIANTS TypeOK CommittedIsHandled
PROPERTIES EveryEventHandled StopEndsRetries
CHECK_DEADLOCK FALSE
