CONSTANTS
    r1 = r1  r2 = r2  w1 = w1  w2 = w2  m1 = m1  p1 = p1  p2 = p2
    Requests = {r1}
    Members = {m1}
    Units = {"BTC"}
    Codes = {"c1"}
    Amounts = {2}
    Fees = {1}
    BTC = "BTC"
    Partitions = {p1}
    Workers = {w1}
    HasDeadLetterTopic = TRUE
    MaxEvents = 1
    MaxFaults = 1
    NoWorker = NoWorker
    NoEvent = NoEvent
    NoInput = NoInput
SPECIFICATION Spec
INVARIANT NeverPaidTwice
CHECK_DEADLOCK FALSE
