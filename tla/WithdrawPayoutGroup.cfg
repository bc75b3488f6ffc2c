CONSTANTS
    r1 = r1  r2 = r2  w1 = w1  w2 = w2  m1 = m1  p1 = p1  p2 = p2
    Requests = {r1}
    Members = {m1}
    Units = {"BTC", "ETH"}
    Codes = {"c1"}
    Amounts = {2}
    Fees = {1, 2}
    BTC = "BTC"
    Partitions = {p1, p2}
    Workers = {w1, w2}
    HasDeadLetterTopic = TRUE
    MaxEvents = 2
    MaxFaults = 3
    NoWorker = NoWorker
    NoEvent = NoEvent
    NoInput = NoInput
SYMMETRY WorkerSymmetry
SPECIFICATION Spec
INVARIANTS TypeOK AckedIsSettled PaymentsNeedFaults
PROPERTY ImplementsLifecycle
CHECK_DEADLOCK FALSE
