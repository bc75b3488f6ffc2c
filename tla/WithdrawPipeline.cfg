CONSTANTS
    r1 = r1  r2 = r2  w1 = w1  w2 = w2  m1 = m1  p1 = p1  p2 = p2
    Requests = {r1, r2}
    Members = {m1}
    Units = {"BTC", "ETH"}
    Codes = {"c1"}
    Amounts = {2}
    Fees = {1}
    Opening = 4
    BTC = "BTC"
    Partitions = {p1}
    Workers = {w1}
    HasDeadLetterTopic = TRUE
    MaxEvents = 3
    MaxFaults = 1
    NoCode = NoCode
    NoRequest = NoRequest
    NoInput = NoInput
    NoWorker = NoWorker
    NoEvent = NoEvent
SPECIFICATION PipelineFairSpec
INVARIANT PaidIsFrozen
PROPERTIES NoSendOverCheckpoint ImplementsPayout AcceptedSettles
