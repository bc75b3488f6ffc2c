CONSTANTS
    r1 = r1  r2 = r2  r3 = r3  m1 = m1  m2 = m2  p1 = p1  p2 = p2
    Requests = {r1, r2, r3}
    Members = {m1}
    Units = {"BTC"}
    Codes = {"c1"}
    Amounts = {0, 2, 3}
    Fees = {0, 3}
    Opening = 4
    Partitions = {p1}
    MaxFaults = 1
    NoCode = NoCode
    NoRequest = NoRequest
    NoInput = NoInput
SPECIFICATION FairSpec
INVARIANTS TypeOK NoOverdraft FrozenMatchesRecords CommittedIsPublished
PROPERTY EveryRequestAnswered
