SPECIFICATION MCSpec
CONSTANTS
    r1 = r1
    r2 = r2
    m1 = m1
    m2 = m2
    q1 = q1
    Requests = {r1, r2}
    Members = {m1, m2}
    CoinNames <- MCCoinNames
    BTC = "BTC"
    NoCoin = "none"
    UnitOf <- MCUnitOf
    MaxFailures = 1
    Pairs <- MCPairs
    OrderForms <- MCForms
    Forbidden = {m2}
    MaxClock = 3
    MaxCancels = 1
    Readers = {q1}
    PageNos = {0, 1, 2}
    PageSizes = {1, 2}
SYMMETRY RequestSymmetry
CHECK_DEADLOCK FALSE
INVARIANTS
    TypeOK
    OneWalletPerCoin
    AddressOfOneMember
    ShownStaysWatched
    ResetGivesAddress
    OrderInv
    AnsweredOrderIsFound
    ListsInv
