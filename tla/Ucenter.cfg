SPECIFICATION Spec
CONSTANTS
    a = a
    p1 = p1
    p2 = p2
    c1 = c1
    c2 = c2
    b = b
    l1 = l1
    l2 = l2
    m1 = m1
    m2 = m2
    Phones = {p1, p2}
    Codes = {c1, c2}
    Passwords = {"w1"}
    Registers = {a, b}
    Logins = {l1, l2}
    Partners = {"none"}
    CodeTTL = 1
    AccessExpire = 1
    MaxNow = 2
    MaxSends = 2
    MaxServed = 1
    MaxFaults = 1
    Kinds <- MCKinds
    DayLength = 2
    Filters <- MCFilters
    Sizes = {0, 1, 2}
    DefaultSize = 10
    MaxTime = 3
    MaxRows = 4
SYMMETRY MemberSymmetry
CHECK_DEADLOCK FALSE
INVARIANTS
    OnePhoneOneMember
    AccountInv
    LoginsAddUp
    HistoryInv
