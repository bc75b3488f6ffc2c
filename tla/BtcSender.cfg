CONSTANTS
    c1 = c1  c2 = c2  c3 = c3
    Calls = {c1, c2}
    Amounts = {0, 4, 5, 8, 12}
    Payments <- SomePayments
    Deposits <- ThreeDeposits
    Satoshi = 4
    Grain = 2
    Rounding <- SomeRounding
    MaxFaults = 1
    NoPayment = NoPayment
SPECIFICATION FairSpec
INVARIANT SenderInv
PROPERTIES ImplementsLedger SentUnlessRefused
CHECK_DEADLOCK FALSE
