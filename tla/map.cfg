CONSTANTS
    Keys = {k1, k2}
    Items = {i1, i2}
    Threads = {t1, t2, t3}
    Waiters = {w1}
    NoItem = NoItem
    NoKey = NoKey
SPECIFICATION FairSpec
CHECK_DEADLOCK FALSE
INVARIANTS NoUseAfterFree ReaderCountExact
PROPERTIES ImplementsLifetime BlockedCallsReturn
