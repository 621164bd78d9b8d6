\* Four threads on two slots: two can hold, two can sleep.
CONSTANTS
    Threads = {t1, t2, t3, t4}
    Conns = {c1, c2}
    Capacity = 2
    NoConn = NoConn
SPECIFICATION FairSpec
INVARIANTS
    TypeOK
    SlotAccounting
    ExclusiveLease
    PoisonedStaysInLease
    NoLostWakeup
PROPERTIES
    AcquireReturns
    ImplementsSemaphore
\* A destroyed pool takes no further step.
CHECK_DEADLOCK FALSE
