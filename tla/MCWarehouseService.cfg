\* Three requests of a manager or a viewer, one goods id, two connections, one restart.
CONSTANTS
    manager = manager
    viewer = viewer
    Requests = {r1, r2, r3}
    MaxGoods = 1
    Users <- MCUsers
    Writers <- MCWriters
    PoolSize = 2
    MaxCrashes = 1
    NoOp = NoOp
    NoRow = NoRow
    NoWrite = NoWrite
    NoToken = NoToken
SPECIFICATION Spec
SYMMETRY MCSymmetry
INVARIANTS
    TypeOK
    CleanReturn
    TokenAfterUpgrade
    WriteStillValid
PROPERTIES
    ImplementsLedger
\* All requests may have been answered.
CHECK_DEADLOCK FALSE
