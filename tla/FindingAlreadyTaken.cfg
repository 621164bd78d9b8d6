\* "Already taken" answered for goods that were stored a moment ago.
CONSTANTS
    manager = manager
    viewer = viewer
    Requests = {r1, r2, r3}
    MaxGoods = 1
    Users <- MCOneUser
    Writers <- MCWriters
    PoolSize = 2
    MaxCrashes = 0
    NoOp = NoOp
    NoRow = NoRow
    NoWrite = NoWrite
    NoToken = NoToken
SPECIFICATION Spec
INVARIANTS
    AlreadyTakenIsTrue
CHECK_DEADLOCK FALSE
