\* Two requests on two goods ids, one restart, requests of every kind.
CONSTANTS
    manager = manager
    viewer = viewer
    Requests = {r1, r2}
    MaxGoods = 2
    Users <- MCOneUser
    Writers <- MCWriters
    PoolSize = 2
    MaxCrashes = 1
    NoOp = NoOp
    NoRow = NoRow
    NoWrite = NoWrite
    NoToken = NoToken
    MaxId = 31
    HttpRequests <- MCHttpRequests
    Options <- MCOptions
SPECIFICATION FairSpec
PROPERTIES
    EveryRequestAnswered
    StatusTellsEffect
    TokenHonoured
\* All requests may have been answered.
CHECK_DEADLOCK FALSE
