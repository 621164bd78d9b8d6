\* Two callers and two workers share a queue with room for two tasks.
CONSTANTS
    Workers = {w1, w2}
    Limit = 2
    Callers = {c1, c2}
    Tasks = {t1, t2, t3, t4}
    NoTask = NoTask
SPECIFICATION LiveSpec
INVARIANTS
    TypeOK
    NoLostWakeup
    DrainedAtClose
PROPERTIES
    ShutdownReturns
    ImplementsHandoff
\* The queue may be closed and every task settled.
CHECK_DEADLOCK FALSE
