\* Two requests in flight; stop() may or may not reach a listener that starts.
CONSTANTS
    MaxRequests = 2
    EarlyStop = {TRUE, FALSE}
SPECIFICATION LiveSpec
INVARIANTS
    UsersOutlived
    EndsClean
    SuccessIsEarned
PROPERTIES
    SignalEndsProcess
    ListenerLossNoticed
\* The process ends.
CHECK_DEADLOCK FALSE
