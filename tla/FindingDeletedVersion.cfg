\* A build that lacks a recorded version starts.
CONSTANTS
    old = old
    new = new
    Procs = {old, new}
    Manifest <- MCUpgrade
    MaxFaults = 0
    MaxDrifts = 0
    Free = Free
    Ghost = Ghost
    NoFact = NoFact
SPECIFICATION Spec
INVARIANTS
    DeletedStepRefused
\* All processes may be serving.
CHECK_DEADLOCK FALSE
