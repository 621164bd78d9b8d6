\* A build whose first version was edited starts beside the original; three faults, one drift.
CONSTANTS
    old = old
    new = new
    Procs = {old, new}
    Manifest <- MCEdited
    MaxFaults = 3
    MaxDrifts = 1
    Free = Free
    Ghost = Ghost
    NoFact = NoFact
SPECIFICATION Spec
INVARIANTS
    NoForeignEffects
\* All processes may be serving.
CHECK_DEADLOCK FALSE
