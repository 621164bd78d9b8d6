\* A release and its successor start on one database; three faults.
CONSTANTS
    old = old
    new = new
    Procs = {old, new}
    Manifest <- MCUpgrade
    MaxFaults = 3
    MaxDrifts = 0
    Free = Free
    Ghost = Ghost
    NoFact = NoFact
SPECIFICATION FairSpec
INVARIANTS
    TypeOK
    FactsAreTrue
    AppliedOnce
    ServingIsMigrated
PROPERTIES
    ImplementsHistory
    SuccessIsFinal
    EveryBuildServes
\* All processes may be serving.
CHECK_DEADLOCK FALSE
