\* Two processes start on any of seven tables with any configuration; two faults.
CONSTANTS
    root = root
    ops = ops
    amy = amy
    bob = bob
    Procs = {p1, p2}
    Names = {root, ops, amy, bob}
    NoName = NoName
    Tables <- MCTables
    Configs <- MCConfigs
    MaxFaults = 2
SPECIFICATION LiveSpec
INVARIANTS
    SingleAdministrator
    PassedIsSafe
PROPERTIES
    AllOrNothing
    AdequateStartPasses
\* All processes may be serving.
CHECK_DEADLOCK FALSE
