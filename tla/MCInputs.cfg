\* Every input of the bounded sets, each from a fresh start.
CONSTANTS
    MaxId = 31
    MaxPort = 65535
    MaxSize = 100000
    MaxParsed = 100000
    Missing = Missing
    Environments <- MCEnvironments
    ProperEnvironment <- Baseline
    Authored <- MCAuthored
    Roots <- MCRoots
    Bootstraps <- MCBootstraps
    IdTexts <- MCIdTexts
SPECIFICATION Spec
INVARIANTS
    ConfigurationIsSound
    ManifestIsSound
    ParsedIdIsExact
\* A behaviour is one call.
CHECK_DEADLOCK FALSE
