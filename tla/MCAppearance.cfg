SPECIFICATION Spec
CONSTANTS
    k1 = k1
    NoKey = none
    Deployments <- ThenBuiltin
    Delays = 1
    MaxRestarts = 2
    MaxCalls = 2
    MaxFaults = 1
INVARIANTS
    TypeOK
    LastGoodIntact
    NeverStale
    DownloadAfterBoot
PROPERTIES
    PackageTrialPersisted
    TriedOnce
CHECK_DEADLOCK FALSE
