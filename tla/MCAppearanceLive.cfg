SPECIFICATION FairSpec
CONSTANTS
    k1 = k1
    NoKey = none
    Deployments <- TwoPackages
    Delays = 1
    MaxRestarts = 1
    MaxCalls = 2
    MaxFaults = 0
PROPERTIES
    DesiredSettles
    TrialEnds
CHECK_DEADLOCK FALSE
