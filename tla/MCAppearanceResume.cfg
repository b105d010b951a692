SPECIFICATION Spec
CONSTANTS
    k1 = k1
    NoKey = none
    Deployments <- ThenBuiltin
    Delays = 3
    MaxRestarts = 0
    MaxCalls = 1
    MaxFaults = 0
PROPERTIES
    PrefixResumed
CHECK_DEADLOCK FALSE
