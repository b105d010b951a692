SPECIFICATION ProgressSpec
CONSTANTS
    Writers = {w1, w2}
    Contents = {r1, r2}
    NoRecord = norecord
    Modulus = 8
    MaxOvertakes = 2
    None = none
    s1 = s1
    c1 = c1
    main = main
    h1 = h1
    h2 = h2
    t1 = t1
    base = base
INVARIANTS
    ProgressTypeOK
PROPERTIES
    StoreImplemented
    NeverLost
    ParkedIsReclaimed
    StopReturns
    TaskEnds
    EverySessionEnds
CHECK_DEADLOCK FALSE
