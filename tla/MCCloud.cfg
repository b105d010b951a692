SPECIFICATION CloudSpec
CONSTANTS
    None = none
    Budgets <- Rarely
    Scenarios <- Sessions
    MaxStreams = 2
    Commands = {c1, c2, c3}
    Payloads = {p1, p2}
    Capacity = 2
    Budget = 1
    MaxSequence = 4
    MaxResets = 1
INVARIANTS
    CloudTypeOK
    OneSdkClient
    NothingForgotten
    NoForeignStop
    StopMeansJoined
    NeverTwiceAtOnce
    ReplayIsOwn
PROPERTIES
    ConnectionRecovers
    StreamsReclaim
CHECK_DEADLOCK FALSE
