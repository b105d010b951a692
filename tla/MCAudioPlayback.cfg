SPECIFICATION PlayerSpec
CONSTANTS
    Listens <- Rarely
    Frames = 2
INVARIANTS
    ResumeReopens
CHECK_DEADLOCK FALSE
