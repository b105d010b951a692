SPECIFICATION VoiceSpec
CONSTANTS
    Talks <- Rarely
    MaxAttempts = 1
INVARIANTS
    FailureIsHandled
CHECK_DEADLOCK FALSE
