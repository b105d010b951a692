SPECIFICATION ConnectionSpec
CONSTANTS
    Budgets <- Rarely
    None = none
PROPERTIES
    RecoveryGoesOn
CHECK_DEADLOCK FALSE
