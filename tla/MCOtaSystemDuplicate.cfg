SPECIFICATION HSpec
CONSTANTS
    Tasks = {t1}
    Base = base
    None = none
    Budgets <- Duplicate
PROPERTIES
    DuplicateRejected
CHECK_DEADLOCK FALSE
