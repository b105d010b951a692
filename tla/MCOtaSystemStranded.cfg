SPECIFICATION HSpec
CONSTANTS
    Tasks = {t1}
    Base = base
    None = none
    Budgets <- Stranded
INVARIANTS
    NeverStranded
CHECK_DEADLOCK FALSE
