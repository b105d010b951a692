SPECIFICATION HSpec
CONSTANTS
    Tasks = {t1, t2}
    Base = base
    None = none
    Budgets <- Power
SYMMETRY Symmetry
INVARIANTS
    TypeOK
    EraseProtected
    BackupKept
    PhaseMeansFlash
PROPERTIES
    SuccessIsTrue
    NotForgotten
CHECK_DEADLOCK FALSE
