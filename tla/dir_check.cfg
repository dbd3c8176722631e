SPECIFICATION Spec
CONSTANTS
    ann = ann
    bea = bea
    Members = {ann}
    Managers = {ann}
    t1 = t1
    t2 = t2
    Tasks = {t1, t2}
    StaleHours = 2
    WarningHours = 1
    HoldHours = 1
    Horizon = 3
INVARIANTS
    TypeOK
    OneAskAtATime
    OutWithinTheDay
PROPERTIES
    RefusalHolds
    OthersHadTheirTime
SYMMETRY TaskSymmetry
