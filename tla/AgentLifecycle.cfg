SPECIFICATION LifeSpec
CONSTANTS
    Fresh = {t1}
    Stored = {t2}
    MaxTroubles = 1
INVARIANTS RejectedIsClean FactoryDrains
PROPERTIES TeardownEnds
CHECK_DEADLOCK FALSE
