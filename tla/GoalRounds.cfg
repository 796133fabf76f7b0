SPECIFICATION Spec
CONSTANTS
    MaxLimit = 2
    MaxEvents = 5
INVARIANTS TypeOK
PROPERTIES RoundOnce PauseStops StoredFirst CommitsReplay GoalEnds
CHECK_DEADLOCK FALSE
