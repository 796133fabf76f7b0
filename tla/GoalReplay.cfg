SPECIFICATION Spec
CONSTANTS
    MaxLimit = 2
    MaxEvents = 5
INVARIANT RoundsReplay
CHECK_DEADLOCK FALSE
