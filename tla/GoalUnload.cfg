SPECIFICATION Spec
CONSTANTS
    MaxLimit = 2
    MaxEvents = 4
PROPERTY UnloadStops
CHECK_DEADLOCK FALSE
