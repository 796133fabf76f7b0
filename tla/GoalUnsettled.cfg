SPECIFICATION Spec
CONSTANTS
    MaxLimit = 2
    MaxEvents = 4
PROPERTY RoundStoredFirst
CHECK_DEADLOCK FALSE
