SPECIFICATION Spec
CONSTANTS
    MaxLimit = 2
    MaxEvents = 4
PROPERTY GoalGoesOn
CHECK_DEADLOCK FALSE
