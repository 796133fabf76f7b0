SPECIFICATION Spec
CONSTANTS
    Procs = {p1, p2}
    Removers = {p1}
    MaxInodes = 2
    TurnEnds = {2}
    MaxEvents = 3
    MaxBatch = 2
    MaxOpens = 3
    MaxFaults = 1
INVARIANTS OneWriter AckedSurvives ViewIsStored
CHECK_DEADLOCK FALSE
