SPECIFICATION FairSpec
CONSTANTS
    MaxRecords = 2
    Interval = 2
    LastInstant = 4
    MaxInputs = 3
    MaxTroubles = 1
INVARIANTS AcceptedIsQueued ReportedIsStored
PROPERTIES NoStrayReminder OverdueIsServed
CHECK_DEADLOCK FALSE
