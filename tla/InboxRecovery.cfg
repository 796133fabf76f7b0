SPECIFICATION Spec
CONSTANTS
    MaxMessages = 2
    MaxTurns = 2
    MaxSteps = 1
    MaxCrashes = 2
INVARIANTS InboxIsReadable ClaimIsAccounted
\* Messages, turns and crashes are bounded: the system may stop.
CHECK_DEADLOCK FALSE
