SPECIFICATION FairSpec
CONSTANTS
    MaxSent = 1
    MaxSteps = 1
    MaxNesting = 1
    CallerCauses = {"user"}
    Rejectable = {}
PROPERTIES WakeOpensTurn
