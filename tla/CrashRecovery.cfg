SPECIFICATION Spec
CONSTANTS
    N = 3
    MaxTurns = 3
    MaxSteps = 2
    MaxCrashes = 3
INVARIANTS NotStartedIsTrue AnsweredExactlyOnce RepairResumes
PROPERTIES LogFollowsGrammar
