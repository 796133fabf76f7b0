SPECIFICATION FairSpec
CONSTANTS
    N = 4
    MaxParallel = 2
INVARIANTS TypeOK ModelOrder ExclusiveIsBarrier OutcomeIsComplete
PROPERTIES NoStartUnderAbort LogFollowsGrammar SchedulerSettles
