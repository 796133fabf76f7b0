SPECIFICATION FairSpec
CONSTANTS
    MaxSent = 2
    MaxSteps = 2
    MaxNesting = 2
    CallerCauses = {"user"}
    Rejectable = {"turn/start", "step/start", "step/end", "turn/end", "agent/inbox/spliced"}
INVARIANTS NoWakeIsLost AdmittedOnce
PROPERTIES LogFollowsGrammar NoWorkUnderAbort CancelConverges WakeIsServed
