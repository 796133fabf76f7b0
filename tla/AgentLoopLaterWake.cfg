SPECIFICATION Spec
CONSTANTS
    MaxSent = 2
    MaxSteps = 1
    MaxNesting = 2
    CallerCauses = {"user"}
    Rejectable = {}
PROPERTIES LaterWakesSurviveCancel
