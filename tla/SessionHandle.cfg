SPECIFICATION Spec
CONSTANTS
    Flushers = {f1, f2}
    MaxEvents = 3
INVARIANTS LogIsIntact SomeoneDrains
PROPERTIES CloseSeesEverything KeepsPromise CallsSettle
