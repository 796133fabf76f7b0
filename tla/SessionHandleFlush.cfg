SPECIFICATION Safety
CONSTANTS
    Flushers = {f1, f2}
    MaxEvents = 1
PROPERTIES FlushDrainsAll
