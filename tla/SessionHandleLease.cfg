SPECIFICATION Safety
CONSTANTS
    Flushers = {}
    MaxEvents = 3
PROPERTIES WritesUnderLease
