SPECIFICATION Spec
CONSTANTS
    e1 = e1
    e2 = e2
    Events = {e1, e2}
    MaxPersistedEvents = 1
    MaxReporters = 2
    MaxScanCalls = 2
    MaxDeaths = 1
SYMMETRY EventSymmetry
INVARIANTS TypeOK Custody AcknowledgedOnce EvictedForNewer
PROPERTY CustodySpec
