SPECIFICATION RequestSpec
CONSTANTS
    e1 = e1
    e2 = e2
    Events = {e1, e2}
    MaxPersistedEvents = 2
    MaxReporters = 0
    MaxScanCalls = 2
    MaxDeaths = 2
PROPERTIES NoRequestLost EventuallySettled
