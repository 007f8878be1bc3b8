SPECIFICATION FairSpec
CONSTANTS
    a1 = a1
    a2 = a2
    Actions = {a1, a2}
    MaxGrants = 1
    MaxTokens = 2
    MaxRestarts = 1
INVARIANTS TypeOK OneRefresh ExactlyOnce
PROPERTIES DispatchedFresh EventuallyCalled
CHECK_DEADLOCK FALSE
