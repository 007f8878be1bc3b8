SPECIFICATION Spec
CONSTANTS
    MaxOutstanding = 2
    MaxCancels = 0
    Intervals <- AnyIntervals
    MaxInterval = 60
INVARIANT OneCompletion
CHECK_DEADLOCK FALSE
