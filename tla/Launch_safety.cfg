SPECIFICATION Spec
CONSTANTS
    MaxLaunches = 3
    Blocks = {b1, b2}
    Failing = {2}
INVARIANTS TypeOK CrashNeverForgotten CrashReportedOnce EndRecognized CountNotExceeded
SYMMETRY Symmetry
CONSTRAINT UpToVerdict
CHECK_DEADLOCK FALSE
