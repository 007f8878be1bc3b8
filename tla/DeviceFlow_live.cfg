SPECIFICATION FairSpec
CONSTANTS
    MaxOutstanding = 2
    MaxCancels = 1
    Intervals <- AnyIntervals
    MaxInterval = 60
INVARIANTS TypeOK PollsSpaced
PROPERTIES ThreadEnds AnswerReported
CHECK_DEADLOCK FALSE
