SPECIFICATION Spec
CONSTANTS
    f1 = f1
    f2 = f2
    Flows = {f1, f2}
    None = None
INVARIANTS TypeOK CalledOnce AcceptedResponseWins
PROPERTY EveryFlowEnds
CHECK_DEADLOCK FALSE
