CONSTANTS
    w1 = w1
    w2 = w2
    w3 = w3
    Ops = {w1, w2}
    NoOp = NoOp
    FailingHooks = {"cleanup", "started"}
    MaxHolds = 1
SPECIFICATION FairSpec
PROPERTIES
    EveryWriteSettles
CHECK_DEADLOCK FALSE
