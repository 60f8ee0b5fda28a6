CONSTANTS
    w1 = w1
    w2 = w2
    w3 = w3
    Ops = {w1, w2}
    NoOp = NoOp
    FailingHooks = {"queued"}
    MaxHolds = 0
SPECIFICATION Spec
INVARIANTS
    HookFailureBlocksPermanently
CHECK_DEADLOCK FALSE
