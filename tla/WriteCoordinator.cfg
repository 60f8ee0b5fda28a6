CONSTANTS
    w1 = w1
    w2 = w2
    w3 = w3
    Ops = {w1, w2, w3}
    NoOp = NoOp
    FailingHooks = {"registered", "queued", "started", "startGate", "settled"}
    MaxHolds = 1
SYMMETRY Symmetry
SPECIFICATION Spec
INVARIANTS
    WriteRightIsExclusive
    QuiescenceMirrorsCoordinator
    UnknownEffectIsFinal
    ResolvedMeansPersisted
CHECK_DEADLOCK FALSE
PROPERTIES
    StartsInOrder
