CONSTANTS
    ExecutionMs = 3
    MaxRounds = 2
    SingleCommandMs = 2
    ConfirmationMs = 10
    ConfirmationSlots = 5
    NativeGroupSlots = 2
    NativeGroupMs = 2
    FirstDelayMs = 1
    LaterDelayMs = 2
    Evidence = {}
    MaxTime = 20
    MaxLateness = 1
    Phase = 0
    Cases <- Recognition
SPECIFICATION Spec
INVARIANTS
    RecoveryWaitsForPause
CHECK_DEADLOCK FALSE
