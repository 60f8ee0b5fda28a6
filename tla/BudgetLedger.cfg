CONSTANTS
    e1 = e1
    Evidence = {e1}
    ExecutionMs = 3
    MaxRounds = 2
    SingleCommandMs = 2
    ConfirmationMs = 5
    ConfirmationSlots = 5
    NativeGroupSlots = 2
    NativeGroupMs = 2
    FirstDelayMs = 1
    LaterDelayMs = 2
    MaxTime = 7
SPECIFICATION Spec
INVARIANTS
    BudgetIsKept
PROPERTIES
    BudgetsNeverRefresh
CHECK_DEADLOCK FALSE
