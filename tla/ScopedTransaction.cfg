CONSTANTS
    e1 = e1
    Evidence = {e1}
    Kinds = {"RECOGNITION", "MANAGEMENT"}
    ExecutionMs = 3
    MaxRounds = 2
    SingleCommandMs = 2
    ConfirmationMs = 3
    ConfirmationSlots = 4
    NativeGroupSlots = 2
    NativeGroupMs = 1
    FirstDelayMs = 1
    LaterDelayMs = 1
    MaxTime = 5
    RecognitionScopes = {"x", "y"}
    ManagementScopes = {"z"}
    MaxVersions = 2
    Processes = {1, 2, 3}
INIT MachinesInit
NEXT MachinesNext
INVARIANTS
    DispositionIsTrue
    SessionEndsOnce
    LayersAgree
    HandoffIsSpentOnce
    PlansAreFresh
PROPERTIES
    AcceptedDatasetsAreWhole
CHECK_DEADLOCK FALSE
