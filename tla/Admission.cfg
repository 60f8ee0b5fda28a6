SPECIFICATION Spec
CONSTANTS
    w1 = w1
    w2 = w2
    n1 = n1
    a1 = a1
    a2 = a2
    NoArtifact = none
    NoCommand = none
    Requests <- MCRequests
    Holders <- MCRequests
    Limit <- MCLimit
    KindOf <- MCKindOf
    Artifacts = {a1, a2}
    Commands <- MCCommands
    RegistryCapacity = 2
    Writable = TRUE
    Faults = {"BIND", "BUDGET", "FREEZE", "REGISTRY"}
INVARIANTS
    ResourcesFollowPhase
    AnswersHoldInTheDatabase
    AppliedAtMostOnce
PROPERTIES
    DrainedIsQuiet
CONSTRAINT FaultsOrCommands
SYMMETRY MCSymmetry
CHECK_DEADLOCK FALSE
