CONSTANTS
    k1 = k1
    k2 = k2
    k3 = k3
    v1 = v1
    v2 = v2
    v3 = v3
    a1 = a1
    a2 = a2
    r1 = r1
    r2 = r2
    e1 = e1
    e2 = e2
    Keys = {k1, k2, k3}
    Artifacts = {a1, a2}
    Results = {r1, r2}
    Evidence = {e1, e2}
    Reservations = {v1, v2, v3}
    NoArtifact = NoArtifact
    NoResult = NoResult
    Capacity = 2
SYMMETRY Symmetry
SPECIFICATION Spec
INVARIANTS
    EntriesAreConsistent
    ContinuationIsPaidFor
PROPERTIES
    ImplementsOnceStore
CHECK_DEADLOCK FALSE
