SPECIFICATION Spec
CONSTANTS
    a = a
    b = b
    e0 = e0
    e1 = e1
    e2 = e2
    e4 = e4
    Namespaces <- MCNamespaces
    Events <- MCEvents
    Ts <- MCTs
    Horizon = 2
    MaxEvents = 3
    Batches <- MCBatches
    References <- MCReferences
    MaxSequence = 5
SYMMETRY MCSymmetry
INVARIANTS
    TypeOK
    IndexMatchesBuckets
    NoDuplicateEvents
    WatermarkIsNewest
    WithinHorizon
    CapacityBound
PROPERTIES
    OldestLeaveFirst
    WatermarkMonotone
    CountsAccountForSize
