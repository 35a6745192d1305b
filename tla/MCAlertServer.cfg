SPECIFICATION Spec
CONSTANTS
    t1 = t1
    t2 = t2
    Threads = {t1, t2}
    Events <- MCEvents
    Ts <- MCTs
    Horizon = 2
    MaxEvents = 4
    Batches <- MCBatches
    MaxSequence = 4
    Default = "default"
    MaxCorrelationEvents = 3
    AlertIds = {1, 2}
    Correlate <- MCCorrelate
    MaxAlertsChoices = {1, 2}
    Durable = TRUE
    MaxCorruptRows = 1
    MaxFaults = 2
SYMMETRY MCSymmetry
INVARIANTS
    TypeOK
    MemoryMatchesDisk
    OrderEnumeratesAlerts
    NoDetectionLost
PROPERTIES
    ImplementsTable
