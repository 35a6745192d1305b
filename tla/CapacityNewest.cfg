SPECIFICATION Spec
CONSTANTS
    t1 = t1
    t2 = t2
    Threads = {t1}
    Events <- MCEvents
    Ts <- MCTs
    Horizon = 2
    MaxEvents = 4
    Batches <- MCBatches
    MaxSequence = 4
    Default = "default"
    MaxCorrelationEvents = 3
    AlertIds = {1, 2, 3}
    Correlate <- MCCorrelate
    MaxAlertsChoices = {2}
    Durable = TRUE
    MaxCorruptRows = 0
    MaxFaults = 1
SYMMETRY MCSymmetry
PROPERTIES
    CapacityKeepsNewest
