SPECIFICATION Spec
CONSTANTS
    t1 = t1
    t2 = t2
    Threads = {t1, t2}
    Events <- ReturnEvents
    Ts <- ReturnTs
    Horizon = 2
    MaxEvents = 6
    Batches <- ReturnBatches
    MaxSequence = 6
    Default = "default"
    MaxCorrelationEvents = 6
    AlertIds = {1, 2}
    Correlate <- MCCorrelate
    MaxAlertsChoices = {2}
    Durable = TRUE
    MaxCorruptRows = 1
    MaxFaults = 0
SYMMETRY MCSymmetry
INVARIANTS
    ActiveNotBuried
