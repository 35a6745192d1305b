SPECIFICATION Spec
CONSTANTS
    Seconds <- MCSeconds
    Threshold <- MCThreshold
    MaxWindowEvents = 3
    Suppressed = {"10.0.0.2"}
    Inputs <- MCInputs
    MaxLen = 5
INVARIANTS
    EvidenceIsWidest
    EvidenceWithinWindow
    ReportedInOrder
    MoreEventsMoreEvidence
    
