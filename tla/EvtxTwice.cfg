SPECIFICATION Spec
CONSTANTS
    Seconds <- MCSeconds
    Threshold <- MCThreshold
    MaxWindowEvents = 3
    Suppressed = {}
    Months = 3
    Days = 2
    ContinentCode <- MCContinentCode
    Fingerprint <- MCFingerprint
    Inputs <- MCInputs
    MaxChanges = 2
INVARIANTS
    EvidenceIsDistinct
