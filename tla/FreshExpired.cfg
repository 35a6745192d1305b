SPECIFICATION Spec
CONSTANTS
    Seconds <- MCSeconds
    Threshold <- MCThreshold
    MaxWindowEvents = 3
    Suppressed = {}
    Cooldown = 2
    MaxEntries = 2
    NoFingerprint = NoFingerprint
    Messages <- MCMessages
    YearLength = 8
    Horizon = 3
    MaxEvents = 4
    MaxSequence = 4
    Default = "default"
    SnapshotLimit = 3
    FirstClock = 7
    LastClock = 9
    StepsBack = FALSE
    MaxFailures = 0
PROPERTIES
    FreshNeverExpired
