SPECIFICATION Spec
CONSTANTS
    main = main
    other = other
    Callers = {main, other}
    NoOne = NoOne
    Programs <- MCService
    QueueSize = 2
    MaxDatagrams = 4
    MaxErrors = 1
INVARIANTS
    TypeOK
    EveryDatagramCounted
    UnfinishedIsExact
    DrainWaitsForHandlers
    CloseLeavesNothing
    NobodyWaitsInVain
PROPERTIES
    CallsReturn
