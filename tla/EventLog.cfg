SPECIFICATION Spec
CONSTANTS
    e1 = e1
    e2 = e2
    e3 = e3
    e4 = e4
    None = None
    Ids <- MCIds
    EventTime <- MCEventTime
    AllowedLateness = 1
    MaxTime = 3
    MaxPartitions = 3
INVARIANTS
    HeadRestorable
    ReadIsExact
PROPERTY
    ImplementsExactlyOnceLog
