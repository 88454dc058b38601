CONSTANTS
    a = a
    b = b
    c = c
    Items <- MCItems
    Bits <- MCBits
    Locations <- MCLocations
    Delays = {1}
    ReactivationDelays = {2}
    Width = 2
    Segments = 2
    SegmentTicks = 1
    Windows = {2}
    PageSize = 1
    MaxTime = 4
SPECIFICATION Spec
INVARIANTS
    SessionsAreWhole
    SessionFilterIsExact
    FilterIsExact
    RebuildAgrees
CHECK_DEADLOCK FALSE
