SPECIFICATION FairSpec
CONSTANTS
    w1 = w1
    w2 = w2
    candidate = candidate
    c1 = c1
    c2 = c2
    Times <- MCTimes
    Marks <- MCMarks
    KeyOrders <- AnyWidth
    Writers <- MCWriters
    Lanes <- MCLanes
    Consumers <- MCConsumers
    LaneOf <- MCLaneOf
    MaxFailures = 1
    MaxCrashes = 1
INVARIANTS
    AlwaysVerifies
    TrainedOnHistory
    OneWatermarkPerWidth
    ConsumedOnce
    LanesFollowTime
PROPERTY
    NothingStarves
