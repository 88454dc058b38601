SPECIFICATION Spec
CONSTANTS
    i1 = i1
    j1 = j1
    j2 = j2
    Items <- MCItems
    Journeys <- MCJourneys
    ItemOf <- MCItemOf
    TicksPerDay = 2
    OrderDelay = 2
    PayDelay = 1
    RefundDays = 1
    OrderMaturity = 2
    PaymentMaturity = 3
    RefundMaturity = 6
    PixelMaturity = 6
    MaxReportingLag = 4
    Capacity = 5
    Low = 3
    Refill = 4
    MaxTime = 8
SYMMETRY JourneySymmetry
CHECK_DEADLOCK FALSE
INVARIANTS
    NoOversell
    Funnel
    NothingOverdue
    MatureLabelsFinal
PROPERTY
    DeliveredInTime
