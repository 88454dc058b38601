CONSTANTS
    p1 = p1
    p2 = p2
    p3 = p3
    p4 = p4
    c1 = c1
    c2 = c2
    x = x
    y = y
    Items <- MCItems
    Creators <- MCCreators
    Owner <- MCOwner
    Initial = {p4}
    Risky = {p3}
    Cooldown <- MCCooldown
    Posts = 1
    PerTicks = 2
    DeleteAfter = 2
    ExitAfter = 3
    RefreshInterval = 2
    Advertisers = {adv}
    Cells <- MCCells
    Shares <- MCShares
    Whole = 2
    Bids = {1, 2}
    Budgets = {3}
    MaxAds = 2
    PageSize = 1
    MaxIntents = 2
    MaxTime = 4
SPECIFICATION Spec
INVARIANTS
    CooldownKept
    ServesLive
    FullyBilled
CHECK_DEADLOCK FALSE
