\* Is a trace valid, a slate full, and what is logged the probability of what is shown?
CONSTANTS
    c1 = c1  c2 = c2  v = v  w = w  a = a  b = b
    None = None
    Items <- MCItems
    Ads = {a, b}
    ColdVideos = {c1, c2}
    CreatorOf <- MCCreatorOf
    KindOf <- MCKindOf
    Merit <- MCMerit
    Routes <- MCRoutes
    ColdRoute = "cold_start"
    AdsRoute = "ads_auction"
    RouteRows <- MCRouteRows
    RouteK = 2
    RecallK = 5
    CoarseK = 4
    FineK = 3
    ExposeK = 2
    Contribution <- MCContribution
    Whole = 2
    Policies <- MCPolicies
SPECIFICATION CascadeSpec
INVARIANTS
    TraceIsValid
    SlateIsFull
    PropensityIsExact
\* A request ends.
CHECK_DEADLOCK FALSE
