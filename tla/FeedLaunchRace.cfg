SPECIFICATION Spec
CONSTANTS
    l1 = l1
    l2 = l2
    v1 = v1
    v2 = v2
    r1 = r1
    r2 = r2
    None = None
    Launches <- MCLaunches
    Variants <- MCVariants
    Predecessor <- MCPredecessor
    Passes <- MCPasses
    Chosen <- MCChosen
    Quiet <- MCQuiet
    Ticks = 2
    Runners <- TwoRunners
    MaxFailures = 1
    MaxCrashes = 1
SYMMETRY RunnerSymmetry
INVARIANTS
    LadderOrder
    
PROPERTY
    LostToStaleHeads
