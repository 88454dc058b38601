SPECIFICATION Spec
CONSTANTS
    l1 = l1
    l2 = l2
    v1 = v1
    v2 = v2
    r1 = r1
    r2 = r2
    Launches <- MCLaunches
    Variants <- MCVariants
    CommitEarly <- MCCommitEarly
    Concludes <- MCConcludes
    Quiet <- MCQuiet
    MaxAttempts = 2
    Ticks = 1
    Runners <- TwoRunners
    MaxFailures = 0
    MaxCrashes = 0
SYMMETRY RunnerSymmetry
INVARIANTS
    ReviewsConclude
