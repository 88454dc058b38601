SPECIFICATION FairSpec
CONSTANTS
    l1 = l1
    l2 = l2
    v1 = v1
    v2 = v2
    r1 = r1
    r2 = r2
    Launches <- MCLaunches
    Variants <- MCVariants
    CommitEarly <- MCCommitEarly
    Concludes <- MCConcludes
    Quiet <- MCQuiet
    MaxAttempts = 2
    Ticks = 2
    Runners <- OneRunner
    MaxFailures = 1
    MaxCrashes = 1
INVARIANTS
    FailedAttemptsUnpublished
PROPERTIES
    ImplementsAtomicHistory
    EveryLaunchConcludes
