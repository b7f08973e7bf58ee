SPECIFICATION FairSpec
CONSTANTS
    r1 = r1
    r2 = r2
    r3 = r3
    Original = Original
    None = None
    Runs <- MCRuns
    SelfSourced <- MCSelfSourced
    MaxBatches = 1
    Overlapping = TRUE
INVARIANTS StagingGone
PROPERTIES TargetReadable RunsEnd
