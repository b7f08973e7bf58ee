SPECIFICATION Spec
CONSTANTS
    r1 = r1
    r2 = r2
    r3 = r3
    Original = Original
    None = None
    Runs <- MCPair
    SelfSourced <- MCNone
    MaxBatches = 1
    Overlapping = TRUE
INVARIANT TargetWhole
