SPECIFICATION Spec
CONSTANTS
    r1 = r1
    r2 = r2
    r3 = r3
    Original = Original
    RegularFile = RegularFile
    None = None
    Runs <- MCPair
    SingleFile <- MCPlain
    MaxStreams = 2
    MaxBatches = 2
    Overlapping = FALSE
    Faults <- MCCrash
INVARIANT NoTornFile
