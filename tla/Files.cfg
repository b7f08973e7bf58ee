SPECIFICATION FairSpec
CONSTANTS
    r1 = r1
    r2 = r2
    r3 = r3
    Original = Original
    RegularFile = RegularFile
    None = None
    Runs <- MCPair
    SingleFile <- MCSingleFile
    MaxStreams = 2
    MaxBatches = 2
    Overlapping = FALSE
    Faults <- MCFaults
INVARIANTS TypeOK NewIsOnDisk TmpGone
PROPERTIES SuccessHoldsAll ReplacesAtomically RunsEnd
