SPECIFICATION FairSpec
CONSTANTS
    Transfers <- MCTransfers
    Generators = {g1}
    Lists = {l1}
    Frames = {f1}
    FileObject = fileSource
    Destinations = {d1, d2}
    Tables = {d1}
    Stranger = stranger
    ChunkRows = 2
    Paths <- MCPaths
    Outputs <- MCOutputs
    Worlds <- MCWorlds
    Glob = glob
    None = none
    Torn = torn
    Dir = dir
    a = a
    b = b
    k = k
    l = l
    g1 = g1
    l1 = l1
    f1 = f1
INVARIANTS TypeOK UsedOnce RowsOnce NoRowLost FirstRowSetsColumns OneFileOpen FilesReadWhole TablesHaveOneSchema
PROPERTIES ConnectorsKept CallsReturn
CHECK_DEADLOCK FALSE
