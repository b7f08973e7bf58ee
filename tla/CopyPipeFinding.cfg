SPECIFICATION Spec
CONSTANTS
    Tables <- MCTables
    Alike <- MCAlike
    Unreadable <- MCUnreadable
    BatchRows = 2
    ChunkBytes = 5
    None = None
    Header = Header
    Trailer = Trailer
INVARIANT ArrivesWhole
