SPECIFICATION Spec
CONSTANTS
    MaxPrecision = 4
    BareScale = 1
    MaxMantissa = 792
    MaxScale = 2
    NanosPerMicro = 3
    MaxNanos = 7
    Calendar <- MCCalendar
    PgCalendar <- MCPgCalendar
    Tables <- MCTables
    Batches <- MCBatches
    MaxLegs = 5
    None = None
    Refused = Refused
    Unreadable = Unreadable
INVARIANTS
    BatchIsValid
    CopyKeepsType
    CopyKeepsValue
PROPERTIES
    SettlesAtOnce
    FieldsComeBack
    ForeignGeometriesLoad
