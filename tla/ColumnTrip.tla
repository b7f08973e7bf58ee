----------------------------- MODULE ColumnTrip -----------------------------
(***************************************************************************)
(* One value of one column on its way: read out of a Postgres table into    *)
(* an Arrow field, written from there into a Postgres table that the         *)
(* destination declares, read again, and so on. A trip starts at a table     *)
(* somebody else made, or at an Arrow field of another producer (a Parquet   *)
(* file, a Python iterable). Either side may refuse.                         *)
(***************************************************************************)
EXTENDS TypeMap

CONSTANTS
    Tables,   \* [column, cell] of tables no transfer has written
    Batches,  \* [field, item] of batches no Postgres source has read
    MaxLegs   \* bound: moves between the two sides

\* The scales a numeric may be declared with.
NumericScales == -1000..1000

\* An SRID has twenty bits, a geometry's modifier eight more.
IsSrid(srid) == srid \in Nat /\ 0 < srid /\ srid < 1048576
IsGeoTypmod(typmod) == 0 =< typmod /\ typmod < 268435456

\* A column as Postgres has it: a numeric's modifier is -1 or what some numeric(p,s) packs, a
\* geometry's is -1 or an SRID above a shape.
IsColumn(column) ==
    /\ column.typmod \in Int
    /\ column.type = "numeric" =>
          LET p == PackedPrecision(column.typmod)
              s == PackedScale(column.typmod)
          IN \/ column.typmod = BareTypmod
             \/ /\ p \in 1..1000 /\ s \in NumericScales
                /\ column.typmod = NumericTypmod(p, s)
    /\ column.type \in {"geometry", "geography"} =>
          \/ column.typmod = BareTypmod
          \/ IsGeoTypmod(column.typmod)

DiscreteRanges == {"int4range", "int8range", "daterange"}
RangeTypes == DOMAIN RangeDecoding \cup {"numrange"}
BoundsOf(type) == IF type = "numrange" THEN LibraryNumeric ELSE Int

\* A range as Postgres stores it: no infinite bound is inclusive, the bounds are in order, and hold
\* nothing between them only if the range is the empty one; over whole values [lower, upper).
IsRangeCell(type, cell) ==
    \/ cell = EmptyRange
    \/ /\ cell \in Ranges(BoundsOf(type) \cup {Unreadable}) /\ ~cell.empty
       /\ cell.lower_inc => cell.lower # None
       /\ cell.upper_inc => cell.upper # None
       /\ type \in DiscreteRanges => cell.lower_inc = (cell.lower # None) /\ ~cell.upper_inc
       /\ {cell.lower, cell.upper} \cap {None, Unreadable} = {} =>
             \/ Below(type = "numrange", cell.lower, cell.upper)
             \/ /\ cell.lower_inc /\ cell.upper_inc
                /\ ~Below(type = "numrange", cell.upper, cell.lower)

\* A value as a column holds it: a numeric has the digits that are declared, a geometry the SRID.
IsCell(column, cell) ==
    cell \notin {None, Unreadable} =>
        /\ cell # Refused
        /\ column.type = "numeric" =>
              /\ cell \in LibraryNumeric
              /\ column.typmod # BareTypmod =>
                    /\ Abs(cell.mantissa) < PowerOfTen[PackedPrecision(column.typmod)]
                    /\ PackedScale(column.typmod) >= 0 => cell.scale = PackedScale(column.typmod)
        /\ column.type \in RangeTypes => IsRangeCell(column.type, cell)
        /\ column.type = "interval" => cell \in Int
        /\ column.type \in {"date", "timestamp", "timestamptz"} => cell \in PgCalendar
        /\ column.type = "jsonb" => cell.text \notin {None, Unreadable, Refused}
        /\ column.type \in {"geometry", "geography"} =>
              /\ cell = [ewkb |-> cell.ewkb, srid |-> cell.srid]
              /\ column.typmod # BareTypmod /\ column.typmod \div 256 # 0 =>
                    cell.srid = column.typmod \div 256

\* A data type that is not made of others; a decimal has between one digit and the most.
IsData(data) ==
    /\ Head(data) \in DOMAIN FixedEncoding => data = <<Head(data)>>
    /\ Head(data) = "Timestamp" => data = <<"Timestamp", data[2], data[3]>>
    /\ Head(data) = "Decimal128" =>
          /\ data = <<"Decimal128", data[2], data[3]>>
          /\ data[2] \in 1..MaxPrecision
          /\ data[3] \in -128..127

\* A field as Arrow has it; a coordinate system is one that PostGIS can be told about, or none.
IsField(field) ==
    /\ IsData(field.data)
    /\ Head(field.data) = "Struct" => IsData(field.data[2])
    /\ TagName(field) \in {"arrow.json", "arrow.uuid", "transferred.pg_range"} =>
          field.tag = <<TagName(field)>>
    /\ Head(field.data) = "Binary" /\ TagName(field) = "geoarrow.wkb" =>
          LET epsg == Epsg(field.tag[2])
          IN /\ epsg = None \/ IsSrid(epsg)
             /\ field.tag[3] \in EdgeKinds

\* A value as a field holds it: numbers, ranges of numbers, and geometries, where the mapping
\* looks at it.
IsItem(field, item) ==
    item # None =>
        /\ item \notin {Unreadable, Refused}
        /\ Head(field.data) \in {"Decimal128", "Interval", "Date32", "Timestamp"} => item \in Int
        /\ Head(field.data) = "Struct" => item \in Ranges(Int)
        /\ Head(field.data) = "Binary" /\ TagName(field) = "geoarrow.wkb" =>
              item = [ewkb |-> item.ewkb, srid |-> item.srid]

ASSUME TripAssumption ==
    /\ MaxLegs \in Nat
    /\ \A row \in Tables : IsColumn(row.column) /\ IsCell(row.column, row.cell)
    /\ \A from \in Batches : IsField(from.field) /\ IsItem(from.field, from.item)

\* An Err is not the geometry that PostGIS stores where a value without SRID gets its column's.
ASSUME StampAssumption ==
    \A from \in Batches :
        Head(from.field.data) = "Binary" /\ TagName(from.field) = "geoarrow.wkb" /\ from.item # None =>
            Refused # [from.item EXCEPT !.srid = Epsg(from.field.tag[2])]

VARIABLES
    at,      \* "table", "batch" or "refused"
    legs,    \* moves so far
    table,   \* [column, cell], the table the value is in or was last in
    batch,   \* [field, item], the batch likewise
    read,    \* whether the batch was read from a table
    origin   \* the table it was read from

vars == <<at, legs, table, batch, read, origin>>

Init ==
    /\ legs = 0
    /\ read = FALSE
    /\ origin = None
    /\ \/ at = "table" /\ table \in Tables /\ batch = None
       \/ at = "batch" /\ batch \in Batches /\ table = None

\* Decoder::derive and one cell of Decoder::decode: the batch a table reads as.
BatchOf(row) ==
    LET decoding == Decoding(row.column)
    IN [field |-> Field(decoding), item |-> Decoded(decoding, row.cell)]

\* The column has an Arrow type, and the value a place in it.
Decodes(row) ==
    /\ Decoding(row.column) # Refused
    /\ Decoded(Decoding(row.column), row.cell) # Refused

\* Encoder::new with its declarations, one cell of write_row, and Postgres's receive function:
\* the table a batch is written as.
TableOf(from) ==
    LET encoding == Encoding(from.field)
    IN [column |-> SqlColumn(encoding),
        cell   |-> Stored(SqlColumn(encoding), Encoded(encoding, from.item))]

\* The field has a Postgres type, and the value fits the column.
Encodes(from) ==
    /\ Encoding(from.field) # Refused
    /\ TableOf(from).cell # Refused

Read ==
    /\ at = "table"
    /\ legs < MaxLegs
    /\ Decodes(table)
    /\ batch' = BatchOf(table)
    /\ read' = TRUE
    /\ origin' = table
    /\ at' = "batch"
    /\ legs' = legs + 1
    /\ UNCHANGED table

ReadRefused ==
    /\ at = "table"
    /\ legs < MaxLegs
    /\ ~Decodes(table)
    /\ at' = "refused"
    /\ legs' = legs + 1
    /\ UNCHANGED <<table, batch, read, origin>>

Write ==
    /\ at = "batch"
    /\ legs < MaxLegs
    /\ Encodes(batch)
    /\ table' = TableOf(batch)
    /\ at' = "table"
    /\ legs' = legs + 1
    /\ UNCHANGED <<batch, read, origin>>

WriteRefused ==
    /\ at = "batch"
    /\ legs < MaxLegs
    /\ ~Encodes(batch)
    /\ at' = "refused"
    /\ legs' = legs + 1
    /\ UNCHANGED <<table, batch, read, origin>>

\* The trip is over.
Done ==
    /\ at = "refused" \/ legs = MaxLegs
    /\ UNCHANGED vars

Next == Read \/ ReadRefused \/ Write \/ WriteRefused \/ Done

Spec == Init /\ [][Next]_vars

-----------------------------------------------------------------------------
(* What the mapping promises. *)

\* A copy is a table that the destination declared for a batch the source read.
IsCopy == at = "table" /\ read

\* The number of units of a decimal type fits its precision.
FitsDecimal(data, units) ==
    Head(data) = "Decimal128" /\ units # None => Abs(units) < PowerOfTen[data[2]]

\* Arrow takes no array with more digits than its type declares, and no reader of the batch would
\* look: every value the source appends, range bounds included, fits its field, and neither
\* bound of a range that is infinite is marked inclusive.
BatchIsValid ==
    at = "batch" /\ read /\ batch.item # None =>
        LET data == batch.field.data
            item == batch.item
        IN IF Head(data) = "Struct"
           THEN /\ FitsDecimal(data[2], item.lower)
                /\ FitsDecimal(data[2], item.upper)
                /\ item.lower = None => ~item.lower_inc
                /\ item.upper = None => ~item.upper_inc
           ELSE FitsDecimal(data, item)

\* The type each source type is meant to become, as the documentation lists it.
CopiedType(type) ==
    IF type \in {"varchar", "bpchar", "name", "enum", "citext"} THEN "text"
    ELSE IF type = "jsonb" THEN "json"
    ELSE IF type \in DOMAIN FixedDecoding \cup DOMAIN RangeDecoding
                     \cup {"numeric", "numrange", "geometry", "geography"} THEN type
    ELSE "bytea"

\* The copy of a column has its type, or the plain type that stands for it: a numeric keeps its
\* digits, or takes those of a bare one, and a geometry column keeps its coordinate system and
\* loses its shape. Decoding and Encoding are two tables written apart.
CopyKeepsType ==
    IsCopy =>
        LET from == origin.column
            to   == table.column
        IN /\ to.type = CopiedType(from.type)
           /\ to.type = "numeric" =>
                to.typmod = IF from.typmod = BareTypmod
                            THEN NumericTypmod(MaxPrecision, BareScale)
                            ELSE from.typmod
           /\ to.type \in {"geometry", "geography"} => Srid(to.typmod) = Srid(from.typmod)

\* units * 10^-scale is the decimal nearest to this one, and the one away from zero of two.
IsNearest(copy, decimal) ==
    LET gap  == copy.mantissa * PowerOfTen[decimal.scale] - decimal.mantissa * PowerOfTen[copy.scale]
        half == 2 * Abs(gap)
    IN \/ half < PowerOfTen[decimal.scale]
       \/ /\ half = PowerOfTen[decimal.scale]
          /\ IF decimal.mantissa < 0 THEN gap < 0 ELSE gap > 0

\* What becomes of a decimal whose column declares no scale.
IsRounded(copy, decimal) == copy.scale = BareScale /\ IsNearest(copy, decimal)

\* The bound of a copied range: infinite as before, and rounded at most.
IsBound(type, copy, bound) ==
    IF copy = None \/ bound = None THEN copy = bound
    ELSE IF type = "numrange" THEN IsRounded(copy, bound)
    ELSE copy = bound

\* One decimal is what both bounds are rounded to, and they are not both inclusive.
BoundsMeet(range) ==
    /\ range.lower # None /\ range.upper # None
    /\ ~(range.lower_inc /\ range.upper_inc)
    /\ \E point \in LibraryNumeric : IsRounded(point, range.lower) /\ IsRounded(point, range.upper)

\* What a copied range may be: as before, or, if its bounds are rounded onto one another, empty.
IsCopiedRange(type, copy, range) ==
    \/ /\ <<copy.lower_inc, copy.upper_inc, copy.empty>>
              = <<range.lower_inc, range.upper_inc, range.empty>>
       /\ IsBound(type, copy.lower, range.lower)
       /\ IsBound(type, copy.upper, range.upper)
    \/ type = "numrange" /\ copy = EmptyRange /\ BoundsMeet(range)

\* A value that arrives is the value that was sent: NULL only for NULL, empty ranges empty,
\* infinite bounds infinite, intervals to the microsecond; what cannot be kept is refused. Only
\* decimals without a declared scale are altered, numrange bounds among them: to BareScale
\* decimals, half away from zero, as pg_to_arrow's "Lossy by design" has it (DESIGN.md:292 would
\* have the run fail). RangesAreLossless says what that may do to a range.
CopyKeepsValue ==
    IsCopy =>
        LET type == origin.column.type
            from == origin.cell
            to   == table.cell
        IN IF from = None \/ to = None THEN from = to
           ELSE IF type = "numeric"
                THEN IF origin.column.typmod = BareTypmod THEN IsRounded(to, from) ELSE to = from
           ELSE IF type \in DOMAIN RangeDecoding \cup {"numrange"}
                THEN IsCopiedRange(type, to, from)
           ELSE IF type = "jsonb" THEN to = from.text
           ELSE to = from

\* The destination takes every batch that the source reads, and the copy of a copy is the copy:
\* types and values settle with the first trip, and no later one fails on them.
SettlesAtOnce ==
    [][ /\ at = "batch" /\ read => at' # "refused"
        /\ IsCopy => at' # "refused"
        /\ IsCopy' /\ legs >= 3 => table' = origin ]_vars

\* A tag the destination understands comes back, of edges whether they are a sphere's; any other
\* is dropped.
TagComesBack(was, is) ==
    IF <<Head(was.data), TagName(was)>> \in {<<"Utf8", "arrow.json">>,
            <<"FixedSizeBinary", "arrow.uuid">>, <<"Struct", "transferred.pg_range">>}
    THEN is.tag = was.tag
    ELSE IF <<Head(was.data), TagName(was)>> = <<"Binary", "geoarrow.wkb">>
    THEN /\ TagName(is) = TagName(was)
         /\ Epsg(is.tag[2]) = Epsg(was.tag[2])
         /\ is.tag[3] = IF was.tag[3] = "spherical" THEN "spherical" ELSE "planar"
    ELSE is.tag = <<>>

\* The data type comes back, but for the name of a time zone and the digits of a range's bounds.
DataComesBack(was, is) ==
    \/ is = was
    \/ Head(was) = "Timestamp" /\ was[3] # "" /\ is = FixedArrow.Timestamptz
    \/ /\ Head(was) = "Struct" /\ Head(was[2]) \in {"Decimal128", "Timestamp"}
       /\ Head(is) = "Struct" /\ Head(is[2]) = Head(was[2])

\* A batch of another producer that the destination took reads back as the field it was.
FieldsComeBack ==
    [][ legs = 1 /\ at = "table" /\ at' = "batch" =>
            /\ DataComesBack(batch.field.data, batch'.field.data)
            /\ TagComesBack(batch.field, batch'.field) ]_vars

\* A declared SRID is enforced on every row, so the destination declares none that the producer
\* does not vouch for: of plain bytes and planar geometries the server refuses only a value whose
\* own SRID contradicts an authority code, however else a field spells its coordinate system.
ForeignGeometriesLoad ==
    [][ LET tag == batch.field.tag
        IN /\ at = "batch" /\ ~read /\ at' = "refused"
           /\ Head(batch.field.data) = "Binary"
           /\ TagName(batch.field) = "geoarrow.wkb" => tag[3] # "spherical"
           => /\ TagName(batch.field) = "geoarrow.wkb"
              /\ tag[2].spelled = "authority"
              /\ batch.item.srid \notin {0, tag[2].epsg} ]_vars

\* "PG to PG stays lossless": a range that holds something still does when it arrives.
RangesAreLossless ==
    IsCopy /\ origin.column.type = "numrange" /\ origin.cell # None =>
        table.cell.empty = origin.cell.empty
=============================================================================
