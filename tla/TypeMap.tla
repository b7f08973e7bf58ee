------------------------------ MODULE TypeMap ------------------------------
(***************************************************************************)
(* The two halves of the Postgres type mapping, as operators: pg_to_arrow   *)
(* (Decoding, what the source makes of a column and of its values) and      *)
(* arrow_to_pg (Encoding, what the destination makes of an Arrow field and  *)
(* of its values).                                                          *)
(*                                                                          *)
(*  - a Postgres column is [type, typmod]; the modifier is the integer that *)
(*    Postgres packs, taken apart as the code does it;                      *)
(*  - an Arrow field is [data, tag]: the data type as a tuple that starts   *)
(*    with its name, the extension tag likewise; a timestamp without a zone *)
(*    has the zone "";                                                     *)
(*  - a value that the mapping hands through byte for byte is any value;    *)
(*    numbers the mapping computes with (decimals, intervals, dates) and    *)
(*    ranges are spelled out;                                               *)
(*  - None is SQL NULL, an Arrow null or an infinite bound; Refused is an   *)
(*    Err of the function concerned; Unreadable is any value with no Arrow  *)
(*    form for a reader: NaN, infinity, a date past the calendar, text that *)
(*    is not UTF-8.                                                         *)
(***************************************************************************)
EXTENDS Integers, Sequences

CONSTANTS
    MaxPrecision,   \* DECIMAL128_MAX_PRECISION, 38
    BareScale,      \* scale of BARE_NUMERIC, 9
    MaxMantissa,    \* rust_decimal: 2^96 - 1
    MaxScale,       \* rust_decimal: 28
    NanosPerMicro,  \* NANOS_PER_MICRO, 1000
    MaxNanos,       \* i64::MAX
    Calendar,       \* days or microseconds chrono has a date for
    PgCalendar,     \* those Postgres has one for
    None,
    Refused,
    Unreadable

Abs(n) == IF n < 0 THEN -n ELSE n

PowerOfTen[n \in Nat] == IF n = 0 THEN 1 ELSE 10 * PowerOfTen[n - 1]

\* What the decimal library can hold.
LibraryNumeric == [mantissa : -MaxMantissa..MaxMantissa, scale : 0..MaxScale]

Ranges(bounds) ==
    [lower : bounds \cup {None}, upper : bounds \cup {None},
     lower_inc : BOOLEAN, upper_inc : BOOLEAN, empty : BOOLEAN]

\* None, Refused and Unreadable stand for no number and for no range.
ASSUME MapAssumption ==
    /\ {MaxMantissa, MaxScale, BareScale} \subseteq Nat
    /\ MaxPrecision \in 1..127
    /\ BareScale =< MaxScale
    /\ MaxScale =< MaxPrecision
    /\ MaxMantissa < PowerOfTen[MaxPrecision]
    /\ NanosPerMicro \in Nat \ {0}
    /\ MaxNanos \in Nat
    /\ Calendar \subseteq Int /\ PgCalendar \subseteq Int
    /\ None # Refused /\ None # Unreadable /\ Refused # Unreadable
    /\ \A marker \in {None, Refused, Unreadable} :
          marker \notin Int \cup LibraryNumeric \cup Ranges(Int) \cup Ranges(LibraryNumeric)

-----------------------------------------------------------------------------
(* Type modifiers. *)

BareTypmod == -1

\* How Postgres packs numeric(p,s): sixteen bits each, an 11-bit signed scale, plus VARHDRSZ.
NumericTypmod(p, s) == p * 65536 + (s % 2048) + 4

\* How PostGIS packs an SRID above the byte that holds the geometry's subtype and dimensions.
GeoTypmod(srid, shape) == srid * 256 + shape

PackedPrecision(typmod) == ((typmod - 4) \div 65536) % 65536

\* (packed & 0x7ff) ^ 0x400, minus 0x400: the eleven low bits, sign-extended.
PackedScale(typmod) ==
    LET low == (typmod - 4) % 2048 IN IF low < 1024 THEN low ELSE low - 2048

\* Bug: the mask leaves the modifier of an unconstrained column standing.
SridMasksOnly(typmod) ==
    LET code == (typmod % 268435456) \div 256
    IN IF code = 0 THEN None ELSE code

\* geoarrow::srid: (typmod & 0x0fff_ff00) >> 8, unless unconstrained or unknown.
Srid(typmod) ==
    LET code == (typmod % 268435456) \div 256
    IN IF typmod = BareTypmod \/ code = 0 THEN None ELSE code

-----------------------------------------------------------------------------
(* Postgres to Arrow: the column. *)

\* The types recognised by their fixed OID that need no modifier.
FixedDecoding ==
    [bool |-> "Bool", int2 |-> "Int2", int4 |-> "Int4", int8 |-> "Int8",
     float4 |-> "Float4", float8 |-> "Float8",
     text |-> "Text", varchar |-> "Text", bpchar |-> "Text", name |-> "Text",
     bytea |-> "Bytea", date |-> "Date", timestamp |-> "Timestamp",
     timestamptz |-> "Timestamptz", interval |-> "Interval", uuid |-> "Uuid",
     json |-> "Json", jsonb |-> "Jsonb"]

\* The element of each built-in range but numrange.
RangeDecoding ==
    [int4range |-> "Int4", int8range |-> "Int8", daterange |-> "Date",
     tsrange |-> "Timestamp", tstzrange |-> "Timestamptz"]

\* Bug: takes the digits of the decimal library for those of Decimal128.
BareNumericOfLibrary == [kind |-> "Numeric", precision |-> MaxScale, scale |-> BareScale]

\* The digits a numeric without modifier is restated at.
BareNumeric == [kind |-> "Numeric", precision |-> MaxPrecision, scale |-> BareScale]

DeclaredNumeric(typmod) ==
    LET p == PackedPrecision(typmod)
        s == PackedScale(typmod)
    IN IF p =< MaxPrecision /\ 0 =< s /\ s =< p
       THEN [kind |-> "Numeric", precision |-> p, scale |-> s]
       ELSE Refused

NumericDecoding(typmod) ==
    IF typmod = BareTypmod THEN BareNumeric ELSE DeclaredNumeric(typmod)

\* Types whose OID differs per database, by kind or by name; anything else passes as bytes.
ExtensionDecoding(column) ==
    IF column.type \in {"enum", "citext"} THEN [kind |-> "Text"]
    ELSE IF column.type = "geometry"
         THEN [kind |-> "Geo", epsg |-> Srid(column.typmod), edges |-> "planar"]
    ELSE IF column.type = "geography"
         THEN [kind |-> "Geo", epsg |-> Srid(column.typmod), edges |-> "spherical"]
    ELSE [kind |-> "Opaque", name |-> column.type]

Decoding(column) ==
    IF column.type \in DOMAIN FixedDecoding
    THEN [kind |-> FixedDecoding[column.type]]
    ELSE IF column.type = "numeric" THEN NumericDecoding(column.typmod)
    ELSE IF column.type \in DOMAIN RangeDecoding
         THEN [kind |-> "Range", of |-> [kind |-> RangeDecoding[column.type]]]
    ELSE IF column.type = "numrange" THEN [kind |-> "Range", of |-> NumericDecoding(BareTypmod)]
    ELSE ExtensionDecoding(column)

FixedArrow ==
    [Bool |-> <<"Boolean">>, Int2 |-> <<"Int16">>, Int4 |-> <<"Int32">>, Int8 |-> <<"Int64">>,
     Float4 |-> <<"Float32">>, Float8 |-> <<"Float64">>,
     Text |-> <<"Utf8">>, Json |-> <<"Utf8">>, Jsonb |-> <<"Utf8">>,
     Bytea |-> <<"Binary">>, Geo |-> <<"Binary">>, Opaque |-> <<"Binary">>,
     Uuid |-> <<"FixedSizeBinary", 16>>, Date |-> <<"Date32">>,
     Timestamp |-> <<"Timestamp", "us", "">>, Timestamptz |-> <<"Timestamp", "us", "UTC">>,
     Interval |-> <<"Interval", "MonthDayNano">>]

ElementArrow(decoding) ==
    IF decoding.kind = "Numeric"
    THEN <<"Decimal128", decoding.precision, decoding.scale>>
    ELSE FixedArrow[decoding.kind]

\* PgRange::fields: two bounds of one type and three flags, in this order.
RangeFields(data) == <<"Struct", data, data>>

ArrowType(decoding) ==
    IF decoding.kind = "Range"
    THEN RangeFields(ElementArrow(decoding.of))
    ELSE ElementArrow(decoding)

\* Bug: the coordinate system is written without saying how it is spelled.
WkbTagUnvouched(decoding) ==
    <<"geoarrow.wkb", [spelled |-> "unknown", epsg |-> decoding.epsg], decoding.edges>>

\* geoarrow::wkb: an EPSG code spelled as an authority code, if there is one, and the edges.
WkbTag(decoding) ==
    <<"geoarrow.wkb",
      [spelled |-> IF decoding.epsg = None THEN "absent" ELSE "authority", epsg |-> decoding.epsg],
      decoding.edges>>

Tag(decoding) ==
    IF decoding.kind = "Uuid" THEN <<"arrow.uuid">>
    ELSE IF decoding.kind \in {"Json", "Jsonb"} THEN <<"arrow.json">>
    ELSE IF decoding.kind = "Geo" THEN WkbTag(decoding)
    ELSE IF decoding.kind = "Opaque" THEN <<"arrow.opaque", decoding.name>>
    ELSE IF decoding.kind = "Range" THEN <<"transferred.pg_range">>
    ELSE <<>>

Field(decoding) == [data |-> ArrowType(decoding), tag |-> Tag(decoding)]

-----------------------------------------------------------------------------
(* Postgres to Arrow: the value. *)

\* Bug: rescale cannot report that the digits do not fit, and nobody looks.
DecimalUnitsUnchecked(decimal, scale) ==
    IF decimal.scale > scale
    THEN LET unit == PowerOfTen[decimal.scale - scale]
             size == (2 * Abs(decimal.mantissa) + unit) \div (2 * unit)
         IN IF decimal.mantissa < 0 THEN -size ELSE size
    ELSE LET padded == decimal.mantissa * PowerOfTen[scale - decimal.scale]
         IN IF Abs(padded) =< MaxMantissa THEN padded ELSE decimal.mantissa

\* Restates a decimal as a count of 10^-scale: rounds half away from zero on the way down, pads
\* on the way up as far as the mantissa goes; a scale not reached is an error.
DecimalUnits(decimal, scale) ==
    IF decimal.scale > scale
    THEN LET unit == PowerOfTen[decimal.scale - scale]
             size == (2 * Abs(decimal.mantissa) + unit) \div (2 * unit)
         IN IF decimal.mantissa < 0 THEN -size ELSE size
    ELSE LET padded == decimal.mantissa * PowerOfTen[scale - decimal.scale]
         IN IF Abs(padded) =< MaxMantissa THEN padded ELSE Refused

\* Microseconds to nanoseconds, where 64 bits can hold them; months and days pass through.
MonthDayNano(micros) ==
    LET nanos == micros * NanosPerMicro
    IN IF -MaxNanos - 1 =< nanos /\ nanos =< MaxNanos THEN nanos ELSE Refused

\* jsonb leads with a format version, of which 1 is the only one.
JsonbText(document) == IF document.version = 1 THEN document.text ELSE Refused

DecodedScalar(decoding, cell) ==
    IF cell = None THEN None
    ELSE IF cell = Unreadable THEN Refused
    ELSE IF decoding.kind = "Numeric" THEN DecimalUnits(cell, decoding.scale)
    ELSE IF decoding.kind = "Interval" THEN MonthDayNano(cell)
    ELSE IF decoding.kind = "Jsonb" THEN JsonbText(cell)
    ELSE IF decoding.kind \in {"Date", "Timestamp", "Timestamptz"}
         THEN IF cell \in Calendar THEN cell ELSE Refused
    ELSE cell

\* A range, as the wire and PgRange both have it; an infinite bound is None.
PgRange(lower, upper, lowerInc, upperInc, empty) ==
    [lower |-> lower, upper |-> upper, lower_inc |-> lowerInc, upper_inc |-> upperInc,
     empty |-> empty]

EmptyRange == PgRange(None, None, FALSE, FALSE, TRUE)

\* append_range: both bounds through the element's decoding, then the three flags.
DecodedRange(decoding, cell) ==
    LET low  == DecodedScalar(decoding.of, cell.lower)
        high == DecodedScalar(decoding.of, cell.upper)
    IN IF cell.empty THEN EmptyRange
       ELSE IF low = Refused \/ high = Refused THEN Refused
       ELSE PgRange(low, high, cell.lower_inc, cell.upper_inc, FALSE)

Decoded(decoding, cell) ==
    IF decoding.kind = "Range" /\ cell \notin {None, Unreadable}
    THEN DecodedRange(decoding, cell)
    ELSE DecodedScalar(decoding, cell)

-----------------------------------------------------------------------------
(* Arrow to Postgres: the column. *)

FixedEncoding ==
    [Boolean |-> "Bool", Int16 |-> "Int2", Int32 |-> "Int4", Int64 |-> "Int8",
     Float32 |-> "Float4", Float64 |-> "Float8", Utf8 |-> "Text", Binary |-> "Bytea",
     Date32 |-> "Date"]

\* Encoding::plain: whatever tag the field has is ignored here.
PlainEncoding(data) ==
    IF Head(data) \in DOMAIN FixedEncoding THEN [kind |-> FixedEncoding[Head(data)]]
    ELSE IF Head(data) = "Timestamp" /\ data[2] = "us"
         THEN [kind |-> IF data[3] = "" THEN "Timestamp" ELSE "Timestamptz"]
    ELSE IF data = <<"Interval", "MonthDayNano">> THEN [kind |-> "Interval"]
    ELSE IF Head(data) = "Decimal128" /\ data[3] >= 0
         THEN [kind |-> "Numeric", precision |-> data[2], scale |-> data[3]]
    ELSE Refused

\* The built-in range over each element that has one.
RangeOver ==
    [Int4 |-> "int4range", Int8 |-> "int8range", Numeric |-> "numrange", Date |-> "daterange",
     Timestamp |-> "tsrange", Timestamptz |-> "tstzrange"]

\* PgRange::type_of, then the element's encoding and the range type over it.
RangeEncoding(data) ==
    IF Len(data) # 3 \/ data # RangeFields(data[2]) THEN Refused
    ELSE LET element == PlainEncoding(data[2])
         IN IF element = Refused THEN Refused
            ELSE IF element.kind \notin DOMAIN RangeOver THEN Refused
            ELSE [kind |-> "Range", of |-> element, type |-> RangeOver[element.kind]]

\* Bug: the code is trusted however it is spelled.
EpsgOfAnySpelling(crs) == crs.epsg

\* geoarrow::epsg: a code counts only when it is vouched for as an authority code of EPSG.
Epsg(crs) == IF crs.spelled = "authority" THEN crs.epsg ELSE None

TagName(field) == IF field.tag = <<>> THEN "" ELSE Head(field.tag)

\* Bug: the tag is looked at before the storage type it sits on.
EncodingIgnoringTags(field) == PlainEncoding(field.data)

Encoding(field) ==
    LET data == Head(field.data) IN
    IF data = "Utf8" /\ TagName(field) = "arrow.json" THEN [kind |-> "Json"]
    ELSE IF data = "Binary" /\ TagName(field) = "geoarrow.wkb"
         THEN [kind |-> "Geo", epsg |-> Epsg(field.tag[2]), edges |-> field.tag[3]]
    ELSE IF field.data = <<"FixedSizeBinary", 16>> /\ TagName(field) = "arrow.uuid"
         THEN [kind |-> "Uuid"]
    ELSE IF data = "Struct" /\ TagName(field) = "transferred.pg_range"
         THEN RangeEncoding(field.data)
    ELSE PlainEncoding(field.data)

FixedName ==
    [Bool |-> "bool", Int2 |-> "int2", Int4 |-> "int4", Int8 |-> "int8",
     Float4 |-> "float4", Float8 |-> "float8", Text |-> "text", Json |-> "json",
     Bytea |-> "bytea", Uuid |-> "uuid", Date |-> "date", Timestamp |-> "timestamp",
     Timestamptz |-> "timestamptz", Interval |-> "interval"]

\* sql_type, as the column Postgres makes of that DDL.
SqlColumn(encoding) ==
    IF encoding.kind = "Numeric"
    THEN [type |-> "numeric", typmod |-> NumericTypmod(encoding.precision, encoding.scale)]
    ELSE IF encoding.kind = "Geo"
    THEN [type |-> IF encoding.edges = "spherical" THEN "geography" ELSE "geometry",
          typmod |-> IF encoding.epsg = None THEN BareTypmod ELSE GeoTypmod(encoding.epsg, 0)]
    ELSE IF encoding.kind = "Range" THEN [type |-> encoding.type, typmod |-> BareTypmod]
    ELSE [type |-> FixedName[encoding.kind], typmod |-> BareTypmod]

\* The edges a producer of geometries may name.
EdgeKinds == {"planar", "spherical", "vincenty", "thomas", "andoyer", "karney"}

\* Decodings and encodings, by their fields; a scalar may be the element of a range.
Scalars == [kind : DOMAIN FixedArrow] \cup [kind : {"Numeric"}, precision : Int, scale : Int]
Codings ==
    Scalars
      \cup [kind : {"Range"}, of : Scalars]
      \cup [kind : {"Range"}, of : Scalars, type : {RangeOver[kind] : kind \in DOMAIN RangeOver}]
      \cup [kind : {"Geo"}, epsg : Int \cup {None}, edges : EdgeKinds]

\* An Err is none of them.
ASSUME CodingAssumption == Refused \notin Codings

-----------------------------------------------------------------------------
(* Arrow to Postgres: the value. *)

\* try_from_i128_with_scale: what rust_decimal can hold.
PgNumeric(units, scale) ==
    IF Abs(units) =< MaxMantissa /\ scale =< MaxScale
    THEN [mantissa |-> units, scale |-> scale]
    ELSE Refused

\* Nanoseconds to microseconds, where none are left over.
PgInterval(nanos) == IF nanos % NanosPerMicro # 0 THEN Refused ELSE nanos \div NanosPerMicro

EncodedScalar(encoding, item) ==
    IF item = None THEN None
    ELSE IF encoding.kind = "Numeric" THEN PgNumeric(item, encoding.scale)
    ELSE IF encoding.kind = "Interval" THEN PgInterval(item)
    ELSE IF encoding.kind \in {"Date", "Timestamp", "Timestamptz"}
         THEN IF item \in Calendar THEN item ELSE Refused
    ELSE item

\* write_range and bound: an empty range is its tag alone, a null bound is infinite.
EncodedRange(encoding, item) ==
    LET low  == EncodedScalar(encoding.of, item.lower)
        high == EncodedScalar(encoding.of, item.upper)
    IN IF item.empty THEN EmptyRange
       ELSE IF low = Refused \/ high = Refused THEN Refused
       ELSE PgRange(low, high, low # None /\ item.lower_inc, high # None /\ item.upper_inc, FALSE)

Encoded(encoding, item) ==
    IF encoding.kind = "Range" /\ item # None
    THEN EncodedRange(encoding, item)
    ELSE EncodedScalar(encoding, item)

-----------------------------------------------------------------------------
(* Postgres: what a COPY makes of an encoded value in a column it declared. *)

\* The order of two decimals of any scale, or of two whole values.
Below(numeric, low, high) ==
    IF numeric
    THEN low.mantissa * PowerOfTen[high.scale] < high.mantissa * PowerOfTen[low.scale]
    ELSE low < high

\* The receive function of a continuous range: bounds out of order are an error, bounds that
\* meet without both being inclusive hold nothing.
NormalRange(numeric, range) ==
    IF range.empty \/ range.lower = None \/ range.upper = None THEN range
    ELSE IF Below(numeric, range.upper, range.lower) THEN Refused
    ELSE IF Below(numeric, range.lower, range.upper) \/ (range.lower_inc /\ range.upper_inc)
         THEN range
    ELSE EmptyRange

\* The receive function of a discrete range restates it as [lower, upper) first.
CanonicalRange(range) ==
    LET low  == IF range.lower # None /\ ~range.lower_inc THEN range.lower + 1 ELSE range.lower
        high == IF range.upper # None /\ range.upper_inc THEN range.upper + 1 ELSE range.upper
    IN IF range.empty THEN range ELSE PgRange(low, high, low # None, FALSE, FALSE)

\* A numeric column holds the digits it declares, a geometry column one coordinate system.
Stored(column, cell) ==
    IF cell \in {None, Refused} THEN cell
    ELSE IF column.type = "numeric" /\ column.typmod # BareTypmod
         THEN IF Abs(cell.mantissa) < PowerOfTen[PackedPrecision(column.typmod)] THEN cell ELSE Refused
    ELSE IF column.type \in {"geometry", "geography"} /\ Srid(column.typmod) # None
         THEN IF cell.srid = 0 THEN [cell EXCEPT !.srid = Srid(column.typmod)]
              ELSE IF cell.srid = Srid(column.typmod) THEN cell
              ELSE Refused
    ELSE IF column.type \in {"date", "timestamp", "timestamptz"}
         THEN IF cell \in PgCalendar THEN cell ELSE Refused
    ELSE IF column.type \in {"numrange", "tsrange", "tstzrange"}
         THEN NormalRange(column.type = "numrange", cell)
    ELSE IF column.type \in {"int4range", "int8range", "daterange"}
         THEN NormalRange(FALSE, CanonicalRange(cell))
    ELSE cell
=============================================================================
