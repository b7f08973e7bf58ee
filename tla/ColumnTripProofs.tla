-------------------------- MODULE ColumnTripProofs --------------------------
(***************************************************************************)
(* What holds of the type mapping for every column, modifier and value.    *)
(* Modifiers come apart into what was packed and intervals come back; the  *)
(* copy of a column has the type of the column it copies, and its value is *)
(* that value, rounded at most once; every batch is one that Arrow's       *)
(* schemas allow; what came back from a table once comes back unchanged    *)
(* from then on, and fields that the mapping knows come back as they were. *)
(***************************************************************************)
EXTENDS ColumnTrip, SequenceFacts

\* A numeric modifier is taken apart into the precision and the signed scale Postgres packed.
THEOREM NumericTypmodComesBack ==
    ASSUME NEW p \in 1..1000, NEW s \in NumericScales
    PROVE  /\ PackedPrecision(NumericTypmod(p, s)) = p
           /\ PackedScale(NumericTypmod(p, s)) = s
<1> DEFINE low == s % 2048
           packed == p * 65536 + low
<1>1. /\ low \in 0..2047
      /\ s >= 0 => low = s
      /\ s < 0 => low = s + 2048
  BY SMT DEF NumericScales
<1>2. NumericTypmod(p, s) - 4 = packed
  BY SMT, <1>1 DEF NumericTypmod
<1>3. packed \div 65536 = p /\ packed % 2048 = low
  BY SMT, <1>1 DEF NumericScales
<1>4. p % 65536 = p
  BY SMT
<1> HIDE DEF low, packed
<1>5. PackedPrecision(NumericTypmod(p, s)) = p
  BY SMT, <1>2, <1>3, <1>4 DEF PackedPrecision
<1>6. PackedScale(NumericTypmod(p, s)) = s
  BY SMT, <1>1, <1>2, <1>3 DEF PackedScale, NumericScales
<1> QED
  BY SMT, <1>5, <1>6

\* A geometry modifier gives back its SRID whatever shape is packed below it, and SRID 0 and an
\* unconstrained column give none.
THEOREM SridComesBack ==
    ASSUME NEW srid \in Nat, srid < 1048576, NEW shape \in 0..255
    PROVE  /\ Srid(GeoTypmod(srid, shape)) = IF srid = 0 THEN None ELSE srid
           /\ Srid(BareTypmod) = None
<1>1. GeoTypmod(srid, shape) % 268435456 = srid * 256 + shape
  BY SMT DEF GeoTypmod
<1>2. (srid * 256 + shape) \div 256 = srid
  BY SMT
<1>3. GeoTypmod(srid, shape) # BareTypmod
  BY SMT DEF GeoTypmod, BareTypmod
<1> QED
  BY SMT, <1>1, <1>2, <1>3 DEF Srid

\* An interval that the source restates in nanoseconds comes back to the microsecond.
THEOREM IntervalComesBack ==
    ASSUME NEW micros \in Int, MonthDayNano(micros) # Refused
    PROVE  PgInterval(MonthDayNano(micros)) = micros
<1>1. NanosPerMicro \in Int /\ NanosPerMicro > 0
  BY SMT, MapAssumption
<1>2. MonthDayNano(micros) = micros * NanosPerMicro
  BY SMT DEF MonthDayNano
<1>3. /\ (micros * NanosPerMicro) % NanosPerMicro = 0
      /\ (micros * NanosPerMicro) \div NanosPerMicro = micros
  BY SMT, <1>1
<1> QED
  BY SMT, <1>2, <1>3 DEF PgInterval

-----------------------------------------------------------------------------
(* The copy of a column. *)

\* What CopyKeepsType says of a column and its copy.
IsCopyOf(to, from) ==
    /\ to.type = CopiedType(from.type)
    /\ to.type = "numeric" =>
         to.typmod = IF from.typmod = BareTypmod
                     THEN NumericTypmod(MaxPrecision, BareScale)
                     ELSE from.typmod
    /\ to.type \in {"geometry", "geography"} => Srid(to.typmod) = Srid(from.typmod)

\* The column the destination declares for the field the source makes of a column.
CopyOf(column) == SqlColumn(Encoding(Field(Decoding(column))))

\* A column without a modifier.
Unmodified(type) == [type |-> type, typmod |-> BareTypmod]

\* Kinds of decoding that have no extension tag and no parameter.
PlainKinds == {"Bool", "Int2", "Int4", "Int8", "Float4", "Float8", "Text", "Bytea", "Date",
               "Timestamp", "Timestamptz", "Interval"}

\* The field of such a kind is its Arrow type alone.
LEMMA PlainField ==
    \A kind \in PlainKinds : Field([kind |-> kind]) = [data |-> FixedArrow[kind], tag |-> <<>>]
  BY DEF PlainKinds, Field, ArrowType, ElementArrow, Tag

\* The two tables of the mapping agree, entry by entry.
LEMMA PlainKindComesBack ==
    \A kind \in PlainKinds : PlainEncoding(FixedArrow[kind]) = [kind |-> kind]
<1> USE DEF FixedArrow, PlainEncoding, FixedEncoding
<1>1. PlainEncoding(FixedArrow["Bool"]) = [kind |-> "Bool"]
  OBVIOUS
<1>2. PlainEncoding(FixedArrow["Int2"]) = [kind |-> "Int2"]
  OBVIOUS
<1>3. PlainEncoding(FixedArrow["Int4"]) = [kind |-> "Int4"]
  OBVIOUS
<1>4. PlainEncoding(FixedArrow["Int8"]) = [kind |-> "Int8"]
  OBVIOUS
<1>5. PlainEncoding(FixedArrow["Float4"]) = [kind |-> "Float4"]
  OBVIOUS
<1>6. PlainEncoding(FixedArrow["Float8"]) = [kind |-> "Float8"]
  OBVIOUS
<1>7. PlainEncoding(FixedArrow["Text"]) = [kind |-> "Text"]
  OBVIOUS
<1>8. PlainEncoding(FixedArrow["Bytea"]) = [kind |-> "Bytea"]
  OBVIOUS
<1>9. PlainEncoding(FixedArrow["Date"]) = [kind |-> "Date"]
  OBVIOUS
<1>10. PlainEncoding(FixedArrow["Timestamp"]) = [kind |-> "Timestamp"]
  OBVIOUS
<1>11. PlainEncoding(FixedArrow["Timestamptz"]) = [kind |-> "Timestamptz"]
  OBVIOUS
<1>12. PlainEncoding(FixedArrow["Interval"]) = [kind |-> "Interval"]
  OBVIOUS
<1> HIDE DEF FixedArrow, PlainEncoding, FixedEncoding
<1> QED
  BY <1>1, <1>2, <1>3, <1>4, <1>5, <1>6, <1>7, <1>8, <1>9, <1>10, <1>11, <1>12 DEF PlainKinds

\* Without a tag, the data type alone decides.
LEMMA UntaggedEncoding ==
    ASSUME NEW data
    PROVE  Encoding([data |-> data, tag |-> <<>>]) = PlainEncoding(data)
  BY DEF Encoding, TagName

\* A column that is no more than its kind has its type's name and no modifier.
LEMMA KindColumn ==
    \A kind \in DOMAIN FixedName : SqlColumn([kind |-> kind]) = Unmodified(FixedName[kind])
  BY DEF SqlColumn, FixedName, Unmodified

\* The kinds that a tag tells apart.
LEMMA TaggedKindComesBack ==
    /\ Encoding(Field([kind |-> "Uuid"])) = [kind |-> "Uuid"]
    /\ Encoding(Field([kind |-> "Json"])) = [kind |-> "Json"]
    /\ Encoding(Field([kind |-> "Jsonb"])) = [kind |-> "Json"]
<1>1. /\ Field([kind |-> "Uuid"]) = [data |-> <<"FixedSizeBinary", 16>>, tag |-> <<"arrow.uuid">>]
      /\ Field([kind |-> "Json"]) = [data |-> <<"Utf8">>, tag |-> <<"arrow.json">>]
      /\ Field([kind |-> "Jsonb"]) = [data |-> <<"Utf8">>, tag |-> <<"arrow.json">>]
  BY DEF Field, ArrowType, ElementArrow, FixedArrow, Tag
<1>2. Encoding([data |-> <<"FixedSizeBinary", 16>>, tag |-> <<"arrow.uuid">>]) = [kind |-> "Uuid"]
  BY DEF Encoding, TagName
<1>3. Encoding([data |-> <<"Utf8">>, tag |-> <<"arrow.json">>]) = [kind |-> "Json"]
  BY DEF Encoding, TagName
<1> QED
  BY <1>1, <1>2, <1>3

\* The kind that a kind of decoding is written as.
LEMMA KindCopy ==
    /\ \A kind \in PlainKinds \cup {"Uuid", "Json"} :
          SqlColumn(Encoding(Field([kind |-> kind]))) = Unmodified(FixedName[kind])
    /\ SqlColumn(Encoding(Field([kind |-> "Jsonb"]))) = Unmodified("json")
<1>1. PlainKinds \cup {"Uuid", "Json"} \subseteq DOMAIN FixedName /\ FixedName["Json"] = "json"
  BY DEF PlainKinds, FixedName
<1>2. ASSUME NEW kind \in PlainKinds
      PROVE  Encoding(Field([kind |-> kind])) = [kind |-> kind]
  BY PlainField, PlainKindComesBack, UntaggedEncoding
<1> QED
  BY <1>1, <1>2, TaggedKindComesBack, KindColumn

\* Types with a fixed OID and no modifier.
LEMMA FixedCopy ==
    ASSUME NEW column, column.type \in DOMAIN FixedDecoding
    PROVE  IsCopyOf(CopyOf(column), column)
<1> DEFINE kind == FixedDecoding[column.type]
<1>1. Decoding(column) = [kind |-> kind]
  BY DEF Decoding
<1>2. kind \in PlainKinds \cup {"Uuid", "Json", "Jsonb"}
  BY DEF PlainKinds, FixedDecoding
<1>3. CASE kind = "Jsonb"
  <2>1. column.type = "jsonb"
    BY <1>3 DEF FixedDecoding
  <2>2. CopyOf(column) = Unmodified("json")
    BY <1>1, <1>3, KindCopy DEF CopyOf
  <2> QED
    BY <2>1, <2>2 DEF IsCopyOf, CopiedType, Unmodified
<1>4. CASE kind # "Jsonb"
  <2>1. CopyOf(column) = Unmodified(FixedName[kind])
    BY <1>1, <1>2, <1>4, KindCopy DEF CopyOf
  <2>2. FixedName[kind] = CopiedType(column.type)
    BY <1>4 DEF FixedName, FixedDecoding, CopiedType
  <2>3. FixedName[kind] \notin {"numeric", "geometry", "geography"}
    BY <1>2, <1>4 DEF FixedName, PlainKinds
  <2> QED
    BY <2>1, <2>2, <2>3 DEF IsCopyOf, Unmodified
<1> QED
  BY <1>3, <1>4

\* A range over a kind of element that has one.
LEMMA RangeFieldComesBack ==
    ASSUME NEW element, NEW data, PlainEncoding(data) = element,
           NEW tag, tag = <<"transferred.pg_range">>,
           Encoding([data |-> RangeFields(data), tag |-> tag]) # Refused
    PROVE  SqlColumn(Encoding([data |-> RangeFields(data), tag |-> tag]))
             = Unmodified(RangeOver[element.kind])
<1> DEFINE field == [data |-> RangeFields(data), tag |-> tag]
<1>1. Head(field.data) = "Struct" /\ TagName(field) = "transferred.pg_range"
  BY DEF RangeFields, TagName
<1>2. Encoding(field) = RangeEncoding(RangeFields(data))
  BY <1>1 DEF Encoding, RangeFields
<1>3. Len(RangeFields(data)) = 3 /\ RangeFields(data)[2] = data
  BY DEF RangeFields
<1>4. Encoding(field) = [kind |-> "Range", of |-> element, type |-> RangeOver[element.kind]]
  BY <1>2, <1>3 DEF RangeEncoding
<1> HIDE DEF field
<1>5. SqlColumn(Encoding(field)) = Unmodified(RangeOver[element.kind])
  BY <1>4 DEF SqlColumn, Unmodified
<1> QED
  BY <1>5 DEF field

\* The ranges of whole numbers, dates and timestamps.
LEMMA RangeCopy ==
    ASSUME NEW column, column.type \in DOMAIN RangeDecoding,
           Encoding(Field(Decoding(column))) # Refused
    PROVE  IsCopyOf(CopyOf(column), column)
<1> DEFINE kind == RangeDecoding[column.type]
<1>1. column.type \notin DOMAIN FixedDecoding /\ column.type # "numeric"
  BY DEF RangeDecoding, FixedDecoding
<1>2. Decoding(column) = [kind |-> "Range", of |-> [kind |-> kind]]
  BY <1>1 DEF Decoding
<1>3. kind \in PlainKinds
  BY DEF RangeDecoding, PlainKinds
<1>4. RangeOver[kind] = column.type
  BY DEF RangeDecoding, RangeOver
<1> HIDE DEF kind
<1>5. Field(Decoding(column))
        = [data |-> RangeFields(FixedArrow[kind]), tag |-> <<"transferred.pg_range">>]
  BY <1>2, <1>3 DEF Field, ArrowType, ElementArrow, Tag, PlainKinds
<1>6. PlainEncoding(FixedArrow[kind]) = [kind |-> kind]
  BY <1>3, PlainKindComesBack
<1>7. CopyOf(column) = Unmodified(column.type)
  BY <1>4, <1>5, <1>6, RangeFieldComesBack DEF CopyOf
<1> QED
  BY <1>7 DEF IsCopyOf, CopiedType, Unmodified, RangeDecoding

-----------------------------------------------------------------------------

\* A decimal with a scale of its own is a numeric with the same digits.
LEMMA DecimalComesBack ==
    ASSUME NEW p \in Nat, NEW s \in Nat
    PROVE  PlainEncoding(<<"Decimal128", p, s>>)
             = [kind |-> "Numeric", precision |-> p, scale |-> s]
  BY DEF PlainEncoding, FixedEncoding

\* The field of a numeric, and the column that is declared for it.
LEMMA NumericFieldComesBack ==
    ASSUME NEW p \in Nat, NEW s \in Nat,
           NEW decoding, decoding = [kind |-> "Numeric", precision |-> p, scale |-> s]
    PROVE  /\ Field(decoding) = [data |-> <<"Decimal128", p, s>>, tag |-> <<>>]
           /\ SqlColumn(Encoding(Field(decoding)))
                = [type |-> "numeric", typmod |-> NumericTypmod(p, s)]
<1>1. Field(decoding) = [data |-> <<"Decimal128", p, s>>, tag |-> <<>>]
  BY DEF Field, ArrowType, ElementArrow, Tag
<1>2. Encoding(Field(decoding)) = decoding
  BY <1>1, UntaggedEncoding, DecimalComesBack
<1>3. SqlColumn(decoding) = [type |-> "numeric", typmod |-> NumericTypmod(p, s)]
  BY DEF SqlColumn
<1> QED
  BY <1>1, <1>2, <1>3

\* What the source takes a numeric column for, if it takes it.
LEMMA NumericDecodes ==
    ASSUME NEW column, IsColumn(column), column.type = "numeric", Decoding(column) # Refused
    PROVE  \E p \in 1..MaxPrecision, s \in 0..MaxPrecision :
              /\ s =< p
              /\ Decoding(column) = [kind |-> "Numeric", precision |-> p, scale |-> s]
              /\ NumericTypmod(p, s) = IF column.typmod = BareTypmod
                                       THEN NumericTypmod(MaxPrecision, BareScale)
                                       ELSE column.typmod
<1>1. Decoding(column) = NumericDecoding(column.typmod)
  BY DEF Decoding, FixedDecoding
<1>2. CASE column.typmod = BareTypmod
  <2>1. /\ MaxPrecision \in 1..MaxPrecision /\ BareScale \in 0..MaxPrecision
        /\ BareScale =< MaxPrecision
    BY SMT, MapAssumption
  <2>2. Decoding(column)
          = [kind |-> "Numeric", precision |-> MaxPrecision, scale |-> BareScale]
    BY <1>1, <1>2 DEF NumericDecoding, BareNumeric
  <2> QED
    BY <1>2, <2>1, <2>2
<1>3. CASE column.typmod # BareTypmod
  <2> DEFINE p == PackedPrecision(column.typmod)
             s == PackedScale(column.typmod)
  <2>1. Decoding(column) = DeclaredNumeric(column.typmod)
    BY <1>1, <1>3 DEF NumericDecoding
  <2>2. /\ p \in 1..1000 /\ s \in NumericScales
        /\ column.typmod = NumericTypmod(p, s)
    BY <1>3 DEF IsColumn
  <2>3. /\ p =< MaxPrecision /\ 0 =< s /\ s =< p
        /\ Decoding(column) = [kind |-> "Numeric", precision |-> p, scale |-> s]
    BY <2>1 DEF DeclaredNumeric
  <2> HIDE DEF p, s
  <2>4. MaxPrecision \in Nat
    BY SMT, MapAssumption
  <2>5. p =< MaxPrecision /\ 0 =< s /\ s =< p /\ p \in 1..1000 /\ s \in NumericScales
    BY <2>2, <2>3
  <2>6. p \in 1..MaxPrecision /\ s \in 0..MaxPrecision
    BY SMT, <2>4, <2>5 DEF NumericScales
  <2> QED
    BY <1>3, <2>2, <2>3, <2>6
<1> QED
  BY <1>2, <1>3

\* A numeric keeps the digits it declares, or takes those of a bare one.
LEMMA NumericCopy ==
    ASSUME NEW column, IsColumn(column), column.type = "numeric", Decoding(column) # Refused
    PROVE  IsCopyOf(CopyOf(column), column)
<1>1. PICK p \in 1..MaxPrecision, s \in 0..MaxPrecision :
        /\ Decoding(column) = [kind |-> "Numeric", precision |-> p, scale |-> s]
        /\ NumericTypmod(p, s) = IF column.typmod = BareTypmod
                                 THEN NumericTypmod(MaxPrecision, BareScale)
                                 ELSE column.typmod
  BY NumericDecodes
<1>2. p \in Nat /\ s \in Nat
  BY SMT, MapAssumption
<1>3. CopyOf(column) = [type |-> "numeric", typmod |-> NumericTypmod(p, s)]
  BY <1>1, <1>2, NumericFieldComesBack DEF CopyOf
<1>4. CopiedType("numeric") = "numeric"
  BY DEF CopiedType
<1> QED
  BY <1>1, <1>3, <1>4 DEF IsCopyOf

\* The range of numerics, whose bounds have the digits of a bare one.
LEMMA NumrangeCopy ==
    ASSUME NEW column, column.type = "numrange", Encoding(Field(Decoding(column))) # Refused
    PROVE  IsCopyOf(CopyOf(column), column)
<1> DEFINE data == <<"Decimal128", MaxPrecision, BareScale>>
<1>1. Decoding(column) = [kind |-> "Range", of |-> BareNumeric]
  BY DEF Decoding, FixedDecoding, RangeDecoding, NumericDecoding
<1>2. Field(Decoding(column)) = [data |-> RangeFields(data), tag |-> <<"transferred.pg_range">>]
  BY <1>1 DEF Field, ArrowType, ElementArrow, Tag, BareNumeric
<1>3. MaxPrecision \in Nat /\ BareScale \in Nat
  BY SMT, MapAssumption
<1>4. PlainEncoding(data) = BareNumeric
  BY <1>3, DecimalComesBack DEF BareNumeric
<1> HIDE DEF data
<1>5. CopyOf(column) = Unmodified(RangeOver[BareNumeric.kind])
  BY <1>2, <1>4, RangeFieldComesBack DEF CopyOf
<1>6. RangeOver[BareNumeric.kind] = "numrange"
  BY DEF RangeOver, BareNumeric
<1> QED
  BY <1>5, <1>6 DEF IsCopyOf, CopiedType, Unmodified

-----------------------------------------------------------------------------

\* An SRID is none, or one that fits a modifier.
LEMMA SridRange ==
    ASSUME NEW typmod \in Int
    PROVE  Srid(typmod) = None \/ IsSrid(Srid(typmod))
<1> DEFINE code == (typmod % 268435456) \div 256
<1>1. code \in Nat /\ code < 1048576
  BY SMT
<1>2. Srid(typmod) = IF typmod = BareTypmod \/ code = 0 THEN None ELSE code
  BY DEF Srid
<1> HIDE DEF code
<1>3. CASE typmod = BareTypmod \/ code = 0
  BY <1>2, <1>3
<1>4. CASE ~(typmod = BareTypmod \/ code = 0)
  <2>1. Srid(typmod) = code
    BY <1>2, <1>4
  <2>2. 0 < code
    BY SMT, <1>1, <1>4
  <2> QED
    BY SMT, <1>1, <2>1, <2>2 DEF IsSrid
<1> QED
  BY <1>3, <1>4

\* The field of a geometry names its coordinate system, and the destination understands it.
LEMMA GeoFieldComesBack ==
    ASSUME NEW epsg, NEW edges,
           NEW decoding, decoding = [kind |-> "Geo", epsg |-> epsg, edges |-> edges]
    PROVE  /\ Field(decoding).data = <<"Binary">>
           /\ TagName(Field(decoding)) = "geoarrow.wkb"
           /\ Epsg(Field(decoding).tag[2]) = epsg
           /\ Field(decoding).tag[3] = edges
           /\ Encoding(Field(decoding)) = decoding
<1> DEFINE crs == [spelled |-> IF epsg = None THEN "absent" ELSE "authority", epsg |-> epsg]
<1>1. Field(decoding) = [data |-> <<"Binary">>, tag |-> <<"geoarrow.wkb", crs, edges>>]
  BY DEF Field, ArrowType, ElementArrow, FixedArrow, Tag, WkbTag
<1>2. Epsg(crs) = epsg
  BY DEF Epsg
<1> HIDE DEF crs
<1>3. /\ Field(decoding).data = <<"Binary">>
      /\ TagName(Field(decoding)) = "geoarrow.wkb"
      /\ Field(decoding).tag[2] = crs /\ Field(decoding).tag[3] = edges
  BY <1>1 DEF TagName
<1>4. Encoding(Field(decoding)) = decoding
  BY <1>2, <1>3 DEF Encoding
<1> QED
  BY <1>2, <1>3, <1>4

\* A geometry or geography keeps its edges and its coordinate system, and loses its shape.
LEMMA GeoCopy ==
    ASSUME NEW column, IsColumn(column), column.type \in {"geometry", "geography"}
    PROVE  IsCopyOf(CopyOf(column), column)
<1> DEFINE srid == Srid(column.typmod)
           edges == IF column.type = "geography" THEN "spherical" ELSE "planar"
           decoding == [kind |-> "Geo", epsg |-> srid, edges |-> edges]
           typmod == IF srid = None THEN BareTypmod ELSE GeoTypmod(srid, 0)
<1>1. Decoding(column) = decoding
  BY DEF Decoding, FixedDecoding, RangeDecoding, ExtensionDecoding
<1>2. Encoding(Field(decoding)) = decoding
  BY GeoFieldComesBack
<1>3. SqlColumn(decoding) = [type |-> column.type, typmod |-> typmod]
  BY DEF SqlColumn
<1>4. CopyOf(column) = [type |-> column.type, typmod |-> typmod]
  BY <1>1, <1>2, <1>3 DEF CopyOf
<1>5. Srid(typmod) = srid
  <2>1. CASE srid = None
    <3>1. 0 \in Nat /\ 0 < 1048576 /\ 0 \in 0..255
      BY SMT
    <3> QED
      BY <2>1, <3>1, SridComesBack
  <2>2. CASE srid # None
    <3>1. srid \in Nat /\ 0 < srid /\ srid < 1048576
      BY SMT, <2>2, SridRange DEF IsColumn, IsSrid
    <3>2. 0 \in 0..255 /\ srid # 0
      BY SMT, <3>1
    <3> HIDE DEF srid
    <3> QED
      BY <2>2, <3>1, <3>2, SridComesBack
  <2> QED
    BY <2>1, <2>2
<1>6. CopiedType(column.type) = column.type
  BY DEF CopiedType
<1> HIDE DEF typmod, srid, edges, decoding
<1> QED
  BY <1>4, <1>5, <1>6 DEF IsCopyOf, srid

\* The types that have entries of their own.
KnownTypes == DOMAIN FixedDecoding \cup DOMAIN RangeDecoding
                \cup {"numeric", "numrange", "enum", "citext", "geometry", "geography"}

\* Types that a database may have beside the built-in ones are written as text or as bytes.
LEMMA ExtensionField ==
    ASSUME NEW column, column.type \notin KnownTypes \ {"enum", "citext"}
    PROVE  \/ /\ Decoding(column).kind = "Text"
              /\ Encoding(Field(Decoding(column))) = [kind |-> "Text"]
           \/ /\ Decoding(column).kind = "Opaque"
              /\ Encoding(Field(Decoding(column))) = [kind |-> "Bytea"]
<1>1. Decoding(column) = ExtensionDecoding(column)
  <2>1. /\ column.type \notin DOMAIN FixedDecoding /\ column.type \notin DOMAIN RangeDecoding
        /\ column.type \notin {"numeric", "numrange"}
    BY DEF KnownTypes, FixedDecoding, RangeDecoding
  <2> QED
    BY <2>1 DEF Decoding
<1>2. CASE column.type \in {"enum", "citext"}
  <2>1. Decoding(column) = [kind |-> "Text"]
    BY <1>1, <1>2 DEF ExtensionDecoding
  <2>2. Encoding(Field([kind |-> "Text"])) = [kind |-> "Text"]
    BY PlainField, PlainKindComesBack, UntaggedEncoding DEF PlainKinds
  <2> QED
    BY <2>1, <2>2
<1>3. CASE column.type \notin {"enum", "citext"}
  <2> DEFINE decoding == [kind |-> "Opaque", name |-> column.type]
             tag == <<"arrow.opaque", column.type>>
  <2>1. Decoding(column) = decoding
    BY <1>1, <1>3 DEF ExtensionDecoding, KnownTypes
  <2>2. Field(decoding) = [data |-> <<"Binary">>, tag |-> tag]
    BY DEF Field, ArrowType, ElementArrow, FixedArrow, Tag
  <2>3. TagName(Field(decoding)) = "arrow.opaque" /\ Field(decoding).data = <<"Binary">>
    BY <2>2 DEF TagName
  <2>4. Encoding(Field(decoding)) = PlainEncoding(<<"Binary">>)
    BY <2>3 DEF Encoding
  <2>5. PlainEncoding(<<"Binary">>) = [kind |-> "Bytea"]
    BY PlainKindComesBack DEF PlainKinds, FixedArrow
  <2> QED
    BY <2>1, <2>4, <2>5
<1> QED
  BY <1>2, <1>3

\* An enum or citext becomes text, a type the mapping does not know becomes bytes.
LEMMA ExtensionCopy ==
    ASSUME NEW column, column.type \notin KnownTypes \ {"enum", "citext"}
    PROVE  IsCopyOf(CopyOf(column), column)
<1>1. \/ CopyOf(column) = Unmodified("text") /\ Decoding(column).kind = "Text"
      \/ CopyOf(column) = Unmodified("bytea") /\ Decoding(column).kind = "Opaque"
  BY ExtensionField, KindColumn DEF CopyOf, FixedName
<1>2. Decoding(column) = ExtensionDecoding(column)
  <2>1. /\ column.type \notin DOMAIN FixedDecoding /\ column.type \notin DOMAIN RangeDecoding
        /\ column.type \notin {"numeric", "numrange"}
    BY DEF KnownTypes, FixedDecoding, RangeDecoding
  <2> QED
    BY <2>1 DEF Decoding
<1>3. CASE column.type \in {"enum", "citext"}
  <2>1. Decoding(column).kind = "Text"
    BY <1>2, <1>3 DEF ExtensionDecoding
  <2>2. CopyOf(column) = Unmodified("text")
    BY <1>1, <2>1
  <2> QED
    BY <1>3, <2>2 DEF IsCopyOf, CopiedType, Unmodified
<1>4. CASE column.type \notin {"enum", "citext"}
  <2>1. Decoding(column).kind = "Opaque"
    BY <1>2, <1>4 DEF ExtensionDecoding, KnownTypes
  <2>2. CopyOf(column) = Unmodified("bytea")
    BY <1>1, <2>1
  <2>3. CopiedType(column.type) = "bytea"
    BY <1>4 DEF CopiedType, KnownTypes, FixedDecoding
  <2> QED
    BY <2>2, <2>3 DEF IsCopyOf, Unmodified
<1> QED
  BY <1>3, <1>4

\* Whatever the source takes and the destination takes from it, the copy of a column is of the
\* type that the documentation promises for it.
LEMMA ColumnCopy ==
    ASSUME NEW column, IsColumn(column),
           Decoding(column) # Refused, Encoding(Field(Decoding(column))) # Refused
    PROVE  IsCopyOf(CopyOf(column), column)
<1>1. CASE column.type \in DOMAIN FixedDecoding
  BY <1>1, FixedCopy
<1>2. CASE column.type \in DOMAIN RangeDecoding
  BY <1>2, RangeCopy
<1>3. CASE column.type = "numeric"
  BY <1>3, NumericCopy
<1>4. CASE column.type = "numrange"
  BY <1>4, NumrangeCopy
<1>5. CASE column.type \in {"geometry", "geography"}
  BY <1>5, GeoCopy
<1>6. CASE column.type \notin KnownTypes \ {"enum", "citext"}
  BY <1>6, ExtensionCopy
<1> QED
  BY <1>1, <1>2, <1>3, <1>4, <1>5, <1>6 DEF KnownTypes

-----------------------------------------------------------------------------
(* What the fields and columns of a trip are. *)

\* A type without a parameter is a data type, and neither a decimal nor a range.
IsFixed(data) == IsData(data) /\ Head(data) \notin {"Decimal128", "Struct"}

\* Every type without a parameter is one.
LEMMA FixedIsData == \A kind \in DOMAIN FixedArrow : IsFixed(FixedArrow[kind])
<1>1. /\ \A name \in {"Boolean", "Int16", "Int32", "Int64", "Float32", "Float64", "Utf8",
                       "Binary", "Date32"} : IsFixed(<<name>>)
      /\ \A zone : IsFixed(<<"Timestamp", "us", zone>>)
      /\ IsFixed(<<"FixedSizeBinary", 16>>) /\ IsFixed(<<"Interval", "MonthDayNano">>)
  BY DEF IsFixed, IsData, FixedEncoding
<1>2. DOMAIN FixedArrow = {"Bool", "Int2", "Int4", "Int8", "Float4", "Float8",
                           "Text", "Json", "Jsonb", "Bytea", "Geo", "Opaque",
                           "Uuid", "Date", "Timestamp", "Timestamptz", "Interval"}
  BY DEF FixedArrow
<1>3. /\ IsFixed(FixedArrow["Bool"])
      /\ IsFixed(FixedArrow["Int2"])
      /\ IsFixed(FixedArrow["Int4"])
      /\ IsFixed(FixedArrow["Int8"])
      /\ IsFixed(FixedArrow["Float4"])
      /\ IsFixed(FixedArrow["Float8"])
  BY <1>1 DEF FixedArrow
<1>4. /\ IsFixed(FixedArrow["Text"])
      /\ IsFixed(FixedArrow["Json"])
      /\ IsFixed(FixedArrow["Jsonb"])
      /\ IsFixed(FixedArrow["Bytea"])
      /\ IsFixed(FixedArrow["Geo"])
      /\ IsFixed(FixedArrow["Opaque"])
  BY <1>1 DEF FixedArrow
<1>5. /\ IsFixed(FixedArrow["Uuid"])
      /\ IsFixed(FixedArrow["Date"])
      /\ IsFixed(FixedArrow["Timestamp"])
      /\ IsFixed(FixedArrow["Timestamptz"])
      /\ IsFixed(FixedArrow["Interval"])
  BY <1>1 DEF FixedArrow
<1> QED
  BY <1>2, <1>3, <1>4, <1>5

\* The tags that name nothing but themselves.
LEMMA TagShape ==
    ASSUME NEW decoding, TagName(Field(decoding))
                           \in {"arrow.json", "arrow.uuid", "transferred.pg_range"}
    PROVE  Field(decoding).tag = <<TagName(Field(decoding))>>
<1> DEFINE tag == Tag(decoding)
           name == IF tag = <<>> THEN "" ELSE Head(tag)
<1>1. Field(decoding).tag = tag /\ TagName(Field(decoding)) = name
  BY DEF Field, TagName
<1>2. \/ tag \in {<<>>, <<"arrow.uuid">>, <<"arrow.json">>, <<"transferred.pg_range">>}
      \/ tag = <<"arrow.opaque", decoding.name>>
      \/ \E crs : tag = <<"geoarrow.wkb", crs, decoding.edges>>
  BY DEF Tag, WkbTag
<1> HIDE DEF tag
<1>3. tag = <<>> \/ tag = <<Head(tag)>> \/ Head(tag) \in {"arrow.opaque", "geoarrow.wkb"}
  BY <1>2
<1>4. name \in {"arrow.json", "arrow.uuid", "transferred.pg_range"} =>
         name = Head(tag) /\ tag # <<>> /\ Head(tag) \notin {"arrow.opaque", "geoarrow.wkb"}
  OBVIOUS
<1> HIDE DEF name
<1> QED
  BY <1>1, <1>3, <1>4

\* A kind without a parameter makes a field that nothing is asked of.
LEMMA FixedFieldIsField ==
    ASSUME NEW decoding, decoding.kind \in DOMAIN FixedArrow \ {"Geo"}
    PROVE  IsField(Field(decoding))
<1> DEFINE field == Field(decoding)
<1>1. decoding.kind \notin {"Range", "Numeric"}
  BY DEF FixedArrow
<1>2. field.data = FixedArrow[decoding.kind]
  BY <1>1 DEF Field, ArrowType, ElementArrow
<1>3. IsFixed(field.data)
  BY <1>2, FixedIsData
<1>4. TagName(field) # "geoarrow.wkb"
  BY <1>1 DEF Field, Tag, TagName
<1>5. TagName(field) \in {"arrow.json", "arrow.uuid", "transferred.pg_range"} =>
         field.tag = <<TagName(field)>>
  BY TagShape
<1> HIDE DEF field
<1>6. IsField(field)
  BY <1>3, <1>4, <1>5 DEF IsField, IsFixed
<1> QED
  BY <1>6 DEF field

\* The source makes nothing but fields that Arrow has: no decimal has more digits than
\* Decimal128, and no geometry names a coordinate system a modifier has no room for.
LEMMA DecodedFieldIsField ==
    ASSUME NEW column, IsColumn(column), Decoding(column) # Refused
    PROVE  IsField(Field(Decoding(column)))
<1> DEFINE field == Field(Decoding(column))
<1>1. CASE column.type \in DOMAIN FixedDecoding
  <2> DEFINE kind == FixedDecoding[column.type]
  <2>1. Decoding(column) = [kind |-> kind]
    BY <1>1 DEF Decoding
  <2>2. kind \in DOMAIN FixedArrow \ {"Geo"}
    BY <1>1 DEF FixedDecoding, FixedArrow
  <2> HIDE DEF kind
  <2> QED
    BY <2>1, <2>2, FixedFieldIsField
<1>2. CASE column.type \in DOMAIN RangeDecoding \cup {"numrange"}
  <2> DEFINE decoding == Decoding(column)
             data == ElementArrow(decoding.of)
  <2>1. /\ decoding.kind = "Range"
        /\ decoding.of = BareNumeric \/ decoding.of.kind \in DOMAIN FixedArrow
    BY <1>2 DEF Decoding, FixedDecoding, RangeDecoding, NumericDecoding, BareNumeric, FixedArrow
  <2>2. field.data = RangeFields(data)
    BY <2>1 DEF Field, ArrowType
  <2>3. IsData(data)
    <3>1. CASE decoding.of = BareNumeric
      <4>1. data = <<"Decimal128", MaxPrecision, BareScale>>
        BY <3>1 DEF ElementArrow, BareNumeric
      <4>2. MaxPrecision \in 1..MaxPrecision /\ BareScale \in -128..127
        BY SMT, MapAssumption
      <4> QED
        BY <4>1, <4>2 DEF IsData, FixedEncoding
    <3>2. CASE decoding.of.kind \in DOMAIN FixedArrow
      <4>1. data = FixedArrow[decoding.of.kind]
        BY <3>2 DEF ElementArrow, FixedArrow
      <4> QED
        BY <3>2, <4>1, FixedIsData DEF IsFixed
    <3> QED
      BY <2>1, <3>1, <3>2
  <2> HIDE DEF data
  <2>4. Head(field.data) = "Struct" /\ field.data[2] = data
    BY <2>2 DEF RangeFields
  <2>5. IsData(field.data)
    BY <2>4 DEF IsData, FixedEncoding
  <2> QED
    BY <2>3, <2>4, <2>5, TagShape DEF IsField
<1>3. CASE column.type = "numeric"
  <2>1. PICK p \in 1..MaxPrecision, s \in 0..MaxPrecision :
          Decoding(column) = [kind |-> "Numeric", precision |-> p, scale |-> s]
    BY <1>3, NumericDecodes
  <2>2. p \in Nat /\ s \in Nat /\ s \in -128..127
    BY SMT, MapAssumption
  <2>3. field = [data |-> <<"Decimal128", p, s>>, tag |-> <<>>]
    BY <2>1, <2>2, NumericFieldComesBack
  <2> HIDE DEF field
  <2>4. IsField(field)
    BY <2>2, <2>3 DEF IsField, IsData, FixedEncoding, TagName
  <2> QED
    BY <2>4 DEF field
<1>4. CASE column.type \in {"geometry", "geography"}
  <2>1. PICK edges \in {"planar", "spherical"} :
            Decoding(column) = [kind |-> "Geo", epsg |-> Srid(column.typmod), edges |-> edges]
    BY <1>4 DEF Decoding, FixedDecoding, RangeDecoding, ExtensionDecoding
  <2>2. /\ field.data = <<"Binary">> /\ Epsg(field.tag[2]) = Srid(column.typmod)
        /\ TagName(field) = "geoarrow.wkb" /\ field.tag[3] \in EdgeKinds
    BY <2>1, GeoFieldComesBack DEF EdgeKinds
  <2>3. column.typmod \in Int
    BY DEF IsColumn
  <2> HIDE DEF field
  <2>4. IsData(field.data) /\ Head(field.data) = "Binary"
    BY <2>2 DEF IsData, FixedEncoding
  <2>5. Srid(column.typmod) = None \/ IsSrid(Srid(column.typmod))
    BY <2>3, SridRange
  <2>6. IsField(field)
    BY <2>2, <2>4, <2>5 DEF IsField
  <2> QED
    BY <2>6 DEF field
<1>5. CASE column.type \notin KnownTypes \ {"enum", "citext"}
  <2>1. /\ column.type \notin DOMAIN FixedDecoding /\ column.type \notin DOMAIN RangeDecoding
        /\ column.type \notin {"numeric", "numrange", "geometry", "geography"}
    BY <1>5 DEF KnownTypes, FixedDecoding, RangeDecoding
  <2>2. Decoding(column) = ExtensionDecoding(column)
    BY <2>1 DEF Decoding
  <2>3. Decoding(column).kind \in {"Text", "Opaque"}
    BY <2>1, <2>2 DEF ExtensionDecoding
  <2>4. Decoding(column).kind \in DOMAIN FixedArrow \ {"Geo"}
    BY <2>3 DEF FixedArrow
  <2> QED
    BY <2>4, FixedFieldIsField
<1> QED
  BY <1>1, <1>2, <1>3, <1>4, <1>5 DEF KnownTypes

\* Columns whose modifier Postgres packed.
LEMMA NumericColumnIsColumn ==
    ASSUME NEW p \in 1..1000, NEW s \in NumericScales
    PROVE  IsColumn([type |-> "numeric", typmod |-> NumericTypmod(p, s)])
<1>1. /\ PackedPrecision(NumericTypmod(p, s)) = p
      /\ PackedScale(NumericTypmod(p, s)) = s
  BY NumericTypmodComesBack
<1>2. NumericTypmod(p, s) \in Int
  BY SMT DEF NumericTypmod, NumericScales
<1> QED
  BY <1>1, <1>2 DEF IsColumn

\* Columns that take no modifier.
LEMMA UnmodifiedIsColumn ==
    ASSUME NEW type
    PROVE  IsColumn(Unmodified(type))
<1>1. BareTypmod \in Int
  BY SMT DEF BareTypmod
<1> QED
  BY <1>1 DEF IsColumn, Unmodified

\* Every column that the destination declares is one that Postgres accepts, whoever made the
\* field: Postgres allows a numeric up to 1000 digits, and an SRID 20 bits.
LEMMA DeclaredColumnIsColumn ==
    ASSUME NEW field, IsField(field), Encoding(field) # Refused
    PROVE  IsColumn(SqlColumn(Encoding(field)))
<1> DEFINE encoding == Encoding(field)
<1>1. \/ encoding.kind \in {"Json", "Uuid", "Range"}
      \/ /\ Head(field.data) = "Binary" /\ TagName(field) = "geoarrow.wkb"
         /\ encoding.kind = "Geo" /\ encoding.epsg = Epsg(field.tag[2])
      \/ encoding = PlainEncoding(field.data)
  BY DEF Encoding, RangeEncoding
<1> HIDE DEF encoding
<1>2. CASE encoding.kind \in {"Json", "Uuid", "Range"}
  <2>1. PICK type : SqlColumn(encoding) = Unmodified(type)
    BY <1>2 DEF SqlColumn, Unmodified
  <2> QED
    BY <2>1, UnmodifiedIsColumn DEF encoding
<1>3. CASE /\ Head(field.data) = "Binary" /\ TagName(field) = "geoarrow.wkb"
           /\ encoding.kind = "Geo" /\ encoding.epsg = Epsg(field.tag[2])
  <2>1. PICK type, typmod :
          /\ SqlColumn(encoding) = [type |-> type, typmod |-> typmod] /\ type # "numeric"
          /\ typmod = IF encoding.epsg = None THEN BareTypmod ELSE GeoTypmod(encoding.epsg, 0)
    BY <1>3 DEF SqlColumn
  <2>2. CASE encoding.epsg = None
    BY <2>1, <2>2, UnmodifiedIsColumn DEF Unmodified, encoding
  <2>3. CASE encoding.epsg # None
    <3>1. encoding.epsg \in Nat /\ 0 < encoding.epsg /\ encoding.epsg < 1048576
      BY SMT, <1>3, <2>3 DEF IsField, IsSrid
    <3>2. typmod \in Int /\ IsGeoTypmod(typmod)
      BY SMT, <2>1, <2>3, <3>1 DEF GeoTypmod, IsGeoTypmod
    <3> QED
      BY <2>1, <3>2 DEF IsColumn, encoding
  <2> QED
    BY <2>2, <2>3
<1>4. CASE encoding = PlainEncoding(field.data)
  <2>1. encoding # Refused
    BY DEF encoding
  <2>2. \/ encoding.kind \in {"Timestamp", "Timestamptz", "Interval"} \cup PlainKinds
        \/ /\ Head(field.data) = "Decimal128" /\ field.data[3] >= 0
           /\ encoding = [kind |-> "Numeric", precision |-> field.data[2],
                          scale |-> field.data[3]]
    <3>1. CASE Head(field.data) \in DOMAIN FixedEncoding
      <4>1. encoding = [kind |-> FixedEncoding[Head(field.data)]]
        BY <1>4, <3>1 DEF PlainEncoding
      <4>2. FixedEncoding[Head(field.data)] \in PlainKinds
        BY <3>1 DEF FixedEncoding, PlainKinds
      <4> QED
        BY <4>1, <4>2
    <3>2. CASE Head(field.data) \notin DOMAIN FixedEncoding
      BY <1>4, <2>1, <3>2 DEF PlainEncoding
    <3> QED
      BY <3>1, <3>2
  <2>3. CASE encoding.kind \in {"Timestamp", "Timestamptz", "Interval"} \cup PlainKinds
    <3>1. PICK type : SqlColumn(encoding) = Unmodified(type)
      BY <2>3 DEF SqlColumn, Unmodified, PlainKinds
    <3> QED
      BY <3>1, UnmodifiedIsColumn DEF encoding
  <2>4. CASE /\ Head(field.data) = "Decimal128" /\ field.data[3] >= 0
             /\ encoding = [kind |-> "Numeric", precision |-> field.data[2],
                            scale |-> field.data[3]]
    <3>1. field.data[2] \in 1..MaxPrecision /\ field.data[3] \in -128..127
      BY <2>4 DEF IsField, IsData
    <3>2. MaxPrecision \in 1..127
      BY MapAssumption
    <3>3. field.data[2] \in 1..1000 /\ field.data[3] \in NumericScales
      BY SMT, <3>1, <3>2 DEF NumericScales
    <3>4. PICK p \in 1..1000, s \in NumericScales :
            encoding = [kind |-> "Numeric", precision |-> p, scale |-> s]
      BY <2>4, <3>3
    <3>5. SqlColumn(encoding) = [type |-> "numeric", typmod |-> NumericTypmod(p, s)]
      BY <3>4 DEF SqlColumn
    <3> QED
      BY <3>5, NumericColumnIsColumn DEF encoding
  <2> QED
    BY <2>2, <2>3, <2>4
<1> QED
  BY <1>1, <1>2, <1>3, <1>4 DEF encoding

-----------------------------------------------------------------------------
(* Powers of ten. *)

\* The powers up to the n-th.
ArePowers(f, n) ==
    /\ f \in [0..n -> Nat]
    /\ \A k \in 0..n : f[k] = IF k = 0 THEN 1 ELSE 10 * f[k - 1]

\* There are that many, whatever n is.
LEMMA PowersExist ==
    ASSUME NEW n \in Nat
    PROVE  \E f : ArePowers(f, n)
<1> DEFINE S == {k \in Nat : \E f : ArePowers(f, k)}
<1>1. 0 \in S
  <2>1. ArePowers([k \in 0..0 |-> 1], 0)
    BY SMT DEF ArePowers
  <2> QED
    BY <2>1
<1>2. ASSUME NEW k \in Nat, k \in S PROVE k + 1 \in S
  <2>1. PICK f : ArePowers(f, k)
    BY <1>2
  <2> DEFINE g == [i \in 0..(k + 1) |-> IF i = k + 1 THEN 10 * f[k] ELSE f[i]]
  <2>2. ArePowers(g, k + 1)
    <3>1. f \in [0..k -> Nat] /\ \A i \in 0..k : f[i] = IF i = 0 THEN 1 ELSE 10 * f[i - 1]
      BY <2>1 DEF ArePowers
    <3>2. g \in [0..(k + 1) -> Nat]
      BY <3>1
    <3>3. ASSUME NEW i \in 0..(k + 1)
          PROVE  g[i] = IF i = 0 THEN 1 ELSE 10 * g[i - 1]
      <4>1. CASE i = k + 1
        BY <3>1, <4>1
      <4>2. CASE i # k + 1
        <5>1. i \in 0..k /\ g[i] = f[i] /\ (i # 0 => g[i - 1] = f[i - 1])
          BY <4>2
        <5> QED
          BY <3>1, <5>1
      <4> QED
        BY <4>1, <4>2
    <3> HIDE DEF g
    <3> QED
      BY <3>2, <3>3 DEF ArePowers
  <2> QED
    BY <2>2
<1> HIDE DEF S
<1>3. \A k \in Nat : k \in S
  BY <1>1, <1>2, AllNumbers
<1> QED
  BY <1>3 DEF S

\* And they are the same, however far one counts.
LEMMA PowersAgree ==
    ASSUME NEW n \in Nat, NEW m \in Nat, NEW f, NEW g, ArePowers(f, n), ArePowers(g, m)
    PROVE  \A k \in Nat : k =< n /\ k =< m => f[k] = g[k]
<1> DEFINE S == {k \in Nat : k =< n /\ k =< m => f[k] = g[k]}
<1>1. /\ \A k \in 0..n : f[k] = IF k = 0 THEN 1 ELSE 10 * f[k - 1]
      /\ \A k \in 0..m : g[k] = IF k = 0 THEN 1 ELSE 10 * g[k - 1]
  BY DEF ArePowers
<1>2. 0 \in S
  BY <1>1
<1>3. ASSUME NEW k \in Nat, k \in S PROVE k + 1 \in S
  <2> SUFFICES ASSUME k + 1 =< n /\ k + 1 =< m PROVE f[k + 1] = g[k + 1]
    OBVIOUS
  <2>1. f[k] = g[k] /\ k + 1 \in 0..n /\ k + 1 \in 0..m /\ k + 1 # 0 /\ k + 1 - 1 = k
    BY <1>3
  <2>2. f[k + 1] = 10 * f[k] /\ g[k + 1] = 10 * g[k]
    BY <1>1, <2>1
  <2> QED
    BY <2>1, <2>2
<1> HIDE DEF S
<1>4. \A k \in Nat : k \in S
  BY <1>2, <1>3, AllNumbers
<1> QED
  BY <1>4 DEF S

\* So that the recursive definition has the function it asks for.
LEMMA PowersAre ==
    PowerOfTen = [n \in Nat |-> IF n = 0 THEN 1 ELSE 10 * PowerOfTen[n - 1]]
<1> DEFINE upTo(n) == CHOOSE f : ArePowers(f, n)
           g == [n \in Nat |-> upTo(n)[n]]
<1>1. \A n \in Nat : ArePowers(upTo(n), n)
  BY PowersExist
<1> HIDE DEF upTo
<1>2. ASSUME NEW n \in Nat
      PROVE  g[n] = IF n = 0 THEN 1 ELSE 10 * g[n - 1]
  <2>1. upTo(n)[n] = IF n = 0 THEN 1 ELSE 10 * upTo(n)[n - 1]
    BY <1>1 DEF ArePowers
  <2>2. ASSUME n # 0
        PROVE  upTo(n)[n - 1] = upTo(n - 1)[n - 1]
    <3>1. n - 1 \in Nat /\ n - 1 =< n /\ n - 1 =< n - 1
      BY <2>2
    <3>2. ArePowers(upTo(n), n) /\ ArePowers(upTo(n - 1), n - 1)
      BY <1>1, <3>1
    <3> QED
      BY <3>1, <3>2, PowersAgree
  <2> QED
    BY <2>1, <2>2
<1>3. g = [n \in Nat |-> g[n]]
  OBVIOUS
<1> HIDE DEF g
<1>4. g = [n \in Nat |-> IF n = 0 THEN 1 ELSE 10 * g[n - 1]]
  BY <1>2, <1>3
<1> QED
  BY <1>4, Zenon DEF PowerOfTen

\* Each power is ten of the one before, and a positive number.
LEMMA PowerSteps ==
    /\ PowerOfTen[0] = 1
    /\ \A n \in Nat : PowerOfTen[n] \in Nat \ {0} /\ PowerOfTen[n + 1] = 10 * PowerOfTen[n]
<1> DEFINE S == {k \in Nat : PowerOfTen[k] \in Nat \ {0}}
<1>1. \A n \in Nat : PowerOfTen[n] = IF n = 0 THEN 1 ELSE 10 * PowerOfTen[n - 1]
  BY PowersAre
<1>2. PowerOfTen[0] = 1
  BY <1>1
<1>3. \A n \in Nat : PowerOfTen[n + 1] = 10 * PowerOfTen[n]
  <2> TAKE n \in Nat
  <2>1. n + 1 \in Nat /\ n + 1 # 0 /\ n + 1 - 1 = n
    OBVIOUS
  <2> QED
    BY <1>1, <2>1
<1>4. 0 \in S
  BY <1>2
<1>5. ASSUME NEW k \in Nat, k \in S PROVE k + 1 \in S
  BY <1>3, <1>5
<1> HIDE DEF S
<1>6. \A k \in Nat : k \in S
  BY <1>4, <1>5, AllNumbers
<1> QED
  BY <1>2, <1>3, <1>6 DEF S

\* Zeros may be added in one go or in two.
LEMMA PowerAdds ==
    ASSUME NEW m \in Nat, NEW n \in Nat
    PROVE  PowerOfTen[m + n] = PowerOfTen[m] * PowerOfTen[n]
<1> DEFINE S == {k \in Nat : PowerOfTen[m + k] = PowerOfTen[m] * PowerOfTen[k]}
<1>1. 0 \in S
  BY PowerSteps
<1>2. ASSUME NEW k \in Nat, k \in S PROVE k + 1 \in S
  <2>1. PowerOfTen[m + (k + 1)] = 10 * PowerOfTen[m + k]
    BY PowerSteps, m + k \in Nat, m + (k + 1) = (m + k) + 1
  <2>2. PowerOfTen[k + 1] = 10 * PowerOfTen[k] /\ PowerOfTen[k] \in Int /\ PowerOfTen[m] \in Int
    BY PowerSteps
  <2>3. PowerOfTen[m + k] = PowerOfTen[m] * PowerOfTen[k]
    BY <1>2
  <2> DEFINE a == PowerOfTen[m]  b == PowerOfTen[k]
  <2>4. 10 * (a * b) = a * (10 * b)
    <3> HIDE DEF a, b
    <3> SUFFICES ASSUME a \in Int, b \in Int PROVE 10 * (a * b) = a * (10 * b)
      BY <2>2 DEF a, b
    <3> QED
      BY SMT
  <2> QED
    BY <2>1, <2>2, <2>3, <2>4
<1> HIDE DEF S
<1>3. \A k \in Nat : k \in S
  BY <1>1, <1>2, AllNumbers
<1> QED
  BY <1>3 DEF S

\* And taken away.
LEMMA PowerParts ==
    ASSUME NEW m \in Nat, NEW n \in Nat, m =< n
    PROVE  /\ n - m \in Nat
           /\ PowerOfTen[n] = PowerOfTen[m] * PowerOfTen[n - m]
<1>1. PICK k \in Nat : k = n - m /\ m + k = n
  OBVIOUS
<1>2. PowerOfTen[m + k] = PowerOfTen[m] * PowerOfTen[k]
  BY PowerAdds
<1> QED
  BY <1>1, <1>2

-----------------------------------------------------------------------------
(* Decimals. *)

\* What is left of a number without its sign.
LEMMA AbsIs ==
    ASSUME NEW n \in Int
    PROVE  /\ Abs(n) \in Nat /\ Abs(-n) = Abs(n)
           /\ n < 0 => Abs(n) = -n
           /\ n >= 0 => Abs(n) = n
  BY SMT DEF Abs

\* Halves are rounded up.
LEMMA HalfUp ==
    ASSUME NEW a \in Nat, NEW u \in Nat \ {0},
           NEW q, q = (2 * a + u) \div (2 * u)
    PROVE  /\ q \in Nat /\ q =< a
           /\ 2 * (q * u - a) =< u
           /\ 2 * (a - q * u) < u
<1>1. q \in Int /\ 2 * u * q =< 2 * a + u /\ 2 * a + u < 2 * u * (q + 1)
  BY SMT
<1>2. u * q \in Int /\ q * u = u * q /\ 2 * u * q = 2 * (u * q) /\ 2 * u * (q + 1) = 2 * (u * q) + 2 * u
  BY SMT, <1>1
<1>3. q >= 0
  BY SMT, <1>1
<1>4. q =< a
  BY SMT, <1>1
<1> QED
  BY SMT, <1>1, <1>2, <1>3, <1>4

\* What DecimalUnits makes of a decimal with more places than are wanted: u is a power of ten,
\* one unit of those wanted.
LEMMA RoundsToNearest ==
    ASSUME NEW m \in Int, NEW u \in Nat \ {0},
           NEW size, size = (2 * Abs(m) + u) \div (2 * u),
           NEW units, units = IF m < 0 THEN -size ELSE size
    PROVE  /\ units \in Int /\ Abs(units) =< Abs(m)
           /\ 2 * Abs(units * u - m) =< u
           /\ 2 * Abs(units * u - m) = u =>
                IF m < 0 THEN units * u - m < 0 ELSE units * u - m > 0
<1>1. /\ size \in Nat /\ size =< Abs(m)
      /\ 2 * (size * u - Abs(m)) =< u
      /\ 2 * (Abs(m) - size * u) < u
  BY HalfUp, AbsIs
<1> DEFINE gap == size * u - Abs(m)
<1>2. gap \in Int /\ 2 * gap =< u /\ -(2 * gap) < u
  BY SMT, <1>1, AbsIs
<1>3. CASE m < 0
  <2>1. Abs(m) = -m /\ units = -size
    BY <1>3, AbsIs
  <2>2. units * u - m = -gap
    BY SMT, <1>1, <2>1
  <2> HIDE DEF gap
  <2>3. Abs(units) = Abs(size) /\ Abs(size) = size
    BY <1>1, <2>1, AbsIs
  <2>4. units \in Int
    BY SMT, <1>1, <2>1
  <2>5. 2 * Abs(-gap) =< u /\ (2 * Abs(-gap) = u => -gap < 0)
    BY SMT, <1>2 DEF Abs
  <2> QED
    BY <1>1, <1>3, <2>2, <2>3, <2>4, <2>5
<1>4. CASE ~(m < 0)
  <2>1. Abs(m) = m /\ units = size
    BY <1>4, AbsIs
  <2>2. units * u - m = gap
    BY SMT, <1>1, <2>1
  <2> HIDE DEF gap
  <2>3. Abs(units) = size /\ units \in Int
    BY <1>1, <2>1, AbsIs
  <2>5. 2 * Abs(gap) =< u /\ (2 * Abs(gap) = u => gap > 0)
    BY SMT, <1>2 DEF Abs
  <2> QED
    BY <1>1, <1>4, <2>2, <2>3, <2>5
<1> QED
  BY <1>3, <1>4

\* Comparing is not changed by a positive factor.
LEMMA Scaled ==
    ASSUME NEW f \in Nat \ {0}, NEW a \in Int, NEW b \in Int
    PROVE  /\ (f * a < f * b) <=> (a < b)
           /\ (f * a = f * b) <=> (a = b)
           /\ Abs(f * a) = f * Abs(a)
<1>1. a < b => f * a < f * b
  BY SMT
<1>2. b < a => f * b < f * a
  BY SMT
<1>3. Abs(f * a) = f * Abs(a)
  <2>1. CASE a < 0
    BY SMT, <2>1 DEF Abs
  <2>2. CASE a >= 0
    BY SMT, <2>2 DEF Abs
  <2> QED
    BY SMT, <2>1, <2>2
<1> QED
  BY SMT, <1>1, <1>2, <1>3

\* What the library holds are numbers.
LEMMA LibraryIs ==
    ASSUME NEW decimal \in LibraryNumeric
    PROVE  /\ decimal.mantissa \in Int /\ Abs(decimal.mantissa) =< MaxMantissa
           /\ decimal.scale \in Nat /\ decimal.scale =< MaxScale
           /\ decimal = [mantissa |-> decimal.mantissa, scale |-> decimal.scale]
<1>1. MaxMantissa \in Nat /\ MaxScale \in Nat
  BY MapAssumption
<1>2. decimal.mantissa \in -MaxMantissa..MaxMantissa /\ decimal.scale \in 0..MaxScale
  BY DEF LibraryNumeric
<1>3. decimal.mantissa \in Int /\ Abs(decimal.mantissa) =< MaxMantissa
  BY SMT, <1>1, <1>2 DEF Abs
<1>4. decimal.scale \in Nat /\ decimal.scale =< MaxScale
  BY SMT, <1>1, <1>2
<1> QED
  BY <1>3, <1>4 DEF LibraryNumeric

\* And what is no larger, the library holds.
LEMMA LibraryHolds ==
    ASSUME NEW m \in Int, Abs(m) =< MaxMantissa, NEW s \in Nat, s =< MaxScale
    PROVE  [mantissa |-> m, scale |-> s] \in LibraryNumeric
<1>1. MaxMantissa \in Nat /\ MaxScale \in Nat
  BY MapAssumption
<1>2. m \in -MaxMantissa..MaxMantissa /\ s \in 0..MaxScale
  BY SMT, <1>1 DEF Abs
<1> QED
  BY <1>2 DEF LibraryNumeric

\* A decimal that has the wanted scale is a count already.
LEMMA SameScale ==
    ASSUME NEW decimal \in LibraryNumeric
    PROVE  DecimalUnits(decimal, decimal.scale) = decimal.mantissa
<1>1. /\ decimal.mantissa \in Int /\ Abs(decimal.mantissa) =< MaxMantissa
      /\ decimal.scale \in Nat
  BY LibraryIs
<1> DEFINE s == decimal.scale
           m == decimal.mantissa
<1>2. ~(s > s) /\ s - s = 0
  BY SMT, <1>1
<1>3. m * PowerOfTen[s - s] = m
  BY SMT, <1>1, <1>2, PowerSteps
<1>4. DecimalUnits(decimal, s) = LET padded == m * PowerOfTen[s - s]
                                 IN IF Abs(padded) =< MaxMantissa THEN padded ELSE Refused
  BY <1>2 DEF DecimalUnits
<1> QED
  BY <1>1, <1>3, <1>4

\* The count the source appends, when it appends one: the library could hold it, and it is the
\* nearest there is.
LEMMA UnitsAreNearest ==
    ASSUME NEW decimal \in LibraryNumeric, NEW scale \in Nat,
           NEW units, units = DecimalUnits(decimal, scale), units # Refused
    PROVE  /\ units \in Int /\ Abs(units) =< MaxMantissa
           /\ IsNearest([mantissa |-> units, scale |-> scale], decimal)
<1> DEFINE m == decimal.mantissa
           s == decimal.scale
           gap == units * PowerOfTen[s] - m * PowerOfTen[scale]
<1>1. m \in Int /\ Abs(m) =< MaxMantissa /\ s \in Nat /\ MaxMantissa \in Nat
  BY LibraryIs, MapAssumption
<1>2. PowerOfTen[s] \in Nat \ {0} /\ PowerOfTen[scale] \in Nat \ {0}
  BY <1>1, PowerSteps
<1>3. IsNearest([mantissa |-> units, scale |-> scale], decimal)
        <=> \/ 2 * Abs(gap) < PowerOfTen[s]
            \/ /\ 2 * Abs(gap) = PowerOfTen[s]
               /\ IF m < 0 THEN gap < 0 ELSE gap > 0
  BY DEF IsNearest
<1> HIDE DEF gap
<1>4. CASE s > scale
  <2> DEFINE u == PowerOfTen[s - scale]
             size == (2 * Abs(m) + u) \div (2 * u)
             off == units * u - m
             t == PowerOfTen[scale]
  <2>1. scale =< s
    BY SMT, <1>1, <1>4
  <2>2. PowerOfTen[s] = t * u /\ u \in Nat \ {0} /\ t \in Nat \ {0}
    BY <1>1, <2>1, PowerSteps, PowerParts
  <2>3. units = IF m < 0 THEN -size ELSE size
    BY <1>4 DEF DecimalUnits
  <2>4. /\ units \in Int /\ Abs(units) =< Abs(m)
        /\ 2 * Abs(off) =< u
        /\ 2 * Abs(off) = u => IF m < 0 THEN off < 0 ELSE off > 0
    <3> HIDE DEF u
    <3> QED
      BY <1>1, <2>2, <2>3, RoundsToNearest
  <2>5. gap = t * off /\ off \in Int
    <3>1. gap = units * (t * u) - m * t
      BY <2>2 DEF gap
    <3>2. units * (t * u) - m * t = t * (units * u - m) /\ units * u - m \in Int
      <4>1. t \in Int /\ u \in Int /\ units \in Int
        BY <2>2, <2>4
      <4> HIDE DEF t, u, m
      <4> QED
        BY SMT, <1>1, <4>1
    <3> QED
      BY <3>1, <3>2
  <2>6. Abs(units) =< MaxMantissa
    BY SMT, <1>1, <2>4, AbsIs
  <2>7. Abs(gap) = t * Abs(off) /\ Abs(off) \in Nat
    <3> HIDE DEF t, off
    <3> QED
      BY <2>2, <2>5, Scaled, AbsIs
  <2>8. 2 * (t * Abs(off)) = t * (2 * Abs(off))
    <3> HIDE DEF t, off
    <3> QED
      BY SMT, <2>2, <2>7
  <2>9. /\ 2 * Abs(gap) < PowerOfTen[s] <=> 2 * Abs(off) < u
        /\ 2 * Abs(gap) = PowerOfTen[s] <=> 2 * Abs(off) = u
        /\ gap < 0 <=> off < 0
        /\ gap > 0 <=> off > 0
    <3> HIDE DEF t, off, u
    <3>1. 2 * Abs(off) \in Int /\ t * 0 = 0
      BY SMT, <2>2, <2>7
    <3>2. /\ 2 * Abs(gap) < PowerOfTen[s] <=> 2 * Abs(off) < u
          /\ 2 * Abs(gap) = PowerOfTen[s] <=> 2 * Abs(off) = u
      BY <2>2, <2>7, <2>8, <3>1, Scaled
    <3>3. (gap < 0 <=> off < 0) /\ (0 < gap <=> 0 < off)
      BY <2>2, <2>5, <3>1, Scaled
    <3> QED
      BY SMT, <2>5, <2>2, <3>2, <3>3
  <2>10. 2 * Abs(off) < u \/ 2 * Abs(off) = u
    <3> HIDE DEF off, u
    <3> QED
      BY SMT, <2>2, <2>4, <2>7
  <2> HIDE DEF off, u, t, size
  <2> QED
    BY <1>3, <2>4, <2>6, <2>9, <2>10
<1>5. CASE ~(s > scale)
  <2> DEFINE u == PowerOfTen[scale - s]
             padded == m * u
  <2>1. s =< scale
    BY SMT, <1>1, <1>5
  <2>2. PowerOfTen[scale] = PowerOfTen[s] * u /\ u \in Nat \ {0}
    BY <1>1, <2>1, PowerSteps, PowerParts
  <2>3. units = padded /\ Abs(padded) =< MaxMantissa
    BY <1>5 DEF DecimalUnits
  <2> HIDE DEF u
  <2>4. units \in Int /\ Abs(units) =< MaxMantissa
    BY SMT, <1>1, <2>2, <2>3
  <2>5. gap = 0
    <3>1. gap = (m * u) * PowerOfTen[s] - m * (PowerOfTen[s] * u)
      BY <2>2, <2>3 DEF gap
    <3> DEFINE p == PowerOfTen[s]
    <3>2. (m * u) * p - m * (p * u) = 0
      <4>1. p \in Int
        BY <1>2
      <4> HIDE DEF p
      <4> QED
        BY SMT, <1>1, <2>2, <4>1
    <3> QED
      BY <3>1, <3>2
  <2>6. 2 * Abs(gap) < PowerOfTen[s]
    BY SMT, <1>2, <2>5 DEF Abs
  <2> QED
    BY <1>3, <2>4, <2>6
<1> QED
  BY <1>4, <1>5

\* Two gaps x and y of at most half a unit that would turn two values round add up to a unit, so
\* that both are halves, rounded away from zero on either side of it.
LEMMA GapsInOrder ==
    ASSUME NEW l \in Int, NEW h \in Int, NEW m \in Int, NEW n \in Int,
           NEW a \in Nat \ {0}, NEW b \in Nat \ {0}, NEW t \in Nat \ {0},
           NEW x, NEW y, x = l * a - m * t, y = h * b - n * t,
           m * b =< n * a,
           2 * x =< a, 2 * x = a => m >= 0,
           -(2 * y) =< b, -(2 * y) = b => n < 0
    PROVE  l =< h
<1> SUFFICES ASSUME h + 1 =< l PROVE FALSE
  BY SMT
<1>1. x \in Int /\ y \in Int
  BY SMT
<1>2. 2 * (b * x) =< a * b /\ (2 * (b * x) = a * b => 2 * x = a)
  <2>1. 2 * (b * x) = b * (2 * x) /\ a * b = b * a /\ 2 * x \in Int
    BY SMT, <1>1
  <2>2. b * (2 * x) =< b * a
    BY SMT, <1>1
  <2>3. b * (2 * x) = b * a => 2 * x = a
    BY <2>1, Scaled
  <2> QED
    BY <2>1, <2>2, <2>3
<1>3. -(2 * (a * y)) =< a * b /\ (-(2 * (a * y)) = a * b => -(2 * y) = b)
  <2>1. -(2 * (a * y)) = a * (-(2 * y)) /\ -(2 * y) \in Int
    BY SMT, <1>1
  <2>2. a * (-(2 * y)) =< a * b
    BY SMT, <1>1
  <2>3. a * (-(2 * y)) = a * b => -(2 * y) = b
    BY <2>1, Scaled
  <2> QED
    BY <2>1, <2>2, <2>3
<1>4. b * x - a * y = (l - h) * (a * b) + t * (n * a - m * b)
  <2>1. b * x = l * (a * b) - t * (m * b)
    BY SMT
  <2>2. a * y = h * (a * b) - t * (n * a)
    BY SMT
  <2> DEFINE c == a * b  d == m * b  e == n * a
  <2>3. c \in Int /\ d \in Int /\ e \in Int
    BY SMT
  <2>4. b * x - a * y = (l * c - t * d) - (h * c - t * e)
    BY <2>1, <2>2
  <2> HIDE DEF c, d, e
  <2>5. (l * c - t * d) - (h * c - t * e) = (l - h) * c + t * (e - d)
    BY SMT, <2>3
  <2>6. b * x - a * y = (l - h) * c + t * (e - d)
    BY <2>4, <2>5
  <2> QED
    BY <2>6 DEF c, d, e
<1>5. (l - h) * (a * b) >= a * b /\ t * (n * a - m * b) >= 0
  <2>1. a * b \in Nat /\ n * a - m * b \in Nat /\ l - h >= 1 /\ l - h \in Int
    BY SMT
  <2> DEFINE c == a * b  d == n * a - m * b  k == l - h
  <2>2. c \in Nat /\ d \in Nat /\ k \in Int /\ k >= 1
    BY <2>1
  <2> HIDE DEF c, d, k
  <2>3. k * c >= c /\ t * d >= 0
    BY SMT, <2>2
  <2> QED
    BY <2>3 DEF c, d, k
<1>6. 2 * x = a /\ -(2 * y) = b
  <2> DEFINE c == a * b  p == b * x  q == a * y
             k == (l - h) * c  d == t * (n * a - m * b)
  <2>1. c \in Int /\ p \in Int /\ q \in Int /\ k \in Int /\ d \in Int
    BY SMT, <1>1
  <2>2. 2 * p =< c /\ -(2 * q) =< c /\ p - q = k + d /\ k >= c /\ d >= 0
    BY <1>2, <1>3, <1>4, <1>5
  <2>3. (2 * p = c => 2 * x = a) /\ (-(2 * q) = c => -(2 * y) = b)
    BY <1>2, <1>3
  <2> HIDE DEF c, p, q, k, d
  <2>4. 2 * p = c /\ -(2 * q) = c
    BY SMT, <2>1, <2>2
  <2> QED
    BY <2>3, <2>4
<1>7. m * b >= 0 /\ n * a < 0
  BY SMT, <1>6
<1> QED
  BY SMT, <1>7

\* l units are what m rounds to, m in parts of a and the units in parts of t.
RoundsTo(l, m, a, t) ==
    LET gap == l * a - m * t
    IN \/ 2 * Abs(gap) < a
       \/ 2 * Abs(gap) = a /\ IF m < 0 THEN gap < 0 ELSE gap > 0

\* Gaps of at most half a unit, to the side that counts, cannot turn two values round.
LEMMA NearestInOrder ==
    ASSUME NEW l \in Int, NEW h \in Int, NEW m \in Int, NEW n \in Int,
           NEW a \in Nat \ {0}, NEW b \in Nat \ {0}, NEW t \in Nat \ {0},
           RoundsTo(l, m, a, t), RoundsTo(h, n, b, t), m * b =< n * a
    PROVE  l =< h
<1> DEFINE x == l * a - m * t
           y == h * b - n * t
<1>0. /\ x \in Int /\ y \in Int
      /\ 2 * Abs(x) < a \/ (2 * Abs(x) = a /\ IF m < 0 THEN x < 0 ELSE x > 0)
      /\ 2 * Abs(y) < b \/ (2 * Abs(y) = b /\ IF n < 0 THEN y < 0 ELSE y > 0)
  BY DEF RoundsTo
<1>1. x = l * a - m * t /\ y = h * b - n * t
  OBVIOUS
<1> HIDE DEF x, y
<1>2. 2 * x =< a /\ (2 * x = a => m >= 0)
  BY SMT, <1>0 DEF Abs
<1>3. -(2 * y) =< b /\ (-(2 * y) = b => n < 0)
  BY SMT, <1>0 DEF Abs
<1> QED
  BY <1>0, <1>1, <1>2, <1>3, GapsInOrder

\* At one scale, the order of decimals is that of their counts.
LEMMA SameScaleOrder ==
    ASSUME NEW l \in Int, NEW h \in Int, NEW scale \in Nat
    PROVE  Below(TRUE, [mantissa |-> l, scale |-> scale], [mantissa |-> h, scale |-> scale])
             <=> l < h
<1>1. PowerOfTen[scale] \in Nat \ {0}
  BY PowerSteps
<1>2. Below(TRUE, [mantissa |-> l, scale |-> scale], [mantissa |-> h, scale |-> scale])
        <=> l * PowerOfTen[scale] < h * PowerOfTen[scale]
  BY DEF Below
<1> DEFINE t == PowerOfTen[scale]
<1> HIDE DEF t
<1>3. t \in Nat \ {0} => l * t = t * l /\ h * t = t * h
  BY SMT
<1>4. t \in Nat \ {0} => (t * l < t * h <=> l < h)
  BY Scaled
<1> QED
  BY <1>1, <1>2, <1>3, <1>4 DEF t

\* Rounding may bring two bounds together and never turns them round.
LEMMA RoundingKeepsOrder ==
    ASSUME NEW low \in LibraryNumeric, NEW high \in LibraryNumeric, NEW scale \in Nat,
           NEW l, l = DecimalUnits(low, scale), l # Refused,
           NEW h, h = DecimalUnits(high, scale), h # Refused,
           ~Below(TRUE, high, low)
    PROVE  l \in Int /\ h \in Int /\ l =< h
<1> DEFINE m == low.mantissa
           n == high.mantissa
           a == PowerOfTen[low.scale]
           b == PowerOfTen[high.scale]
           t == PowerOfTen[scale]
<1>1. m \in Int /\ n \in Int /\ a \in Nat \ {0} /\ b \in Nat \ {0} /\ t \in Nat \ {0}
  BY LibraryIs, PowerSteps
<1>2. l \in Int /\ h \in Int
  BY UnitsAreNearest
<1>3. RoundsTo(l, m, a, t) /\ RoundsTo(h, n, b, t)
  BY UnitsAreNearest DEF IsNearest, RoundsTo
<1>4. ~(n * a < m * b)
  BY DEF Below
<1> HIDE DEF m, n, a, b, t
<1>5. m * b =< n * a
  BY SMT, <1>1, <1>4
<1>6. l =< h
  BY <1>1, <1>2, <1>3, <1>5, NearestInOrder
<1> QED
  BY <1>2, <1>6

-----------------------------------------------------------------------------
(* Rows and batches. *)

IsRow(row) == IsColumn(row.column) /\ IsCell(row.column, row.cell)

IsBatch(from) == IsField(from.field) /\ IsItem(from.field, from.item)

\* The table that the destination writes for what the source reads.
Copy(row) == TableOf(BatchOf(row))

\* The copy is made, read again, and is what the copy of it is.
Settles(row) ==
    /\ Encodes(BatchOf(row))
    /\ Decodes(Copy(row))
    /\ Copy(Copy(row)) = Copy(row)

\* Two decodings with the encoding that they share: that of a column and that of its copy.
SettlesOn(decoding, encoding, again) ==
    /\ encoding # Refused /\ again # Refused
    /\ Encoding(Field(decoding)) = encoding
    /\ Decoding(SqlColumn(encoding)) = again
    /\ Encoding(Field(again)) = encoding

\* A value, the item it is read as and the cell that is stored of it, which is stored of what is
\* read of the cell as well.
StoresOn(decoding, encoding, again, value, item, cell) ==
    /\ item = Decoded(decoding, value)
    /\ cell = Stored(SqlColumn(encoding), Encoded(encoding, item)) /\ cell # Refused
    /\ Decoded(again, cell) # Refused
    /\ cell = Stored(SqlColumn(encoding), Encoded(encoding, Decoded(again, cell)))

\* No decoding or encoding is an error by accident.
LEMMA CodingIsNoError ==
    /\ \A kind \in DOMAIN FixedArrow :
          /\ [kind |-> kind] \in Scalars
          /\ [kind |-> kind] # Refused
    /\ \A p \in Int, s \in Int :
          /\ [kind |-> "Numeric", precision |-> p, scale |-> s] \in Scalars
          /\ [kind |-> "Numeric", precision |-> p, scale |-> s] # Refused
    /\ \A of \in Scalars :
          /\ [kind |-> "Range", of |-> of] # Refused
          /\ \A kind \in DOMAIN RangeOver :
                [kind |-> "Range", of |-> of, type |-> RangeOver[kind]] # Refused
    /\ \A epsg \in Int \cup {None}, edges \in EdgeKinds :
          [kind |-> "Geo", epsg |-> epsg, edges |-> edges] # Refused
<1> DEFINE types == {RangeOver[kind] : kind \in DOMAIN RangeOver}
<1>1. /\ Refused \notin Scalars
      /\ Refused \notin [kind : {"Range"}, of : Scalars]
      /\ Refused \notin [kind : {"Range"}, of : Scalars, type : types]
      /\ Refused \notin [kind : {"Geo"}, epsg : Int \cup {None}, edges : EdgeKinds]
  BY CodingAssumption DEF Codings
<1>2. ASSUME NEW kind \in DOMAIN FixedArrow
      PROVE  [kind |-> kind] \in Scalars
  <2>1. [kind |-> kind] \in [kind : DOMAIN FixedArrow]
    OBVIOUS
  <2> QED
    BY <2>1 DEF Scalars
<1>3. ASSUME NEW p \in Int, NEW s \in Int
      PROVE  [kind |-> "Numeric", precision |-> p, scale |-> s] \in Scalars
  <2>1. [kind |-> "Numeric", precision |-> p, scale |-> s]
          \in [kind : {"Numeric"}, precision : Int, scale : Int]
    OBVIOUS
  <2> QED
    BY <2>1 DEF Scalars
<1>4. ASSUME NEW of \in Scalars
      PROVE  [kind |-> "Range", of |-> of] \in [kind : {"Range"}, of : Scalars]
  OBVIOUS
<1>5. ASSUME NEW of \in Scalars, NEW kind \in DOMAIN RangeOver
      PROVE  [kind |-> "Range", of |-> of, type |-> RangeOver[kind]]
               \in [kind : {"Range"}, of : Scalars, type : types]
  <2>1. RangeOver[kind] \in types
    OBVIOUS
  <2> HIDE DEF types
  <2> QED
    BY <2>1
<1>6. ASSUME NEW epsg \in Int \cup {None}, NEW edges \in EdgeKinds
      PROVE  [kind |-> "Geo", epsg |-> epsg, edges |-> edges]
               \in [kind : {"Geo"}, epsg : Int \cup {None}, edges : EdgeKinds]
  OBVIOUS
<1> HIDE DEF types
<1> QED
  BY <1>1, <1>2, <1>3, <1>4, <1>5, <1>6

\* What becomes of a row: the item of its batch, and the cell of its copy.
TripsAs(row, item, cell) ==
    /\ Settles(row)
    /\ BatchOf(row).field = Field(Decoding(row.column)) /\ BatchOf(row).item = item
    /\ Copy(row).cell = cell

\* When columns settle and the value that is stored reads as one that is stored the same, the
\* row settles.
LEMMA RowSettles ==
    ASSUME NEW row, NEW encoding, NEW again, SettlesOn(Decoding(row.column), encoding, again),
           NEW item, NEW cell,
           StoresOn(Decoding(row.column), encoding, again, row.cell, item, cell)
    PROVE  TripsAs(row, item, cell)
<1>1. BatchOf(row) = [field |-> Field(Decoding(row.column)), item |-> item]
  BY DEF BatchOf, StoresOn
<1>2. Copy(row) = [column |-> SqlColumn(encoding), cell |-> cell]
  BY <1>1 DEF Copy, TableOf, SettlesOn, StoresOn
<1>3. Encodes(BatchOf(row))
  BY <1>1, <1>2 DEF Encodes, Copy, SettlesOn, StoresOn
<1> DEFINE copy == [column |-> SqlColumn(encoding), cell |-> cell]
<1>4. Decodes(copy)
  BY DEF Decodes, SettlesOn, StoresOn
<1>5. BatchOf(copy) = [field |-> Field(again), item |-> Decoded(again, cell)]
  BY DEF BatchOf, SettlesOn
<1>6. Copy(copy) = copy
  BY <1>5 DEF Copy, TableOf, SettlesOn, StoresOn
<1> QED
  BY <1>1, <1>2, <1>3, <1>4, <1>6 DEF Settles, TripsAs

\* A kind that is a type of its own and has no parameter settles on itself.
LEMMA FixedSettlesOn ==
    ASSUME NEW decoding, NEW kind \in DOMAIN FixedName,
           Encoding(Field(decoding)) = [kind |-> kind]
    PROVE  SettlesOn(decoding, [kind |-> kind], [kind |-> kind])
<1>1. SqlColumn([kind |-> kind]) = Unmodified(FixedName[kind])
  BY KindColumn
<1>2. FixedName[kind] \in DOMAIN FixedDecoding /\ FixedDecoding[FixedName[kind]] = kind
  BY DEF FixedName, FixedDecoding
<1>3. Decoding(Unmodified(FixedName[kind])) = [kind |-> kind]
  BY <1>2 DEF Decoding, Unmodified
<1>4. kind \in PlainKinds \cup {"Uuid", "Json"} /\ kind \in DOMAIN FixedArrow
  BY DEF FixedName, PlainKinds, FixedArrow
<1>5. Encoding(Field([kind |-> kind])) = [kind |-> kind]
  <2>1. CASE kind \in PlainKinds
    BY <2>1, PlainField, PlainKindComesBack, UntaggedEncoding
  <2>2. CASE kind \in {"Uuid", "Json"}
    BY <2>2, TaggedKindComesBack
  <2> QED
    BY <1>4, <2>1, <2>2
<1>6. [kind |-> kind] # Refused
  BY <1>4, CodingIsNoError
<1> QED
  BY <1>1, <1>3, <1>5, <1>6 DEF SettlesOn

-----------------------------------------------------------------------------
(* Values, one class of types at a time. *)

\* What CopyKeepsValue says of a row and the cell of its copy.
KeepsValue(to, row) ==
    LET type == row.column.type
        from == row.cell
    IN IF from = None \/ to = None THEN from = to
       ELSE IF type = "numeric"
            THEN IF row.column.typmod = BareTypmod THEN IsRounded(to, from) ELSE to = from
       ELSE IF type \in DOMAIN RangeDecoding \cup {"numrange"}
            THEN IsCopiedRange(type, to, from)
       ELSE IF type = "jsonb" THEN to = from.text
       ELSE to = from

\* What BatchIsValid says of a batch.
IsValid(from) ==
    from.item # None =>
        LET data == from.field.data
            item == from.item
        IN IF Head(data) = "Struct"
           THEN /\ FitsDecimal(data[2], item.lower)
                /\ FitsDecimal(data[2], item.upper)
                /\ item.lower = None => ~item.lower_inc
                /\ item.upper = None => ~item.upper_inc
           ELSE FitsDecimal(data, item)

\* All that is promised of a row that the source takes.
Trips(row) ==
    /\ Settles(row)
    /\ IsValid(BatchOf(row))
    /\ KeepsValue(Copy(row).cell, row)

\* What is no range is a scalar.
LEMMA ScalarCoding ==
    ASSUME NEW coding, coding.kind # "Range", NEW value
    PROVE  /\ Decoded(coding, value) = DecodedScalar(coding, value)
           /\ Encoded(coding, value) = EncodedScalar(coding, value)
  BY DEF Decoded, Encoded

\* A value that is stored as it should be, under a kind without a parameter.
LEMMA FixedRow ==
    ASSUME NEW row, NEW decoding, decoding = Decoding(row.column), decoding.kind # "Range",
           NEW kind \in DOMAIN FixedName,
           NEW encoding, encoding = [kind |-> kind], Encoding(Field(decoding)) = encoding,
           NEW item, item = DecodedScalar(decoding, row.cell), item # Refused,
           NEW cell, cell = Stored(Unmodified(FixedName[kind]), EncodedScalar(encoding, item)),
           cell # Refused,
           DecodedScalar(encoding, cell) = item
    PROVE  TripsAs(row, item, cell)
<1>1. SettlesOn(decoding, encoding, encoding) /\ encoding.kind # "Range"
  <2>1. kind # "Range"
    BY DEF FixedName
  <2> QED
    BY <2>1, FixedSettlesOn
<1>2. SqlColumn(encoding) = Unmodified(FixedName[kind])
  BY KindColumn
<1>3. /\ item = Decoded(decoding, row.cell)
      /\ item = Decoded(encoding, cell)
      /\ Encoded(encoding, item) = EncodedScalar(encoding, item)
  BY <1>1, ScalarCoding
<1>4. cell = Stored(SqlColumn(encoding), Encoded(encoding, item))
  BY <1>2, <1>3
<1>5. StoresOn(decoding, encoding, encoding, row.cell, item, cell)
  BY <1>3, <1>4 DEF StoresOn
<1> QED
  BY <1>1, <1>5, RowSettles

\* Nothing but a decimal or a range has anything to fit.
LEMMA FixedIsValid ==
    ASSUME NEW decoding, decoding.kind \in DOMAIN FixedArrow,
           NEW from, from.field = Field(decoding)
    PROVE  IsValid(from)
<1>1. decoding.kind \notin {"Range", "Numeric"}
  BY DEF FixedArrow
<1>2. Field(decoding).data = FixedArrow[decoding.kind]
  BY <1>1 DEF Field, ArrowType, ElementArrow
<1>3. Head(Field(decoding).data) \notin {"Decimal128", "Struct"}
  BY <1>2, FixedIsData DEF IsFixed
<1> QED
  BY <1>3 DEF IsValid, FitsDecimal

\* The kinds whose values neither side looks at.
OpaqueKinds == {"Bool", "Int2", "Int4", "Int8", "Float4", "Float8", "Text", "Bytea", "Uuid", "Json"}

\* A value of such a kind passes as it is, on both sides and into its column.
LEMMA OpaqueCell ==
    ASSUME NEW kind \in OpaqueKinds, NEW cell, cell # Unreadable
    PROVE  /\ kind \in DOMAIN FixedName
           /\ DecodedScalar([kind |-> kind], cell) = cell
           /\ EncodedScalar([kind |-> kind], cell) = cell
           /\ Stored(Unmodified(FixedName[kind]), cell) = cell
<1>1. kind \in DOMAIN FixedName
  BY DEF OpaqueKinds, FixedName
<1>2. DecodedScalar([kind |-> kind], cell) = cell
  BY DEF OpaqueKinds, DecodedScalar
<1>3. EncodedScalar([kind |-> kind], cell) = cell
  BY DEF OpaqueKinds, EncodedScalar
<1>4. FixedName[kind] \in {"bool", "int2", "int4", "int8", "float4", "float8", "text", "bytea",
                           "uuid", "json"}
  BY DEF OpaqueKinds, FixedName
<1>5. Stored(Unmodified(FixedName[kind]), cell) = cell
  BY <1>4 DEF Stored, Unmodified
<1> QED
  BY <1>1, <1>2, <1>3, <1>5

\* Values that pass as they are.
LEMMA OpaqueRowTrips ==
    ASSUME NEW row, Decodes(row), IsRow(row), NEW decoding, decoding = Decoding(row.column),
           decoding.kind \in OpaqueKinds \cup {"Opaque"},
           NEW kind \in OpaqueKinds, Encoding(Field(decoding)) = [kind |-> kind],
           row.column.type \notin {"numeric", "jsonb", "numrange"} \cup DOMAIN RangeDecoding
    PROVE  Trips(row)
<1> DEFINE cell == row.cell
<1>1. decoding.kind \notin {"Range", "Numeric", "Interval", "Jsonb", "Date", "Timestamp", "Timestamptz"}
      /\ decoding.kind \in DOMAIN FixedArrow
  BY DEF OpaqueKinds, FixedArrow
<1>2. Decoded(decoding, cell) = DecodedScalar(decoding, cell) /\ Decoded(decoding, cell) # Refused
  BY <1>1, ScalarCoding DEF Decodes
<1>3. cell # Unreadable /\ cell # Refused /\ DecodedScalar(decoding, cell) = cell
  <2>1. Unreadable # None /\ Refused # None
    BY MapAssumption
  <2> QED
    BY <1>1, <1>2, <2>1 DEF DecodedScalar
<1> HIDE DEF cell
<1>4. /\ kind \in DOMAIN FixedName
      /\ DecodedScalar([kind |-> kind], cell) = cell
      /\ EncodedScalar([kind |-> kind], cell) = cell
      /\ Stored(Unmodified(FixedName[kind]), cell) = cell
  BY <1>3, OpaqueCell
<1>5. TripsAs(row, cell, cell)
  BY <1>1, <1>3, <1>4, FixedRow DEF cell
<1>6. IsValid(BatchOf(row))
  BY <1>1, <1>5, FixedIsValid DEF TripsAs
<1>7. KeepsValue(cell, row)
  BY DEF KeepsValue, cell
<1> QED
  BY <1>5, <1>6, <1>7 DEF Trips, TripsAs

\* The binary form of a document becomes its text.
LEMMA JsonbRowTrips ==
    ASSUME NEW row, Decodes(row), IsRow(row), row.column.type = "jsonb"
    PROVE  Trips(row)
<1> DEFINE decoding == Decoding(row.column)
           cell == row.cell
           item == DecodedScalar(decoding, cell)
<1>1. decoding = [kind |-> "Jsonb"]
  BY DEF Decoding, FixedDecoding
<1>2. /\ decoding.kind = "Jsonb" /\ decoding.kind \in DOMAIN FixedArrow
      /\ Encoding(Field(decoding)) = [kind |-> "Json"]
  BY <1>1, TaggedKindComesBack DEF FixedArrow
<1> HIDE DEF decoding
<1>3. item # Refused
  BY <1>2, ScalarCoding DEF Decodes, decoding
<1>4. cell # Unreadable /\ (cell = None => item = None) /\ (cell # None => item = cell.text)
  BY <1>2, <1>3, MapAssumption DEF DecodedScalar, JsonbText
<1>5. cell # None => cell.text \notin {None, Unreadable, Refused}
  BY <1>4 DEF IsRow, IsCell
<1> HIDE DEF cell, item
<1>6. item # Unreadable /\ (cell = None <=> item = None)
  BY <1>4, <1>5, MapAssumption
<1>7. "Json" \in OpaqueKinds
  BY DEF OpaqueKinds
<1>8. TripsAs(row, item, item)
  <2> DEFINE encoding == [kind |-> "Json"]
  <2>1. /\ "Json" \in DOMAIN FixedName
        /\ DecodedScalar(encoding, item) = item
        /\ EncodedScalar(encoding, item) = item
        /\ Stored(Unmodified(FixedName["Json"]), item) = item
    BY <1>6, <1>7, OpaqueCell
  <2>2. encoding = [kind |-> "Json"]
    OBVIOUS
  <2> HIDE DEF encoding
  <2> QED
    BY <1>2, <1>3, <2>1, <2>2, FixedRow DEF decoding, item, cell
<1>9. IsValid(BatchOf(row))
  BY <1>2, <1>8, FixedIsValid DEF TripsAs, decoding
<1>10. KeepsValue(item, row)
  <2>1. "jsonb" \notin {"numeric", "numrange"} \cup DOMAIN RangeDecoding
    BY DEF RangeDecoding
  <2> QED
    BY <1>4, <1>6, <2>1 DEF KeepsValue, cell
<1> QED
  BY <1>8, <1>9, <1>10 DEF Trips, TripsAs

\* The kinds of a single point in time.
DateKinds == {"Date", "Timestamp", "Timestamptz"}

\* Dates that both calendars have pass as they are.
LEMMA DateCell ==
    ASSUME NEW kind \in DateKinds, NEW encoding, encoding = [kind |-> kind], NEW cell
    PROVE  /\ DecodedScalar(encoding, cell) # Refused => cell \in Calendar \cup {None}
           /\ cell \in Calendar \cup {None} =>
                DecodedScalar(encoding, cell) = cell /\ EncodedScalar(encoding, cell) = cell
<1>1. Unreadable \notin Calendar \cup {None}
  BY MapAssumption
<1>2. DecodedScalar(encoding, cell) = IF cell = None THEN None
                                      ELSE IF cell = Unreadable THEN Refused
                                      ELSE IF cell \in Calendar THEN cell ELSE Refused
  BY DEF DateKinds, DecodedScalar
<1>3. EncodedScalar(encoding, cell) = IF cell = None THEN None
                                      ELSE IF cell \in Calendar THEN cell ELSE Refused
  BY DEF DateKinds, EncodedScalar
<1> QED
  BY <1>1, <1>2, <1>3

\* A date or timestamp that the source takes is in both calendars.
LEMMA DateRowTrips ==
    ASSUME NEW row, Decodes(row), IsRow(row), row.column.type \in {"date", "timestamp", "timestamptz"}
    PROVE  Trips(row)
<1> DEFINE kind == FixedDecoding[row.column.type]
           decoding == [kind |-> kind]
           cell == row.cell
<1>1. /\ Decoding(row.column) = decoding
      /\ kind \in DateKinds /\ FixedName[kind] = row.column.type
  BY DEF Decoding, FixedDecoding, DateKinds, FixedName
<1>2. kind \in PlainKinds /\ kind \in DOMAIN FixedName /\ kind \in DOMAIN FixedArrow /\ kind # "Range"
  BY <1>1 DEF DateKinds, PlainKinds, FixedName, FixedArrow
<1>3. Encoding(Field(decoding)) = decoding
  BY <1>2, PlainField, PlainKindComesBack, UntaggedEncoding
<1>4. decoding = [kind |-> kind] /\ decoding.kind = kind
  OBVIOUS
<1> HIDE DEF decoding, kind
<1>5. DecodedScalar(decoding, cell) # Refused
  BY <1>1, <1>2, <1>4, ScalarCoding DEF Decodes
<1>6. /\ cell \in Calendar \cup {None}
      /\ DecodedScalar(decoding, cell) = cell /\ EncodedScalar(decoding, cell) = cell
  BY <1>1, <1>4, <1>5, DateCell
<1>7. cell # None => cell \in PgCalendar
  <2>1. cell # Unreadable
    BY <1>6, MapAssumption
  <2> QED
    BY <2>1 DEF IsRow, IsCell
<1>8. cell # Refused
  BY <1>5, <1>6
<1>9. Stored(Unmodified(row.column.type), cell) = cell
  BY <1>7 DEF Stored, Unmodified
<1>10. TripsAs(row, cell, cell)
  <2> HIDE DEF cell
  <2> QED
    BY <1>1, <1>2, <1>3, <1>4, <1>6, <1>8, <1>9, FixedRow DEF cell
<1>11. IsValid(BatchOf(row))
  BY <1>1, <1>2, <1>4, <1>10, FixedIsValid DEF TripsAs
<1>12. KeepsValue(cell, row)
  <2>1. row.column.type \notin {"jsonb", "numeric", "numrange"} \cup DOMAIN RangeDecoding
    BY DEF RangeDecoding
  <2> QED
    BY <2>1 DEF KeepsValue
<1> QED
  BY <1>10, <1>11, <1>12 DEF Trips, TripsAs

\* Intervals that fit 64 bits of nanoseconds.
LEMMA IntervalRowTrips ==
    ASSUME NEW row, Decodes(row), IsRow(row), row.column.type = "interval"
    PROVE  Trips(row)
<1> DEFINE decoding == [kind |-> "Interval"]
           cell == row.cell
           item == DecodedScalar(decoding, cell)
<1>1. Decoding(row.column) = decoding
  BY DEF Decoding, FixedDecoding
<1>2. /\ "Interval" \in PlainKinds /\ "Interval" \in DOMAIN FixedName
      /\ "Interval" \in DOMAIN FixedArrow /\ FixedName["Interval"] = "interval"
  BY DEF PlainKinds, FixedName, FixedArrow
<1>3. Encoding(Field(decoding)) = decoding
  BY <1>2, PlainField, PlainKindComesBack, UntaggedEncoding
<1>4. decoding = [kind |-> "Interval"] /\ decoding.kind = "Interval"
  OBVIOUS
<1> HIDE DEF decoding
<1>5. item # Refused
  BY <1>1, <1>4, ScalarCoding DEF Decodes
<1>6. cell # Unreadable /\ cell # Refused
  BY <1>4, <1>5, MapAssumption DEF DecodedScalar, IsRow, IsCell
<1>7. cell # None => cell \in Int
  BY <1>6 DEF IsRow, IsCell
<1>8. EncodedScalar(decoding, item) = cell
  <2>1. CASE cell = None
    BY <2>1 DEF DecodedScalar, EncodedScalar
  <2>2. CASE cell # None
    <3>1. item = MonthDayNano(cell)
      BY <1>4, <1>6, <2>2 DEF DecodedScalar
    <3>2. PgInterval(item) = cell
      BY <1>5, <1>7, <2>2, <3>1, IntervalComesBack
    <3>3. item # None
      <4>1. item = cell * NanosPerMicro
        BY <1>5, <3>1 DEF MonthDayNano
      <4>2. NanosPerMicro \in Int /\ cell \in Int
        BY <1>7, <2>2, MapAssumption
      <4> HIDE DEF cell
      <4>3. cell * NanosPerMicro \in Int
        BY SMT, <4>2
      <4> QED
        BY <4>1, <4>3, MapAssumption
    <3> HIDE DEF item
    <3> QED
      BY <1>4, <3>2, <3>3 DEF EncodedScalar
  <2> QED
    BY <2>1, <2>2
<1>9. Stored(Unmodified("interval"), cell) = cell
  BY DEF Stored, Unmodified
<1>10. TripsAs(row, item, cell)
  <2>1. item = DecodedScalar(decoding, cell) /\ decoding.kind # "Range"
    BY <1>4
  <2> HIDE DEF cell, item
  <2> QED
    BY <1>1, <1>2, <1>3, <1>4, <1>5, <1>6, <1>8, <1>9, <2>1, FixedRow DEF cell
<1>11. IsValid(BatchOf(row))
  BY <1>1, <1>2, <1>4, <1>10, FixedIsValid DEF TripsAs
<1>12. KeepsValue(cell, row)
  <2>1. row.column.type \notin {"jsonb", "numeric", "numrange"} \cup DOMAIN RangeDecoding
    BY DEF RangeDecoding
  <2> QED
    BY <2>1 DEF KeepsValue
<1> QED
  BY <1>10, <1>11, <1>12 DEF Trips, TripsAs

\* Rows of the types that have a fixed OID and no parameter.
LEMMA FixedRowTrips ==
    ASSUME NEW row, Decodes(row), IsRow(row), row.column.type \in DOMAIN FixedDecoding
    PROVE  Trips(row)
<1> DEFINE type == row.column.type
           kind == FixedDecoding[type]
<1>1. CASE type \in {"jsonb", "date", "timestamp", "timestamptz", "interval"}
  BY <1>1, JsonbRowTrips, DateRowTrips, IntervalRowTrips
<1>2. CASE type \notin {"jsonb", "date", "timestamp", "timestamptz", "interval"}
  <2>1. /\ kind \in OpaqueKinds
        /\ kind \in PlainKinds \cup {"Uuid", "Json"}
        /\ type \notin {"numeric", "jsonb", "numrange"} \cup DOMAIN RangeDecoding
    BY <1>2 DEF FixedDecoding, OpaqueKinds, PlainKinds, RangeDecoding
  <2>2. Decoding(row.column) = [kind |-> kind]
    BY DEF Decoding
  <2> HIDE DEF kind
  <2>3. Encoding(Field([kind |-> kind])) = [kind |-> kind]
    <3>1. CASE kind \in PlainKinds
      BY <3>1, PlainField, PlainKindComesBack, UntaggedEncoding
    <3>2. CASE kind \in {"Uuid", "Json"}
      BY <3>2, TaggedKindComesBack
    <3> QED
      BY <2>1, <3>1, <3>2
  <2>4. Decoding(row.column).kind = kind
    BY <2>2
  <2>5. Encoding(Field(Decoding(row.column))) = [kind |-> kind]
    BY <2>2, <2>3
  <2> QED
    BY <2>1, <2>4, <2>5, OpaqueRowTrips
<1> QED
  BY <1>1, <1>2

\* Rows of the types that a database has of its own.
LEMMA ExtensionRowTrips ==
    ASSUME NEW row, Decodes(row), IsRow(row), row.column.type \notin KnownTypes \ {"enum", "citext"}
    PROVE  Trips(row)
<1>1. row.column.type \notin {"numeric", "jsonb", "numrange"} \cup DOMAIN RangeDecoding
  BY DEF KnownTypes, FixedDecoding, RangeDecoding
<1>2. "Text" \in OpaqueKinds /\ "Bytea" \in OpaqueKinds
  BY DEF OpaqueKinds
<1> QED
  BY <1>1, <1>2, ExtensionField, OpaqueRowTrips

\* Geometries, whose column says what coordinate system they are in.
LEMMA GeoRowTrips ==
    ASSUME NEW row, Decodes(row), IsRow(row), row.column.type \in {"geometry", "geography"}
    PROVE  Trips(row)
<1> DEFINE type == row.column.type
           cell == row.cell
           srid == Srid(row.column.typmod)
           edges == IF type = "geography" THEN "spherical" ELSE "planar"
           decoding == [kind |-> "Geo", epsg |-> srid, edges |-> edges]
           copied == SqlColumn(decoding)
<1>1. Decoding(row.column) = decoding
  BY DEF Decoding, FixedDecoding, RangeDecoding, ExtensionDecoding
<1>2. Encoding(Field(decoding)) = decoding
  BY GeoFieldComesBack
<1>3. copied.type = type
  BY DEF SqlColumn
<1>4. Srid(copied.typmod) = srid
  BY <1>1, <1>2, <1>3, GeoCopy DEF IsRow, IsCopyOf, CopyOf
<1>5. decoding.kind = "Geo" /\ decoding # Refused
  BY <1>1 DEF Decodes
<1> HIDE DEF copied
<1>6. Decoding(copied) = decoding
  <2>1. Decoding(copied) = [kind |-> "Geo", epsg |-> Srid(copied.typmod), edges |-> edges]
    BY <1>3 DEF Decoding, FixedDecoding, RangeDecoding, ExtensionDecoding
  <2> QED
    BY <1>4, <2>1
<1>7. SettlesOn(decoding, decoding, decoding)
  BY <1>2, <1>5, <1>6 DEF SettlesOn, copied
<1> HIDE DEF decoding
<1>8. cell # Unreadable /\ cell # Refused /\ DecodedScalar(decoding, cell) = cell
  BY <1>1, <1>5, ScalarCoding, MapAssumption DEF Decodes, DecodedScalar
<1>9. EncodedScalar(decoding, cell) = cell
  BY <1>5 DEF EncodedScalar
<1>10. Stored(copied, cell) = cell
  <2>1. ASSUME cell # None, srid # None
        PROVE  cell.srid = srid /\ cell.srid # 0
    <3> DEFINE typmod == row.column.typmod
    <3>1. typmod # BareTypmod /\ typmod \in Int /\ IsGeoTypmod(typmod)
      BY <2>1 DEF IsRow, IsColumn, Srid
    <3>2. typmod % 268435456 = typmod
      BY SMT, <3>1 DEF IsGeoTypmod
    <3>3. srid = typmod \div 256 /\ srid # 0
      BY <2>1, <3>1, <3>2 DEF Srid
    <3>4. cell.srid = typmod \div 256
      BY <1>8, <2>1, <3>1, <3>3 DEF IsRow, IsCell
    <3> QED
      BY <3>3, <3>4
  <2> HIDE DEF cell, srid
  <2>2. copied.type \in {"geometry", "geography"} /\ Srid(copied.typmod) = srid
    BY <1>3, <1>4
  <2> QED
    BY <1>8, <2>1, <2>2 DEF Stored
<1>11. TripsAs(row, cell, cell)
  <2>1. StoresOn(decoding, decoding, decoding, cell, cell, cell)
    <3> HIDE DEF cell
    <3> QED
      BY <1>5, <1>8, <1>9, <1>10, ScalarCoding DEF StoresOn, copied
  <2> HIDE DEF cell
  <2> QED
    BY <1>1, <1>7, <2>1, RowSettles DEF cell
<1>12. IsValid(BatchOf(row))
  <2>1. decoding.kind \in DOMAIN FixedArrow
    BY <1>5 DEF FixedArrow
  <2> QED
    BY <1>1, <1>11, <2>1, FixedIsValid DEF TripsAs
<1>13. KeepsValue(cell, row)
  <2>1. type \notin {"jsonb", "numeric", "numrange"} \cup DOMAIN RangeDecoding
    BY DEF RangeDecoding
  <2> QED
    BY <2>1 DEF KeepsValue
<1> QED
  BY <1>11, <1>12, <1>13 DEF Trips, TripsAs

\* Decimals with a scale that is no larger than their precision settle on themselves.
LEMMA NumericSettlesOn ==
    ASSUME NEW p \in 1..MaxPrecision, NEW s \in 0..MaxPrecision, s =< p,
           NEW decoding, decoding = [kind |-> "Numeric", precision |-> p, scale |-> s]
    PROVE  /\ SettlesOn(decoding, decoding, decoding)
           /\ Field(decoding).data = <<"Decimal128", p, s>>
           /\ SqlColumn(decoding).type = "numeric"
           /\ SqlColumn(decoding).typmod = NumericTypmod(p, s)
           /\ NumericTypmod(p, s) # BareTypmod
           /\ PackedPrecision(NumericTypmod(p, s)) = p
           /\ PackedScale(NumericTypmod(p, s)) = s
<1> DEFINE typmod == NumericTypmod(p, s)
           column == [type |-> "numeric", typmod |-> typmod]
<1>1. /\ p \in 1..1000 /\ s \in NumericScales /\ p \in Nat /\ s \in Nat /\ p \in Int /\ s \in Int
      /\ p =< MaxPrecision /\ 0 =< s
  BY SMT, MapAssumption DEF NumericScales
<1>2. PackedPrecision(typmod) = p /\ PackedScale(typmod) = s
  BY <1>1, NumericTypmodComesBack
<1>3. typmod # BareTypmod
  BY SMT, <1>1 DEF NumericTypmod, BareTypmod
<1>4. /\ Field(decoding) = [data |-> <<"Decimal128", p, s>>, tag |-> <<>>]
      /\ Encoding(Field(decoding)) = decoding
  BY <1>1, NumericFieldComesBack, UntaggedEncoding, DecimalComesBack
<1>5. SqlColumn(decoding) = column
  BY DEF SqlColumn
<1>6. DeclaredNumeric(typmod) = decoding
  BY <1>1, <1>2 DEF DeclaredNumeric
<1>7. decoding # Refused
  BY <1>1, CodingIsNoError
<1> HIDE DEF typmod
<1>8. Decoding(column) = decoding
  <2>1. column.type = "numeric" /\ column.typmod = typmod
    OBVIOUS
  <2> HIDE DEF column
  <2>2. Decoding(column) = NumericDecoding(typmod)
    BY <2>1 DEF Decoding, FixedDecoding
  <2> QED
    BY <1>3, <1>6, <2>2 DEF NumericDecoding
<1>9. SettlesOn(decoding, decoding, decoding)
  BY <1>4, <1>5, <1>7, <1>8 DEF SettlesOn
<1> QED
  BY <1>2, <1>3, <1>4, <1>5, <1>9 DEF typmod

\* A decimal under a decimal type, or the bound of a range of them: the destination writes what
\* the source read, the nearest decimal of that scale, and it is read as itself.
LEMMA NumericCell ==
    ASSUME NEW p, NEW s \in Nat, s =< MaxScale,
           NEW decoding, decoding = [kind |-> "Numeric", precision |-> p, scale |-> s],
           NEW cell \in LibraryNumeric,
           NEW units, units = DecodedScalar(decoding, cell), units # Refused,
           NEW copy, copy = EncodedScalar(decoding, units)
    PROVE  /\ units = DecimalUnits(cell, s)
           /\ units \in Int /\ Abs(units) =< MaxMantissa
           /\ copy = [mantissa |-> units, scale |-> s] /\ copy \in LibraryNumeric
           /\ IsNearest(copy, cell)
           /\ DecodedScalar(decoding, copy) = units
<1>1. decoding.kind = "Numeric" /\ decoding.scale = s
  OBVIOUS
<1>2. ASSUME NEW decimal \in LibraryNumeric
      PROVE  DecodedScalar(decoding, decimal) = DecimalUnits(decimal, s)
  <2>1. decimal \notin {None, Unreadable}
    BY MapAssumption
  <2> QED
    BY <1>1, <2>1 DEF DecodedScalar
<1>3. units = DecimalUnits(cell, s)
  BY <1>2
<1>4. units \in Int /\ Abs(units) =< MaxMantissa
      /\ IsNearest([mantissa |-> units, scale |-> s], cell)
  BY <1>3, UnitsAreNearest
<1>5. units # None
  BY <1>4, MapAssumption
<1>6. copy = PgNumeric(units, s)
  BY <1>1, <1>5 DEF EncodedScalar
<1>7. copy = [mantissa |-> units, scale |-> s]
  BY <1>4, <1>6 DEF PgNumeric
<1>8. copy \in LibraryNumeric
  BY <1>4, <1>7, LibraryHolds
<1>9. DecimalUnits(copy, s) = units
  <2>1. copy.scale = s /\ copy.mantissa = units
    BY <1>7
  <2> QED
    BY <1>8, <2>1, SameScale
<1> QED
  BY <1>2, <1>3, <1>4, <1>7, <1>8, <1>9

\* NULL is NULL everywhere.
LEMMA NullStores ==
    ASSUME NEW decoding, NEW encoding, NEW again
    PROVE  StoresOn(decoding, encoding, again, None, None, None)
<1>1. \A coding : Decoded(coding, None) = None /\ Encoded(coding, None) = None
  BY DEF Decoded, DecodedScalar, Encoded, EncodedScalar
<1>2. \A column : Stored(column, None) = None
  BY DEF Stored
<1> QED
  BY <1>1, <1>2, MapAssumption DEF StoresOn

\* A numeric is rounded only where its column declares no scale, and its copy is not.
LEMMA NumericRowTrips ==
    ASSUME NEW row, Decodes(row), IsRow(row), row.column.type = "numeric"
    PROVE  Trips(row)
<1> DEFINE decoding == Decoding(row.column)
           cell == row.cell
           typmod == row.column.typmod
<1>1. PICK p \in 1..MaxPrecision, s \in 0..MaxPrecision :
        /\ s =< p
        /\ decoding = [kind |-> "Numeric", precision |-> p, scale |-> s]
        /\ NumericTypmod(p, s) = IF typmod = BareTypmod THEN NumericTypmod(MaxPrecision, BareScale)
                                 ELSE typmod
  BY NumericDecodes DEF Decodes, IsRow
<1> HIDE DEF decoding
<1>2. /\ SettlesOn(decoding, decoding, decoding)
      /\ Field(decoding).data = <<"Decimal128", p, s>>
      /\ SqlColumn(decoding).type = "numeric"
      /\ SqlColumn(decoding).typmod = NumericTypmod(p, s)
      /\ NumericTypmod(p, s) # BareTypmod
      /\ PackedPrecision(NumericTypmod(p, s)) = p
      /\ PackedScale(NumericTypmod(p, s)) = s
  BY <1>1, NumericSettlesOn
<1>3. decoding.kind # "Range" /\ p \in Nat /\ s \in Nat
  BY <1>1, MapAssumption
<1>4. CASE cell = None
  <2>1. StoresOn(decoding, decoding, decoding, cell, None, None)
    BY <1>4, NullStores
  <2>2. TripsAs(row, None, None)
    BY <1>2, <2>1, RowSettles DEF decoding
  <2>3. IsValid(BatchOf(row))
    BY <2>2 DEF IsValid, TripsAs
  <2>4. KeepsValue(None, row)
    BY <1>4 DEF KeepsValue
  <2> QED
    BY <2>2, <2>3, <2>4 DEF Trips, TripsAs
<1>5. CASE cell # None
  <2> DEFINE units == DecodedScalar(decoding, cell)
             copy == EncodedScalar(decoding, units)
  <2>1. units # Refused
    BY <1>3, ScalarCoding DEF Decodes, decoding
  <2>2. cell # Unreadable
    BY <1>5, <2>1 DEF DecodedScalar
  <2>3. /\ cell \in LibraryNumeric
        /\ typmod # BareTypmod =>
             /\ Abs(cell.mantissa) < PowerOfTen[PackedPrecision(typmod)]
             /\ PackedScale(typmod) >= 0 => cell.scale = PackedScale(typmod)
    BY <1>5, <2>2 DEF IsRow, IsCell
  <2>4. typmod # BareTypmod => Abs(cell.mantissa) < PowerOfTen[p] /\ cell.scale = s
    BY <1>1, <1>2, <1>3, <2>3
  <2>5. typmod = BareTypmod => p = MaxPrecision /\ s = BareScale
    <3> SUFFICES ASSUME typmod = BareTypmod PROVE p = MaxPrecision /\ s = BareScale
      OBVIOUS
    <3>1. NumericTypmod(p, s) = NumericTypmod(MaxPrecision, BareScale)
      BY <1>1
    <3>2. MaxPrecision \in 1..1000 /\ BareScale \in NumericScales
      BY SMT, MapAssumption DEF NumericScales
    <3> QED
      BY <1>2, <3>1, <3>2, NumericTypmodComesBack
  <2>6. s =< MaxScale
    <3>1. CASE typmod = BareTypmod
      BY <2>5, <3>1, MapAssumption
    <3>2. CASE typmod # BareTypmod
      BY <2>3, <2>4, <3>2, LibraryIs
    <3> QED
      BY <3>1, <3>2
  <2> HIDE DEF cell, units, typmod
  <2>7. /\ units = DecimalUnits(cell, s)
        /\ units \in Int /\ Abs(units) =< MaxMantissa
        /\ copy = [mantissa |-> units, scale |-> s] /\ copy \in LibraryNumeric
        /\ IsNearest(copy, cell)
        /\ DecodedScalar(decoding, copy) = units
    <3>1. units = DecodedScalar(decoding, cell)
      BY DEF units
    <3> QED
      BY <1>1, <1>3, <2>1, <2>3, <2>6, <3>1, NumericCell
  <2> HIDE DEF copy
  <2>8. typmod # BareTypmod => copy = cell
    <3> SUFFICES ASSUME typmod # BareTypmod PROVE copy = cell
      OBVIOUS
    <3>1. cell.scale = s
      BY <2>4
    <3>2. units = cell.mantissa
      BY <2>3, <2>7, <3>1, SameScale
    <3> QED
      BY <2>3, <2>7, <3>1, <3>2, LibraryIs
  <2>9. Abs(units) < PowerOfTen[p]
    <3>1. CASE typmod = BareTypmod
      <4>1. Abs(units) \in Int /\ MaxMantissa \in Int /\ PowerOfTen[p] \in Int
            /\ Abs(units) =< MaxMantissa /\ MaxMantissa < PowerOfTen[p]
        BY <1>3, <2>5, <2>7, <3>1, AbsIs, PowerSteps, MapAssumption
      <4> QED
        BY SMT, <4>1
    <3>2. CASE typmod # BareTypmod
      <4>1. units = cell.mantissa
        BY <2>7, <2>8, <3>2
      <4> QED
        BY <2>4, <3>2, <4>1
    <3> QED
      BY <3>1, <3>2
  <2>10. Stored(SqlColumn(decoding), copy) = copy
    <3>1. copy \notin {None, Refused} /\ copy.mantissa = units
      BY <2>7, MapAssumption
    <3>2. SqlColumn(decoding).type = "numeric" /\ SqlColumn(decoding).typmod # BareTypmod
          /\ PackedPrecision(SqlColumn(decoding).typmod) = p
      BY <1>2
    <3> QED
      BY <2>9, <3>1, <3>2 DEF Stored
  <2>11. StoresOn(decoding, decoding, decoding, cell, units, copy)
    <3>1. copy # Refused
      BY <2>7, MapAssumption
    <3> QED
      BY <1>3, <2>1, <2>7, <2>10, <3>1, ScalarCoding DEF StoresOn, units, copy
  <2>12. TripsAs(row, units, copy)
    BY <1>2, <2>11, RowSettles DEF decoding, cell
  <2>13. IsValid(BatchOf(row))
    <3>1. Head(Field(decoding).data) = "Decimal128" /\ Field(decoding).data[2] = p
      BY <1>2
    <3> QED
      BY <2>9, <2>12, <3>1 DEF IsValid, FitsDecimal, TripsAs, decoding
  <2>14. KeepsValue(copy, row)
    <3>1. typmod = BareTypmod => IsRounded(copy, cell)
      BY <2>5, <2>7 DEF IsRounded
    <3> QED
      BY <1>5, <2>7, <2>8, <3>1, MapAssumption DEF KeepsValue, cell, typmod
  <2> QED
    BY <2>12, <2>13, <2>14 DEF Trips, TripsAs
<1> QED
  BY <1>4, <1>5

-----------------------------------------------------------------------------
(* Ranges. *)

\* The field of a range over an element that has one.
LEMMA RangeFieldEncodes ==
    ASSUME NEW element, element # Refused, element.kind \in DOMAIN RangeOver,
           NEW data, PlainEncoding(data) = element,
           NEW field, field.data = RangeFields(data), field.tag = <<"transferred.pg_range">>
    PROVE  Encoding(field) = [kind |-> "Range", of |-> element, type |-> RangeOver[element.kind]]
<1>1. Head(field.data) = "Struct" /\ TagName(field) = "transferred.pg_range"
  BY DEF RangeFields, TagName
<1>2. field.data # <<"FixedSizeBinary", 16>>
  BY <1>1
<1>3. Encoding(field) = RangeEncoding(field.data)
  BY <1>1, <1>2 DEF Encoding
<1>4. Len(field.data) = 3 /\ field.data[2] = data
  BY DEF RangeFields
<1>5. RangeEncoding(field.data)
        = [kind |-> "Range", of |-> element, type |-> RangeOver[element.kind]]
  BY <1>4 DEF RangeEncoding
<1> QED
  BY <1>3, <1>5

\* A range type settles on itself, and its field is a structure of two bounds.
LEMMA RangeSettlesOn ==
    ASSUME NEW element \in Scalars, element # Refused, element.kind \in DOMAIN RangeOver,
           PlainEncoding(ElementArrow(element)) = element,
           NEW type, type = RangeOver[element.kind],
           NEW decoding, decoding = [kind |-> "Range", of |-> element],
           NEW encoding, encoding = [kind |-> "Range", of |-> element, type |-> type],
           \A column : column.type = type => Decoding(column) = decoding
    PROVE  /\ SettlesOn(decoding, encoding, decoding)
           /\ SqlColumn(encoding) = Unmodified(type)
           /\ Field(decoding).data = RangeFields(ElementArrow(element))
<1>1. decoding # Refused /\ encoding # Refused
  BY CodingIsNoError
<1>2. decoding.kind = "Range" /\ decoding.of = element /\ encoding.kind = "Range" /\ encoding.type = type
  OBVIOUS
<1>3. Field(decoding).data = RangeFields(ElementArrow(element))
      /\ Field(decoding).tag = <<"transferred.pg_range">>
  BY <1>2 DEF Field, ArrowType, Tag
<1>4. Encoding(Field(decoding)) = encoding
  BY <1>3, RangeFieldEncodes
<1>5. SqlColumn(encoding) = Unmodified(type)
  BY <1>2 DEF SqlColumn, Unmodified
<1>6. Unmodified(type).type = type
  BY DEF Unmodified
<1>7. Decoding(Unmodified(type)) = decoding
  BY <1>6
<1> QED
  BY <1>1, <1>3, <1>4, <1>5, <1>7 DEF SettlesOn

\* The ranges over a kind of element.
LEMMA KindRangeSettlesOn ==
    ASSUME NEW type \in DOMAIN RangeDecoding,
           NEW element, element = [kind |-> RangeDecoding[type]],
           NEW decoding, decoding = [kind |-> "Range", of |-> element],
           NEW encoding, encoding = [kind |-> "Range", of |-> element, type |-> type]
    PROVE  /\ SettlesOn(decoding, encoding, decoding)
           /\ SqlColumn(encoding) = Unmodified(type)
           /\ Field(decoding).data = RangeFields(FixedArrow[element.kind])
           /\ \A column : column.type = type => Decoding(column) = decoding
<1> DEFINE kind == RangeDecoding[type]
<1>1. /\ kind \in PlainKinds /\ kind \in DOMAIN FixedArrow /\ kind \in DOMAIN RangeOver
      /\ kind # "Numeric" /\ RangeOver[kind] = type
  BY DEF RangeDecoding, PlainKinds, FixedArrow, RangeOver
<1>2. type \notin DOMAIN FixedDecoding /\ type # "numeric"
  BY DEF RangeDecoding, FixedDecoding
<1>3. \A column : column.type = type => Decoding(column) = decoding
  BY <1>2 DEF Decoding
<1> HIDE DEF kind
<1>4. element = [kind |-> kind] /\ element.kind = kind
  BY DEF kind
<1>5. element # Refused /\ element \in Scalars
  BY <1>1, <1>4, CodingIsNoError
<1>6. ElementArrow(element) = FixedArrow[kind]
  BY <1>1, <1>4 DEF ElementArrow
<1>7. PlainEncoding(ElementArrow(element)) = element
  BY <1>1, <1>4, <1>6, PlainKindComesBack
<1>8. /\ SettlesOn(decoding, encoding, decoding)
      /\ SqlColumn(encoding) = Unmodified(type)
      /\ Field(decoding).data = RangeFields(ElementArrow(element))
  BY <1>1, <1>3, <1>4, <1>5, <1>7, RangeSettlesOn
<1> QED
  BY <1>3, <1>4, <1>6, <1>8

\* The range over decimals, which have the digits of a bare numeric.
LEMMA NumrangeSettlesOn ==
    ASSUME NEW decoding, decoding = [kind |-> "Range", of |-> BareNumeric],
           NEW encoding, encoding = [kind |-> "Range", of |-> BareNumeric, type |-> "numrange"]
    PROVE  /\ SettlesOn(decoding, encoding, decoding)
           /\ SqlColumn(encoding) = Unmodified("numrange")
           /\ Field(decoding).data = RangeFields(<<"Decimal128", MaxPrecision, BareScale>>)
           /\ \A column : column.type = "numrange" => Decoding(column) = decoding
<1>1. \A column : column.type = "numrange" => Decoding(column) = decoding
  BY DEF Decoding, FixedDecoding, RangeDecoding, NumericDecoding
<1>2. /\ BareNumeric.kind = "Numeric" /\ "Numeric" \in DOMAIN RangeOver
      /\ RangeOver["Numeric"] = "numrange"
      /\ ElementArrow(BareNumeric) = <<"Decimal128", MaxPrecision, BareScale>>
  BY DEF BareNumeric, RangeOver, ElementArrow
<1>3. /\ MaxPrecision \in Nat /\ BareScale \in Nat
      /\ MaxPrecision \in Int /\ BareScale \in Int
  BY SMT, MapAssumption
<1>4. PlainEncoding(ElementArrow(BareNumeric)) = BareNumeric
  BY <1>2, <1>3, DecimalComesBack DEF BareNumeric
<1>5. BareNumeric \in Scalars /\ BareNumeric # Refused
  BY <1>3, CodingIsNoError DEF BareNumeric
<1> QED
  BY <1>1, <1>2, <1>4, <1>5, RangeSettlesOn

\* The kinds of a range's bounds, but for decimals.
BoundKinds == {"Int4", "Int8", "Date", "Timestamp", "Timestamptz"}

\* A whole bound that both sides take passes as it is.
LEMMA WholeBound ==
    ASSUME NEW kind \in BoundKinds, NEW element, element = [kind |-> kind],
           NEW bound \in Int \cup {None, Unreadable}, DecodedScalar(element, bound) # Refused
    PROVE  /\ bound # Unreadable /\ bound # Refused
           /\ DecodedScalar(element, bound) = bound
           /\ EncodedScalar(element, bound) = bound
<1>1. bound # Refused
  BY MapAssumption
<1>2. CASE kind \in DateKinds
  <2>1. bound \in Calendar \cup {None}
    BY <1>2, DateCell
  <2>2. bound # Unreadable
    BY <2>1, MapAssumption
  <2> QED
    BY <1>1, <1>2, <2>1, <2>2, DateCell
<1>3. CASE kind \notin DateKinds
  <2>1. kind \in OpaqueKinds
    BY <1>3 DEF BoundKinds, DateKinds, OpaqueKinds
  <2>2. bound # Unreadable
    BY MapAssumption DEF DecodedScalar
  <2> QED
    BY <1>1, <2>1, <2>2, OpaqueCell
<1> QED
  BY <1>2, <1>3

\* What a range is made of.
LEMMA RangeIs ==
    ASSUME NEW S, NEW range \in Ranges(S)
    PROVE  /\ range.lower \in S \cup {None} /\ range.upper \in S \cup {None}
           /\ range.lower_inc \in BOOLEAN /\ range.upper_inc \in BOOLEAN /\ range.empty \in BOOLEAN
           /\ range = PgRange(range.lower, range.upper, range.lower_inc, range.upper_inc, range.empty)
  BY DEF Ranges, PgRange

\* A range of numbers is neither NULL nor an error, and the empty range is one.
LEMMA RangeIsNoMarker ==
    /\ \A S : EmptyRange \in Ranges(S)
    /\ \A range \in Ranges(Int) \cup Ranges(LibraryNumeric) :
          range \notin {None, Refused, Unreadable}
<1>1. \A S : EmptyRange \in Ranges(S)
  BY DEF EmptyRange, PgRange, Ranges
<1>2. \A marker \in {None, Refused, Unreadable} :
        marker \notin Ranges(Int) \cup Ranges(LibraryNumeric)
  BY MapAssumption
<1> QED
  BY <1>1, <1>2

\* Taking a range apart and putting it together, where it is not empty and its bounds pass.
LEMMA RangeCoding ==
    ASSUME NEW coding, coding.kind = "Range", NEW range, range \notin {None, Unreadable}
    PROVE  /\ Decoded(coding, range) = DecodedRange(coding, range)
           /\ Encoded(coding, range) = EncodedRange(coding, range)
           /\ range.empty = TRUE => /\ Decoded(coding, range) = EmptyRange
                                   /\ Encoded(coding, range) = EmptyRange
<1>1. Decoded(coding, range) = DecodedRange(coding, range)
  BY DEF Decoded
<1>2. Encoded(coding, range) = EncodedRange(coding, range)
  BY DEF Encoded
<1> QED
  BY <1>1, <1>2 DEF DecodedRange, EncodedRange

\* The empty range is stored as it is.
LEMMA EmptyIsStored ==
    \A type : type \in RangeTypes => Stored(Unmodified(type), EmptyRange) = EmptyRange
<1>1. EmptyRange.empty = TRUE
  BY DEF EmptyRange, PgRange
<1>2. /\ \A numeric : NormalRange(numeric, EmptyRange) = EmptyRange
      /\ CanonicalRange(EmptyRange) = EmptyRange
  BY <1>1 DEF NormalRange, CanonicalRange
<1> SUFFICES ASSUME NEW type \in RangeTypes
             PROVE  Stored(Unmodified(type), EmptyRange) = EmptyRange
  OBVIOUS
<1>3. Unmodified(type).type = type
  BY DEF Unmodified
<1>4. type \in {"numrange", "tsrange", "tstzrange"} \/ type \in {"int4range", "int8range", "daterange"}
  BY DEF RangeTypes, RangeDecoding
<1> HIDE DEF EmptyRange
<1> QED
  BY <1>2, <1>3, <1>4 DEF Stored

\* A range of whole numbers that both sides take is in order, and passes as it is.
LEMMA KindRangeCell ==
    ASSUME NEW type \in DOMAIN RangeDecoding,
           NEW element, element = [kind |-> RangeDecoding[type]],
           NEW decoding, decoding = [kind |-> "Range", of |-> element],
           NEW encoding, encoding = [kind |-> "Range", of |-> element, type |-> type],
           NEW cell, IsRangeCell(type, cell), cell \notin {None, Unreadable},
           Decoded(decoding, cell) # Refused
    PROVE  /\ cell \in Ranges(Int)
           /\ cell.lower = None => ~cell.lower_inc
           /\ cell.upper = None => ~cell.upper_inc
           /\ Decoded(decoding, cell) = cell
           /\ Encoded(encoding, cell) = cell
           /\ Stored(Unmodified(type), cell) = cell
<1>1. decoding.kind = "Range" /\ encoding.kind = "Range" /\ decoding.of = element /\ encoding.of = element
  OBVIOUS
<1>2. type # "numrange" /\ type \in RangeTypes /\ RangeDecoding[type] \in BoundKinds
  BY DEF RangeDecoding, RangeTypes, BoundKinds
<1>3. CASE cell = EmptyRange
  <2>1. cell.empty = TRUE /\ ~cell.lower_inc /\ ~cell.upper_inc
    BY <1>3 DEF EmptyRange, PgRange
  <2>2. Stored(Unmodified(type), cell) = cell
    BY <1>2, <1>3, EmptyIsStored
  <2>3. Decoded(decoding, cell) = cell /\ Encoded(encoding, cell) = cell
    BY <1>1, <1>3, <2>1, RangeCoding
  <2>4. cell \in Ranges(Int)
    BY <1>3, RangeIsNoMarker
  <2> QED
    BY <2>1, <2>2, <2>3, <2>4
<1>4. CASE cell # EmptyRange
  <2> DEFINE low == cell.lower
             high == cell.upper
  <2>1. /\ cell \in Ranges(Int \cup {Unreadable}) /\ ~cell.empty
        /\ cell.lower_inc => low # None
        /\ cell.upper_inc => high # None
        /\ type \in DiscreteRanges => cell.lower_inc = (low # None) /\ ~cell.upper_inc
        /\ {low, high} \cap {None, Unreadable} = {} =>
              \/ Below(FALSE, low, high)
              \/ cell.lower_inc /\ cell.upper_inc /\ ~Below(FALSE, high, low)
    BY <1>2, <1>4 DEF IsRangeCell, BoundsOf
  <2>2. /\ low \in Int \cup {None, Unreadable} /\ high \in Int \cup {None, Unreadable}
        /\ cell.lower_inc \in BOOLEAN /\ cell.upper_inc \in BOOLEAN /\ cell.empty = FALSE
        /\ cell = PgRange(low, high, cell.lower_inc, cell.upper_inc, FALSE)
    <3>1. /\ low \in (Int \cup {Unreadable}) \cup {None} /\ high \in (Int \cup {Unreadable}) \cup {None}
          /\ cell.lower_inc \in BOOLEAN /\ cell.upper_inc \in BOOLEAN /\ cell.empty \in BOOLEAN
          /\ cell = PgRange(low, high, cell.lower_inc, cell.upper_inc, cell.empty)
      BY <2>1, RangeIs
    <3>2. cell.empty = FALSE
      BY <2>1, <3>1
    <3> HIDE DEF low, high
    <3> QED
      BY <3>1, <3>2
  <2> HIDE DEF low, high
  <2>3. Decoded(decoding, cell) = IF \/ DecodedScalar(element, low) = Refused
                                     \/ DecodedScalar(element, high) = Refused THEN Refused
                                  ELSE PgRange(DecodedScalar(element, low), DecodedScalar(element, high),
                                               cell.lower_inc, cell.upper_inc, FALSE)
    BY <1>1, <2>2, RangeCoding DEF DecodedRange, low, high
  <2>4. DecodedScalar(element, low) # Refused /\ DecodedScalar(element, high) # Refused
    BY <2>3
  <2>5. /\ low \in Int \cup {None} /\ low # Refused /\ DecodedScalar(element, low) = low
        /\ EncodedScalar(element, low) = low
    BY <1>2, <2>2, <2>4, WholeBound
  <2>6. /\ high \in Int \cup {None} /\ high # Refused /\ DecodedScalar(element, high) = high
        /\ EncodedScalar(element, high) = high
    BY <1>2, <2>2, <2>4, WholeBound
  <2>7. Decoded(decoding, cell) = cell
    BY <2>2, <2>3, <2>5, <2>6
  <2>8. Encoded(encoding, cell) = PgRange(low, high, low # None /\ cell.lower_inc,
                                          high # None /\ cell.upper_inc, FALSE)
    <3>1. Encoded(encoding, cell) = EncodedRange(encoding, cell)
      BY RangeCoding
    <3>2. EncodedScalar(encoding.of, cell.lower) = low /\ EncodedScalar(encoding.of, cell.upper) = high
      BY <1>1, <2>5, <2>6 DEF low, high
    <3>3. cell.empty = FALSE /\ low # Refused /\ high # Refused
      BY <2>2, <2>5, <2>6
    <3> QED
      BY <3>1, <3>2, <3>3 DEF EncodedRange
  <2>9. (low # None /\ cell.lower_inc) = cell.lower_inc /\ (high # None /\ cell.upper_inc) = cell.upper_inc
    BY <2>1, <2>2
  <2>10. Encoded(encoding, cell) = cell
    BY <2>2, <2>8, <2>9
  <2>11. cell \in Ranges(Int)
    <3>1. PgRange(low, high, cell.lower_inc, cell.upper_inc, FALSE) \in Ranges(Int)
      BY <2>2, <2>5, <2>6 DEF PgRange, Ranges
    <3> QED
      BY <2>2, <3>1
  <2>12. NormalRange(FALSE, cell) = cell
    <3>1. CASE low = None \/ high = None
      BY <3>1 DEF NormalRange, low, high
    <3>2. CASE low # None /\ high # None
      <4>1. low \in Int /\ high \in Int /\ {low, high} \cap {None, Unreadable} = {}
        BY <2>5, <2>6, <3>2, MapAssumption
      <4>2. Below(FALSE, low, high) <=> low < high
        BY DEF Below
      <4>3. Below(FALSE, high, low) <=> high < low
        BY DEF Below
      <4>4. ~Below(FALSE, high, low) /\ (Below(FALSE, low, high) \/ (cell.lower_inc /\ cell.upper_inc))
        <5>1. low < high => ~(high < low)
          BY SMT, <4>1
        <5> QED
          BY <2>1, <4>1, <4>2, <4>3, <5>1
      <4> QED
        BY <4>4 DEF NormalRange, low, high
    <3> QED
      BY <3>1, <3>2
  <2>13. type \in DiscreteRanges => CanonicalRange(cell) = cell
    <3> SUFFICES ASSUME type \in DiscreteRanges PROVE CanonicalRange(cell) = cell
      OBVIOUS
    <3>1. cell.lower_inc = (low # None) /\ cell.upper_inc = FALSE
      BY <2>1, <2>2
    <3>2. CanonicalRange(cell) = PgRange(low, high, low # None, FALSE, FALSE)
      BY <2>2, <3>1 DEF CanonicalRange, low, high
    <3> QED
      BY <2>2, <3>1, <3>2
  <2>14. Stored(Unmodified(type), cell) = cell
    <3>1. Unmodified(type).type = type
      BY DEF Unmodified
    <3>2. \/ type \in {"tsrange", "tstzrange"}
          \/ type \in {"int4range", "int8range", "daterange"} /\ type \in DiscreteRanges
      BY DEF RangeDecoding, DiscreteRanges
    <3> QED
      BY <2>12, <2>13, <3>1, <3>2 DEF Stored
  <2>15. (low = None => ~cell.lower_inc) /\ (high = None => ~cell.upper_inc)
    BY <2>1
  <2> QED
    BY <2>7, <2>10, <2>11, <2>14, <2>15 DEF low, high
<1> QED
  BY <1>3, <1>4

\* A range of whole numbers, dates or timestamps keeps its bounds.
LEMMA KindRangeRowTrips ==
    ASSUME NEW row, Decodes(row), IsRow(row), row.column.type \in DOMAIN RangeDecoding
    PROVE  Trips(row)
<1> DEFINE type == row.column.type
           kind == RangeDecoding[type]
           element == [kind |-> kind]
           decoding == [kind |-> "Range", of |-> element]
           encoding == [kind |-> "Range", of |-> element, type |-> type]
           cell == row.cell
<1>1. /\ SettlesOn(decoding, encoding, decoding)
      /\ SqlColumn(encoding) = Unmodified(type)
      /\ Field(decoding).data = RangeFields(FixedArrow[element.kind])
      /\ \A column : column.type = type => Decoding(column) = decoding
  BY KindRangeSettlesOn
<1>2. Decoding(row.column) = decoding
  BY <1>1
<1>3. /\ element = [kind |-> kind] /\ element.kind = kind /\ kind \in DOMAIN FixedArrow
      /\ decoding = [kind |-> "Range", of |-> element]
      /\ encoding = [kind |-> "Range", of |-> element, type |-> type]
      /\ decoding.kind = "Range" /\ type \in RangeTypes
      /\ type \notin {"numeric", "jsonb", "numrange"}
  BY DEF RangeDecoding, FixedArrow, RangeTypes
<1> HIDE DEF decoding, encoding, element, kind
<1>4. CASE cell = None
  <2>1. StoresOn(decoding, encoding, decoding, cell, None, None)
    BY <1>4, NullStores
  <2>2. TripsAs(row, None, None)
    BY <1>1, <1>2, <2>1, RowSettles
  <2>3. IsValid(BatchOf(row))
    BY <2>2 DEF IsValid, TripsAs
  <2>4. KeepsValue(None, row)
    BY <1>4 DEF KeepsValue
  <2> QED
    BY <2>2, <2>3, <2>4 DEF Trips, TripsAs
<1>5. CASE cell # None
  <2>1. Decoded(decoding, cell) # Refused
    BY <1>2 DEF Decodes
  <2>2. cell # Unreadable
    <3> SUFFICES ASSUME cell = Unreadable PROVE FALSE
      OBVIOUS
    <3>1. Decoded(decoding, cell) = DecodedScalar(decoding, cell)
      BY DEF Decoded
    <3> QED
      BY <1>5, <2>1, <3>1 DEF DecodedScalar
  <2>3. IsRangeCell(type, cell)
    BY <1>3, <1>5, <2>2 DEF IsRow, IsCell
  <2> HIDE DEF cell
  <2>4. /\ cell \in Ranges(Int)
        /\ cell.lower = None => ~cell.lower_inc
        /\ cell.upper = None => ~cell.upper_inc
        /\ Decoded(decoding, cell) = cell
        /\ Encoded(encoding, cell) = cell
        /\ Stored(Unmodified(type), cell) = cell
    BY <1>3, <1>5, <2>1, <2>2, <2>3, KindRangeCell DEF kind
  <2>5. StoresOn(decoding, encoding, decoding, cell, cell, cell)
    BY <1>1, <2>1, <2>4 DEF StoresOn
  <2>6. TripsAs(row, cell, cell)
    BY <1>1, <1>2, <2>5, RowSettles DEF cell
  <2>7. IsValid(BatchOf(row))
    <3>1. /\ BatchOf(row).item = cell
          /\ BatchOf(row).field.data = RangeFields(FixedArrow[kind])
      BY <1>1, <1>2, <1>3, <2>6 DEF TripsAs
    <3>2. /\ Head(RangeFields(FixedArrow[kind])) = "Struct"
          /\ RangeFields(FixedArrow[kind])[2] = FixedArrow[kind]
      BY DEF RangeFields
    <3>3. Head(FixedArrow[kind]) # "Decimal128"
      BY <1>3, FixedIsData DEF IsFixed
    <3> QED
      BY <2>4, <3>1, <3>2, <3>3 DEF IsValid, FitsDecimal
  <2>8. KeepsValue(cell, row)
    <3>1. IsCopiedRange(type, cell, cell)
      BY <1>3 DEF IsCopiedRange, IsBound
    <3> QED
      BY <1>3, <1>5, <3>1 DEF KeepsValue, cell
  <2> QED
    BY <2>6, <2>7, <2>8 DEF Trips, TripsAs
<1> QED
  BY <1>4, <1>5

\* A decimal bound that the source takes, the units it appends and the bound that is written.
LEMMA DecimalBound ==
    ASSUME NEW bound \in LibraryNumeric \cup {None, Unreadable},
           NEW units, units = DecodedScalar(BareNumeric, bound), units # Refused,
           NEW copy, copy = EncodedScalar(BareNumeric, units)
    PROVE  /\ bound # Unreadable
           /\ bound = None => units = None /\ copy = None
           /\ bound # None =>
                /\ bound \in LibraryNumeric /\ units = DecimalUnits(bound, BareScale)
                /\ units \in Int /\ Abs(units) =< MaxMantissa
                /\ copy = [mantissa |-> units, scale |-> BareScale] /\ copy \in LibraryNumeric
                /\ IsRounded(copy, bound)
                /\ units # None /\ copy # None
           /\ copy # Refused
           /\ DecodedScalar(BareNumeric, copy) = units
<1>1. CASE bound = None
  BY <1>1, MapAssumption DEF DecodedScalar, EncodedScalar
<1>2. CASE bound # None
  <2>1. bound # Unreadable /\ bound \in LibraryNumeric
    BY <1>2 DEF DecodedScalar
  <2>2. BareScale \in Nat /\ BareScale =< MaxScale
    BY MapAssumption
  <2>3. /\ units = DecimalUnits(bound, BareScale)
        /\ units \in Int /\ Abs(units) =< MaxMantissa
        /\ copy = [mantissa |-> units, scale |-> BareScale] /\ copy \in LibraryNumeric
        /\ IsNearest(copy, bound)
        /\ DecodedScalar(BareNumeric, copy) = units
    BY <2>1, <2>2, NumericCell DEF BareNumeric
  <2>4. units # None /\ copy # None /\ copy # Refused
    BY <2>3, MapAssumption
  <2>5. IsRounded(copy, bound)
    BY <2>3 DEF IsRounded
  <2> QED
    BY <1>2, <2>1, <2>3, <2>4, <2>5
<1> QED
  BY <1>1, <1>2

\* The order of decimals is one.
LEMMA BelowIsOneWay ==
    ASSUME NEW low \in LibraryNumeric, NEW high \in LibraryNumeric, Below(TRUE, low, high)
    PROVE  ~Below(TRUE, high, low)
<1> DEFINE a == low.mantissa * PowerOfTen[high.scale]
           b == high.mantissa * PowerOfTen[low.scale]
<1>1. a \in Int /\ b \in Int
  <2>1. /\ low.mantissa \in Int /\ high.mantissa \in Int
        /\ PowerOfTen[high.scale] \in Int /\ PowerOfTen[low.scale] \in Int
    BY LibraryIs, PowerSteps
  <2> QED
    BY SMT, <2>1
<1>2. a < b
  BY DEF Below
<1> HIDE DEF a, b
<1>3. ~(b < a)
  BY SMT, <1>1, <1>2
<1> QED
  BY <1>3 DEF Below, a, b

\* Two decimals of one scale of which neither is below the other are one.
LEMMA NeitherIsBelow ==
    ASSUME NEW low \in LibraryNumeric, NEW high \in LibraryNumeric, low.scale = high.scale,
           ~Below(TRUE, low, high), ~Below(TRUE, high, low)
    PROVE  low = high
<1> DEFINE l == low.mantissa
           h == high.mantissa
           s == low.scale
<1>1. l \in Int /\ h \in Int /\ s \in Nat
  BY LibraryIs
<1>2. low = [mantissa |-> l, scale |-> s] /\ high = [mantissa |-> h, scale |-> s]
  BY LibraryIs
<1> HIDE DEF l, h, s
<1>3. ~(l < h) /\ ~(h < l)
  BY <1>1, <1>2, SameScaleOrder
<1>4. l = h
  BY SMT, <1>1, <1>3
<1> QED
  BY <1>2, <1>4

\* What a range of numerics that holds something is read as and written as.
IsWritten(decoding, cell, item, copy) ==
    /\ item \in Ranges(Int) /\ copy \in Ranges(LibraryNumeric)
    /\ item.lower # None => Abs(item.lower) =< MaxMantissa
    /\ item.upper # None => Abs(item.upper) =< MaxMantissa
    /\ item.lower = None => ~item.lower_inc
    /\ item.upper = None => ~item.upper_inc
    /\ Decoded(decoding, copy) = item
    /\ <<copy.lower_inc, copy.upper_inc, copy.empty>>
         = <<cell.lower_inc, cell.upper_inc, cell.empty>>
    /\ IsBound("numrange", copy.lower, cell.lower)
    /\ IsBound("numrange", copy.upper, cell.upper)
    /\ copy.lower = None <=> cell.lower = None
    /\ copy.upper = None <=> cell.upper = None
    /\ copy.lower # None /\ copy.upper # None => ~Below(TRUE, copy.upper, copy.lower)

\* The decimal range that is written for one that is read, before Postgres looks at it: it reads
\* as what was read, and its bounds are in order.
LEMMA WrittenNumrange ==
    ASSUME NEW decoding, decoding.kind = "Range", decoding.of = BareNumeric,
           NEW encoding, encoding.kind = "Range", encoding.of = BareNumeric,
           NEW cell, IsRangeCell("numrange", cell), cell # EmptyRange, cell \notin {None, Unreadable},
           NEW item, item = Decoded(decoding, cell), item # Refused,
           NEW copy, copy = Encoded(encoding, item)
    PROVE  IsWritten(decoding, cell, item, copy)
<1> DEFINE low == cell.lower
           high == cell.upper
           linc == cell.lower_inc
           uinc == cell.upper_inc
           l == DecodedScalar(BareNumeric, low)
           h == DecodedScalar(BareNumeric, high)
           lower == EncodedScalar(BareNumeric, l)
           upper == EncodedScalar(BareNumeric, h)
<1>1. /\ cell \in Ranges(LibraryNumeric \cup {Unreadable}) /\ ~cell.empty
      /\ linc => low # None
      /\ uinc => high # None
      /\ {low, high} \cap {None, Unreadable} = {} =>
            \/ Below(TRUE, low, high)
            \/ linc /\ uinc /\ ~Below(TRUE, high, low)
  BY DEF IsRangeCell, BoundsOf
<1>2. /\ low \in LibraryNumeric \cup {None, Unreadable} /\ high \in LibraryNumeric \cup {None, Unreadable}
      /\ linc \in BOOLEAN /\ uinc \in BOOLEAN /\ cell.empty = FALSE
  <2>1. /\ low \in (LibraryNumeric \cup {Unreadable}) \cup {None}
        /\ high \in (LibraryNumeric \cup {Unreadable}) \cup {None}
        /\ linc \in BOOLEAN /\ uinc \in BOOLEAN /\ cell.empty \in BOOLEAN
    BY <1>1, RangeIs
  <2>2. cell.empty = FALSE
    BY <1>1, <2>1
  <2> HIDE DEF low, high, linc, uinc
  <2> QED
    BY <2>1, <2>2
<1> HIDE DEF l, h
<1>3. item = PgRange(l, h, linc, uinc, FALSE) /\ l # Refused /\ h # Refused
  <2>1. item = DecodedRange(decoding, cell)
    BY RangeCoding
  <2>2. DecodedScalar(decoding.of, cell.lower) = l /\ DecodedScalar(decoding.of, cell.upper) = h
    BY DEF l, h
  <2>3. item = IF l = Refused \/ h = Refused THEN Refused ELSE PgRange(l, h, linc, uinc, FALSE)
    BY <1>2, <2>1, <2>2 DEF DecodedRange
  <2> QED
    BY <2>3
<1> HIDE DEF low, high, linc, uinc, lower, upper
<1>4. /\ low # Unreadable
      /\ low = None => l = None /\ lower = None
      /\ low # None =>
           /\ low \in LibraryNumeric /\ l = DecimalUnits(low, BareScale)
           /\ l \in Int /\ Abs(l) =< MaxMantissa
           /\ lower = [mantissa |-> l, scale |-> BareScale] /\ lower \in LibraryNumeric
           /\ IsRounded(lower, low)
           /\ l # None /\ lower # None
      /\ lower # Refused
      /\ DecodedScalar(BareNumeric, lower) = l
  BY <1>2, <1>3, DecimalBound DEF l, lower
<1>5. /\ high # Unreadable
      /\ high = None => h = None /\ upper = None
      /\ high # None =>
           /\ high \in LibraryNumeric /\ h = DecimalUnits(high, BareScale)
           /\ h \in Int /\ Abs(h) =< MaxMantissa
           /\ upper = [mantissa |-> h, scale |-> BareScale] /\ upper \in LibraryNumeric
           /\ IsRounded(upper, high)
           /\ h # None /\ upper # None
      /\ upper # Refused
      /\ DecodedScalar(BareNumeric, upper) = h
  BY <1>2, <1>3, DecimalBound DEF h, upper
<1>6. /\ l \in Int \cup {None} /\ h \in Int \cup {None}
      /\ lower \in LibraryNumeric \cup {None} /\ upper \in LibraryNumeric \cup {None}
      /\ (lower = None <=> low = None) /\ (l = None <=> low = None)
      /\ (upper = None <=> high = None) /\ (h = None <=> high = None)
  BY <1>4, <1>5
<1>7. /\ item.lower = l /\ item.upper = h /\ item.lower_inc = linc /\ item.upper_inc = uinc
      /\ item.empty = FALSE /\ item \in Ranges(Int)
  BY <1>2, <1>3, <1>6 DEF PgRange, Ranges
<1>8. copy = PgRange(lower, upper, linc, uinc, FALSE)
  <2>1. item \notin {None, Unreadable}
    BY <1>7, RangeIsNoMarker
  <2>2. copy = EncodedRange(encoding, item)
    BY <2>1, RangeCoding
  <2>3. EncodedScalar(encoding.of, item.lower) = lower /\ EncodedScalar(encoding.of, item.upper) = upper
    BY <1>7 DEF lower, upper
  <2>4. copy = PgRange(lower, upper, lower # None /\ linc, upper # None /\ uinc, FALSE)
    BY <1>4, <1>5, <1>7, <2>2, <2>3 DEF EncodedRange
  <2>5. (lower # None /\ linc) = linc /\ (upper # None /\ uinc) = uinc
    BY <1>1, <1>2, <1>6
  <2> QED
    BY <2>4, <2>5
<1>9. /\ copy.lower = lower /\ copy.upper = upper /\ copy.lower_inc = linc /\ copy.upper_inc = uinc
      /\ copy.empty = FALSE /\ copy \in Ranges(LibraryNumeric)
  BY <1>2, <1>6, <1>8 DEF PgRange, Ranges
<1>10. Decoded(decoding, copy) = item
  <2>1. copy \notin {None, Unreadable}
    BY <1>9, RangeIsNoMarker
  <2>2. Decoded(decoding, copy) = DecodedRange(decoding, copy)
    BY <2>1, RangeCoding
  <2>3. DecodedScalar(decoding.of, copy.lower) = l /\ DecodedScalar(decoding.of, copy.upper) = h
    BY <1>4, <1>5, <1>9
  <2>4. Decoded(decoding, copy) = PgRange(l, h, linc, uinc, FALSE)
    BY <1>3, <1>9, <2>2, <2>3 DEF DecodedRange
  <2> QED
    BY <1>3, <2>4
<1>11. ASSUME lower # None, upper # None
       PROVE  ~Below(TRUE, upper, lower)
  <2>1. low \in LibraryNumeric /\ high \in LibraryNumeric /\ {low, high} \cap {None, Unreadable} = {}
    BY <1>4, <1>5, <1>6, <1>11
  <2>2. ~Below(TRUE, high, low)
    BY <1>1, <2>1, BelowIsOneWay
  <2>3. BareScale \in Nat
    BY MapAssumption
  <2>4. l \in Int /\ h \in Int /\ l =< h
    <3>1. l = DecimalUnits(low, BareScale) /\ h = DecimalUnits(high, BareScale)
      BY <1>4, <1>5, <1>6, <1>11
    <3> QED
      BY <1>3, <2>1, <2>2, <2>3, <3>1, RoundingKeepsOrder
  <2>5. ~(h < l)
    BY SMT, <2>4
  <2>6. Below(TRUE, upper, lower) <=> h < l
    <3>1. /\ lower = [mantissa |-> l, scale |-> BareScale]
          /\ upper = [mantissa |-> h, scale |-> BareScale]
      BY <1>4, <1>5, <1>6, <1>11
    <3> QED
      BY <2>3, <2>4, <3>1, SameScaleOrder
  <2> QED
    BY <2>5, <2>6
<1>12. IsBound("numrange", lower, low) /\ IsBound("numrange", upper, high)
  BY <1>4, <1>5, <1>6 DEF IsBound
<1>13. /\ <<copy.lower_inc, copy.upper_inc, copy.empty>> = <<cell.lower_inc, cell.upper_inc, cell.empty>>
  BY <1>2, <1>9 DEF linc, uinc
<1>14. /\ item.lower # None => Abs(item.lower) =< MaxMantissa
       /\ item.upper # None => Abs(item.upper) =< MaxMantissa
       /\ item.lower = None => ~item.lower_inc
       /\ item.upper = None => ~item.upper_inc
  BY <1>1, <1>4, <1>5, <1>6, <1>7
<1>15. cell.lower = low /\ cell.upper = high
  BY DEF low, high
<1> QED
  BY <1>6, <1>7, <1>9, <1>10, <1>11, <1>12, <1>13, <1>14, <1>15 DEF IsWritten

\* What Postgres makes of it: the range, or, where its bounds met and are not both in it, nothing.
LEMMA StoredNumrange ==
    ASSUME NEW range \in Ranges(LibraryNumeric),
           range.lower # None /\ range.upper # None => ~Below(TRUE, range.upper, range.lower),
           NEW stored, stored = Stored(Unmodified("numrange"), range)
    PROVE  \/ stored = range
           \/ /\ stored = EmptyRange
              /\ range.lower # None /\ range.upper # None
              /\ ~(range.lower_inc /\ range.upper_inc)
              /\ ~Below(TRUE, range.lower, range.upper)
<1>1. range \notin {None, Refused}
  BY RangeIsNoMarker
<1>2. Unmodified("numrange").type = "numrange"
  BY DEF Unmodified
<1>3. stored = NormalRange(TRUE, range)
  BY <1>1, <1>2 DEF Stored
<1> QED
  BY <1>3 DEF NormalRange

\* A range of numerics has its bounds rounded, stays in order, and becomes empty if they meet.
LEMMA NumrangeRowTrips ==
    ASSUME NEW row, Decodes(row), IsRow(row), row.column.type = "numrange"
    PROVE  Trips(row)
<1> DEFINE decoding == [kind |-> "Range", of |-> BareNumeric]
           encoding == [kind |-> "Range", of |-> BareNumeric, type |-> "numrange"]
           data == <<"Decimal128", MaxPrecision, BareScale>>
           cell == row.cell
           item == Decoded(decoding, cell)
           written == Encoded(encoding, item)
           copy == Stored(Unmodified("numrange"), written)
<1>1. /\ SettlesOn(decoding, encoding, decoding)
      /\ SqlColumn(encoding) = Unmodified("numrange")
      /\ Field(decoding).data = RangeFields(data)
      /\ \A column : column.type = "numrange" => Decoding(column) = decoding
  BY NumrangeSettlesOn
<1>2. Decoding(row.column) = decoding
  BY <1>1
<1>3. /\ decoding.kind = "Range" /\ decoding.of = BareNumeric
      /\ encoding.kind = "Range" /\ encoding.of = BareNumeric
      /\ "numrange" \in RangeTypes
  BY DEF RangeTypes
<1> HIDE DEF decoding, encoding
<1>4. CASE cell = None
  <2>1. StoresOn(decoding, encoding, decoding, cell, None, None)
    BY <1>4, NullStores
  <2>2. TripsAs(row, None, None)
    BY <1>1, <1>2, <2>1, RowSettles
  <2>3. IsValid(BatchOf(row))
    BY <2>2 DEF IsValid, TripsAs
  <2>4. KeepsValue(None, row)
    BY <1>4 DEF KeepsValue
  <2> QED
    BY <2>2, <2>3, <2>4 DEF Trips, TripsAs
<1>5. CASE cell # None
  <2>1. item # Refused
    BY <1>2 DEF Decodes
  <2>2. cell # Unreadable
    <3> SUFFICES ASSUME cell = Unreadable PROVE FALSE
      OBVIOUS
    <3>1. item = DecodedScalar(decoding, cell)
      BY DEF Decoded
    <3> QED
      BY <1>5, <2>1, <3>1 DEF DecodedScalar
  <2>3. IsRangeCell("numrange", cell)
    BY <1>3, <1>5, <2>2 DEF IsRow, IsCell
  <2> HIDE DEF cell, item, written, copy
  <2>4. /\ Decoded(decoding, EmptyRange) = EmptyRange /\ Encoded(encoding, EmptyRange) = EmptyRange
        /\ Stored(Unmodified("numrange"), EmptyRange) = EmptyRange
        /\ EmptyRange \notin {None, Refused, Unreadable}
    <3>1. EmptyRange \notin {None, Refused, Unreadable} /\ EmptyRange.empty = TRUE
      BY RangeIsNoMarker DEF EmptyRange, PgRange
    <3> QED
      BY <1>3, <3>1, EmptyIsStored, RangeCoding
  <2>5. /\ item \in Ranges(Int)
        /\ item.lower # None => Abs(item.lower) =< MaxMantissa
        /\ item.upper # None => Abs(item.upper) =< MaxMantissa
        /\ item.lower = None => ~item.lower_inc
        /\ item.upper = None => ~item.upper_inc
        /\ StoresOn(decoding, encoding, decoding, cell, item, copy)
        /\ IsCopiedRange("numrange", copy, cell)
        /\ copy # None
    <3>1. CASE cell = EmptyRange
      <4>1. item = EmptyRange /\ copy = EmptyRange
        BY <2>4, <3>1 DEF item, written, copy
      <4>2. /\ EmptyRange.lower = None /\ EmptyRange.upper = None
            /\ ~EmptyRange.lower_inc /\ ~EmptyRange.upper_inc
        BY DEF EmptyRange, PgRange
      <4>3. StoresOn(decoding, encoding, decoding, cell, item, copy)
        BY <1>1, <2>4, <3>1, <4>1 DEF StoresOn
      <4>4. IsCopiedRange("numrange", copy, cell)
        BY <3>1, <4>1, <4>2 DEF IsCopiedRange, IsBound
      <4> QED
        BY <2>4, <4>1, <4>2, <4>3, <4>4, RangeIsNoMarker
    <3>2. CASE cell # EmptyRange
      <4>1. /\ item = Decoded(decoding, cell) /\ written = Encoded(encoding, item)
            /\ copy = Stored(Unmodified("numrange"), written)
        BY DEF item, written, copy
      <4>2. /\ item \in Ranges(Int) /\ written \in Ranges(LibraryNumeric)
            /\ item.lower # None => Abs(item.lower) =< MaxMantissa
            /\ item.upper # None => Abs(item.upper) =< MaxMantissa
            /\ item.lower = None => ~item.lower_inc
            /\ item.upper = None => ~item.upper_inc
            /\ Decoded(decoding, written) = item
            /\ <<written.lower_inc, written.upper_inc, written.empty>>
                 = <<cell.lower_inc, cell.upper_inc, cell.empty>>
            /\ IsBound("numrange", written.lower, cell.lower)
            /\ IsBound("numrange", written.upper, cell.upper)
            /\ written.lower = None <=> cell.lower = None
            /\ written.upper = None <=> cell.upper = None
            /\ written.lower # None /\ written.upper # None => ~Below(TRUE, written.upper, written.lower)
        <5>1. IsWritten(decoding, cell, item, written)
          BY <1>3, <1>5, <2>1, <2>2, <2>3, <3>2, <4>1, WrittenNumrange
        <5> QED
          BY <5>1 DEF IsWritten
      <4>3. \/ copy = written
            \/ /\ copy = EmptyRange
               /\ written.lower # None /\ written.upper # None
               /\ ~(written.lower_inc /\ written.upper_inc)
               /\ ~Below(TRUE, written.lower, written.upper)
        BY <4>1, <4>2, StoredNumrange
      <4>4. written \notin {None, Refused, Unreadable}
        BY <4>2, RangeIsNoMarker
      <4>5. CASE copy = written
        <5>1. StoresOn(decoding, encoding, decoding, cell, item, copy)
          BY <1>1, <2>1, <4>1, <4>2, <4>4, <4>5 DEF StoresOn
        <5>2. IsCopiedRange("numrange", copy, cell)
          BY <4>2, <4>5 DEF IsCopiedRange
        <5> QED
          BY <4>2, <4>4, <4>5, <5>1, <5>2
      <4>6. CASE /\ copy = EmptyRange
                 /\ written.lower # None /\ written.upper # None
                 /\ ~(written.lower_inc /\ written.upper_inc)
                 /\ ~Below(TRUE, written.lower, written.upper)
        <5>1. StoresOn(decoding, encoding, decoding, cell, item, copy)
          BY <1>1, <2>4, <4>1, <4>6 DEF StoresOn
        <5>2. IsRounded(written.lower, cell.lower) /\ IsRounded(written.upper, cell.upper)
          BY <4>2, <4>6 DEF IsBound
        <5>3. written.lower \in LibraryNumeric /\ written.upper \in LibraryNumeric
          BY <4>2, <4>6, RangeIs
        <5>4. written.lower = written.upper
          BY <4>2, <4>6, <5>2, <5>3, NeitherIsBelow DEF IsRounded
        <5>5. BoundsMeet(cell)
          BY <4>2, <4>6, <5>2, <5>3, <5>4 DEF BoundsMeet
        <5>6. IsCopiedRange("numrange", copy, cell)
          BY <4>6, <5>5 DEF IsCopiedRange
        <5> QED
          BY <2>4, <4>2, <4>6, <5>1, <5>6
      <4> QED
        BY <4>3, <4>5, <4>6
    <3> QED
      BY <3>1, <3>2
  <2>6. TripsAs(row, item, copy)
    BY <1>1, <1>2, <2>5, RowSettles DEF cell
  <2>7. IsValid(BatchOf(row))
    <3>1. BatchOf(row).item = item /\ BatchOf(row).field.data = RangeFields(data)
      BY <1>1, <1>2, <2>6 DEF TripsAs
    <3>2. Head(RangeFields(data)) = "Struct" /\ RangeFields(data)[2] = data
      BY DEF RangeFields
    <3>3. data[2] = MaxPrecision
      OBVIOUS
    <3>4. ASSUME NEW bound \in Int \cup {None}, bound # None => Abs(bound) =< MaxMantissa
          PROVE  FitsDecimal(data, bound)
      <4>1. CASE bound = None
        BY <4>1 DEF FitsDecimal
      <4>2. CASE bound # None
        <5>1. /\ Abs(bound) \in Int /\ MaxMantissa \in Int /\ PowerOfTen[MaxPrecision] \in Int
              /\ Abs(bound) =< MaxMantissa /\ MaxMantissa < PowerOfTen[MaxPrecision]
          <6>1. MaxPrecision \in Nat
            BY SMT, MapAssumption
          <6> QED
            BY <3>4, <4>2, <6>1, AbsIs, PowerSteps, MapAssumption
        <5>2. Abs(bound) < PowerOfTen[MaxPrecision]
          BY SMT, <5>1
        <5> QED
          BY <3>3, <5>2 DEF FitsDecimal
      <4> QED
        BY <4>1, <4>2
    <3>5. item.lower \in Int \cup {None} /\ item.upper \in Int \cup {None}
      BY <2>5, RangeIs
    <3> HIDE DEF data
    <3> QED
      BY <2>5, <3>1, <3>2, <3>4, <3>5 DEF IsValid
  <2>8. KeepsValue(copy, row)
    BY <1>5, <2>5 DEF KeepsValue, cell
  <2> QED
    BY <2>6, <2>7, <2>8 DEF Trips, TripsAs
<1> QED
  BY <1>4, <1>5

\* Every value that the source takes is valid in its batch and taken by the destination, and
\* arrives as it was sent; its copy is taken again, and is its own copy.
LEMMA RowTrips ==
    ASSUME NEW row, IsRow(row), Decodes(row)
    PROVE  Trips(row)
<1>1. CASE row.column.type \in DOMAIN FixedDecoding
  BY <1>1, FixedRowTrips
<1>2. CASE row.column.type \in DOMAIN RangeDecoding
  BY <1>2, KindRangeRowTrips
<1>3. CASE row.column.type = "numeric"
  BY <1>3, NumericRowTrips
<1>4. CASE row.column.type = "numrange"
  BY <1>4, NumrangeRowTrips
<1>5. CASE row.column.type \in {"geometry", "geography"}
  BY <1>5, GeoRowTrips
<1>6. CASE row.column.type \notin KnownTypes \ {"enum", "citext"}
  BY <1>6, ExtensionRowTrips
<1> QED
  BY <1>1, <1>2, <1>3, <1>4, <1>5, <1>6 DEF KnownTypes

-----------------------------------------------------------------------------
(* What the source makes is a batch. *)

\* The first word of each fixed type.
LEMMA FixedHeads ==
    /\ \A kind \in OpaqueKinds \cup {"Opaque", "Jsonb"} :
          Head(FixedArrow[kind]) \notin {"Decimal128", "Interval", "Date32", "Timestamp", "Struct"}
    /\ \A kind \in DateKinds \cup {"Interval"} :
          Head(FixedArrow[kind]) \notin {"Struct", "Binary"}
<1>1. /\ Head(FixedArrow["Bool"]) = "Boolean"
      /\ Head(FixedArrow["Int2"]) = "Int16"
      /\ Head(FixedArrow["Int4"]) = "Int32"
      /\ Head(FixedArrow["Int8"]) = "Int64"
      /\ Head(FixedArrow["Float4"]) = "Float32"
      /\ Head(FixedArrow["Float8"]) = "Float64"
  BY DEF FixedArrow
<1>2. /\ Head(FixedArrow["Text"]) = "Utf8"
      /\ Head(FixedArrow["Json"]) = "Utf8"
      /\ Head(FixedArrow["Jsonb"]) = "Utf8"
      /\ Head(FixedArrow["Bytea"]) = "Binary"
      /\ Head(FixedArrow["Opaque"]) = "Binary"
      /\ Head(FixedArrow["Uuid"]) = "FixedSizeBinary"
  BY DEF FixedArrow
<1>3. /\ Head(FixedArrow["Date"]) = "Date32"
      /\ Head(FixedArrow["Timestamp"]) = "Timestamp"
      /\ Head(FixedArrow["Timestamptz"]) = "Timestamp"
      /\ Head(FixedArrow["Interval"]) = "Interval"
  BY DEF FixedArrow
<1>4. ASSUME NEW kind \in OpaqueKinds \cup {"Opaque", "Jsonb"}
      PROVE  Head(FixedArrow[kind])
               \notin {"Decimal128", "Interval", "Date32", "Timestamp", "Struct"}
  <2> DEFINE head == Head(FixedArrow[kind])
  <2>1. head \in {"Boolean", "Int16", "Int32", "Int64", "Float32", "Float64", "Utf8", "Binary",
                  "FixedSizeBinary"}
    BY <1>1, <1>2 DEF OpaqueKinds
  <2> HIDE DEF head
  <2>2. head \notin {"Decimal128", "Interval", "Date32", "Timestamp", "Struct"}
    BY <2>1
  <2> QED
    BY <2>2 DEF head
<1>5. ASSUME NEW kind \in DateKinds \cup {"Interval"}
      PROVE  Head(FixedArrow[kind]) \notin {"Struct", "Binary"}
  <2> DEFINE head == Head(FixedArrow[kind])
  <2>1. head \in {"Date32", "Timestamp", "Interval"}
    BY <1>3 DEF DateKinds
  <2> HIDE DEF head
  <2>2. head \notin {"Struct", "Binary"}
    BY <2>1
  <2> QED
    BY <2>2 DEF head
<1> QED
  BY <1>4, <1>5

\* Neither a decimal, nor a point in time, nor a range, nor a geometry: any value will do.
LEMMA OpaqueItem ==
    ASSUME NEW decoding, decoding.kind \in OpaqueKinds \cup {"Opaque", "Jsonb"},
           NEW item, item \notin {Unreadable, Refused}
    PROVE  IsItem(Field(decoding), item)
<1> DEFINE field == Field(decoding)
<1>1. decoding.kind \in DOMAIN FixedArrow /\ decoding.kind \notin {"Range", "Numeric", "Geo"}
  BY DEF OpaqueKinds, FixedArrow
<1>2. field.data = FixedArrow[decoding.kind]
  BY <1>1 DEF Field, ArrowType, ElementArrow
<1>3. Head(field.data) \notin {"Decimal128", "Interval", "Date32", "Timestamp", "Struct"}
  BY <1>2, FixedHeads
<1>4. TagName(field) # "geoarrow.wkb"
  BY <1>1 DEF Field, Tag, TagName
<1> HIDE DEF field
<1>5. IsItem(field, item)
  BY <1>3, <1>4 DEF IsItem
<1> QED
  BY <1>5 DEF field

\* A number is no marker.
LEMMA NumberIsNoMarker == \A n \in Int : n \notin {None, Refused, Unreadable}
  BY MapAssumption

\* Points in time and spans of it are numbers.
LEMMA NumberItem ==
    ASSUME NEW decoding, decoding.kind \in DateKinds \cup {"Interval"},
           NEW item, item # None => item \in Int
    PROVE  IsItem(Field(decoding), item)
<1> DEFINE field == Field(decoding)
<1>1. decoding.kind \in DOMAIN FixedArrow /\ decoding.kind \notin {"Range", "Numeric"}
  BY DEF DateKinds, FixedArrow
<1>2. field.data = FixedArrow[decoding.kind]
  BY <1>1 DEF Field, ArrowType, ElementArrow
<1>3. Head(field.data) \notin {"Struct", "Binary"}
  BY <1>2, FixedHeads
<1> HIDE DEF field
<1>4. item # None => item \in Int /\ item \notin {Unreadable, Refused}
  BY NumberIsNoMarker
<1>5. IsItem(field, item)
  BY <1>3, <1>4 DEF IsItem
<1> QED
  BY <1>5 DEF field

\* What rows with a fixed OID are read as.
LEMMA FixedRowIsBatch ==
    ASSUME NEW row, Decodes(row), IsRow(row), row.column.type \in DOMAIN FixedDecoding
    PROVE  IsItem(Field(Decoding(row.column)), Decoded(Decoding(row.column), row.cell))
<1> DEFINE type == row.column.type
           kind == FixedDecoding[type]
           decoding == Decoding(row.column)
           cell == row.cell
           item == Decoded(decoding, cell)
<1>1. decoding = [kind |-> kind]
  BY DEF Decoding
<1>2. decoding.kind = kind /\ kind # "Range"
  BY <1>1 DEF FixedDecoding
<1> HIDE DEF decoding
<1>3. item = DecodedScalar(decoding, cell) /\ item # Refused
  BY <1>2, ScalarCoding DEF Decodes, decoding
<1>4. None \notin {Refused, Unreadable} /\ Refused # Unreadable
  BY MapAssumption
<1>5. cell # Unreadable
  BY <1>3, <1>4 DEF DecodedScalar
<1>6. CASE type = "jsonb"
  <2>1. kind = "Jsonb"
    BY <1>6 DEF FixedDecoding
  <2>2. item \in {None, cell.text} /\ (cell = None => item = None)
    BY <1>2, <1>3, <1>5, <2>1 DEF DecodedScalar, JsonbText
  <2>3. cell # None => cell.text \notin {None, Unreadable, Refused}
    BY <1>5, <1>6 DEF IsRow, IsCell
  <2> HIDE DEF item, kind
  <2>4. item \notin {Unreadable, Refused}
    BY <1>4, <2>2, <2>3
  <2> QED
    BY <1>2, <2>1, <2>4, OpaqueItem DEF item, decoding
<1>7. CASE type \in {"date", "timestamp", "timestamptz"}
  <2>1. kind \in DateKinds
    BY <1>7 DEF FixedDecoding, DateKinds
  <2>2. item \in Calendar \cup {None}
    <3> HIDE DEF kind
    <3> QED
      BY <1>1, <1>3, <2>1, DateCell
  <2>3. item # None => item \in Int
    BY <2>2, MapAssumption
  <2> HIDE DEF item, kind
  <2> QED
    BY <1>2, <2>1, <2>3, NumberItem DEF item, decoding
<1>8. CASE type = "interval"
  <2>1. kind = "Interval"
    BY <1>8 DEF FixedDecoding
  <2>2. cell # None => item = MonthDayNano(cell) /\ cell \in Int
    BY <1>2, <1>3, <1>5, <1>8, <2>1 DEF DecodedScalar, IsRow, IsCell
  <2>3. cell = None => item = None
    BY <1>3 DEF DecodedScalar
  <2>4. cell # None => item = cell * NanosPerMicro
    BY <1>3, <2>2 DEF MonthDayNano
  <2> HIDE DEF item, kind, cell
  <2>5. item # None => item \in Int
    BY <2>2, <2>3, <2>4, MapAssumption
  <2> QED
    BY <1>2, <2>1, <2>5, NumberItem DEF item, decoding, cell
<1>9. CASE type \notin {"jsonb", "date", "timestamp", "timestamptz", "interval"}
  <2>1. /\ kind \in OpaqueKinds
        /\ kind \notin {"Numeric", "Interval", "Jsonb", "Date", "Timestamp", "Timestamptz"}
    BY <1>9 DEF FixedDecoding, OpaqueKinds
  <2>2. item = cell
    BY <1>2, <1>3, <1>5, <2>1 DEF DecodedScalar
  <2>3. item \notin {Unreadable, Refused}
    BY <1>3, <1>5, <2>2
  <2> HIDE DEF item, kind
  <2> QED
    BY <1>2, <2>1, <2>3, OpaqueItem DEF item, decoding
<1> QED
  BY <1>6, <1>7, <1>8, <1>9

\* What rows of a type of the database's own are read as.
LEMMA ExtensionRowIsBatch ==
    ASSUME NEW row, Decodes(row), IsRow(row), row.column.type \notin KnownTypes \ {"enum", "citext"}
    PROVE  IsItem(Field(Decoding(row.column)), Decoded(Decoding(row.column), row.cell))
<1> DEFINE decoding == Decoding(row.column)
           cell == row.cell
           item == Decoded(decoding, cell)
<1>1. decoding.kind \in {"Text", "Opaque"}
  BY ExtensionField
<1>2. decoding.kind \in OpaqueKinds \cup {"Opaque"}
  BY <1>1 DEF OpaqueKinds
<1> HIDE DEF decoding
<1>3. item = DecodedScalar(decoding, cell) /\ item # Refused
  BY <1>1, ScalarCoding DEF Decodes, decoding
<1>4. cell # Unreadable
  BY <1>3, MapAssumption DEF DecodedScalar
<1>5. item = cell
  BY <1>1, <1>3, <1>4 DEF DecodedScalar
<1>6. item \notin {Unreadable, Refused}
  BY <1>3, <1>4, <1>5
<1> HIDE DEF item
<1> QED
  BY <1>2, <1>6, OpaqueItem DEF item, decoding

\* What geometries are read as.
LEMMA GeoRowIsBatch ==
    ASSUME NEW row, Decodes(row), IsRow(row), row.column.type \in {"geometry", "geography"}
    PROVE  IsItem(Field(Decoding(row.column)), Decoded(Decoding(row.column), row.cell))
<1> DEFINE decoding == Decoding(row.column)
           cell == row.cell
           item == Decoded(decoding, cell)
           field == Field(decoding)
<1>1. PICK edges : decoding = [kind |-> "Geo", epsg |-> Srid(row.column.typmod), edges |-> edges]
  BY DEF Decoding, FixedDecoding, RangeDecoding, ExtensionDecoding
<1>2. decoding.kind = "Geo" /\ field.data = <<"Binary">>
  BY <1>1, GeoFieldComesBack
<1> HIDE DEF decoding, field
<1>3. item = DecodedScalar(decoding, cell) /\ item # Refused
  BY <1>2, ScalarCoding DEF Decodes, decoding
<1>4. cell # Unreadable
  BY <1>3, MapAssumption DEF DecodedScalar
<1>5. item = cell
  BY <1>2, <1>3, <1>4 DEF DecodedScalar
<1>6. cell # None => cell = [ewkb |-> cell.ewkb, srid |-> cell.srid]
  BY <1>4 DEF IsRow, IsCell
<1>7. item \notin {Unreadable, Refused}
  BY <1>3, <1>4, <1>5
<1> HIDE DEF item, cell
<1>8. Head(field.data) = "Binary"
  BY <1>2
<1>9. IsItem(field, item)
  BY <1>5, <1>6, <1>7, <1>8 DEF IsItem
<1> QED
  BY <1>9 DEF item, decoding, cell, field

\* What numerics are read as: a number of units.
LEMMA NumericRowIsBatch ==
    ASSUME NEW row, Decodes(row), IsRow(row), row.column.type = "numeric"
    PROVE  IsItem(Field(Decoding(row.column)), Decoded(Decoding(row.column), row.cell))
<1> DEFINE decoding == Decoding(row.column)
           cell == row.cell
           item == Decoded(decoding, cell)
           field == Field(decoding)
<1>1. PICK p \in 1..MaxPrecision, s \in 0..MaxPrecision :
        s =< p /\ decoding = [kind |-> "Numeric", precision |-> p, scale |-> s]
  BY NumericDecodes DEF Decodes, IsRow
<1>2. field.data = <<"Decimal128", p, s>>
  BY <1>1, NumericSettlesOn
<1>3. /\ decoding.kind = "Numeric" /\ decoding.kind # "Range" /\ decoding.scale = s
      /\ Head(field.data) = "Decimal128"
  BY <1>1, <1>2
<1>4. s \in Nat
  BY <1>1, MapAssumption
<1> HIDE DEF decoding, field
<1>5. item = DecodedScalar(decoding, cell) /\ item # Refused
  BY <1>3, ScalarCoding DEF Decodes, decoding
<1>6. item # None => item \in Int
  <2> SUFFICES ASSUME item # None PROVE item \in Int
    OBVIOUS
  <2>1. cell \notin {None, Unreadable}
    BY <1>5 DEF DecodedScalar
  <2>2. cell \in LibraryNumeric
    BY <2>1 DEF IsRow, IsCell
  <2>3. item = DecimalUnits(cell, s)
    BY <1>3, <1>5, <2>1 DEF DecodedScalar
  <2> HIDE DEF item, cell
  <2> QED
    BY <1>4, <1>5, <2>2, <2>3, UnitsAreNearest
<1> HIDE DEF item
<1>7. IsItem(field, item)
  BY <1>3, <1>6, NumberIsNoMarker DEF IsItem
<1> QED
  BY <1>7 DEF item, decoding, cell, field

\* What ranges are read as: numbers, nulls for infinite bounds, and three flags.
LEMMA RangeRowIsBatch ==
    ASSUME NEW row, Decodes(row), IsRow(row), row.column.type \in RangeTypes
    PROVE  IsItem(Field(Decoding(row.column)), Decoded(Decoding(row.column), row.cell))
<1> DEFINE type == row.column.type
           decoding == Decoding(row.column)
           cell == row.cell
           item == Decoded(decoding, cell)
           field == Field(decoding)
<1>1. decoding.kind = "Range" /\ Head(field.data) = "Struct"
  <2>1. CASE type \in DOMAIN RangeDecoding
    <3> DEFINE element == [kind |-> RangeDecoding[type]]
    <3>1. /\ Field([kind |-> "Range", of |-> element]).data = RangeFields(FixedArrow[element.kind])
          /\ \A column : column.type = type => Decoding(column) = [kind |-> "Range", of |-> element]
      BY <2>1, KindRangeSettlesOn
    <3>2. decoding = [kind |-> "Range", of |-> element]
      BY <3>1
    <3> HIDE DEF element
    <3> QED
      BY <3>1, <3>2 DEF RangeFields
  <2>2. CASE type = "numrange"
    <3>1. /\ Field([kind |-> "Range", of |-> BareNumeric]).data
               = RangeFields(<<"Decimal128", MaxPrecision, BareScale>>)
          /\ \A column : column.type = "numrange" => Decoding(column) = [kind |-> "Range", of |-> BareNumeric]
      BY NumrangeSettlesOn
    <3>2. decoding = [kind |-> "Range", of |-> BareNumeric]
      BY <2>2, <3>1
    <3> QED
      BY <3>1, <3>2 DEF RangeFields
  <2> QED
    BY <2>1, <2>2 DEF RangeTypes
<1>2. item # Refused
  BY DEF Decodes
<1>3. CASE cell = None
  <2>1. item = None
    BY <1>3 DEF Decoded, DecodedScalar
  <2> QED
    BY <2>1 DEF IsItem
<1>4. CASE cell # None
  <2>1. cell # Unreadable
    BY <1>2, <1>4 DEF Decoded, DecodedScalar
  <2>2. IsRangeCell(type, cell)
    BY <1>4, <2>1 DEF IsRow, IsCell
  <2>3. item \in Ranges(Int)
    <3>1. CASE cell = EmptyRange
      <4>1. EmptyRange \notin {None, Unreadable} /\ EmptyRange.empty = TRUE /\ EmptyRange \in Ranges(Int)
        BY RangeIsNoMarker DEF EmptyRange, PgRange
      <4> QED
        BY <1>1, <3>1, <4>1, RangeCoding
    <3>2. CASE cell # EmptyRange /\ type \in DOMAIN RangeDecoding
      <4> DEFINE element == [kind |-> RangeDecoding[type]]
                 encoding == [kind |-> "Range", of |-> element, type |-> type]
      <4>1. decoding = [kind |-> "Range", of |-> element]
        <5>1. \A column : column.type = type => Decoding(column) = [kind |-> "Range", of |-> element]
          BY <3>2, KindRangeSettlesOn
        <5> QED
          BY <5>1
      <4>2. /\ element = [kind |-> RangeDecoding[type]]
            /\ encoding = [kind |-> "Range", of |-> element, type |-> type]
        OBVIOUS
      <4> HIDE DEF element, encoding, decoding, cell, type
      <4>3. cell \in Ranges(Int) /\ Decoded(decoding, cell) = cell
        BY <1>2, <1>4, <2>1, <2>2, <3>2, <4>1, <4>2, KindRangeCell
      <4> QED
        BY <4>3
    <3>3. CASE cell # EmptyRange /\ type = "numrange"
      <4> DEFINE encoding == [kind |-> "Range", of |-> BareNumeric, type |-> "numrange"]
                 copy == Encoded(encoding, item)
      <4>1. decoding = [kind |-> "Range", of |-> BareNumeric]
        BY <3>3, NumrangeSettlesOn
      <4>2. decoding.of = BareNumeric /\ encoding.kind = "Range" /\ encoding.of = BareNumeric
        BY <4>1
      <4>3. item = Decoded(decoding, cell) /\ copy = Encoded(encoding, item)
        OBVIOUS
      <4> HIDE DEF encoding, decoding, cell, type, item, copy
      <4>4. IsWritten(decoding, cell, item, copy)
        BY <1>1, <1>2, <1>4, <2>1, <2>2, <3>3, <4>2, <4>3, WrittenNumrange
      <4> QED
        BY <4>4 DEF IsWritten
    <3> QED
      BY <3>1, <3>2, <3>3 DEF RangeTypes
  <2> HIDE DEF item, field, decoding
  <2>4. item \notin {Unreadable, Refused}
    BY <2>3, RangeIsNoMarker
  <2>5. IsItem(field, item)
    BY <1>1, <2>3, <2>4 DEF IsItem
  <2> QED
    BY <2>5 DEF item, field, decoding
<1> QED
  BY <1>3, <1>4

\* Every batch that the source makes is one the destination can be handed.
LEMMA DecodedRowIsBatch ==
    ASSUME NEW row, IsRow(row), Decodes(row)
    PROVE  IsBatch(BatchOf(row))
<1> DEFINE decoding == Decoding(row.column)
           item == Decoded(decoding, row.cell)
<1>1. BatchOf(row).field = Field(decoding) /\ BatchOf(row).item = item
  BY DEF BatchOf
<1>2. IsField(Field(decoding))
  BY DecodedFieldIsField DEF IsRow, Decodes
<1>3. IsItem(Field(decoding), item)
  <2>1. CASE row.column.type \in DOMAIN FixedDecoding
    BY <2>1, FixedRowIsBatch
  <2>2. CASE row.column.type \in RangeTypes
    BY <2>2, RangeRowIsBatch
  <2>3. CASE row.column.type = "numeric"
    BY <2>3, NumericRowIsBatch
  <2>4. CASE row.column.type \in {"geometry", "geography"}
    BY <2>4, GeoRowIsBatch
  <2>5. CASE row.column.type \notin KnownTypes \ {"enum", "citext"}
    BY <2>5, ExtensionRowIsBatch
  <2> QED
    BY <2>1, <2>2, <2>3, <2>4, <2>5 DEF KnownTypes, RangeTypes
<1> QED
  BY <1>1, <1>2, <1>3 DEF IsBatch

-----------------------------------------------------------------------------
(* What the destination writes is a row. *)

\* What an encoding is, and the column that it declares.
LEMMA EncodingKinds ==
    ASSUME NEW field, IsField(field),
           NEW encoding, encoding = Encoding(field), encoding # Refused
    PROVE  \/ \E kind \in DOMAIN FixedName : /\ encoding = [kind |-> kind]
                                            /\ \/ kind \in {"Json", "Uuid"}
                                               \/ encoding = PlainEncoding(field.data)
           \/ /\ Head(field.data) = "Binary" /\ TagName(field) = "geoarrow.wkb"
              /\ encoding = [kind |-> "Geo", epsg |-> Epsg(field.tag[2]), edges |-> field.tag[3]]
           \/ /\ Head(field.data) = "Struct"
              /\ TagName(field) = "transferred.pg_range"
              /\ encoding = RangeEncoding(field.data)
           \/ /\ Head(field.data) = "Decimal128" /\ field.data[3] >= 0
              /\ encoding = [kind |-> "Numeric", precision |-> field.data[2],
                             scale |-> field.data[3]]
<1>1. {"Json", "Uuid", "Interval", "Timestamp", "Timestamptz"} \subseteq DOMAIN FixedName
  BY DEF FixedName
<1>2. \/ encoding \in {[kind |-> "Json"], [kind |-> "Uuid"]}
      \/ /\ Head(field.data) = "Binary" /\ TagName(field) = "geoarrow.wkb"
         /\ encoding = [kind |-> "Geo", epsg |-> Epsg(field.tag[2]), edges |-> field.tag[3]]
      \/ /\ Head(field.data) = "Struct" /\ TagName(field) = "transferred.pg_range"
         /\ encoding = RangeEncoding(field.data)
      \/ encoding = PlainEncoding(field.data)
  BY DEF Encoding
<1>3. CASE encoding \in {[kind |-> "Json"], [kind |-> "Uuid"]}
  BY <1>1, <1>3
<1>4. CASE encoding = PlainEncoding(field.data)
  <2>1. CASE Head(field.data) \in DOMAIN FixedEncoding
    <3>1. encoding = [kind |-> FixedEncoding[Head(field.data)]]
      BY <1>4, <2>1 DEF PlainEncoding
    <3>2. FixedEncoding[Head(field.data)] \in DOMAIN FixedName
      BY <2>1 DEF FixedEncoding, FixedName
    <3> QED
      BY <1>4, <3>1, <3>2
  <2>2. CASE Head(field.data) \notin DOMAIN FixedEncoding
    <3>1. \/ encoding \in {[kind |-> "Timestamp"], [kind |-> "Timestamptz"], [kind |-> "Interval"]}
          \/ /\ Head(field.data) = "Decimal128" /\ field.data[3] >= 0
             /\ encoding = [kind |-> "Numeric", precision |-> field.data[2],
                            scale |-> field.data[3]]
      BY <1>4, <2>2 DEF PlainEncoding
    <3> QED
      BY <1>1, <1>4, <3>1
  <2> QED
    BY <2>1, <2>2
<1> QED
  BY <1>2, <1>3, <1>4

\* What the plain encodings of numbers are made for.
LEMMA NumberFields ==
    ASSUME NEW data, IsData(data), NEW kind \in DateKinds \cup {"Interval"},
           PlainEncoding(data) = [kind |-> kind]
    PROVE  Head(data) \in {"Date32", "Timestamp", "Interval"}
<1>1. CASE Head(data) \in DOMAIN FixedEncoding
  <2>1. FixedEncoding[Head(data)] = kind
    <3>1. [kind |-> FixedEncoding[Head(data)]] = [kind |-> kind]
      BY <1>1 DEF PlainEncoding
    <3> QED
      BY <3>1
  <2> QED
    BY <1>1, <2>1 DEF FixedEncoding, DateKinds
<1>2. CASE Head(data) \notin DOMAIN FixedEncoding
  <2>1. [kind |-> kind] # Refused
    BY CodingIsNoError DEF DateKinds, FixedArrow
  <2>2. \/ Head(data) = "Timestamp"
        \/ data = <<"Interval", "MonthDayNano">>
        \/ PlainEncoding(data) = [kind |-> "Numeric", precision |-> data[2], scale |-> data[3]]
    BY <1>2, <2>1 DEF PlainEncoding
  <2>3. CASE PlainEncoding(data) = [kind |-> "Numeric", precision |-> data[2], scale |-> data[3]]
    <3>1. PlainEncoding(data).kind = "Numeric" /\ PlainEncoding(data).kind = kind
      BY <2>3
    <3> QED
      BY <3>1 DEF DateKinds
  <2> QED
    BY <2>2, <2>3
<1> QED
  BY <1>1, <1>2

\* What is stored of an item under a kind without a parameter.
LEMMA FixedIsCell ==
    ASSUME NEW kind \in DOMAIN FixedName, NEW encoding, encoding = [kind |-> kind], NEW item,
           kind = "Interval" => item \in Int \cup {None},
           NEW cell, cell = Stored(Unmodified(FixedName[kind]), EncodedScalar(encoding, item)),
           cell # Refused
    PROVE  IsCell(Unmodified(FixedName[kind]), cell)
<1> DEFINE column == Unmodified(FixedName[kind])
<1>1. column.type = FixedName[kind] /\ column.typmod = BareTypmod
  BY DEF Unmodified
<1>2. FixedName[kind] \notin {"numeric", "jsonb", "geometry", "geography"} \cup RangeTypes
  BY DEF FixedName, RangeTypes, RangeDecoding
<1> HIDE DEF column
<1>3. CASE kind = "Interval"
  <2>1. FixedName[kind] = "interval"
    BY <1>3 DEF FixedName
  <2>2. item # None => EncodedScalar(encoding, item) = PgInterval(item)
    BY <1>3 DEF EncodedScalar
  <2>3. item = None => EncodedScalar(encoding, item) = None
    BY DEF EncodedScalar
  <2>4. item \in Int => PgInterval(item) \in Int \cup {Refused}
    <3>1. NanosPerMicro \in Int /\ NanosPerMicro > 0
      BY SMT, MapAssumption
    <3>2. item \in Int => item \div NanosPerMicro \in Int
      BY SMT, <3>1
    <3> QED
      BY <3>2 DEF PgInterval
  <2>5. cell = EncodedScalar(encoding, item)
    BY <1>1, <2>1 DEF Stored, column
  <2>6. cell # None => cell \in Int
    BY <1>3, <2>2, <2>3, <2>4, <2>5
  <2> QED
    BY <1>1, <1>2, <2>1, <2>6 DEF IsCell, column
<1>4. CASE kind \in DateKinds
  <2>1. FixedName[kind] \in {"date", "timestamp", "timestamptz"}
    BY <1>4 DEF FixedName, DateKinds
  <2>2. cell # None => cell \in PgCalendar
    BY <1>1, <2>1 DEF Stored, column
  <2> QED
    BY <1>1, <1>2, <2>1, <2>2 DEF IsCell, column
<1>5. CASE kind \notin DateKinds \cup {"Interval"}
  <2>1. FixedName[kind] \notin {"date", "timestamp", "timestamptz", "interval"}
    BY <1>5 DEF FixedName, DateKinds
  <2> QED
    BY <1>1, <1>2, <2>1 DEF IsCell, column
<1> QED
  BY <1>3, <1>4, <1>5

\* What a plain field is written as.
LEMMA FixedBatchIsRow ==
    ASSUME NEW from, IsBatch(from), Encodes(from), NEW kind \in DOMAIN FixedName,
           Encoding(from.field) = [kind |-> kind],
           kind \in {"Json", "Uuid"} \/ Encoding(from.field) = PlainEncoding(from.field.data)
    PROVE  IsCell(TableOf(from).column, TableOf(from).cell)
<1> DEFINE encoding == Encoding(from.field)
           item == from.item
           cell == TableOf(from).cell
<1>1. SqlColumn(encoding) = Unmodified(FixedName[kind])
  BY KindColumn
<1>2. encoding.kind = kind /\ kind # "Range"
  BY DEF FixedName
<1>3. /\ TableOf(from).column = Unmodified(FixedName[kind])
      /\ cell = Stored(Unmodified(FixedName[kind]), EncodedScalar(encoding, item))
      /\ cell # Refused
  BY <1>1, <1>2, ScalarCoding DEF TableOf, Encodes
<1>4. kind = "Interval" => item \in Int \cup {None}
  <2> SUFFICES ASSUME kind = "Interval" PROVE item \in Int \cup {None}
    OBVIOUS
  <2>1. PlainEncoding(from.field.data) = [kind |-> kind]
    OBVIOUS
  <2>2. Head(from.field.data) \in {"Date32", "Timestamp", "Interval"}
    BY <2>1, NumberFields DEF IsBatch, IsField
  <2> QED
    BY <2>2 DEF IsBatch, IsItem
<1> HIDE DEF encoding, item, cell
<1>5. encoding = [kind |-> kind]
  BY DEF encoding
<1>6. IsCell(Unmodified(FixedName[kind]), cell)
  BY <1>3, <1>4, <1>5, FixedIsCell
<1> QED
  BY <1>3, <1>6 DEF cell

\* What a decimal is written as: no more digits than are declared, at the scale declared.
LEMMA NumericBatchIsRow ==
    ASSUME NEW from, IsBatch(from), Encodes(from),
           Head(from.field.data) = "Decimal128", from.field.data[3] >= 0,
           Encoding(from.field) = [kind |-> "Numeric", precision |-> from.field.data[2],
                                   scale |-> from.field.data[3]]
    PROVE  IsCell(TableOf(from).column, TableOf(from).cell)
<1> DEFINE p == from.field.data[2]
           s == from.field.data[3]
           encoding == Encoding(from.field)
           item == from.item
           row == TableOf(from)
<1>1. /\ p \in 1..1000 /\ s \in NumericScales /\ p \in Nat /\ s \in Nat
  <2>1. p \in 1..MaxPrecision /\ s \in -128..127
    BY DEF IsBatch, IsField, IsData
  <2>2. MaxPrecision \in 1..127 /\ s >= 0
    BY MapAssumption
  <2> HIDE DEF p, s
  <2> QED
    BY SMT, <2>1, <2>2 DEF NumericScales
<1>2. encoding.kind = "Numeric" /\ encoding.scale = s /\ encoding.precision = p
  OBVIOUS
<1>3. item # None => item \in Int
  BY DEF IsBatch, IsItem
<1> HIDE DEF p, s, encoding, item
<1>4. row.column.type = "numeric" /\ row.column.typmod = NumericTypmod(p, s)
  BY <1>2 DEF SqlColumn, TableOf, encoding
<1>5. /\ PackedPrecision(NumericTypmod(p, s)) = p
      /\ PackedScale(NumericTypmod(p, s)) = s
  BY <1>1, NumericTypmodComesBack
<1>6. NumericTypmod(p, s) # BareTypmod
  BY SMT, <1>1 DEF NumericTypmod, BareTypmod
<1> DEFINE written == EncodedScalar(encoding, item)
<1>7. row.cell = Stored(row.column, written) /\ row.cell # Refused
  <2>1. Encoded(encoding, item) = written
    BY <1>2, ScalarCoding
  <2>2. TableOf(from).cell = Stored(TableOf(from).column, Encoded(encoding, item))
    BY DEF TableOf, encoding, item
  <2> QED
    BY <2>1, <2>2 DEF Encodes
<1>8. CASE item = None
  <2>1. row.cell = None
    BY <1>7, <1>8 DEF EncodedScalar, Stored
  <2> QED
    BY <2>1 DEF IsCell
<1>9. CASE item # None
  <2>1. written = PgNumeric(item, s)
    BY <1>2, <1>9 DEF EncodedScalar
  <2>2. written # Refused
    BY <1>7 DEF Stored
  <2>3. /\ Abs(item) =< MaxMantissa /\ s =< MaxScale
        /\ written = [mantissa |-> item, scale |-> s]
    BY <2>1, <2>2 DEF PgNumeric
  <2>4. written \in LibraryNumeric /\ written \notin {None, Refused} /\ written.scale = s
    BY <1>1, <1>3, <1>9, <2>3, LibraryHolds, MapAssumption
  <2> HIDE DEF written, row
  <2>5. row.cell = written /\ Abs(written.mantissa) < PowerOfTen[p]
    BY <1>4, <1>5, <1>6, <1>7, <2>4 DEF Stored
  <2>6. "numeric" \notin RangeTypes
    BY DEF RangeTypes, RangeDecoding
  <2> QED
    BY <1>4, <1>5, <1>6, <1>7, <2>4, <2>5, <2>6 DEF IsCell, row
<1> QED
  BY <1>8, <1>9

\* What a geometry is written as: one of the coordinate system that is declared.
LEMMA GeoBatchIsRow ==
    ASSUME NEW from, IsBatch(from), Encodes(from),
           Head(from.field.data) = "Binary", TagName(from.field) = "geoarrow.wkb",
           NEW edges, Encoding(from.field) = [kind |-> "Geo", epsg |-> Epsg(from.field.tag[2]),
                                              edges |-> edges]
    PROVE  IsCell(TableOf(from).column, TableOf(from).cell)
<1> DEFINE epsg == Epsg(from.field.tag[2])
           encoding == Encoding(from.field)
           item == from.item
           row == TableOf(from)
           typmod == IF epsg = None THEN BareTypmod ELSE GeoTypmod(epsg, 0)
<1>1. encoding.kind = "Geo" /\ encoding.epsg = epsg
  OBVIOUS
<1>2. epsg # None => IsSrid(epsg)
  BY DEF IsBatch, IsField
<1>3. item # None => item = [ewkb |-> item.ewkb, srid |-> item.srid] /\ item # Refused
  BY DEF IsBatch, IsItem
<1> HIDE DEF epsg, encoding, item
<1>4. row.column.type \in {"geometry", "geography"} /\ row.column.typmod = typmod
  BY <1>1 DEF SqlColumn, TableOf, encoding
<1>5. row.cell = Stored(row.column, item) /\ row.cell # Refused
  <2>1. Encoded(encoding, item) = EncodedScalar(encoding, item)
    BY <1>1, ScalarCoding
  <2>2. EncodedScalar(encoding, item) = item
    BY <1>1 DEF EncodedScalar
  <2>3. TableOf(from).cell = Stored(TableOf(from).column, Encoded(encoding, item))
    BY DEF TableOf, encoding, item
  <2> QED
    BY <2>1, <2>2, <2>3 DEF Encodes
<1> HIDE DEF row
<1>6. epsg = None => typmod = BareTypmod /\ Srid(typmod) = None
  BY DEF Srid
<1>7. epsg # None => typmod # BareTypmod /\ typmod \div 256 = epsg /\ Srid(typmod) = epsg
  <2> SUFFICES ASSUME epsg # None
               PROVE  typmod # BareTypmod /\ typmod \div 256 = epsg /\ Srid(typmod) = epsg
    OBVIOUS
  <2>1. epsg \in Nat /\ 0 < epsg /\ epsg < 1048576 /\ epsg # 0 /\ 0 \in 0..255
    BY SMT, <1>2 DEF IsSrid
  <2>2. Srid(GeoTypmod(epsg, 0)) = epsg
    BY <2>1, SridComesBack
  <2>3. GeoTypmod(epsg, 0) # BareTypmod /\ GeoTypmod(epsg, 0) \div 256 = epsg
    BY SMT, <2>1 DEF GeoTypmod, BareTypmod
  <2> QED
    BY <2>2, <2>3
<1>8. row.cell # None =>
        /\ row.cell = [ewkb |-> row.cell.ewkb, srid |-> row.cell.srid]
        /\ epsg # None => row.cell.srid = epsg
  <2> HIDE DEF typmod
  <2>1. CASE item = None
    BY <1>5, <2>1 DEF Stored
  <2>2. CASE item # None /\ epsg = None
    BY <1>3, <1>4, <1>5, <1>6, <2>2 DEF Stored
  <2>3. CASE item # None /\ epsg # None
    <3>1. row.cell = IF item.srid = 0 THEN [item EXCEPT !.srid = epsg]
                       ELSE IF item.srid = epsg THEN item ELSE Refused
      BY <1>3, <1>4, <1>5, <1>7, <2>3 DEF Stored
    <3>2. [item EXCEPT !.srid = epsg] = [ewkb |-> item.ewkb, srid |-> epsg]
      BY <1>3, <2>3
    <3> QED
      BY <1>3, <1>5, <2>3, <3>1, <3>2
  <2> QED
    BY <2>1, <2>2, <2>3
<1> HIDE DEF typmod
<1>9. row.column.type
        \notin {"numeric", "interval", "date", "timestamp", "timestamptz", "jsonb"} \cup RangeTypes
  BY <1>4 DEF RangeTypes, RangeDecoding
<1> QED
  BY <1>4, <1>5, <1>6, <1>7, <1>8, <1>9 DEF IsCell, row

\* What the receive function of a range lets through is a range as Postgres stores it.
LEMMA NormalRangeIsCell ==
    ASSUME NEW type \in RangeTypes, NEW range \in Ranges(BoundsOf(type)), ~range.empty,
           range.lower_inc => range.lower # None,
           range.upper_inc => range.upper # None,
           type \in DiscreteRanges => range.lower_inc = (range.lower # None) /\ ~range.upper_inc,
           NEW cell, cell = NormalRange(type = "numrange", range), cell # Refused
    PROVE  IsRangeCell(type, cell)
<1>1. range \in Ranges(BoundsOf(type) \cup {Unreadable})
  BY DEF Ranges
<1>2. CASE range.lower = None \/ range.upper = None
  <2>1. cell = range
    BY <1>2 DEF NormalRange
  <2> QED
    BY <1>1, <1>2, <2>1 DEF IsRangeCell
<1>3. CASE range.lower # None /\ range.upper # None
  <2> DEFINE below == Below(type = "numrange", range.lower, range.upper)
             above == Below(type = "numrange", range.upper, range.lower)
  <2>1. /\ ~above
        /\ cell = IF below \/ (range.lower_inc /\ range.upper_inc) THEN range ELSE EmptyRange
    BY <1>3 DEF NormalRange
  <2> HIDE DEF below, above
  <2>2. CASE cell = EmptyRange
    BY <2>2 DEF IsRangeCell
  <2>3. CASE cell = range /\ (below \/ (range.lower_inc /\ range.upper_inc))
    BY <1>1, <2>1, <2>3 DEF IsRangeCell, below, above
  <2> QED
    BY <2>1, <2>2, <2>3
<1> QED
  BY <1>2, <1>3

\* The bound of a range, as it is written.
LEMMA WrittenBound ==
    ASSUME NEW type \in RangeTypes, NEW element, element.kind \in DOMAIN RangeOver,
           type = RangeOver[element.kind],
           element.kind = "Numeric" => element.scale \in Nat,
           NEW bound \in Int \cup {None}, EncodedScalar(element, bound) # Refused
    PROVE  EncodedScalar(element, bound) \in BoundsOf(type) \cup {None}
<1>1. CASE bound = None
  BY <1>1 DEF EncodedScalar
<1>2. CASE bound # None /\ element.kind = "Numeric"
  <2>1. type = "numrange"
    BY <1>2 DEF RangeOver
  <2>2. EncodedScalar(element, bound) = PgNumeric(bound, element.scale)
    BY <1>2 DEF EncodedScalar
  <2>3. /\ Abs(bound) =< MaxMantissa /\ element.scale =< MaxScale
        /\ EncodedScalar(element, bound) = [mantissa |-> bound, scale |-> element.scale]
    BY <2>2 DEF PgNumeric
  <2>4. EncodedScalar(element, bound) \in LibraryNumeric
    BY <1>2, <2>3, LibraryHolds
  <2> QED
    BY <2>1, <2>4 DEF BoundsOf
<1>3. CASE bound # None /\ element.kind # "Numeric"
  <2>1. type # "numrange"
    BY <1>3 DEF RangeOver
  <2>2. element.kind # "Interval"
    BY DEF RangeOver
  <2>3. EncodedScalar(element, bound) = bound
    BY <1>3, <2>2 DEF EncodedScalar
  <2> QED
    BY <2>1, <2>3 DEF BoundsOf
<1> QED
  BY <1>1, <1>2, <1>3

\* A range of whole values in the form that Postgres gives it.
LEMMA CanonicalRangeIs ==
    ASSUME NEW range \in Ranges(Int), ~range.empty, NEW canon, canon = CanonicalRange(range)
    PROVE  /\ canon \in Ranges(Int) /\ ~canon.empty
           /\ canon.lower_inc = (canon.lower # None) /\ ~canon.upper_inc
<1> DEFINE low == IF range.lower # None /\ ~range.lower_inc THEN range.lower + 1 ELSE range.lower
           high == IF range.upper # None /\ range.upper_inc THEN range.upper + 1 ELSE range.upper
<1>1. range.lower \in Int \cup {None} /\ range.upper \in Int \cup {None} /\ range.empty = FALSE
  BY RangeIs
<1>2. \A n \in Int : n + 1 \in Int
  OBVIOUS
<1>3. low \in Int \cup {None} /\ high \in Int \cup {None}
  BY <1>1, <1>2
<1>4. canon = PgRange(low, high, low # None, FALSE, FALSE)
  BY <1>1 DEF CanonicalRange
<1> HIDE DEF low, high
<1>5. /\ canon.lower = low /\ canon.lower_inc = (low # None) /\ canon.upper_inc = FALSE
      /\ canon.empty = FALSE
  BY <1>4 DEF PgRange
<1>6. canon \in Ranges(Int)
  BY <1>3, <1>4 DEF PgRange, Ranges
<1> QED
  BY <1>5, <1>6

\* A range that is stored is in order, whatever the batch said.
LEMMA StoredRangeIsCell ==
    ASSUME NEW type \in RangeTypes, NEW element, element.kind \in DOMAIN RangeOver,
           type = RangeOver[element.kind],
           element.kind = "Numeric" => element.scale \in Nat,
           NEW encoding, encoding.kind = "Range", encoding.of = element,
           NEW item \in Ranges(Int),
           NEW cell, cell = Stored(Unmodified(type), Encoded(encoding, item)), cell # Refused
    PROVE  IsRangeCell(type, cell)
<1> DEFINE low == EncodedScalar(element, item.lower)
           high == EncodedScalar(element, item.upper)
           linc == low # None /\ item.lower_inc
           uinc == high # None /\ item.upper_inc
           range == PgRange(low, high, linc, uinc, FALSE)
           written == Encoded(encoding, item)
<1>1. /\ item.lower \in Int \cup {None} /\ item.upper \in Int \cup {None}
      /\ item.lower_inc \in BOOLEAN /\ item.upper_inc \in BOOLEAN /\ item.empty \in BOOLEAN
  BY RangeIs
<1>2. item \notin {None, Unreadable}
  BY RangeIsNoMarker
<1>3. written = EncodedRange(encoding, item)
  BY <1>2, RangeCoding
<1>4. CASE item.empty = TRUE
  <2>1. written = EmptyRange
    BY <1>2, <1>4, RangeCoding
  <2>2. cell = EmptyRange
    BY <2>1, EmptyIsStored
  <2> QED
    BY <2>2 DEF IsRangeCell
<1>5. CASE item.empty = FALSE
  <2>1. written = IF low = Refused \/ high = Refused THEN Refused ELSE range
    BY <1>3, <1>5 DEF EncodedRange
  <2>2. written # Refused
    BY DEF Stored
  <2>3. written = range /\ low # Refused /\ high # Refused
    BY <2>1, <2>2
  <2>4. low \in BoundsOf(type) \cup {None} /\ high \in BoundsOf(type) \cup {None}
    BY <1>1, <2>3, WrittenBound
  <2> HIDE DEF low, high, written
  <2>5. linc \in BOOLEAN /\ uinc \in BOOLEAN /\ (linc => low # None) /\ (uinc => high # None)
    BY <1>1
  <2> HIDE DEF linc, uinc
  <2>6. /\ written \in Ranges(BoundsOf(type)) /\ written.empty = FALSE
        /\ written.lower = low /\ written.upper = high
        /\ written.lower_inc = linc /\ written.upper_inc = uinc
    BY <2>3, <2>4, <2>5 DEF PgRange, Ranges
  <2>7. Ranges(BoundsOf(type)) \in {Ranges(Int), Ranges(LibraryNumeric)}
    BY DEF BoundsOf
  <2>8. written \notin {None, Refused}
    BY <2>6, <2>7, RangeIsNoMarker
  <2>9. Unmodified(type).type = type /\ cell = Stored(Unmodified(type), written)
    BY DEF Unmodified, written
  <2>10. CASE type \in {"numrange", "tsrange", "tstzrange"}
    <3>1. cell = NormalRange(type = "numrange", written)
      BY <2>8, <2>9, <2>10 DEF Stored
    <3>2. type \notin DiscreteRanges
      BY <2>10 DEF DiscreteRanges
    <3> QED
      BY <2>5, <2>6, <3>1, <3>2, NormalRangeIsCell
  <2>11. CASE type \in {"int4range", "int8range", "daterange"}
    <3> DEFINE canon == CanonicalRange(written)
    <3>1. cell = NormalRange(FALSE, canon)
      BY <2>8, <2>9, <2>11 DEF Stored
    <3>2. (type = "numrange") = FALSE /\ BoundsOf(type) = Int
      BY <2>11 DEF BoundsOf
    <3>3. canon = CanonicalRange(written)
      OBVIOUS
    <3> HIDE DEF canon
    <3>4. /\ canon \in Ranges(Int) /\ ~canon.empty
          /\ canon.lower_inc = (canon.lower # None) /\ ~canon.upper_inc
      BY <2>6, <3>2, <3>3, CanonicalRangeIs
    <3>5. cell = NormalRange(type = "numrange", canon)
      BY <3>1, <3>2
    <3> QED
      BY <3>2, <3>4, <3>5, NormalRangeIsCell
  <2> QED
    BY <2>10, <2>11 DEF RangeTypes, RangeDecoding
<1> QED
  BY <1>1, <1>4, <1>5

\* The encoding of a range, and its element.
LEMMA RangeEncodingIs ==
    ASSUME NEW data, IsData(data[2]), NEW encoding, encoding = RangeEncoding(data), encoding # Refused
    PROVE  /\ data = RangeFields(data[2])
           /\ encoding = [kind |-> "Range", of |-> PlainEncoding(data[2]),
                          type |-> RangeOver[PlainEncoding(data[2]).kind]]
           /\ PlainEncoding(data[2]) # Refused
           /\ PlainEncoding(data[2]).kind \in DOMAIN RangeOver
           /\ PlainEncoding(data[2]).kind = "Numeric" =>
                /\ Head(data[2]) = "Decimal128"
                /\ PlainEncoding(data[2]).scale \in Nat
<1> DEFINE inner == data[2]
           element == PlainEncoding(inner)
<1>1. /\ data = RangeFields(inner) /\ element # Refused /\ element.kind \in DOMAIN RangeOver
      /\ encoding = [kind |-> "Range", of |-> element, type |-> RangeOver[element.kind]]
  BY DEF RangeEncoding
<1>2. ASSUME element.kind = "Numeric"
      PROVE  Head(inner) = "Decimal128" /\ element.scale \in Nat
  <2> HIDE DEF inner
  <2>1. Head(inner) \notin DOMAIN FixedEncoding
    <3> SUFFICES ASSUME Head(inner) \in DOMAIN FixedEncoding PROVE FALSE
      OBVIOUS
    <3>1. element.kind = FixedEncoding[Head(inner)]
      BY DEF PlainEncoding
    <3>2. FixedEncoding[Head(inner)] # "Numeric"
      BY DEF FixedEncoding
    <3> QED
      BY <1>2, <3>1, <3>2
  <2>2. /\ Head(inner) = "Decimal128" /\ inner[3] >= 0
        /\ element = [kind |-> "Numeric", precision |-> inner[2], scale |-> inner[3]]
    BY <1>1, <1>2, <2>1 DEF PlainEncoding
  <2>3. inner[3] \in -128..127
    BY <2>2 DEF IsData, inner
  <2> QED
    BY <2>2, <2>3
<1> HIDE DEF element, inner
<1> QED
  BY <1>1, <1>2 DEF element, inner

\* What a range is written as.
LEMMA RangeBatchIsRow ==
    ASSUME NEW from, IsBatch(from), Encodes(from), Head(from.field.data) = "Struct",
           Encoding(from.field) = RangeEncoding(from.field.data)
    PROVE  IsCell(TableOf(from).column, TableOf(from).cell)
<1> DEFINE data == from.field.data
           element == PlainEncoding(data[2])
           encoding == Encoding(from.field)
           type == RangeOver[element.kind]
           item == from.item
           row == TableOf(from)
<1>1. encoding # Refused /\ IsData(data[2])
  BY DEF Encodes, IsBatch, IsField
<1>2. /\ encoding = [kind |-> "Range", of |-> element, type |-> type]
      /\ element # Refused
      /\ element.kind \in DOMAIN RangeOver
      /\ element.kind = "Numeric" => element.scale \in Nat
  BY <1>1, RangeEncodingIs
<1>3. item # None => item \in Ranges(Int)
  BY DEF IsBatch, IsItem
<1> HIDE DEF element, encoding, item, data
<1>4. type \in RangeTypes
  BY <1>2 DEF RangeTypes, RangeOver, RangeDecoding
<1>5. SqlColumn(encoding) = Unmodified(type)
  <2>1. encoding.kind = "Range" /\ encoding.type = type
    BY <1>2
  <2> QED
    BY <2>1 DEF SqlColumn, Unmodified
<1>6. /\ row.column = Unmodified(type)
      /\ row.cell = Stored(Unmodified(type), Encoded(encoding, item)) /\ row.cell # Refused
  BY <1>5 DEF TableOf, Encodes, encoding, item
<1>7. encoding.kind = "Range" /\ encoding.of = element
  BY <1>2
<1> DEFINE cell == row.cell
<1>8. CASE item = None
  <2>1. cell = None
    BY <1>6, <1>8 DEF Encoded, EncodedScalar, Stored
  <2> QED
    BY <2>1 DEF IsCell
<1>9. CASE item # None
  <2>1. type = RangeOver[element.kind]
    OBVIOUS
  <2> HIDE DEF row, type
  <2>2. IsRangeCell(type, cell)
    BY <1>2, <1>3, <1>4, <1>6, <1>7, <1>9, <2>1, StoredRangeIsCell
  <2>3. Unmodified(type).type = type
    BY DEF Unmodified
  <2>4. type \notin {"numeric", "interval", "date", "timestamp", "timestamptz", "jsonb",
                     "geometry", "geography"}
    BY <1>4 DEF RangeTypes, RangeDecoding
  <2> QED
    BY <1>6, <2>2, <2>3, <2>4 DEF IsCell, row
<1> QED
  BY <1>8, <1>9

\* Every table that the destination writes, whoever made the batch, is one that the source may
\* find: Postgres has no other values in the columns that are declared.
LEMMA WrittenTableIsRow ==
    ASSUME NEW from, IsBatch(from), Encodes(from)
    PROVE  IsRow(TableOf(from))
<1> DEFINE field == from.field
           encoding == Encoding(field)
<1>1. IsField(field) /\ encoding # Refused
  BY DEF IsBatch, Encodes
<1>2. TableOf(from).column = SqlColumn(encoding)
  BY DEF TableOf
<1>3. IsColumn(TableOf(from).column)
  BY <1>1, <1>2, DeclaredColumnIsColumn
<1> HIDE DEF encoding
<1>4. \/ \E kind \in DOMAIN FixedName : /\ encoding = [kind |-> kind]
                                        /\ \/ kind \in {"Json", "Uuid"}
                                           \/ encoding = PlainEncoding(field.data)
      \/ /\ Head(field.data) = "Binary" /\ TagName(field) = "geoarrow.wkb"
         /\ encoding = [kind |-> "Geo", epsg |-> Epsg(field.tag[2]), edges |-> field.tag[3]]
      \/ /\ Head(field.data) = "Struct"
         /\ TagName(field) = "transferred.pg_range"
         /\ encoding = RangeEncoding(field.data)
      \/ /\ Head(field.data) = "Decimal128" /\ field.data[3] >= 0
         /\ encoding = [kind |-> "Numeric", precision |-> field.data[2],
                        scale |-> field.data[3]]
  BY <1>1, EncodingKinds DEF encoding
<1>5. IsCell(TableOf(from).column, TableOf(from).cell)
  BY <1>4, FixedBatchIsRow, GeoBatchIsRow, RangeBatchIsRow, NumericBatchIsRow DEF encoding
<1> QED
  BY <1>3, <1>5 DEF IsRow

-----------------------------------------------------------------------------
(* What becomes of another producer's field. *)

\* The four tags that the destination looks at, each on the storage type it belongs on.
IsTagged(field) ==
    \/ Head(field.data) = "Utf8" /\ TagName(field) = "arrow.json"
    \/ Head(field.data) = "Binary" /\ TagName(field) = "geoarrow.wkb"
    \/ Head(field.data) = "FixedSizeBinary" /\ TagName(field) = "arrow.uuid"
    \/ Head(field.data) = "Struct" /\ TagName(field) = "transferred.pg_range"

\* What is promised of a field and of the one that it comes back as.
ComesBack(was, is) == DataComesBack(was.data, is.data) /\ TagComesBack(was, is)

\* A field that comes back with its data and its tag, or without a tag that nobody understood.
LEMMA SameField ==
    ASSUME NEW was, NEW is, DataComesBack(was.data, is.data),
           \/ /\ Head(was.data) # "Binary" \/ TagName(was) # "geoarrow.wkb"
              /\ IsTagged(was)
              /\ is.tag = was.tag
           \/ ~IsTagged(was) /\ is.tag = <<>>
    PROVE  ComesBack(was, is)
<1> DEFINE head == Head(was.data)
           name == TagName(was)
           pair == <<head, name>>
<1>1. /\ pair = <<"Utf8", "arrow.json">> <=> head = "Utf8" /\ name = "arrow.json"
      /\ pair = <<"FixedSizeBinary", "arrow.uuid">> <=> head = "FixedSizeBinary" /\ name = "arrow.uuid"
      /\ pair = <<"Struct", "transferred.pg_range">>
           <=> head = "Struct" /\ name = "transferred.pg_range"
      /\ pair = <<"Binary", "geoarrow.wkb">> <=> head = "Binary" /\ name = "geoarrow.wkb"
  OBVIOUS
<1> HIDE DEF head, name
<1>2. IsTagged(was) <=>
        \/ pair \in {<<"Utf8", "arrow.json">>, <<"FixedSizeBinary", "arrow.uuid">>,
                     <<"Struct", "transferred.pg_range">>}
        \/ pair = <<"Binary", "geoarrow.wkb">>
  BY <1>1 DEF IsTagged, head, name
<1>3. Head(was.data) # "Binary" \/ TagName(was) # "geoarrow.wkb" => pair # <<"Binary", "geoarrow.wkb">>
  BY <1>1 DEF head, name
<1>4. TagComesBack(was, is)
  <2>1. pair = <<Head(was.data), TagName(was)>>
    BY DEF head, name
  <2> HIDE DEF pair
  <2> QED
    BY <1>2, <1>3, <2>1 DEF TagComesBack
<1> QED
  BY <1>4 DEF ComesBack

\* Which of its rules Encoding::new takes.
LEMMA EncodingRule ==
    ASSUME NEW field, Encoding(field) # Refused
    PROVE  \/ /\ Head(field.data) = "Utf8" /\ TagName(field) = "arrow.json"
              /\ Encoding(field) = [kind |-> "Json"]
           \/ /\ Head(field.data) = "Binary" /\ TagName(field) = "geoarrow.wkb"
              /\ Encoding(field) = [kind |-> "Geo", epsg |-> Epsg(field.tag[2]), edges |-> field.tag[3]]
           \/ /\ field.data = <<"FixedSizeBinary", 16>> /\ TagName(field) = "arrow.uuid"
              /\ Encoding(field) = [kind |-> "Uuid"]
           \/ /\ Head(field.data) = "Struct" /\ TagName(field) = "transferred.pg_range"
              /\ Encoding(field) = RangeEncoding(field.data)
           \/ /\ ~IsTagged(field)
              /\ Encoding(field) = PlainEncoding(field.data)
<1>1. CASE Encoding(field) = PlainEncoding(field.data) /\ ~IsTagged(field)
  BY <1>1
<1>2. CASE Encoding(field) = PlainEncoding(field.data) /\ Head(field.data) = "FixedSizeBinary"
  <2>1. field.data # <<"Interval", "MonthDayNano">>
    BY <1>2
  <2>2. Head(field.data) \notin DOMAIN FixedEncoding
    BY <1>2 DEF FixedEncoding
  <2>3. PlainEncoding(field.data) = Refused
    BY <1>2, <2>1, <2>2 DEF PlainEncoding
  <2> QED
    BY <1>2, <2>3
<1>3. CASE ~(Encoding(field) = PlainEncoding(field.data)
               /\ (~IsTagged(field) \/ Head(field.data) = "FixedSizeBinary"))
  BY <1>3 DEF Encoding, IsTagged
<1> QED
  BY <1>1, <1>2, <1>3

\* Text that is tagged as JSON stays so.
LEMMA JsonComesBack ==
    ASSUME NEW field, IsField(field), Head(field.data) = "Utf8", TagName(field) = "arrow.json",
           NEW again, again = Field(Decoding(SqlColumn([kind |-> "Json"])))
    PROVE  ComesBack(field, again)
<1>1. field.data = <<"Utf8">> /\ field.tag = <<"arrow.json">>
  BY DEF IsField, IsData, FixedEncoding
<1>2. SqlColumn([kind |-> "Json"]) = Unmodified("json")
  BY KindColumn DEF FixedName
<1>3. Decoding(Unmodified("json")) = [kind |-> "Json"]
  BY DEF Decoding, Unmodified, FixedDecoding
<1>4. Field([kind |-> "Json"]) = [data |-> <<"Utf8">>, tag |-> <<"arrow.json">>]
  BY DEF Field, ArrowType, ElementArrow, FixedArrow, Tag
<1>5. again.data = field.data /\ again.tag = field.tag
  BY <1>1, <1>2, <1>3, <1>4
<1> QED
  BY <1>5, SameField DEF DataComesBack, IsTagged

\* Sixteen bytes that are tagged as a UUID stay so.
LEMMA UuidComesBack ==
    ASSUME NEW field, IsField(field), field.data = <<"FixedSizeBinary", 16>>,
           TagName(field) = "arrow.uuid",
           NEW again, again = Field(Decoding(SqlColumn([kind |-> "Uuid"])))
    PROVE  ComesBack(field, again)
<1>1. field.tag = <<"arrow.uuid">> /\ Head(field.data) = "FixedSizeBinary"
  BY DEF IsField
<1>2. SqlColumn([kind |-> "Uuid"]) = Unmodified("uuid")
  BY KindColumn DEF FixedName
<1>3. Decoding(Unmodified("uuid")) = [kind |-> "Uuid"]
  BY DEF Decoding, Unmodified, FixedDecoding
<1>4. Field([kind |-> "Uuid"]) = [data |-> <<"FixedSizeBinary", 16>>, tag |-> <<"arrow.uuid">>]
  BY DEF Field, ArrowType, ElementArrow, FixedArrow, Tag
<1>5. again.data = field.data /\ again.tag = field.tag
  BY <1>1, <1>2, <1>3, <1>4
<1> QED
  BY <1>1, <1>5, SameField DEF DataComesBack, IsTagged

\* The modifier of a declared geometry column gives back its coordinate system.
LEMMA DeclaredSrid ==
    ASSUME NEW epsg, epsg = None \/ IsSrid(epsg)
    PROVE  Srid(IF epsg = None THEN BareTypmod ELSE GeoTypmod(epsg, 0)) = epsg
<1>1. CASE epsg = None
  BY <1>1 DEF Srid
<1>2. CASE epsg # None
  <2>1. epsg \in Nat /\ epsg < 1048576 /\ epsg # 0 /\ 0 \in 0..255
    BY SMT, <1>2 DEF IsSrid
  <2> QED
    BY <1>2, <2>1, SridComesBack
<1> QED
  BY <1>1, <1>2

\* A geometry keeps its coordinate system, and edges that are a sphere's.
LEMMA GeoComesBack ==
    ASSUME NEW field, IsField(field), Head(field.data) = "Binary", TagName(field) = "geoarrow.wkb",
           NEW encoding, encoding = [kind |-> "Geo", epsg |-> Epsg(field.tag[2]), edges |-> field.tag[3]],
           NEW again, again = Field(Decoding(SqlColumn(encoding)))
    PROVE  ComesBack(field, again)
<1> DEFINE epsg == Epsg(field.tag[2])
           spherical == field.tag[3] = "spherical"
           type == IF spherical THEN "geography" ELSE "geometry"
           edges == IF spherical THEN "spherical" ELSE "planar"
           typmod == IF epsg = None THEN BareTypmod ELSE GeoTypmod(epsg, 0)
           column == [type |-> type, typmod |-> typmod]
           decoding == [kind |-> "Geo", epsg |-> epsg, edges |-> edges]
<1>1. field.data = <<"Binary">> /\ (epsg = None \/ IsSrid(epsg))
  BY DEF IsField, IsData, FixedEncoding
<1>2. SqlColumn(encoding) = column
  BY DEF SqlColumn
<1>3. Srid(typmod) = epsg
  BY <1>1, DeclaredSrid
<1> HIDE DEF epsg, typmod
<1>4. Decoding(column) = decoding
  BY <1>3 DEF Decoding, FixedDecoding, RangeDecoding, ExtensionDecoding
<1>5. /\ Field(decoding).data = <<"Binary">>
      /\ TagName(Field(decoding)) = "geoarrow.wkb"
      /\ Epsg(Field(decoding).tag[2]) = epsg
  BY GeoFieldComesBack
<1>6. Field(decoding).tag[3] = edges
  BY DEF Field, Tag, WkbTag
<1>7. again = Field(decoding)
  BY <1>2, <1>4
<1> HIDE DEF decoding, column, edges
<1>8. DataComesBack(field.data, again.data)
  BY <1>1, <1>5, <1>7 DEF DataComesBack
<1>9. TagComesBack(field, again)
  BY <1>5, <1>6, <1>7 DEF TagComesBack, epsg, edges
<1> QED
  BY <1>8, <1>9 DEF ComesBack

\* The names of the types that need no more than one.
LEMMA PlainNames ==
    \A name \in DOMAIN FixedEncoding : FixedArrow[FixedEncoding[name]] = <<name>>
<1>1. /\ FixedArrow["Bool"] = <<"Boolean">> /\ FixedArrow["Int2"] = <<"Int16">>
      /\ FixedArrow["Int4"] = <<"Int32">> /\ FixedArrow["Int8"] = <<"Int64">>
      /\ FixedArrow["Float4"] = <<"Float32">> /\ FixedArrow["Float8"] = <<"Float64">>
      /\ FixedArrow["Text"] = <<"Utf8">> /\ FixedArrow["Bytea"] = <<"Binary">>
      /\ FixedArrow["Date"] = <<"Date32">>
  BY DEF FixedArrow
<1> QED
  BY <1>1 DEF FixedEncoding

\* A plain type, but for a decimal, is what its kind stands for, or a timestamp in another zone.
LEMMA PlainDataComesBack ==
    ASSUME NEW data, IsData(data), PlainEncoding(data) # Refused,
           PlainEncoding(data).kind # "Numeric"
    PROVE  \E kind \in PlainKinds :
              /\ PlainEncoding(data) = [kind |-> kind]
              /\ DataComesBack(data, FixedArrow[kind])
              /\ kind \in {"Timestamp", "Timestamptz"} => Head(data) = "Timestamp"
              /\ kind \notin {"Timestamp", "Timestamptz"} => data = FixedArrow[kind]
              /\ Head(data) \notin {"Struct", "FixedSizeBinary"}
<1>1. CASE Head(data) \in DOMAIN FixedEncoding
  <2> DEFINE name == Head(data)
             kind == FixedEncoding[name]
  <2>1. data = <<name>> /\ PlainEncoding(data) = [kind |-> kind]
    BY <1>1 DEF IsData, PlainEncoding
  <2> HIDE DEF name
  <2>2. name \in DOMAIN FixedEncoding
    BY <1>1 DEF name
  <2>3. kind \in PlainKinds /\ kind \notin {"Timestamp", "Timestamptz"}
    BY <2>2 DEF FixedEncoding, PlainKinds
  <2>5. FixedArrow[kind] = <<name>>
    BY <2>2, PlainNames
  <2>4. name \notin {"Struct", "FixedSizeBinary"}
    BY <2>2 DEF FixedEncoding
  <2> HIDE DEF kind
  <2> QED
    BY <2>1, <2>3, <2>4, <2>5 DEF DataComesBack, name
<1>2. CASE Head(data) \notin DOMAIN FixedEncoding /\ Head(data) = "Timestamp" /\ data[2] = "us"
  <2>1. data = <<"Timestamp", "us", data[3]>>
    BY <1>2 DEF IsData
  <2>2. CASE data[3] = ""
    <3>1. PlainEncoding(data) = [kind |-> "Timestamp"]
      BY <1>2, <2>2 DEF PlainEncoding
    <3>2. FixedArrow["Timestamp"] = data /\ "Timestamp" \in PlainKinds
      BY <2>1, <2>2 DEF FixedArrow, PlainKinds
    <3> QED
      BY <1>2, <3>1, <3>2 DEF DataComesBack
  <2>3. CASE data[3] # ""
    <3>1. PlainEncoding(data) = [kind |-> "Timestamptz"]
      BY <1>2, <2>3 DEF PlainEncoding
    <3>2. "Timestamptz" \in PlainKinds
      BY DEF PlainKinds
    <3>3. DataComesBack(data, FixedArrow["Timestamptz"])
      BY <1>2, <2>3 DEF DataComesBack
    <3> QED
      BY <1>2, <3>1, <3>2, <3>3
  <2> QED
    BY <2>2, <2>3
<1>3. CASE data = <<"Interval", "MonthDayNano">>
  <2>1. Head(data) = "Interval" /\ "Interval" \notin DOMAIN FixedEncoding
    BY <1>3 DEF FixedEncoding
  <2>2. PlainEncoding(data) = [kind |-> "Interval"]
    BY <1>3, <2>1 DEF PlainEncoding
  <2>3. "Interval" \in PlainKinds /\ FixedArrow["Interval"] = data
    BY <1>3 DEF PlainKinds, FixedArrow
  <2> QED
    BY <2>1, <2>2, <2>3 DEF DataComesBack
<1>4. CASE /\ Head(data) \notin DOMAIN FixedEncoding
           /\ ~(Head(data) = "Timestamp" /\ data[2] = "us")
           /\ data # <<"Interval", "MonthDayNano">>
  <2>1. PlainEncoding(data) = [kind |-> "Numeric", precision |-> data[2], scale |-> data[3]]
    BY <1>4 DEF PlainEncoding
  <2> QED
    BY <2>1
<1> QED
  BY <1>1, <1>2, <1>3, <1>4

\* A field without a tag that is understood keeps its data type and has no tag.
LEMMA PlainComesBack ==
    ASSUME NEW field, IsField(field), ~IsTagged(field),
           NEW encoding, encoding = PlainEncoding(field.data), encoding # Refused,
           NEW decoding, decoding = Decoding(SqlColumn(encoding)), decoding # Refused,
           NEW again, again = Field(decoding)
    PROVE  ComesBack(field, again)
<1> DEFINE data == field.data
<1>1. IsData(data)
  BY DEF IsField
<1>2. CASE encoding.kind # "Numeric"
  <2>1. PICK kind \in PlainKinds : /\ encoding = [kind |-> kind]
                                  /\ DataComesBack(data, FixedArrow[kind])
    BY <1>1, <1>2, PlainDataComesBack
  <2>2. kind \in DOMAIN FixedName /\ FixedName[kind] \in DOMAIN FixedDecoding
        /\ FixedDecoding[FixedName[kind]] = kind
    BY DEF PlainKinds, FixedName, FixedDecoding
  <2>3. SqlColumn(encoding) = Unmodified(FixedName[kind])
    BY <2>1, <2>2, KindColumn
  <2>4. Unmodified(FixedName[kind]).type = FixedName[kind]
    BY DEF Unmodified
  <2>5. Decoding(Unmodified(FixedName[kind])) = [kind |-> kind]
    BY <2>2, <2>4 DEF Decoding
  <2>6. again = Field([kind |-> kind])
    BY <2>3, <2>5
  <2>7. again.data = FixedArrow[kind] /\ again.tag = <<>>
    <3>1. Field([kind |-> kind]) = [data |-> FixedArrow[kind], tag |-> <<>>]
      BY PlainField
    <3>2. again = [data |-> FixedArrow[kind], tag |-> <<>>]
      BY <2>6, <3>1
    <3> QED
      BY <3>2
  <2> QED
    BY <2>1, <2>7, SameField
<1>3. CASE encoding.kind = "Numeric"
  <2> DEFINE p == data[2]
             s == data[3]
  <2>1. /\ Head(data) = "Decimal128" /\ s >= 0
        /\ encoding = [kind |-> "Numeric", precision |-> p, scale |-> s]
    <3>1. Head(data) \notin DOMAIN FixedEncoding
      <4> SUFFICES ASSUME Head(data) \in DOMAIN FixedEncoding PROVE FALSE
        OBVIOUS
      <4>1. encoding.kind = FixedEncoding[Head(data)]
        BY DEF PlainEncoding
      <4>2. FixedEncoding[Head(data)] # "Numeric"
        BY DEF FixedEncoding
      <4> QED
        BY <1>3, <4>1, <4>2
    <3> QED
      BY <1>3, <3>1 DEF PlainEncoding
  <2>2. data = <<"Decimal128", p, s>> /\ p \in 1..MaxPrecision /\ s \in -128..127
    BY <1>1, <2>1 DEF IsData
  <2>3. /\ p \in 1..1000 /\ s \in NumericScales /\ p \in Nat /\ s \in Nat
    <3>1. MaxPrecision \in 1..127
      BY MapAssumption
    <3> HIDE DEF p, s
    <3> QED
      BY SMT, <2>1, <2>2, <3>1 DEF NumericScales
  <2> HIDE DEF p, s, data
  <2>4. /\ PackedPrecision(NumericTypmod(p, s)) = p
        /\ PackedScale(NumericTypmod(p, s)) = s
    BY <2>3, NumericTypmodComesBack
  <2>5. NumericTypmod(p, s) # BareTypmod
    BY SMT, <2>3 DEF NumericTypmod, BareTypmod
  <2>6. SqlColumn(encoding).type = "numeric" /\ SqlColumn(encoding).typmod = NumericTypmod(p, s)
    BY <2>1 DEF SqlColumn
  <2>7. decoding = DeclaredNumeric(NumericTypmod(p, s))
    BY <2>5, <2>6 DEF Decoding, FixedDecoding, NumericDecoding
  <2>8. decoding = [kind |-> "Numeric", precision |-> p, scale |-> s]
    BY <2>4, <2>7 DEF DeclaredNumeric
  <2>9. again = [data |-> <<"Decimal128", p, s>>, tag |-> <<>>]
    BY <2>3, <2>8, NumericFieldComesBack
  <2>10. again.data = field.data /\ again.tag = <<>>
    BY <2>2, <2>9 DEF data
  <2> QED
    BY <2>10, SameField DEF DataComesBack
<1> QED
  BY <1>2, <1>3

\* A range keeps its element, but for the digits of decimals and the zone of timestamps.
LEMMA RangeComesBack ==
    ASSUME NEW field, IsField(field), Head(field.data) = "Struct",
           TagName(field) = "transferred.pg_range",
           NEW encoding, encoding = RangeEncoding(field.data), encoding # Refused,
           NEW again, again = Field(Decoding(SqlColumn(encoding)))
    PROVE  ComesBack(field, again)
<1> DEFINE inner == field.data[2]
           element == PlainEncoding(inner)
           type == RangeOver[element.kind]
<1>1. IsData(inner) /\ field.tag = <<"transferred.pg_range">>
  BY DEF IsField
<1>2. /\ field.data = RangeFields(inner)
      /\ encoding = [kind |-> "Range", of |-> element, type |-> type]
      /\ element # Refused /\ element.kind \in DOMAIN RangeOver
      /\ element.kind = "Numeric" => Head(inner) = "Decimal128"
  BY <1>1, RangeEncodingIs
<1>3. SqlColumn(encoding) = Unmodified(type) /\ Unmodified(type).type = type
  <2>1. encoding.kind = "Range" /\ encoding.type = type
    BY <1>2
  <2> QED
    BY <2>1 DEF SqlColumn, Unmodified
<1>4. CASE element.kind = "Numeric"
  <2>1. type = "numrange"
    BY <1>4 DEF RangeOver
  <2> DEFINE decoding == [kind |-> "Range", of |-> BareNumeric]
  <2>2. /\ Field(decoding).data = RangeFields(<<"Decimal128", MaxPrecision, BareScale>>)
        /\ \A column : column.type = "numrange" => Decoding(column) = decoding
    BY NumrangeSettlesOn
  <2>3. again = Field(decoding)
    BY <1>3, <2>1, <2>2
  <2>4. Field(decoding).tag = <<"transferred.pg_range">>
    BY DEF Field, Tag
  <2>5. /\ Head(again.data) = "Struct" /\ Head(again.data[2]) = "Decimal128"
        /\ again.tag = field.tag
    BY <1>1, <2>2, <2>3, <2>4 DEF RangeFields
  <2>6. DataComesBack(field.data, again.data)
    BY <1>2, <1>4, <2>5 DEF DataComesBack
  <2> QED
    BY <2>5, <2>6, SameField DEF IsTagged
<1>5. CASE element.kind # "Numeric"
  <2>1. PICK kind \in PlainKinds :
          /\ element = [kind |-> kind]
          /\ kind \in {"Timestamp", "Timestamptz"} => Head(inner) = "Timestamp"
          /\ kind \notin {"Timestamp", "Timestamptz"} => inner = FixedArrow[kind]
    BY <1>1, <1>2, <1>5, PlainDataComesBack
  <2>2. element.kind = kind /\ kind \in DOMAIN RangeOver /\ kind # "Numeric"
    BY <1>2, <1>5, <2>1
  <2>3. type \in DOMAIN RangeDecoding /\ RangeDecoding[type] = kind
    BY <2>2 DEF RangeOver, RangeDecoding
  <2> HIDE DEF type
  <2> DEFINE of == [kind |-> kind]
             decoding == [kind |-> "Range", of |-> of]
  <2>4. /\ Field(decoding).data = RangeFields(FixedArrow[of.kind])
        /\ \A column : column.type = type => Decoding(column) = decoding
    BY <2>3, KindRangeSettlesOn
  <2>5. again = Field(decoding)
    BY <1>3, <2>4
  <2>6. Field(decoding).tag = <<"transferred.pg_range">>
    BY DEF Field, Tag
  <2>7. again.data = RangeFields(FixedArrow[kind]) /\ again.tag = field.tag
    BY <1>1, <2>4, <2>5, <2>6
  <2>8. DataComesBack(field.data, again.data)
    <3>1. CASE kind \in {"Timestamp", "Timestamptz"}
      <4>1. Head(FixedArrow[kind]) = "Timestamp"
        <5>1. Head(FixedArrow["Timestamp"]) = "Timestamp" /\ Head(FixedArrow["Timestamptz"]) = "Timestamp"
          BY DEF FixedArrow
        <5> QED
          BY <3>1, <5>1
      <4>2. Head(again.data) = "Struct" /\ Head(again.data[2]) = "Timestamp"
        BY <2>7, <4>1 DEF RangeFields
      <4> QED
        BY <2>1, <3>1, <4>2 DEF DataComesBack
    <3>2. CASE kind \notin {"Timestamp", "Timestamptz"}
      BY <1>2, <2>1, <2>7, <3>2 DEF DataComesBack
    <3> QED
      BY <3>1, <3>2
  <2> QED
    BY <2>7, <2>8, SameField DEF IsTagged
<1> QED
  BY <1>4, <1>5

\* Whatever field the destination takes, the source makes the same of the column it declares.
LEMMA FieldComesBack ==
    ASSUME NEW field, IsField(field), Encoding(field) # Refused,
           Decoding(SqlColumn(Encoding(field))) # Refused
    PROVE  ComesBack(field, Field(Decoding(SqlColumn(Encoding(field)))))
  BY EncodingRule, JsonComesBack, UuidComesBack, GeoComesBack, RangeComesBack, PlainComesBack

-----------------------------------------------------------------------------
(* The trip. *)

\* Which side the value is on tells how often it has moved, and whether it was ever read.
Turns ==
    /\ legs \in Nat /\ read \in BOOLEAN
    /\ at = "batch" => (read <=> legs >= 1)
    /\ at = "table" => (read <=> legs >= 2)

\* What each side is handed is what the other may make of anything.
Provenance ==
    /\ at = "table" => IsRow(table)
    /\ at = "batch" => IsBatch(batch)

\* A batch that was read is what its origin reads as; once the origin is a copy itself, it is
\* also what the batch is written as.
Origins ==
    at = "batch" /\ read =>
        /\ IsRow(origin) /\ Decodes(origin) /\ batch = BatchOf(origin)
        /\ legs >= 3 => TableOf(batch) = origin

\* A table that was written is what its batch is written as, and a copy is one of its origin.
Copies ==
    /\ IsCopy => IsRow(origin) /\ Decodes(origin) /\ table = Copy(origin)
    /\ at = "table" /\ legs = 1 => IsBatch(batch) /\ Encodes(batch) /\ table = TableOf(batch)

\* The properties speak of one table, one batch or one step; what they rely on is where the table
\* and the batch came from.
TripInv == Turns /\ Provenance /\ Origins /\ Copies

\* A trip starts with a row or a batch, unread.
LEMMA TripInit == Init => TripInv
<1> SUFFICES ASSUME Init PROVE TripInv
  OBVIOUS
<1>1. legs = 0 /\ read = FALSE
  BY DEF Init
<1>2. Turns
  <2>1. legs \in Nat /\ ~(legs >= 1) /\ ~(legs >= 2)
    BY SMT, <1>1
  <2> QED
    BY <1>1, <2>1 DEF Turns
<1>3. Provenance
  <2>1. CASE at = "table" /\ table \in Tables
    BY <2>1, TripAssumption DEF Provenance, IsRow
  <2>2. CASE at = "batch" /\ batch \in Batches
    BY <2>2, TripAssumption DEF Provenance, IsBatch
  <2> QED
    BY <2>1, <2>2 DEF Init
<1>4. Origins /\ Copies
  BY <1>1 DEF Origins, Copies, IsCopy
<1> QED
  BY <1>2, <1>3, <1>4 DEF TripInv

\* A read hands over a batch, and remembers of which table.
LEMMA ReadKeeps ==
    ASSUME TripInv, Read
    PROVE  TripInv'
<1>1. /\ at = "table" /\ at' = "batch" /\ read' = TRUE /\ origin' = table /\ batch' = BatchOf(table)
      /\ legs' = legs + 1 /\ Decodes(table)
  BY DEF Read
<1>2. legs \in Nat /\ (read <=> legs >= 2) /\ IsRow(table)
  BY <1>1 DEF TripInv, Turns, Provenance
<1>3. legs' \in Nat /\ legs' >= 1 /\ (legs' >= 3 => legs >= 2)
  BY SMT, <1>1, <1>2
<1>4. Turns'
  BY <1>1, <1>3 DEF Turns
<1>5. Provenance'
  BY <1>1, <1>2, DecodedRowIsBatch DEF Provenance
<1>6. ASSUME legs' >= 3
      PROVE  TableOf(BatchOf(table)) = table
  <2>1. IsCopy
    BY <1>1, <1>2, <1>3, <1>6 DEF IsCopy
  <2>2. IsRow(origin) /\ Decodes(origin) /\ table = Copy(origin)
    BY <2>1 DEF TripInv, Copies
  <2>3. Copy(table) = table
    BY <2>2, RowTrips DEF Trips, Settles
  <2> QED
    BY <2>3 DEF Copy
<1>7. Origins'
  BY <1>1, <1>2, <1>6 DEF Origins
<1>8. Copies'
  BY <1>1 DEF Copies, IsCopy
<1> QED
  BY <1>4, <1>5, <1>7, <1>8 DEF TripInv

\* A write hands over a row, and leaves the batch and its origin to tell what of.
LEMMA WriteKeeps ==
    ASSUME TripInv, Write
    PROVE  TripInv'
<1>1. /\ at = "batch" /\ at' = "table" /\ read' = read /\ origin' = origin /\ batch' = batch
      /\ table' = TableOf(batch) /\ legs' = legs + 1 /\ Encodes(batch)
  BY DEF Write
<1>2. legs \in Nat /\ read \in BOOLEAN /\ (read <=> legs >= 1) /\ IsBatch(batch)
  BY <1>1 DEF TripInv, Turns, Provenance
<1>3. legs' \in Nat /\ (legs' >= 2 <=> legs >= 1)
  BY SMT, <1>1, <1>2
<1>4. Turns'
  BY <1>1, <1>2, <1>3 DEF Turns
<1>5. Provenance'
  BY <1>1, <1>2, WrittenTableIsRow DEF Provenance
<1>6. Origins'
  BY <1>1 DEF Origins
<1>7. ASSUME read
      PROVE  IsRow(origin) /\ Decodes(origin) /\ TableOf(batch) = Copy(origin)
  BY <1>1, <1>7 DEF TripInv, Origins, Copy
<1>8. Copies'
  BY <1>1, <1>2, <1>7 DEF Copies, IsCopy
<1> QED
  BY <1>4, <1>5, <1>6, <1>8 DEF TripInv

\* Each side keeps what the other relies on; a refusal ends the trip.
LEMMA TripStep == TripInv /\ [Next]_vars => TripInv'
<1> SUFFICES ASSUME TripInv, [Next]_vars PROVE TripInv'
  OBVIOUS
<1>1. CASE Read
  BY <1>1, ReadKeeps
<1>2. CASE Write
  BY <1>2, WriteKeeps
<1>3. CASE ReadRefused \/ WriteRefused
  <2>1. at' = "refused" /\ legs' = legs + 1 /\ read' = read
    BY <1>3 DEF ReadRefused, WriteRefused
  <2>2. legs' \in Nat /\ read' \in BOOLEAN
    BY <2>1 DEF TripInv, Turns
  <2> QED
    BY <2>1, <2>2 DEF TripInv, Turns, Provenance, Origins, Copies, IsCopy
<1>4. CASE UNCHANGED vars
  BY <1>4 DEF vars, TripInv, Turns, Provenance, Origins, Copies, IsCopy
<1> QED
  BY <1>1, <1>2, <1>3, <1>4 DEF Next, Done

\* So it is all the way.
LEMMA TripInvariant == Spec => []TripInv
  BY TripInit, TripStep, PTL DEF Spec

\* A copy, and a copy of a copy, has the type that the documentation promises for the column it
\* was read from, the digits of its numerics and the coordinate system of its geometries, for
\* every type, modifier and value: Decoding::new and Encoding::new agree.
THEOREM CopiesKeepTheirType == Spec => []CopyKeepsType
<1>1. TripInv => CopyKeepsType
  <2> SUFFICES ASSUME TripInv, IsCopy PROVE IsCopyOf(table.column, origin.column)
    BY DEF CopyKeepsType, IsCopyOf
  <2>1. IsRow(origin) /\ Decodes(origin) /\ table = Copy(origin)
    BY DEF TripInv, Copies
  <2>2. Encodes(BatchOf(origin))
    BY <2>1, RowTrips DEF Trips, Settles
  <2>3. /\ IsColumn(origin.column) /\ Decoding(origin.column) # Refused
        /\ Encoding(Field(Decoding(origin.column))) # Refused
    BY <2>1, <2>2 DEF IsRow, Decodes, Encodes, BatchOf
  <2>4. table.column = CopyOf(origin.column)
    BY <2>1 DEF Copy, TableOf, BatchOf, CopyOf
  <2> QED
    BY <2>3, <2>4, ColumnCopy
<1> QED
  BY <1>1, TripInvariant, PTL

\* No batch that the source makes holds a decimal with more digits than its type, whatever the
\* numeric it came from, or marks a bound inclusive that is infinite.
THEOREM BatchesAreValid == Spec => []BatchIsValid
<1>1. TripInv => BatchIsValid
  <2> SUFFICES ASSUME TripInv, at = "batch", read, batch.item # None
               PROVE  LET data == batch.field.data
                          item == batch.item
                      IN IF Head(data) = "Struct"
                         THEN /\ FitsDecimal(data[2], item.lower)
                              /\ FitsDecimal(data[2], item.upper)
                              /\ item.lower = None => ~item.lower_inc
                              /\ item.upper = None => ~item.upper_inc
                         ELSE FitsDecimal(data, item)
    BY DEF BatchIsValid
  <2>1. IsRow(origin) /\ Decodes(origin) /\ batch = BatchOf(origin)
    BY DEF TripInv, Origins
  <2>2. IsValid(batch)
    BY <2>1, RowTrips DEF Trips
  <2> QED
    BY <2>2 DEF IsValid
<1> QED
  BY <1>1, TripInvariant, PTL

\* What arrives is what was sent: for every decimal of any scale the nearest one of nine digits,
\* or the decimal itself where a scale was declared, for every range its bounds or, once rounded
\* onto one another, nothing, for all else the value.
THEOREM CopiesKeepTheirValue == Spec => []CopyKeepsValue
<1>1. TripInv => CopyKeepsValue
  <2> SUFFICES ASSUME TripInv, IsCopy PROVE KeepsValue(table.cell, origin)
    BY DEF CopyKeepsValue, KeepsValue
  <2>1. IsRow(origin) /\ Decodes(origin) /\ table = Copy(origin)
    BY DEF TripInv, Copies
  <2> QED
    BY <2>1, RowTrips DEF Trips
<1> QED
  BY <1>1, TripInvariant, PTL

\* The destination refuses nothing that the source has read, the source reads every copy, and
\* what a copy is copied to is itself: a second transfer changes and loses nothing more.
THEOREM CopiesSettle == Spec => SettlesAtOnce
<1> DEFINE Step == /\ at = "batch" /\ read => at' # "refused"
                   /\ IsCopy => at' # "refused"
                   /\ IsCopy' /\ legs >= 3 => table' = origin
<1>1. TripInv /\ [Next]_vars => [Step]_vars
  <2> SUFFICES ASSUME TripInv, Next, vars' # vars PROVE Step
    OBVIOUS
  <2>1. CASE Read
    BY <2>1 DEF Read, IsCopy
  <2>2. CASE Write
    <3>1. /\ at = "batch" /\ at' = "table" /\ read' = read /\ table' = TableOf(batch)
      BY <2>2 DEF Write
    <3>2. read /\ legs >= 3 => TableOf(batch) = origin
      BY <3>1 DEF TripInv, Origins
    <3> QED
      BY <3>1, <3>2 DEF IsCopy
  <2>3. CASE ReadRefused
    <3>1. at = "table" /\ at' = "refused" /\ ~Decodes(table)
      BY <2>3 DEF ReadRefused
    <3>2. ~IsCopy
      <4> SUFFICES ASSUME IsCopy PROVE FALSE
        OBVIOUS
      <4>1. IsRow(origin) /\ Decodes(origin) /\ table = Copy(origin)
        BY DEF TripInv, Copies
      <4> QED
        BY <3>1, <4>1, RowTrips DEF Trips, Settles
    <3> QED
      BY <3>1, <3>2 DEF IsCopy
  <2>4. CASE WriteRefused
    <3>1. at = "batch" /\ at' = "refused" /\ ~Encodes(batch)
      BY <2>4 DEF WriteRefused
    <3>2. ~read
      <4> SUFFICES ASSUME read PROVE FALSE
        OBVIOUS
      <4>1. IsRow(origin) /\ Decodes(origin) /\ batch = BatchOf(origin)
        BY <3>1 DEF TripInv, Origins
      <4> QED
        BY <3>1, <4>1, RowTrips DEF Trips, Settles
    <3> QED
      BY <3>1, <3>2 DEF IsCopy
  <2> QED
    BY <2>1, <2>2, <2>3, <2>4 DEF Next, Done, vars
<1> QED
  BY <1>1, TripInvariant, PTL DEF Spec, SettlesAtOnce

\* Whatever Arrow field the destination takes, its table reads as that field again, but for the
\* zone of a timestamp, the digits of a range of decimals and the tags that nobody knows.
THEOREM FieldsComeBackAsTheyWere == Spec => FieldsComeBack
<1> DEFINE Step == legs = 1 /\ at = "table" /\ at' = "batch" =>
                      /\ DataComesBack(batch.field.data, batch'.field.data)
                      /\ TagComesBack(batch.field, batch'.field)
<1>1. TripInv /\ [Next]_vars => [Step]_vars
  <2> SUFFICES ASSUME TripInv, Next, legs = 1, at = "table", at' = "batch"
               PROVE  ComesBack(batch.field, batch'.field)
    BY DEF ComesBack
  <2>1. Read
    BY DEF Next, Read, ReadRefused, Write, WriteRefused, Done, vars
  <2>2. Decodes(table) /\ batch' = BatchOf(table)
    BY <2>1 DEF Read
  <2>3. IsBatch(batch) /\ Encodes(batch) /\ table = TableOf(batch)
    BY DEF TripInv, Copies
  <2>4. /\ IsField(batch.field) /\ Encoding(batch.field) # Refused
        /\ table.column = SqlColumn(Encoding(batch.field))
        /\ Decoding(table.column) # Refused
        /\ batch'.field = Field(Decoding(table.column))
    BY <2>2, <2>3 DEF IsBatch, Encodes, Decodes, TableOf, BatchOf
  <2> QED
    BY <2>4, FieldComesBack
<1> QED
  BY <1>1, TripInvariant, PTL DEF Spec, FieldsComeBack

\* A batch nobody has read out of a table yet is one that another producer made.
Foreign == at = "batch" /\ ~read => batch \in Batches

LEMMA ForeignInvariant == Spec => []Foreign
<1>1. Init => Foreign
  BY DEF Init, Foreign
<1>2. Foreign /\ [Next]_vars => Foreign'
  BY DEF Foreign, Next, Read, ReadRefused, Write, WriteRefused, Done, vars
<1> QED
  BY <1>1, <1>2, PTL DEF Spec

\* Plain bytes are taken as they are; of a planar geometry only one is refused whose own SRID
\* is not the one its column was declared with.
LEMMA BinaryIsTaken ==
    ASSUME NEW from \in Batches, ~Encodes(from), Head(from.field.data) = "Binary",
           TagName(from.field) = "geoarrow.wkb" => from.field.tag[3] # "spherical"
    PROVE  /\ TagName(from.field) = "geoarrow.wkb"
           /\ from.field.tag[2].spelled = "authority"
           /\ from.item.srid \notin {0, from.field.tag[2].epsg}
<1> DEFINE field == from.field
           item == from.item
           epsg == Epsg(field.tag[2])
<1>1. IsField(field) /\ IsItem(field, item)
  BY TripAssumption
<1>2. item # Refused
  BY <1>1, MapAssumption DEF IsItem
<1>3. /\ field.data = <<"Binary">>
      /\ field.data # <<"FixedSizeBinary", 16>>
  BY <1>1 DEF IsField, IsData, FixedEncoding
<1>4. CASE TagName(field) # "geoarrow.wkb"
  <2> DEFINE bytes == [kind |-> "Bytea"]
  <2>1. Encoding(field) = bytes
    BY <1>3, <1>4 DEF Encoding, PlainEncoding, FixedEncoding
  <2>2. bytes # Refused
    BY CodingIsNoError DEF FixedArrow
  <2>3. SqlColumn(bytes).type = "bytea"
    BY DEF SqlColumn, FixedName
  <2>4. Encoded(bytes, item) = item
    BY DEF Encoded, EncodedScalar
  <2>5. ASSUME NEW column, column.type = "bytea"
        PROVE  Stored(column, item) = item
    BY <2>5 DEF Stored
  <2> QED
    BY <1>2, <2>1, <2>2, <2>3, <2>4, <2>5 DEF Encodes, TableOf
<1>5. CASE TagName(field) = "geoarrow.wkb"
  <2> DEFINE geo == [kind |-> "Geo", epsg |-> epsg, edges |-> field.tag[3]]
             column == [type |-> "geometry",
                        typmod |-> IF epsg = None THEN BareTypmod ELSE GeoTypmod(epsg, 0)]
  <2>1. Encoding(field) = geo
    BY <1>3, <1>5 DEF Encoding
  <2>2. epsg = None \/ IsSrid(epsg)
    BY <1>1, <1>3, <1>5 DEF IsField
  <2>3. SqlColumn(geo) = column
    BY <1>5 DEF SqlColumn
  <2>4. Encoded(geo, item) = item
    BY DEF Encoded, EncodedScalar
  <2>5. geo # Refused
    <3>1. epsg \in Int \cup {None} /\ field.tag[3] \in EdgeKinds
      BY SMT, <1>1, <1>3, <1>5, <2>2 DEF IsField, IsSrid
    <3> QED
      BY <3>1, CodingIsNoError
  <2>6. Stored(column, item) = Refused
    BY <2>1, <2>3, <2>4, <2>5 DEF Encodes, TableOf
  <2>7. item # None
    BY <2>6, MapAssumption DEF Stored
  <2> HIDE DEF column, epsg
  <2>8. epsg # None
    <3> SUFFICES ASSUME epsg = None PROVE FALSE
      OBVIOUS
    <3>1. column.type = "geometry" /\ Srid(column.typmod) = None
      BY DEF column, Srid
    <3> QED
      BY <1>2, <2>6, <3>1 DEF Stored
  <2>9. column.type = "geometry" /\ Srid(column.typmod) = epsg
    <3>1. epsg \in Nat /\ epsg < 1048576 /\ epsg # 0 /\ 0 \in 0..255
      BY SMT, <2>2, <2>8 DEF IsSrid
    <3>2. Srid(GeoTypmod(epsg, 0)) = epsg
      BY <3>1, SridComesBack
    <3> QED
      BY <2>8, <3>2 DEF column
  <2>10. Stored(column, item) = IF item.srid = 0 THEN [item EXCEPT !.srid = epsg]
                                ELSE IF item.srid = epsg THEN item
                                ELSE Refused
    BY <1>2, <2>7, <2>8, <2>9 DEF Stored
  <2>11. Refused # [item EXCEPT !.srid = epsg]
    BY <1>5, <2>7, StampAssumption DEF epsg
  <2>12. item.srid \notin {0, epsg}
    BY <1>2, <2>6, <2>10, <2>11
  <2>13. field.tag[2].spelled = "authority" /\ epsg = field.tag[2].epsg
    BY <2>8 DEF epsg, Epsg
  <2> QED
    BY <1>5, <2>12, <2>13
<1> QED
  BY <1>4, <1>5

\* Of the plain bytes and planar geometries of any producer the server refuses only a geometry
\* whose own SRID contradicts the authority code its field gives: no coordinate system that is
\* spelled another way is declared and then enforced.
THEOREM ForeignGeometriesAreTaken == Spec => ForeignGeometriesLoad
<1> DEFINE Step == LET tag == batch.field.tag
                   IN /\ at = "batch" /\ ~read /\ at' = "refused"
                      /\ Head(batch.field.data) = "Binary"
                      /\ TagName(batch.field) = "geoarrow.wkb" => tag[3] # "spherical"
                      => /\ TagName(batch.field) = "geoarrow.wkb"
                         /\ tag[2].spelled = "authority"
                         /\ batch.item.srid \notin {0, tag[2].epsg}
<1>1. Foreign /\ [Next]_vars => [Step]_vars
  <2> SUFFICES ASSUME Foreign, Next,
                      at = "batch", ~read, at' = "refused", Head(batch.field.data) = "Binary",
                      TagName(batch.field) = "geoarrow.wkb" => batch.field.tag[3] # "spherical"
               PROVE  /\ TagName(batch.field) = "geoarrow.wkb"
                      /\ batch.field.tag[2].spelled = "authority"
                      /\ batch.item.srid \notin {0, batch.field.tag[2].epsg}
    OBVIOUS
  <2>1. ~Encodes(batch)
    BY DEF Next, Read, ReadRefused, Write, WriteRefused, Done, vars
  <2>2. batch \in Batches
    BY DEF Foreign
  <2> QED
    BY <2>1, <2>2, BinaryIsTaken
<1> QED
  BY <1>1, ForeignInvariant, PTL DEF Spec, ForeignGeometriesLoad
=============================================================================
