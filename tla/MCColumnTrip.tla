---------------------------- MODULE MCColumnTrip ----------------------------
(* Columns and values for TLC. The decimal world is scaled down: a mantissa of at most 792 and     *)
(* a scale of 2 stand for 2^96 and 28, four digits for the 38 of Decimal128, scale 1 for bare      *)
(* numeric's 9.                                                                                    *)
EXTENDS ColumnTrip

MCCalendar == -2..2
MCPgCalendar == -1..3

Column(type) == [type |-> type, typmod |-> BareTypmod]

Rows(columns, cells) == [column : columns, cell : cells \cup {None}]

Mantissas == {-25, -15, -5, -4, 0, 4, 5, 14, 15, 121, 124, 125, 792}

Decimals(scales) == [mantissa : Mantissas, scale : scales]

\* numeric(p,s) as Postgres declares them, those Decimal128 or the mapping refuses among them.
Declared == {<<3, 0>>, <<3, 1>>, <<3, 2>>, <<4, 2>>, <<2, 2>>, <<5, 2>>, <<3, -1>>, <<1, 2>>}

NumericColumn(p, s) == [type |-> "numeric", typmod |-> NumericTypmod(p, s)]

NumericRows ==
    Rows({Column("numeric")}, Decimals(0..2) \cup {Unreadable})
      \cup UNION {Rows({NumericColumn(d[1], d[2])},
                       {c \in Decimals({IF d[2] < 0 THEN 0 ELSE d[2]}) : Abs(c.mantissa) < PowerOfTen[d[1]]}) : d \in Declared}

\* Every pair of brackets; [a,a] is the only range with equal bounds.
Finite(lows, highs, inclusives) ==
    {PgRange(l, h, li, ui, FALSE) : l \in lows, h \in highs, li \in inclusives, ui \in inclusives}

Half(lows, inclusives) ==
    {PgRange(l, None, li, FALSE, FALSE) : l \in lows, li \in inclusives}
      \cup {PgRange(None, l, FALSE, li, FALSE) : l \in lows, li \in inclusives}

Unbounded == {EmptyRange, PgRange(None, None, FALSE, FALSE, FALSE)}

WholeRanges ==
    {PgRange(0, 2, TRUE, FALSE, FALSE), PgRange(1, None, TRUE, FALSE, FALSE),
     PgRange(None, 1, FALSE, FALSE, FALSE)} \cup Unbounded

ContinuousRanges == Finite({0}, {1}, BOOLEAN) \cup Half({1}, BOOLEAN) \cup Unbounded
                      \cup {PgRange(1, 1, TRUE, TRUE, FALSE)}

Cents(n) == [mantissa |-> n, scale |-> 2]

NumericRanges == Finite({Cents(121)}, {Cents(124), Cents(125)}, BOOLEAN)
                   \cup Half({Cents(-25), [mantissa |-> 792, scale |-> 0]}, BOOLEAN) \cup Unbounded

RangeRows ==
    Rows({Column(t) : t \in DiscreteRanges}, WholeRanges)
      \cup Rows({Column(t) : t \in {"tsrange", "tstzrange"}},
               ContinuousRanges \cup {PgRange(1, Unreadable, TRUE, FALSE, FALSE)})
      \cup Rows({Column("numrange")}, NumericRanges)

\* Shapes 0 and 4 are any geometry and a point, without Z and M; 1 and 6 carry one of them.
GeoRows ==
    UNION {Rows({[type |-> t, typmod |-> GeoTypmod(s, shape)] : shape \in {0, 1, 4, 6}},
                {[ewkb |-> "point", srid |-> s]}) :
             t \in {"geometry", "geography"}, s \in {0, 3, 1048575}}
      \cup Rows({Column("geometry"), Column("geography")}, [ewkb : {"point"}, srid : {0, 3, 5}])

PlainRows ==
    Rows({Column(t) : t \in {"bool", "int2", "int4", "int8", "float4", "float8", "bytea", "uuid",
                             "enum", "citext", "macaddr", "hstore"}}, {"value"})
      \cup Rows({Column(t) : t \in {"text", "varchar", "bpchar", "name", "json"}},
                {"value", Unreadable})
      \cup Rows({Column("jsonb")}, [version : {1, 2}, text : {"value"}])
      \cup Rows({Column(t) : t \in {"date", "timestamp", "timestamptz"}},
                MCPgCalendar \cup {Unreadable})
      \cup Rows({Column("interval")}, -8..7)

MCTables == NumericRows \cup RangeRows \cup GeoRows \cup PlainRows

-----------------------------------------------------------------------------

Items(data, tags, items) == [field : [data : {data}, tag : tags], item : items \cup {None}]

Untagged == {<<>>}
RangeTag == {<<"transferred.pg_range">>, <<>>}

Crs == [spelled : {"authority", "projjson", "unknown"}, epsg : {3}]
         \cup {[spelled |-> "absent", epsg |-> None]}

Zoned == <<"Timestamp", "us", "Europe/Kyiv">>

MCBatches ==
    UNION {Items(<<t>>, Untagged, {"value"}) :
             t \in {"Boolean", "Int16", "Int32", "Int64", "Float32", "Float64", "UInt16",
                    "LargeUtf8"}}
      \cup Items(<<"Utf8">>, {<<>>, <<"arrow.json">>, <<"arrow.uuid">>}, {"value"})
      \cup Items(<<"FixedSizeBinary", 16>>, {<<>>, <<"arrow.uuid">>}, {"value"})
      \cup Items(<<"FixedSizeBinary", 4>>, {<<>>}, {"value"})
      \cup Items(<<"Binary">>, {<<>>, <<"arrow.opaque", "macaddr">>}, {"value"})
      \cup Items(<<"Binary">>, {<<"geoarrow.wkb", c, e>> : c \in Crs, e \in {"planar", "spherical", "vincenty"}},
                 [ewkb : {"point"}, srid : {0, 3, 5}])
      \cup UNION {Items(d, Untagged, -3..3) :
                    d \in {<<"Date32">>, Zoned, <<"Timestamp", "us", "">>,
                           <<"Timestamp", "ms", "">>}}
      \cup Items(<<"Interval", "MonthDayNano">>, Untagged, -8..7)
      \cup Items(<<"Interval", "YearMonth">>, Untagged, {1})
      \cup UNION {Items(<<"Decimal128", 4, s>>, Untagged, {-25, 0, 792, 800, 9999}) : s \in -1..3}
      \cup UNION {Items(<<"Struct", d, d>>, RangeTag, ContinuousRanges) :
                    d \in {<<"Int32">>, <<"Date32">>, Zoned, <<"Timestamp", "us", "">>}}
      \cup Items(<<"Struct", <<"Decimal128", 4, 2>>, <<"Decimal128", 4, 2>> >>, RangeTag,
                 {PgRange(121, 124, TRUE, FALSE, FALSE), EmptyRange,
                  PgRange(None, 800, TRUE, TRUE, FALSE)})
      \cup Items(<<"Struct", <<"Utf8">>, <<"Utf8">> >>, RangeTag, {EmptyRange})
      \cup Items(<<"Struct", <<"Int32">>, <<"Int64">> >>, RangeTag, {EmptyRange})
      \cup Items(<<"Struct", <<"Int32">> >>, RangeTag, {EmptyRange})
=============================================================================
