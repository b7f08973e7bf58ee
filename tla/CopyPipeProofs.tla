---------------------------- MODULE CopyPipeProofs ----------------------------
(***************************************************************************)
(* Proofs about CopyPipe, for every set of tables, every size of a batch   *)
(* and of a chunk, and tables of any length and width.                     *)
(***************************************************************************)
EXTENDS CopyPipe, SequenceFacts

Cell == {None} \cup [type : Types, value : Data]
Item == {Header, Trailer} \cup Seq(Cell)

-----------------------------------------------------------------------------
(* The bytes in the buffer.                                                *)

\* f counts the bytes of the first items of s.
Counts(f, s, n) ==
    f = [k \in 0..n |-> IF k = 0 THEN 0 ELSE f[k - 1] + ItemBytes(s[k])]

LEMMA CountsAt ==
    ASSUME NEW f, NEW s, NEW n \in Nat
    PROVE  Counts(f, s, n) <=>
              /\ f = [k \in 0..n |-> f[k]]
              /\ \A k \in 0..n : f[k] = IF k = 0 THEN 0 ELSE f[k - 1] + ItemBytes(s[k])
BY DEF Counts

LEMMA CountExists ==
    ASSUME NEW s, NEW n \in Nat
    PROVE  \E f : Counts(f, s, n)
<1> DEFINE S == {k \in Nat : \E f : Counts(f, s, k)}
<1>1. 0 \in S
  <2> DEFINE f == [k \in 0..0 |-> 0]
  <2>1. f = [k \in 0..0 |-> f[k]] /\ \A k \in 0..0 : k = 0 /\ f[k] = 0
    OBVIOUS
  <2> HIDE DEF f
  <2>2. Counts(f, s, 0)
    BY <2>1, CountsAt
  <2> QED
    BY <2>2
<1>2. ASSUME NEW m \in Nat, m \in S PROVE m + 1 \in S
  <2>1. PICK f : Counts(f, s, m)
    BY <1>2
  <2> DEFINE last == f[m] + ItemBytes(s[m + 1])
             g == [k \in 0..(m + 1) |-> IF k = m + 1 THEN last ELSE f[k]]
  <2>2. \A k \in 0..m : f[k] = IF k = 0 THEN 0 ELSE f[k - 1] + ItemBytes(s[k])
    BY <2>1, CountsAt
  <2>3. g = [k \in 0..(m + 1) |-> g[k]]
    OBVIOUS
  <2>4. ASSUME NEW k \in 0..(m + 1)
        PROVE  g[k] = IF k = 0 THEN 0 ELSE g[k - 1] + ItemBytes(s[k])
    <3>1. CASE k = m + 1
      <4>1. g[k] = last /\ g[m] = f[m] /\ k # 0 /\ k - 1 = m
        BY <3>1
      <4> QED
        BY <3>1, <4>1
    <3>2. CASE k # m + 1
      <4>1. k \in 0..m /\ g[k] = f[k] /\ (k # 0 => g[k - 1] = f[k - 1])
        BY <3>2
      <4> QED
        BY <2>2, <4>1
    <3> QED
      BY <3>1, <3>2
  <2> HIDE DEF g
  <2>5. Counts(g, s, m + 1)
    <3>1. m + 1 \in Nat
      OBVIOUS
    <3> QED
      BY <2>3, <2>4, <3>1, CountsAt
  <2> QED
    BY <2>5
<1> HIDE DEF S
<1>3. \A k \in Nat : k \in S
  BY <1>1, <1>2, AllNumbers
<1> QED
  BY <1>3 DEF S

\* An item takes some number of bytes.
LEMMA ItemBytesType ==
    ASSUME NEW item \in Item
    PROVE  ItemBytes(item) \in Nat
<1>1. CASE item \in {Header, Trailer}
  BY <1>1, PipeAssumption DEF ItemBytes
<1>2. CASE item \notin {Header, Trailer}
  <2>1. DOMAIN item = 1..Len(item) /\ Len(item) \in Nat
    BY <1>2 DEF Item
  <2>2. IsFiniteSet(1..Len(item))
    BY <2>1, FS_Interval
  <2>3. IsFiniteSet({c \in DOMAIN item : item[c] # None})
    BY <2>1, <2>2, FS_Subset
  <2>4. Cardinality({c \in DOMAIN item : item[c] # None}) \in Nat
    BY <2>3, FS_CardinalityType
  <2> QED
    BY <1>2, <2>4 DEF ItemBytes
<1> QED
  BY <1>1, <1>2

\* Two buffers that agree up to n have the same bytes up to there.
LEMMA CountUnique ==
    ASSUME NEW s, NEW t, NEW n \in Nat, NEW m \in Nat, n <= m,
           \A i \in 1..n : s[i] = t[i],
           NEW f, NEW g, Counts(f, s, n), Counts(g, t, m),
           \A i \in 1..n : s[i] \in Item
    PROVE  \A k \in 0..n : f[k] = g[k] /\ f[k] \in Nat
<1> DEFINE S == {k \in Nat : k <= n => f[k] = g[k] /\ f[k] \in Nat}
<1>1. /\ \A k \in 0..n : f[k] = IF k = 0 THEN 0 ELSE f[k - 1] + ItemBytes(s[k])
      /\ \A k \in 0..m : g[k] = IF k = 0 THEN 0 ELSE g[k - 1] + ItemBytes(t[k])
  BY CountsAt
<1>2. 0 \in S
  BY <1>1
<1>3. ASSUME NEW k \in Nat, k \in S PROVE k + 1 \in S
  <2> SUFFICES ASSUME k + 1 <= n PROVE f[k + 1] = g[k + 1] /\ f[k + 1] \in Nat
    OBVIOUS
  <2>1. f[k] = g[k] /\ f[k] \in Nat
    BY <1>3
  <2>2. k + 1 \in 0..n /\ k + 1 \in 0..m /\ k + 1 \in 1..n /\ k + 1 # 0 /\ k + 1 - 1 = k
    OBVIOUS
  <2>3. f[k + 1] = IF k + 1 = 0 THEN 0 ELSE f[k + 1 - 1] + ItemBytes(s[k + 1])
    BY <1>1, <2>2
  <2>4. g[k + 1] = IF k + 1 = 0 THEN 0 ELSE g[k + 1 - 1] + ItemBytes(t[k + 1])
    BY <1>1, <2>2
  <2>5. ItemBytes(s[k + 1]) \in Nat /\ s[k + 1] = t[k + 1]
    BY <2>2, ItemBytesType
  <2> QED
    BY <2>1, <2>2, <2>3, <2>4, <2>5
<1> HIDE DEF S
<1>4. \A k \in Nat : k \in S
  BY <1>2, <1>3, AllNumbers
<1> QED
  BY <1>4 DEF S

LEMMA BufBytesIs ==
    ASSUME NEW s, Len(s) \in Nat
    PROVE  \E f : Counts(f, s, Len(s)) /\ BufBytes(s) = f[Len(s)]
<1>1. BufBytes(s) = (CHOOSE f : Counts(f, s, Len(s)))[Len(s)]
  BY DEF BufBytes, Counts
<1>2. Counts(CHOOSE f : Counts(f, s, Len(s)), s, Len(s))
  BY CountExists
<1> QED
  BY <1>1, <1>2

\* The bytes of a buffer are the sum of its items'.
LEMMA BufBytesAppend ==
    ASSUME NEW s \in Seq(Item), NEW item \in Item
    PROVE  /\ BufBytes(s) \in Nat
           /\ BufBytes(Append(s, item)) = BufBytes(s) + ItemBytes(item)
<1> DEFINE n == Len(s)
           m == Len(s) + 1
           t == Append(s, item)
<1>1. /\ n = Len(s) /\ n \in Nat /\ m = n + 1 /\ m \in Nat /\ n <= m
      /\ Len(t) = m /\ t[m] = item
      /\ \A i \in 1..n : s[i] = t[i] /\ s[i] \in Item
  OBVIOUS
<1> HIDE DEF m, n, t
<1>2. PICK f : Counts(f, s, n) /\ BufBytes(s) = f[n]
  BY <1>1, BufBytesIs
<1>3. PICK g : Counts(g, t, m) /\ BufBytes(t) = g[m]
  BY <1>1, BufBytesIs
<1>4. \A k \in 0..n : f[k] = g[k] /\ f[k] \in Nat
  BY <1>1, <1>2, <1>3, CountUnique
<1>5. n \in 0..n /\ m \in 0..m /\ m # 0 /\ m - 1 = n
  BY <1>1
<1>6. g[m] = g[m - 1] + ItemBytes(t[m])
  BY <1>1, <1>3, <1>5, CountsAt
<1> QED
  BY <1>1, <1>2, <1>3, <1>4, <1>5, <1>6 DEF t

LEMMA BufBytesEmpty == BufBytes(<<>>) = 0
<1>1. PICK f : Counts(f, <<>>, 0) /\ BufBytes(<<>>) = f[0]
  BY BufBytesIs
<1> QED
  BY <1>1, CountsAt

-----------------------------------------------------------------------------
(* The invariant.                                                          *)

Line == Seq(Cell)
Out == sent \o buf

\* A row's cells as the builders of the columns take them.
Converted(cols, row) == [c \in DOMAIN cols |-> Taken(cols[c].type, row[c])]

Readable(cols, row) ==
    Len(row) = Len(cols) /\ \A c \in DOMAIN cols : Reads(cols[c].type, row[c])

\* A table's rows, by number: the first are in the output behind its header,
\* the next in the batch, the next in the chunk, the others in messages still
\* to come.
Route(rows, cols, out, behind, inBatch, inChunk, coming) ==
    LET received == behind + Len(inBatch) + Len(inChunk)
    IN  /\ \A i \in 1..behind : out[i + 1] = Converted(cols, rows[i])
        /\ \A i \in 1..Len(inBatch) : inBatch[i] = Converted(cols, rows[behind + i])
        /\ \A i \in 1..(behind + Len(inBatch)) : Readable(cols, rows[i])
        /\ \A i \in 1..Len(inChunk) : inChunk[i] = rows[behind + Len(inBatch) + i]
        /\ coming = <<>> => received = Len(rows)
        /\ coming # <<>> =>
              /\ Len(coming) = Len(rows) + 1 - received
              /\ \A i \in 1..Len(coming) : coming[i] = Messages(rows)[received + i]

Typing ==
    /\ phase \in {"start", "prepared", "reading", "decoding", "writing", "sending", "finishing",
                  "done", "failed"}
    /\ table \in Tables /\ origin \in Tables \cup {None}
    /\ columns \in {<<>>} \cup {t.columns : t \in Tables}
    /\ wire \in Seq(Seq(Item))
    /\ chunk \in Seq(Line) /\ batch \in Seq(Line)
    /\ buf \in Seq(Item) /\ sent \in Seq(Item)
    /\ opened \in BOOLEAN

\* What each phase leaves to the next.
Stages ==
    /\ phase \in {"start", "prepared"} =>
          origin = None /\ wire = <<>> /\ chunk = <<>> /\ batch = <<>> /\ ~opened
    /\ phase \notin {"start", "prepared", "failed"} => origin # None /\ builders = NoCells
    /\ phase = "reading" => batch = <<>>
    /\ phase = "decoding" => batch = <<>> /\ chunk # <<>>
    /\ phase \in {"writing", "sending"} => chunk = <<>>
    /\ phase \in {"sending", "finishing", "done"} => opened
    /\ phase = "writing" /\ ~opened => batch # <<>>
    /\ phase \in {"finishing", "done"} => wire = <<>> /\ chunk = <<>> /\ batch = <<>>
    /\ ~opened => buf = <<>> /\ sent = <<>>
    /\ opened => Out # <<>> /\ origin # None /\ origin.rows # <<>>
    /\ phase = "done" =>
          buf = <<>> /\ Len(sent) >= 2 /\ staged = [columns |-> columns, rows |-> RowsOf(sent)]

\* How many rows are behind the header.
Behind == IF ~opened THEN 0 ELSE IF phase = "done" THEN Len(sent) - 2 ELSE Len(Out) - 1

Routed ==
    origin # None /\ phase # "failed" =>
        Route(origin.rows, columns, Out, Behind, batch, chunk, wire)

\* How full the chunk, the batch and the buffer are.
Filling ==
    /\ Len(chunk) + Len(batch) <= BatchRows
    /\ phase = "reading" => Len(chunk) < BatchRows
    /\ phase \in {"writing", "reading", "decoding", "finishing"} => BufBytes(buf) < ChunkBytes
    /\ buf # <<>> => BufBytes(Front(buf)) < ChunkBytes

IInv == Typing /\ Stages /\ Routed /\ Filling

-----------------------------------------------------------------------------
(* Tables, messages and rows.                                              *)

\* A set of cells and items that a table's rows are made of.
LEMMA TableRows ==
    ASSUME NEW t \in Tables
    PROVE  /\ t.rows \in Seq(Line)
           /\ \A i \in DOMAIN t.rows :
                 /\ t.rows[i] \in Line /\ t.rows[i] \notin {Header, Trailer}
                 /\ Len(t.rows[i]) = Len(t.columns)
                 /\ \A c \in DOMAIN t.rows[i] : t.rows[i][c] # None =>
                       t.rows[i][c] = [type |-> t.columns[c].type, value |-> t.rows[i][c].value]
<1>1. /\ t.columns \in Seq(ToSet(t.columns)) /\ t.rows \in Seq(ToSet(t.rows))
      /\ \A row \in ToSet(t.rows) :
            /\ row \notin {Header, Trailer}
            /\ row \in Seq(ToSet(row)) /\ Len(row) = Len(t.columns)
            /\ \A c \in DOMAIN row :
                  row[c] # None => row[c] = [type |-> t.columns[c].type, value |-> row[c].value]
  BY PipeAssumption DEF IsTable, IsSeq
<1>2. ASSUME NEW row \in ToSet(t.rows) PROVE row \in Line
  <2>1. ASSUME NEW c \in DOMAIN row, row[c] # None PROVE row[c] \in Cell
    <3>1. c \in DOMAIN t.columns
      BY <1>1
    <3>2. t.columns[c].type \in Types
      BY <3>1 DEF Types, ToSet
    <3>3. row[c].value \in Data
      BY <2>1 DEF Data, ToSet
    <3> QED
      BY <1>1, <2>1, <3>2, <3>3 DEF Cell
  <2>2. \A c \in DOMAIN row : row[c] \in Cell
    BY <2>1 DEF Cell
  <2> QED
    BY <1>1, <2>2 DEF Line
<1>3. \A i \in DOMAIN t.rows : t.rows[i] \in ToSet(t.rows)
  BY DEF ToSet
<1>4. t.rows \in Seq(Line)
  BY <1>1, <1>2, <1>3
<1> QED
  BY <1>1, <1>2, <1>3, <1>4

LEMMA ColumnsType ==
    ASSUME columns \in {<<>>} \cup {t.columns : t \in Tables}
    PROVE  /\ DOMAIN columns = 1..Len(columns) /\ Len(columns) \in Nat
           /\ \A c \in DOMAIN columns : columns[c].type \in Types
<1>1. CASE columns = <<>>
  BY <1>1
<1>2. ASSUME NEW t \in Tables, columns = t.columns
      PROVE  /\ DOMAIN columns = 1..Len(columns) /\ Len(columns) \in Nat
             /\ \A c \in DOMAIN columns : columns[c].type \in Types
  <2>1. t.columns \in Seq(ToSet(t.columns))
    BY PipeAssumption DEF IsTable, IsSeq
  <2>2. \A c \in DOMAIN t.columns : t.columns[c].type \in Types
    BY DEF Types, ToSet
  <2> QED
    BY <1>2, <2>1, <2>2
<1> QED
  BY <1>1, <1>2

\* The messages of a COPY: one with each row, and one with none.
LEMMA MessagesAre ==
    ASSUME NEW rows \in Seq(Line), \A i \in DOMAIN rows : rows[i] \notin {Header, Trailer}
    PROVE  /\ Messages(rows) \in Seq(Seq(Item))
           /\ Len(Messages(rows)) = Len(rows) + 1
           /\ \A i \in 1..Len(rows) :
                 /\ Row(Messages(rows)[i]) = <<rows[i]>>
                 /\ Last(Messages(rows)[i]) = rows[i]
           /\ Row(Messages(rows)[Len(rows) + 1]) = <<>>
<1> DEFINE n == Len(rows)
           M == Messages(rows)
<1>1. n \in Nat /\ DOMAIN rows = 1..n
  OBVIOUS
<1>2. M = [i \in 1..(n + 1) |->
              (IF i = 1 THEN <<Header>> ELSE <<>>)
                  \o (IF i <= n THEN <<rows[i]>> ELSE <<Trailer>>)]
  BY DEF Messages
<1>3. ASSUME NEW i \in 1..n
      PROVE  /\ M[i] \in Seq(Item) /\ Row(M[i]) = <<rows[i]>> /\ Last(M[i]) = rows[i]
  <2>1. rows[i] \in Item /\ rows[i] \notin {Header, Trailer} /\ Header \in Item
    <3>1. rows[i] \in Line
      BY <1>1
    <3> QED
      BY <1>1, <3>1 DEF Item, Line
  <2>2. M[i] = IF i = 1 THEN <<Header, rows[i]>> ELSE <<rows[i]>>
    <3>1. M[i] = (IF i = 1 THEN <<Header>> ELSE <<>>) \o <<rows[i]>>
      BY <1>1, <1>2
    <3> QED
      BY <3>1, TwoItems
  <2> HIDE DEF M
  <2>3. CASE i = 1
    BY <2>1, <2>2, <2>3 DEF Row, Last
  <2>4. CASE i # 1
    BY <2>1, <2>2, <2>4 DEF Row, Last
  <2> QED
    BY <2>3, <2>4
<1>4. M[n + 1] \in Seq(Item) /\ Row(M[n + 1]) = <<>>
  <2>1. M[n + 1] = IF n = 0 THEN <<Header, Trailer>> ELSE <<Trailer>>
    <3>1. M[n + 1] = (IF n + 1 = 1 THEN <<Header>> ELSE <<>>) \o <<Trailer>>
      BY <1>1, <1>2
    <3>2. M[n + 1] = IF n + 1 = 1 THEN <<Header>> \o <<Trailer>> ELSE <<>> \o <<Trailer>>
      <4> HIDE DEF M, n
      <4> QED
        BY <3>1
    <3>3. n + 1 = 1 <=> n = 0
      BY <1>1
    <3> HIDE DEF M, n
    <3>4. <<Header>> \o <<Trailer>> = <<Header, Trailer>> /\ <<>> \o <<Trailer>> = <<Trailer>>
      BY TwoItems
    <3> QED
      BY <3>2, <3>3, <3>4
  <2>2. Header # Trailer /\ Header \in Item /\ Trailer \in Item
    BY PipeAssumption DEF Item
  <2> HIDE DEF M, n
  <2>3. CASE n = 0
    BY <2>1, <2>2, <2>3 DEF Row
  <2>4. CASE n # 0
    BY <2>1, <2>2, <2>4 DEF Row
  <2> QED
    BY <2>3, <2>4
<1>5. \A i \in 1..(n + 1) : i \in 1..n \/ i = n + 1
  BY <1>1
<1>6. M \in Seq(Seq(Item)) /\ Len(M) = n + 1
  <2>1. DOMAIN M = 1..(n + 1) /\ n + 1 \in Nat /\ M = [i \in 1..(n + 1) |-> M[i]]
    BY <1>1, <1>2
  <2>2. \A i \in 1..(n + 1) : M[i] \in Seq(Item)
    BY <1>3, <1>4, <1>5
  <2> HIDE DEF M, n
  <2> QED
    BY <2>1, <2>2
<1> QED
  BY <1>3, <1>4, <1>6

\* A row that fits is converted cell by cell, and keeps its values.
LEMMA ConvertedRow ==
    ASSUME columns \in {<<>>} \cup {t.columns : t \in Tables},
           NEW row \in Line, Readable(columns, row)
    PROVE  /\ Converted(columns, row) \in Line
           /\ Values(Converted(columns, row)) = Values(row)
<1>1. /\ DOMAIN columns = 1..Len(columns) /\ Len(columns) \in Nat
      /\ \A c \in DOMAIN columns : columns[c].type \in Types
  BY ColumnsType
<1>2. DOMAIN row = DOMAIN columns /\ \A c \in DOMAIN row : row[c] \in Cell
  BY <1>1 DEF Readable, Line
<1>3. ASSUME NEW c \in DOMAIN columns
      PROVE  /\ Taken(columns[c].type, row[c]) \in Cell
             /\ Taken(columns[c].type, row[c]) = None <=> row[c] = None
             /\ row[c] # None => Taken(columns[c].type, row[c]).value = row[c].value
  <2>1. row[c] # None => row[c].value \in Data
    BY <1>2 DEF Cell
  <2>2. row[c] # None => [type |-> columns[c].type, value |-> row[c].value] \in [type : Types, value : Data]
    BY <1>1, <2>1
  <2> QED
    BY <2>2, PipeAssumption DEF Taken, Cell
<1>4. Converted(columns, row) \in Line
  BY <1>1, <1>3 DEF Converted, Line
<1>5. Values(Converted(columns, row)) = Values(row)
  BY <1>2, <1>3 DEF Converted, Values
<1> QED
  BY <1>4, <1>5

-----------------------------------------------------------------------------
(* How a step moves a row along the route.                                 *)

LEMMA RouteOpens ==
    ASSUME NEW cols, NEW rows \in Seq(Line),
           \A i \in DOMAIN rows : rows[i] \notin {Header, Trailer}
    PROVE  Route(rows, cols, <<>>, 0, <<>>, <<>>, Messages(rows))
BY MessagesAre DEF Route

\* Received rows are fewer than there are while messages come.
LEMMA RouteReceives ==
    ASSUME NEW cols, NEW rows \in Seq(Line),
           \A i \in DOMAIN rows : rows[i] \notin {Header, Trailer},
           NEW out, NEW behind \in Nat, NEW inChunk \in Seq(Line),
           NEW coming \in Seq(Seq(Item)), coming # <<>>,
           Route(rows, cols, out, behind, <<>>, inChunk, coming)
    PROVE  LET joined == inChunk \o Row(Head(coming))
           IN  /\ joined \in Seq(Line)
               /\ Len(joined) <= Len(inChunk) + 1
               /\ Route(rows, cols, out, behind, <<>>, joined, Tail(coming))
<1> DEFINE received == behind + Len(inChunk)
           joined == inChunk \o Row(Head(coming))
           n == Len(rows)
<1>1. /\ received \in Nat /\ n \in Nat /\ Len(coming) = n + 1 - received
      /\ Len(coming) \in Nat /\ Len(coming) >= 1
      /\ \A i \in 1..Len(coming) : coming[i] = Messages(rows)[received + i]
  BY DEF Route
<1>2. Head(coming) = Messages(rows)[received + 1]
  BY <1>1
<1>3. /\ Tail(coming) \in Seq(Seq(Item)) /\ Len(Tail(coming)) = n - received
      /\ \A i \in 1..Len(Tail(coming)) : Tail(coming)[i] = Messages(rows)[received + 1 + i]
  <2>1. Tail(coming) \in Seq(Seq(Item)) /\ Len(Tail(coming)) = Len(coming) - 1
    OBVIOUS
  <2>2. \A i \in 1..Len(Tail(coming)) : Tail(coming)[i] = coming[i + 1]
    OBVIOUS
  <2> HIDE DEF n, received
  <2>3. \A i \in 1..Len(Tail(coming)) : i + 1 \in 1..Len(coming) /\ received + (i + 1) = received + 1 + i
    BY <1>1, <2>1
  <2> QED
    BY <1>1, <2>1, <2>2, <2>3
<1>4. \A i \in 1..Len(inChunk) : inChunk[i] = rows[behind + i]
  BY DEF Route
<1>5. /\ \A i \in 1..behind : out[i + 1] = Converted(cols, rows[i])
      /\ \A i \in 1..behind : Readable(cols, rows[i])
  BY DEF Route
<1>6. CASE received < n
  <2>1. Row(Head(coming)) = <<rows[received + 1]>> /\ rows[received + 1] \in Line
    <3>1. received + 1 \in 1..Len(rows)
      BY <1>1, <1>6
    <3> HIDE DEF received, n
    <3>2. Row(Messages(rows)[received + 1]) = <<rows[received + 1]>>
      BY <3>1, MessagesAre
    <3>3. rows[received + 1] \in Line
      BY <3>1
    <3> QED
      BY <1>2, <3>2, <3>3
  <2>2. joined = Append(inChunk, rows[received + 1])
    BY <2>1, AppendIsConcat
  <2>3. /\ joined \in Seq(Line) /\ Len(joined) = Len(inChunk) + 1
        /\ \A i \in 1..Len(inChunk) : joined[i] = inChunk[i]
        /\ joined[Len(inChunk) + 1] = rows[received + 1]
    BY <2>1, <2>2, AppendProperties
  <2> HIDE DEF joined
  <2>4. \A i \in 1..Len(joined) : joined[i] = rows[behind + i]
    <3>1. \A i \in 1..Len(joined) : i \in 1..Len(inChunk) \/ i = Len(inChunk) + 1
      BY <2>3
    <3>2. received + 1 = behind + (Len(inChunk) + 1)
      OBVIOUS
    <3> QED
      BY <1>4, <2>3, <3>1, <3>2
  <2>5. Tail(coming) # <<>> /\ Len(Tail(coming)) = n + 1 - (behind + Len(joined))
    <3>1. behind + Len(joined) = received + 1
      BY <2>3
    <3> HIDE DEF received, n
    <3>2. Len(Tail(coming)) > 0
      BY <1>1, <1>3, <1>6
    <3>3. Tail(coming) # <<>>
      <4>1. Len(<<>>) = 0
        OBVIOUS
      <4>2. ASSUME NEW s, Len(s) > 0 PROVE s # <<>>
        BY <4>1, <4>2
      <4> QED
        BY <3>2, <4>2
    <3>4. Len(Tail(coming)) = n + 1 - (received + 1)
      BY <1>1, <1>3
    <3> QED
      BY <3>1, <3>3, <3>4
  <2>6. \A i \in 1..Len(Tail(coming)) : Tail(coming)[i] = Messages(rows)[(behind + Len(joined)) + i]
    BY <1>3, <2>3
  <2>7. Route(rows, cols, out, behind, <<>>, joined, Tail(coming))
    BY <1>5, <2>3, <2>4, <2>5, <2>6 DEF Route
  <2> QED
    BY <2>3, <2>7 DEF joined
<1>7. CASE received >= n
  <2>1. received = n /\ Tail(coming) = <<>>
    BY <1>1, <1>3, <1>7
  <2>2. Row(Head(coming)) = <<>>
    BY <1>2, <2>1, MessagesAre
  <2>3. joined = inChunk
    BY <2>2, ConcatEmptySeq
  <2> HIDE DEF joined
  <2>4. Route(rows, cols, out, behind, <<>>, inChunk, Tail(coming))
    BY <1>4, <1>5, <2>1 DEF Route
  <2>5. /\ joined \in Seq(Line) /\ Len(joined) <= Len(inChunk) + 1
        /\ Route(rows, cols, out, behind, <<>>, joined, Tail(coming))
    BY <2>3, <2>4
  <2> QED
    BY <2>5 DEF joined
<1> QED
  BY <1>1, <1>6, <1>7

LEMMA RouteDecodes ==
    ASSUME NEW cols, NEW rows, Len(rows) \in Nat, NEW out, NEW behind \in Nat,
           NEW inChunk \in Seq(Line), NEW coming,
           Route(rows, cols, out, behind, <<>>, inChunk, coming),
           \A i \in 1..Len(inChunk) : Readable(cols, inChunk[i]),
           NEW inBatch \in Seq(Line), Len(inBatch) = Len(inChunk),
           \A i \in 1..Len(inChunk) : inBatch[i] = Converted(cols, inChunk[i])
    PROVE  Route(rows, cols, out, behind, inBatch, <<>>, coming)
<1>1. /\ Len(inBatch) \in Nat
      /\ \A i \in 1..Len(inBatch) : inBatch[i] = Converted(cols, rows[behind + i])
  BY DEF Route
<1>2. \A i \in 1..(behind + Len(inBatch)) : Readable(cols, rows[i])
  <2>1. \A i \in 1..behind : Readable(cols, rows[i])
    BY DEF Route
  <2>2. \A i \in 1..Len(inChunk) : Readable(cols, rows[behind + i])
    BY DEF Route
  <2>3. ASSUME NEW i \in 1..(behind + Len(inBatch)), i \notin 1..behind
        PROVE  i - behind \in 1..Len(inChunk) /\ i = behind + (i - behind)
    BY <2>3, <1>1
  <2> QED
    BY <2>1, <2>2, <2>3
<1> QED
  BY <1>1, <1>2 DEF Route

LEMMA RouteWrites ==
    ASSUME NEW cols, NEW rows, Len(rows) \in Nat, NEW out \in Seq(Item), NEW behind \in Nat,
           Len(out) = behind + 1,
           NEW inBatch \in Seq(Line), inBatch # <<>>, NEW inChunk \in Seq(Line), NEW coming,
           Route(rows, cols, out, behind, inBatch, inChunk, coming)
    PROVE  Route(rows, cols, Append(out, Head(inBatch)), behind + 1, Tail(inBatch), inChunk, coming)
<1> DEFINE out2 == Append(out, Head(inBatch))
           rest == Tail(inBatch)
<1>1. /\ rest \in Seq(Line) /\ Len(rest) = Len(inBatch) - 1 /\ Len(inBatch) \in Nat \ {0}
      /\ \A i \in 1..Len(rest) : rest[i] = inBatch[i + 1]
      /\ Head(inBatch) = inBatch[1] /\ inBatch[1] \in Line
  OBVIOUS
<1>2. /\ \A i \in 1..Len(out) : out2[i] = out[i]
      /\ out2[Len(out) + 1] = inBatch[1]
  BY <1>1, AppendProperties DEF Item, Line
<1> HIDE DEF out2, rest
<1>3. \A i \in 1..(behind + 1) : out2[i + 1] = Converted(cols, rows[i])
  <2>1. \A i \in 1..behind : out2[i + 1] = Converted(cols, rows[i])
    BY <1>2 DEF Route
  <2>2. out2[(behind + 1) + 1] = Converted(cols, rows[behind + 1])
    BY <1>1, <1>2 DEF Route
  <2>3. \A i \in 1..(behind + 1) : i \in 1..behind \/ i = behind + 1
    OBVIOUS
  <2> QED
    BY <2>1, <2>2, <2>3
<1>4. \A i \in 1..Len(rest) : rest[i] = Converted(cols, rows[(behind + 1) + i])
  <2>1. \A i \in 1..Len(inBatch) : inBatch[i] = Converted(cols, rows[behind + i])
    BY DEF Route
  <2>2. \A i \in 1..Len(rest) : i + 1 \in 1..Len(inBatch) /\ behind + (i + 1) = (behind + 1) + i
    BY <1>1
  <2> QED
    BY <1>1, <2>1, <2>2
<1>5. (behind + 1) + Len(rest) = behind + Len(inBatch)
  BY <1>1
<1>6. Route(rows, cols, out2, behind + 1, rest, inChunk, coming)
  BY <1>3, <1>4, <1>5 DEF Route
<1> QED
  BY <1>6 DEF out2, rest

LEMMA RouteEnds ==
    ASSUME NEW cols, NEW rows, Len(rows) \in Nat, NEW out \in Seq(Item), NEW behind \in Nat,
           Len(out) = behind + 1, NEW item \in Item,
           Route(rows, cols, out, behind, <<>>, <<>>, <<>>)
    PROVE  Route(rows, cols, Append(out, item), behind, <<>>, <<>>, <<>>)
BY AppendProperties DEF Route

-----------------------------------------------------------------------------
(* Every step keeps the invariant.                                         *)

LEMMA Items ==
    /\ Header \in Item /\ Trailer \in Item /\ Line \subseteq Item
    /\ \A s, t \in Seq(Item) : s \o t \in Seq(Item) /\ Len(s \o t) = Len(s) + Len(t)
    /\ \A s \in Seq(Item), item \in Item :
          Append(s, item) \in Seq(Item) /\ Len(Append(s, item)) = Len(s) + 1
BY ConcatProperties, AppendProperties DEF Item, Line

LEMMA OriginRows ==
    ASSUME Typing, origin # None
    PROVE  /\ origin \in Tables /\ origin.rows \in Seq(Line) /\ Len(origin.rows) \in Nat
           /\ \A i \in DOMAIN origin.rows : origin.rows[i] \notin {Header, Trailer}
BY TableRows DEF Typing

LEMMA InitInv == Init => IInv
<1> SUFFICES ASSUME Init PROVE IInv
  OBVIOUS
<1>1. Typing
  <2>1. <<>> \in Seq(Item) /\ <<>> \in Seq(Line) /\ <<>> \in Seq(Seq(Item))
    OBVIOUS
  <2> QED
    BY <2>1 DEF Init, Typing
<1> USE DEF Init
<1>3. Stages /\ Routed
  BY DEF Stages, Routed
<1>2. Filling
  BY BufBytesEmpty, PipeAssumption DEF Filling
<1> QED
  BY <1>1, <1>2, <1>3 DEF IInv

LEMMA ReplaceInv == IInv /\ Replace => IInv'
<1> SUFFICES ASSUME IInv, Replace PROVE IInv'
  OBVIOUS
<1> USE DEF Replace, IInv, sink
<1>1. Typing'
  BY DEF Typing
<1>2. Stages'
  BY DEF Stages, Out
<1>3. Routed'
  BY DEF Routed, Stages
<1>4. Filling'
  BY DEF Filling
<1> QED
  BY <1>1, <1>2, <1>3, <1>4

LEMMA PrepareInv == IInv /\ Prepare => IInv'
<1> SUFFICES ASSUME IInv, Prepare PROVE IInv'
  OBVIOUS
<1> USE DEF Prepare, IInv, sink
<1>1. Typing'
  BY DEF Typing
<1>2. Stages'
  BY DEF Stages, Out
<1>3. Routed'
  BY DEF Routed, Stages
<1>4. Filling'
  BY DEF Filling
<1> QED
  BY <1>1, <1>2, <1>3, <1>4

LEMMA OpenCopyOutInv == IInv /\ OpenCopyOut => IInv'
<1> SUFFICES ASSUME IInv, OpenCopyOut PROVE IInv'
  OBVIOUS
<1> USE DEF OpenCopyOut, IInv, sink
<1>1. /\ table \in Tables /\ table.rows \in Seq(Line) /\ table # None
      /\ \A i \in DOMAIN table.rows : table.rows[i] \notin {Header, Trailer}
  BY TableRows, PipeAssumption DEF Typing
<1>2. Messages(table.rows) \in Seq(Seq(Item))
  BY <1>1, MessagesAre
<1>3. Typing'
  BY <1>1, <1>2 DEF Typing
<1>4. Stages'
  BY <1>1 DEF Stages, Out, NoCells
<1>5. Routed'
  <2>1. Out' = <<>> /\ Behind' = 0 /\ batch' = <<>> /\ chunk' = <<>> /\ wire' = Messages(table.rows)
    BY ConcatEmptySeq DEF Out, Behind, Stages, Typing
  <2> QED
    BY <1>1, <2>1, RouteOpens DEF Routed
<1>6. Filling'
  BY BufBytesEmpty, PipeAssumption DEF Filling, Stages
<1> QED
  BY <1>3, <1>4, <1>5, <1>6

LEMMA ReceiveInv == IInv /\ Receive => IInv'
<1> SUFFICES ASSUME IInv, Receive PROVE IInv'
  OBVIOUS
<1> USE DEF Receive, IInv, sink
<1>1. /\ origin # None /\ batch = <<>> /\ Len(batch) = 0 /\ Len(chunk) < BatchRows
      /\ phase' \in {"reading", "decoding"}
  BY DEF Stages, Filling
<1>2. Behind \in Nat
  BY Items DEF Behind, Typing, Stages, Out
<1>3. Route(origin.rows, columns, Out, Behind, <<>>, chunk, wire)
  BY <1>1 DEF Routed
<1>4. /\ chunk' \in Seq(Line) /\ Len(chunk') <= Len(chunk) + 1
      /\ Route(origin.rows, columns, Out, Behind, <<>>, chunk', wire')
  BY <1>1, <1>2, <1>3, OriginRows, RouteReceives DEF Typing
<1>5. wire' \in Seq(Seq(Item))
  BY DEF Typing
<1>6. Typing'
  BY <1>1, <1>4, <1>5 DEF Typing
<1>7. Len(chunk) \in Nat /\ Len(chunk') \in Nat /\ BatchRows \in Nat \ {0} /\ Len(<<>>) = 0
  BY <1>4, PipeAssumption DEF Typing
<1>8. Stages'
  <2>1. phase' = "decoding" => chunk' # <<>>
    BY <1>7
  <2> QED
    BY <1>1, <2>1 DEF Stages, Out, NoCells
<1>9. Routed'
  <2>1. Out' = Out /\ Behind' = Behind
    BY <1>1 DEF Out, Behind
  <2> QED
    BY <1>1, <1>4, <2>1 DEF Routed
<1>10. Filling'
  BY <1>1, <1>4, <1>7 DEF Filling
<1> QED
  BY <1>6, <1>8, <1>9, <1>10

LEMMA EndOfRowsInv == IInv /\ EndOfRows => IInv'
<1> SUFFICES ASSUME IInv, EndOfRows PROVE IInv'
  OBVIOUS
<1> USE DEF EndOfRows, IInv, sink, source
<1>1. Typing'
  BY DEF Typing
<1>2. Stages'
  BY DEF Stages, Out, NoCells
<1>3. Routed'
  BY DEF Routed, Out, Behind
<1>4. Filling'
  BY DEF Filling
<1> QED
  BY <1>1, <1>2, <1>3, <1>4

\* The batch decoded from a chunk of rows that fit.
LEMMA DecodedRows ==
    ASSUME IInv, phase = "decoding", columns # <<>>, \A i \in DOMAIN chunk : Fits(chunk[i]),
           NEW rows, rows = [i \in DOMAIN Filled[1] |-> [c \in DOMAIN columns |-> Filled[c][i]]]
    PROVE  /\ rows \in Seq(Line) /\ Len(rows) = Len(chunk)
           /\ \A i \in 1..Len(chunk) :
                 Readable(columns, chunk[i]) /\ rows[i] = Converted(columns, chunk[i])
<1> USE DEF IInv
<1>1. /\ DOMAIN columns = 1..Len(columns) /\ Len(columns) \in Nat /\ 1 \in DOMAIN columns
  BY ColumnsType DEF Typing
<1>2. builders = [c \in DOMAIN columns |-> <<>>]
  BY DEF Stages, NoCells
<1>3. chunk \in Seq(Line) /\ DOMAIN chunk = 1..Len(chunk) /\ Len(chunk) \in Nat
  BY DEF Typing
<1>4. ASSUME NEW c \in DOMAIN columns
      PROVE  Filled[c] = [i \in 1..Len(chunk) |-> Taken(columns[c].type, chunk[i][c])]
  <2> DEFINE cells == [i \in 1..Len(chunk) |-> Taken(columns[c].type, chunk[i][c])]
             S == {Taken(columns[c].type, chunk[i][c]) : i \in 1..Len(chunk)}
  <2>1. Filled[c] = <<>> \o cells
    BY <1>2, <1>3 DEF Filled
  <2>2. cells \in Seq(S)
    BY <1>3
  <2> QED
    BY <2>1, <2>2, ConcatEmptySeq
<1>5. DOMAIN Filled[1] = 1..Len(chunk)
  BY <1>1, <1>4
<1>6. ASSUME NEW i \in 1..Len(chunk)
      PROVE  /\ Readable(columns, chunk[i]) /\ chunk[i] \in Line
             /\ rows[i] = Converted(columns, chunk[i])
  <2>1. Fits(chunk[i]) /\ chunk[i] \in Line
    BY <1>3
  <2>2. rows[i] = [c \in DOMAIN columns |-> Filled[c][i]]
    BY <1>5
  <2>3. \A c \in DOMAIN columns : Filled[c][i] = Taken(columns[c].type, chunk[i][c])
    BY <1>4
  <2> QED
    BY <2>1, <2>2, <2>3 DEF Fits, Readable, Converted
<1>7. \A i \in 1..Len(chunk) : rows[i] \in Line
  BY <1>6, ConvertedRow DEF Typing
<1>8. rows \in Seq(Line) /\ Len(rows) = Len(chunk)
  BY <1>3, <1>5, <1>7
<1> QED
  BY <1>6, <1>8

LEMMA DecodeInv == IInv /\ Decode => IInv'
<1> SUFFICES ASSUME IInv, Decode PROVE IInv'
  OBVIOUS
<1>1. /\ phase = "decoding" /\ origin # None /\ batch = <<>> /\ Len(batch) = 0 /\ chunk # <<>>
      /\ chunk' = <<>> /\ UNCHANGED <<table, columns, origin, wire, opened, buf, sent, staged>>
      /\ Len(chunk) \in Nat \ {0} /\ chunk \in Seq(Line)
  BY DEF IInv, Stages, Decode, sink, Typing
<1>2. CASE columns # <<>> /\ \A i \in DOMAIN chunk : Fits(chunk[i])
  <2>1. /\ phase' = "writing" /\ builders' = NoCells
        /\ batch' \in Seq(Line) /\ Len(batch') = Len(chunk)
        /\ \A i \in 1..Len(chunk) :
              Readable(columns, chunk[i]) /\ batch'[i] = Converted(columns, chunk[i])
    BY <1>1, <1>2, DecodedRows DEF Decode
  <2>2. Typing'
    BY <1>1, <2>1 DEF IInv, Typing
  <2>3. Stages'
    <3>1. batch' # <<>>
      BY <1>1, <2>1
    <3> QED
      BY <1>1, <2>1, <3>1 DEF IInv, Stages, Out, NoCells
  <2>4. Routed'
    <3>1. Behind \in Nat /\ Out' = Out /\ Behind' = Behind
      BY <1>1, <2>1, Items DEF IInv, Behind, Typing, Stages, Out
    <3>2. Route(origin.rows, columns, Out, Behind, <<>>, chunk, wire)
      BY <1>1 DEF IInv, Routed
    <3>3. Len(origin.rows) \in Nat
      BY <1>1, OriginRows DEF IInv
    <3>4. Route(origin.rows, columns, Out, Behind, batch', <<>>, wire)
      BY <1>1, <2>1, <3>1, <3>2, <3>3, RouteDecodes
    <3> QED
      BY <1>1, <3>1, <3>4 DEF Routed
  <2>5. Filling'
    BY <1>1, <2>1 DEF IInv, Filling
  <2> QED
    BY <2>2, <2>3, <2>4, <2>5 DEF IInv
<1>3. CASE ~(columns # <<>> /\ \A i \in DOMAIN chunk : Fits(chunk[i]))
  <2>1. phase' = "failed" /\ batch' = <<>>
    BY <1>1, <1>3 DEF Decode
  <2>2. Typing'
    BY <1>1, <2>1 DEF IInv, Typing
  <2>3. Stages'
    BY <1>1, <2>1 DEF IInv, Stages, Out
  <2>4. Routed'
    BY <2>1 DEF Routed
  <2>5. Filling'
    BY <1>1, <2>1, PipeAssumption DEF IInv, Filling
  <2> QED
    BY <2>2, <2>3, <2>4, <2>5 DEF IInv
<1> QED
  BY <1>2, <1>3

LEMMA OpenCopyInInv == IInv /\ OpenCopyIn => IInv'
<1> SUFFICES ASSUME IInv, OpenCopyIn PROVE IInv'
  OBVIOUS
<1> USE DEF OpenCopyIn, IInv, source
<1>1. /\ origin # None /\ batch # <<>> /\ buf = <<>> /\ sent = <<>> /\ sent' = <<>>
      /\ buf' = <<Header>> /\ Len(batch) \in Nat \ {0} /\ Len(chunk) \in Nat
  BY DEF Stages, Typing
<1>2. <<Header>> = Append(<<>>, Header) /\ <<Header>> \in Seq(Item) /\ <<>> \in Seq(Item)
  BY Items
<1>3. Typing'
  BY <1>1, <1>2 DEF Typing
<1>4. Out = <<>> /\ Out' = <<Header>> /\ Len(Out') = 1 /\ Behind = 0 /\ Behind' = 0
  BY <1>1, <1>2, ConcatEmptySeq DEF Out, Behind, Stages
<1>5. Route(origin.rows, columns, <<>>, 0, batch, chunk, wire)
  BY <1>1, <1>4 DEF Routed
<1>6. origin.rows # <<>>
  BY <1>1, <1>5, OriginRows DEF Route, Typing
<1>7. Stages'
  <2>1. Out' # <<>>
    BY <1>4
  <2> QED
    BY <1>1, <1>6, <2>1 DEF Stages, NoCells
<1>8. Routed'
  <2>1. Route(origin.rows, columns, <<Header>>, 0, batch, chunk, wire)
    BY <1>5 DEF Route
  <2> QED
    BY <1>4, <2>1 DEF Routed
<1>9. Filling'
  <2>1. BufBytes(<<Header>>) = 2
    <3>1. ItemBytes(Header) = 2
      BY PipeAssumption DEF ItemBytes
    <3>2. BufBytes(Append(<<>>, Header)) = 0 + 2
      BY <3>1, <1>2, Items, BufBytesAppend, BufBytesEmpty
    <3> QED
      BY <1>2, <3>2
  <2>2. Front(<<Header>>) = <<>>
    BY DEF Front
  <2> QED
    BY <1>1, <2>1, <2>2, BufBytesEmpty, PipeAssumption DEF Filling
<1> QED
  BY <1>3, <1>7, <1>8, <1>9

LEMMA WriteRowInv == IInv /\ WriteRow => IInv'
<1> SUFFICES ASSUME IInv, WriteRow PROVE IInv'
  OBVIOUS
<1> USE DEF WriteRow, IInv, source
<1>1. /\ origin # None /\ chunk = <<>> /\ Len(chunk) = 0 /\ Out # <<>> /\ phase = "writing"
      /\ batch \in Seq(Line) /\ batch # <<>> /\ Head(batch) \in Line
      /\ Tail(batch) \in Seq(Line) /\ Len(Tail(batch)) = Len(batch) - 1 /\ Len(batch) \in Nat
      /\ phase' \in {"sending", "writing"} /\ opened /\ sent \in Seq(Item) /\ buf \in Seq(Item)
  BY DEF Stages, Typing
<1>2. /\ Head(batch) \in Item
      /\ Append(buf, Head(batch)) \in Seq(Item)
      /\ Out \in Seq(Item)
  BY <1>1, Items DEF Out
<1>3. Typing'
  BY <1>1, <1>2 DEF Typing
<1>4. Out' = Append(Out, Head(batch)) /\ Len(Out) \in Nat \ {0}
  <2>1. sent \o Append(buf, Head(batch)) = Append(sent \o buf, Head(batch))
    BY <1>1, <1>2, AppendIsConcat, ConcatAssociative, Items DEF Out
  <2> QED
    BY <1>1, <1>2, <2>1 DEF Out
<1>5. Behind = Len(Out) - 1 /\ Behind' = Behind + 1
  BY <1>1, <1>2, <1>4, Items DEF Behind
<1>6. Stages'
  <2>1. Out' # <<>>
    BY <1>2, <1>4, AppendProperties
  <2> QED
    BY <1>1, <2>1 DEF Stages, NoCells
<1>7. Routed'
  <2>1. Route(origin.rows, columns, Out, Behind, batch, chunk, wire)
    BY <1>1 DEF Routed
  <2>2. Route(origin.rows, columns, Append(Out, Head(batch)), Behind + 1, Tail(batch), chunk, wire)
    <3>1. Len(origin.rows) \in Nat
      BY <1>1, OriginRows
    <3>2. Behind \in Nat /\ Len(Out) = Behind + 1 /\ chunk \in Seq(Line)
      BY <1>4, <1>5 DEF Typing
    <3> HIDE DEF WriteRow, IInv
    <3> QED
      BY <1>1, <1>2, <2>1, <3>1, <3>2, RouteWrites
  <2> QED
    BY <1>4, <1>5, <2>2 DEF Routed
<1>8. Filling'
  <2>1. BufBytes(buf) < ChunkBytes
    BY <1>1 DEF Filling
  <2>2. Front(buf') = buf
    BY <1>1, <1>2, AppendProperties DEF Front
  <2>3. BufBytes(buf') \in Nat
    BY <1>1, <1>2, Items, BufBytesAppend
  <2>4. phase' = "writing" => BufBytes(buf') < ChunkBytes
    BY <2>3, PipeAssumption
  <2>5. Len(chunk') + Len(batch') <= BatchRows
    BY <1>1, PipeAssumption DEF Filling
  <2> QED
    BY <1>1, <2>1, <2>2, <2>4, <2>5 DEF Filling
<1> QED
  BY <1>3, <1>6, <1>7, <1>8

LEMMA NextBatchInv == IInv /\ NextBatch => IInv'
<1> SUFFICES ASSUME IInv, NextBatch PROVE IInv'
  OBVIOUS
<1> USE DEF NextBatch, IInv, sink, source
<1>1. Typing'
  BY DEF Typing
<1>2. Stages'
  BY DEF Stages, Out, NoCells
<1>3. Routed'
  BY DEF Routed, Out, Behind
<1>4. Filling'
  <2>1. Len(chunk) = 0
    BY DEF Stages
  <2> QED
    BY <2>1, PipeAssumption DEF Filling
<1> QED
  BY <1>1, <1>2, <1>3, <1>4

LEMMA SendInv == IInv /\ Send => IInv'
<1> SUFFICES ASSUME IInv, Send PROVE IInv'
  OBVIOUS
<1> USE DEF Send, IInv, source
<1>1. Out' = Out /\ sent' = Out /\ buf' = <<>> /\ Out \in Seq(Item)
  BY Items, ConcatEmptySeq DEF Out, Typing
<1>2. Typing'
  BY <1>1 DEF Typing
<1>3. Stages'
  BY <1>1 DEF Stages, NoCells
<1>4. Routed'
  <2>1. Behind' = Behind
    BY <1>1 DEF Behind
  <2> QED
    BY <1>1, <2>1 DEF Routed
<1>5. Filling'
  BY <1>1, BufBytesEmpty, PipeAssumption DEF Filling
<1> QED
  BY <1>2, <1>3, <1>4, <1>5

LEMMA FinishInv == IInv /\ Finish => IInv'
<1> SUFFICES ASSUME IInv, Finish PROVE IInv'
  OBVIOUS
<1> USE DEF Finish, IInv, source
<1>1. /\ origin # None /\ chunk = <<>> /\ batch = <<>> /\ wire = <<>> /\ opened
      /\ Out # <<>> /\ buf \in Seq(Item) /\ sent \in Seq(Item) /\ origin.rows # <<>>
  BY DEF Stages, Typing
<1>2. Out \in Seq(Item) /\ Trailer \in Item
  BY <1>1, Items DEF Out
<1>3. sent' = Append(Out, Trailer) /\ buf' = <<>> /\ Len(Out) \in Nat \ {0}
  <2>1. sent \o Append(buf, Trailer) = Append(sent \o buf, Trailer)
    BY <1>1, <1>2, AppendIsConcat, ConcatAssociative, Items DEF Out
  <2> QED
    BY <1>1, <1>2, <2>1 DEF Out
<1>4. sent' \in Seq(Item) /\ Len(sent') = Len(Out) + 1 /\ Out' = sent'
  BY <1>2, <1>3, Items, ConcatEmptySeq DEF Out
<1>5. Typing'
  BY <1>3, <1>4 DEF Typing
<1>6. Stages'
  <2>1. Out' # <<>>
    BY <1>3, <1>4
  <2> QED
    BY <1>1, <1>3, <1>4, <2>1 DEF Stages, NoCells
<1>7. Routed'
  <2>1. Behind = Len(Out) - 1 /\ Behind' = Behind
    BY <1>1, <1>3, <1>4 DEF Behind
  <2>2. Route(origin.rows, columns, Out, Behind, <<>>, <<>>, <<>>)
    BY <1>1 DEF Routed
  <2>3. Route(origin.rows, columns, Append(Out, Trailer), Behind, <<>>, <<>>, <<>>)
    BY <1>1, <1>2, <1>3, <2>1, <2>2, RouteEnds, OriginRows
  <2> QED
    BY <1>1, <1>3, <1>4, <2>1, <2>3 DEF Routed
<1>8. Filling'
  BY <1>3, PipeAssumption DEF Filling
<1> QED
  BY <1>5, <1>6, <1>7, <1>8

LEMMA FailInv == IInv /\ Fail => IInv'
<1> SUFFICES ASSUME IInv, Fail PROVE IInv'
  OBVIOUS
<1> USE DEF Fail, IInv, sink, source
<1>1. Typing'
  BY DEF Typing
<1>2. Stages'
  BY DEF Stages, Out
<1>3. Routed'
  BY DEF Routed
<1>4. Filling'
  BY DEF Filling
<1> QED
  BY <1>1, <1>2, <1>3, <1>4

LEMMA StutterInv == IInv /\ UNCHANGED vars => IInv'
<1> SUFFICES ASSUME IInv, UNCHANGED vars PROVE IInv'
  OBVIOUS
<1> USE DEF IInv, vars, sink, source
<1>1. Typing'
  BY DEF Typing
<1>2. Stages'
  BY DEF Stages, Out, NoCells
<1>3. Routed'
  BY DEF Routed, Out, Behind
<1>4. Filling'
  BY DEF Filling
<1> QED
  BY <1>1, <1>2, <1>3, <1>4

\* IInv holds in every state of every transfer.
THEOREM Invariance == Spec => []IInv
<1>1. IInv /\ [Next]_vars => IInv'
  BY ReplaceInv, PrepareInv, OpenCopyOutInv, ReceiveInv, EndOfRowsInv, DecodeInv, OpenCopyInInv,
     WriteRowInv, NextBatchInv, SendInv, FinishInv, FailInv, StutterInv DEF Next, Transfer, Stop
<1> QED
  BY InitInv, <1>1, PTL DEF Spec

-----------------------------------------------------------------------------
(* What follows.                                                           *)

LEMMA InvTypeOK == IInv => TypeOK
BY DEF IInv, Typing, Stages, NoCells, TypeOK

LEMMA InvBoundedMemory == IInv => BoundedMemory
BY DEF IInv, Filling, BoundedMemory

\* The rows behind the header are those Route tells of.
LEMMA WrittenRows ==
    ASSUME IInv, phase # "failed"
    PROVE  /\ Behind \in Nat /\ Len(Written) = Behind /\ DOMAIN Written = 1..Behind
           /\ \A i \in 1..Behind : Written[i] = Out[i + 1]
<1> USE DEF IInv
<1>1. Out \in Seq(Item) /\ sent \in Seq(Item) /\ Len(Out) \in Nat /\ Len(sent) \in Nat
  BY Items DEF Typing, Out
<1>2. CASE phase = "done"
  <2>1. opened /\ Len(sent) >= 2 /\ Out = sent
    BY <1>2, ConcatEmptySeq DEF Stages, Typing, Out
  <2> QED
    BY <1>1, <1>2, <2>1 DEF Written, RowsOf, Behind
<1>3. CASE phase # "done" /\ opened
  <2>1. Len(Out) >= 1
    BY <1>1, <1>3 DEF Stages
  <2>2. Written = SubSeq(Out, 2, Len(Out))
    BY <1>3 DEF Written, Out
  <2>3. Behind = Len(Out) - 1
    BY <1>3 DEF Behind
  <2> HIDE DEF Out
  <2>4. /\ Len(Written) = Len(Out) - 1 /\ DOMAIN Written = 1..(Len(Out) - 1)
        /\ \A i \in 1..(Len(Out) - 1) : Written[i] = Out[i + 1]
    <3>1. /\ SubSeq(Out, 2, Len(Out)) \in Seq(Item)
          /\ Len(SubSeq(Out, 2, Len(Out))) = Len(Out) - 1
          /\ \A i \in 1..(Len(Out) - 1) : SubSeq(Out, 2, Len(Out))[i] = Out[i + 1]
      BY <1>1, <2>1, AfterFirst
    <3> QED
      BY <1>1, <2>2, <3>1
  <2> QED
    BY <1>1, <2>1, <2>3, <2>4
<1>4. CASE ~opened
  <2>1. Out = <<>> /\ phase # "done"
    BY <1>4, ConcatEmptySeq DEF Stages, Out
  <2>2. Written = SubSeq(Out, 2, 0)
    BY <2>1 DEF Written, Out
  <2> QED
    BY <1>4, <2>1, <2>2 DEF Behind
<1> QED
  BY <1>2, <1>3, <1>4

\* The rows at the ends of messages still to come.
RowsIn(coming) == [i \in DOMAIN Front(coming) |-> Last(coming[i])]

PlainRows(rows) ==
    rows \in Seq(Line) /\ \A i \in DOMAIN rows : rows[i] \notin {Header, Trailer}

AreLast(rest, rows, received) ==
    /\ rest \in Seq(Line) /\ Len(rest) \in Nat /\ Len(rows) = received + Len(rest)
    /\ \A i \in 1..Len(rest) : rest[i] = rows[received + i]

\* They are the table's last.
LEMMA WireRows ==
    ASSUME NEW cols, NEW rows, PlainRows(rows),
           NEW out, NEW behind \in Nat, NEW inBatch \in Seq(Line), NEW inChunk \in Seq(Line),
           NEW coming \in Seq(Seq(Item)),
           Route(rows, cols, out, behind, inBatch, inChunk, coming),
           NEW received \in Nat, received = behind + Len(inBatch) + Len(inChunk)
    PROVE  AreLast(RowsIn(coming), rows, received)
<1>0. rows \in Seq(Line) /\ \A i \in DOMAIN rows : rows[i] \notin {Header, Trailer}
  BY DEF PlainRows
<1>1. received \in Nat /\ Len(rows) \in Nat
  BY <1>0
<1>2. CASE coming = <<>>
  <2>1. received = Len(rows)
    BY <1>2 DEF Route
  <2>2. Front(coming) = <<>>
    BY <1>2 DEF Front
  <2>3. RowsIn(coming) = <<>> /\ Len(RowsIn(coming)) = 0
    BY <2>2 DEF RowsIn
  <2> QED
    BY <1>1, <2>1, <2>3 DEF AreLast
<1>3. CASE coming # <<>>
  <2> DEFINE n == Len(rows)
             k == Len(coming) - 1
  <2>1. /\ Len(coming) = n + 1 - received /\ Len(coming) \in Nat \ {0}
        /\ \A i \in 1..Len(coming) : coming[i] = Messages(rows)[received + i]
    BY <1>3 DEF Route
  <2>2. k \in Nat /\ k = n - received
    BY <1>1, <2>1
  <2>3. DOMAIN Front(coming) = 1..k
    BY <2>2 DEF Front
  <2>4. \A i \in 1..k : i \in 1..Len(coming) /\ received + i \in 1..n
    <3>1. n \in Nat /\ Len(coming) = k + 1
      BY <1>1, <2>1
    <3> HIDE DEF n, k
    <3> QED
      BY <1>1, <2>2, <3>1
  <2>5. \A i \in 1..n : Last(Messages(rows)[i]) = rows[i] /\ rows[i] \in Line
    BY <1>0, MessagesAre
  <2> HIDE DEF n, k
  <2>6. \A i \in 1..k : RowsIn(coming)[i] = rows[received + i] /\ RowsIn(coming)[i] \in Line
    BY <2>1, <2>3, <2>4, <2>5 DEF RowsIn
  <2>7. RowsIn(coming) \in Seq(Line) /\ Len(RowsIn(coming)) = k
    <3>1. RowsIn(coming) \in [1..k -> Line]
      BY <2>3, <2>6 DEF RowsIn
    <3>2. k \in Nat
      BY <2>2
    <3> QED
      BY <3>1, <3>2, Numbered
  <2>8. received + Len(RowsIn(coming)) = n
    <3>1. n \in Nat
      BY <1>1 DEF n
    <3> QED
      BY <1>1, <2>2, <2>7, <3>1
  <2>9. \A i \in 1..Len(RowsIn(coming)) : RowsIn(coming)[i] = rows[received + i]
    BY <2>6, <2>7
  <2> QED
    BY <2>7, <2>8, <2>9 DEF n, AreLast
<1> QED
  BY <1>2, <1>3

\* Four sequences, one behind the other.
LEMMA FourParts ==
    ASSUME NEW S, NEW a \in Seq(S), NEW b \in Seq(S), NEW c \in Seq(S), NEW d \in Seq(S),
           NEW all, all = a \o b \o c \o d
    PROVE  /\ all \in Seq(S) /\ Len(all) = Len(a) + Len(b) + Len(c) + Len(d)
           /\ \A i \in 1..Len(all) :
                 all[i] = IF i <= Len(a) THEN a[i]
                          ELSE IF i <= Len(a) + Len(b) THEN b[i - Len(a)]
                          ELSE IF i <= Len(a) + Len(b) + Len(c) THEN c[i - Len(a) - Len(b)]
                          ELSE d[i - Len(a) - Len(b) - Len(c)]
<1> DEFINE two == a \o b
           three == two \o c
<1>1. /\ two \in Seq(S) /\ Len(two) = Len(a) + Len(b)
      /\ \A i \in 1..Len(two) : two[i] = IF i <= Len(a) THEN a[i] ELSE b[i - Len(a)]
  BY ConcatProperties
<1> HIDE DEF two
<1>2. /\ three \in Seq(S) /\ Len(three) = Len(two) + Len(c)
      /\ \A i \in 1..Len(three) : three[i] = IF i <= Len(two) THEN two[i] ELSE c[i - Len(two)]
  BY <1>1, ConcatProperties
<1> HIDE DEF three
<1>3. /\ all \in Seq(S) /\ Len(all) = Len(three) + Len(d)
      /\ \A i \in 1..Len(all) : all[i] = IF i <= Len(three) THEN three[i] ELSE d[i - Len(three)]
  BY <1>2, ConcatProperties DEF two, three
<1>4. Len(a) \in Nat /\ Len(b) \in Nat /\ Len(c) \in Nat /\ Len(d) \in Nat
  OBVIOUS
<1> QED
  BY <1>1, <1>2, <1>3, <1>4

LEMMA InvNothingLost == IInv => NothingLost
<1> SUFFICES ASSUME IInv, origin # None, phase # "failed"
             PROVE  [i \in DOMAIN InFlight |-> Values(InFlight[i])]
                        = [i \in DOMAIN origin.rows |-> Values(origin.rows[i])]
  BY DEF NothingLost
<1> DEFINE rows == origin.rows
           n == Len(Written)
           m == Len(batch)
           k == Len(chunk)
<1>1. Route(rows, columns, Out, Behind, batch, chunk, wire)
  BY DEF IInv, Routed
<1>2. origin \in Tables /\ rows \in Seq(Line) /\ Len(rows) \in Nat
  BY OriginRows DEF IInv
<1>3. /\ chunk \in Seq(Line) /\ batch \in Seq(Line) /\ wire \in Seq(Seq(Item))
      /\ columns \in {<<>>} \cup {t.columns : t \in Tables}
      /\ k \in Nat /\ m \in Nat
  BY DEF IInv, Typing
<1>4. /\ n = Behind /\ n \in Nat /\ DOMAIN Written = 1..n
      /\ \A i \in 1..n : Written[i] = Out[i + 1]
  BY WrittenRows
<1>5. /\ OnWire \in Seq(Line) /\ n + m + k + Len(OnWire) = Len(rows)
      /\ \A i \in 1..Len(OnWire) : OnWire[i] = rows[n + m + k + i]
  <2> HIDE DEF rows, n
  <2>1. Route(rows, columns, Out, n, batch, chunk, wire)
    BY <1>1, <1>4
  <2> QED
    <3>1. OnWire = RowsIn(wire)
      BY DEF OnWire, RowsIn
    <3>2. PlainRows(rows)
      BY <1>2, OriginRows DEF PlainRows, IInv, rows
    <3>3. /\ n \in Nat /\ batch \in Seq(Line) /\ chunk \in Seq(Line)
          /\ wire \in Seq(Seq(Item))
      BY <1>3, <1>4
    <3>4. PICK received \in Nat : received = n + Len(batch) + Len(chunk)
      BY <3>3
    <3>5. AreLast(OnWire, rows, received)
      BY <2>1, <3>1, <3>2, <3>3, <3>4, WireRows
    <3> QED
      BY <3>4, <3>5 DEF AreLast
<1> HIDE DEF rows, n
<1>6. n + m <= Len(rows) /\ Len(OnWire) \in Nat
  BY <1>3, <1>4, <1>5
<1>7. ASSUME NEW i \in 1..n
      PROVE  Written[i] \in Line /\ Values(Written[i]) = Values(rows[i])
  <2>1. i \in 1..(n + m) /\ i \in 1..Len(rows)
    BY <1>2, <1>3, <1>4, <1>6
  <2>2. Written[i] = Converted(columns, rows[i]) /\ Readable(columns, rows[i])
    BY <1>1, <1>4, <2>1 DEF Route
  <2>3. rows[i] \in Line
    BY <1>2, <2>1
  <2> QED
    BY <1>3, <2>2, <2>3, ConvertedRow
<1>8. Written \in Seq(Line)
  <2>1. Written = [i \in 1..n |-> Written[i]]
    BY <1>4 DEF Written, RowsOf
  <2> QED
    BY <1>4, <1>7, <2>1
<1>9. ASSUME NEW i \in 1..m
      PROVE  Values(batch[i]) = Values(rows[n + i])
  <2>1. n + i \in 1..(n + m) /\ n + i \in 1..Len(rows)
    BY <1>3, <1>4, <1>6
  <2>2. batch[i] = Converted(columns, rows[n + i]) /\ Readable(columns, rows[n + i])
    BY <1>1, <1>4, <2>1 DEF Route
  <2>3. rows[n + i] \in Line
    BY <1>2, <2>1
  <2> QED
    BY <1>3, <2>2, <2>3, ConvertedRow
<1>10. \A i \in 1..k : chunk[i] = rows[n + m + i]
  BY <1>1, <1>4 DEF Route
<1>11. /\ InFlight \in Seq(Line) /\ Len(InFlight) = n + m + k + Len(OnWire)
       /\ \A i \in 1..Len(InFlight) :
             InFlight[i] = IF i <= n THEN Written[i]
                           ELSE IF i <= n + m THEN batch[i - n]
                           ELSE IF i <= n + m + k THEN chunk[i - n - m]
                           ELSE OnWire[i - n - m - k]
  BY <1>3, <1>5, <1>8, FourParts DEF InFlight, n
<1>12. DOMAIN InFlight = 1..Len(rows) /\ DOMAIN rows = 1..Len(rows)
  BY <1>2, <1>5, <1>11
<1>13. ASSUME NEW i \in 1..Len(rows)
       PROVE  Values(InFlight[i]) = Values(rows[i])
  <2>1. CASE i <= n
    BY <1>5, <1>7, <1>11, <2>1
  <2>2. CASE i > n /\ i <= n + m
    <3>1. InFlight[i] = batch[i - n] /\ i - n \in 1..m /\ n + (i - n) = i
      BY <1>3, <1>4, <1>5, <1>11, <2>2
    <3> QED
      BY <1>9, <3>1
  <2>3. CASE i > n + m /\ i <= n + m + k
    <3>1. InFlight[i] = chunk[i - n - m] /\ i - n - m \in 1..k /\ n + m + (i - n - m) = i
      BY <1>3, <1>4, <1>5, <1>11, <2>3
    <3> QED
      BY <1>10, <3>1
  <2>4. CASE i > n + m + k
    <3>1. /\ InFlight[i] = OnWire[i - n - m - k] /\ i - n - m - k \in 1..Len(OnWire)
          /\ n + m + k + (i - n - m - k) = i
      BY <1>3, <1>4, <1>5, <1>6, <1>11, <2>4
    <3> QED
      BY <1>5, <3>1
  <2> QED
    BY <1>3, <1>4, <2>1, <2>2, <2>3, <2>4
<1> QED
  BY <1>12, <1>13 DEF rows

LEMMA InvCopyIsOneVersion == IInv => CopyIsOneVersion
<1> SUFFICES ASSUME IInv, phase = "done"
             PROVE  /\ origin.rows # <<>>
                    /\ [i \in DOMAIN staged.rows |-> Values(staged.rows[i])]
                           = [i \in DOMAIN origin.rows |-> Values(origin.rows[i])]
                    /\ columns = origin.columns => staged = origin
  BY DEF CopyIsOneVersion
<1>1. /\ origin # None /\ origin.rows # <<>> /\ chunk = <<>> /\ batch = <<>> /\ wire = <<>>
      /\ staged = [columns |-> columns, rows |-> RowsOf(sent)] /\ opened
      /\ columns \in {<<>>} \cup {t.columns : t \in Tables}
  BY DEF IInv, Stages, Typing
<1>2. /\ origin \in Tables /\ origin.rows \in Seq(Line) /\ Len(origin.rows) \in Nat
  BY <1>1, OriginRows DEF IInv
<1>3. /\ Behind \in Nat /\ DOMAIN staged.rows = 1..Behind
      /\ \A i \in 1..Behind : staged.rows[i] = Out[i + 1]
      /\ staged.rows = [i \in 1..Behind |-> staged.rows[i]]
  <2>1. staged.rows = Written /\ Written = [i \in DOMAIN Written |-> Written[i]]
    BY <1>1 DEF Written, RowsOf
  <2> QED
    BY <2>1, WrittenRows
<1>4. Route(origin.rows, columns, Out, Behind, <<>>, <<>>, <<>>)
  BY <1>1 DEF IInv, Routed
<1>5. /\ Behind = Len(origin.rows) /\ DOMAIN origin.rows = 1..Behind
      /\ \A i \in 1..Behind :
            staged.rows[i] = Converted(columns, origin.rows[i]) /\ Readable(columns, origin.rows[i])
  BY <1>2, <1>3, <1>4 DEF Route
<1>6. \A i \in 1..Behind : Values(staged.rows[i]) = Values(origin.rows[i])
  BY <1>1, <1>2, <1>5, ConvertedRow
<1>7. ASSUME columns = origin.columns PROVE staged = origin
  <2>1. /\ DOMAIN columns = 1..Len(columns) /\ Len(columns) \in Nat
        /\ origin = [columns |-> origin.columns, rows |-> origin.rows]
    BY <1>1, <1>2, ColumnsType, PipeAssumption DEF IsTable
  <2>2. ASSUME NEW i \in 1..Behind PROVE staged.rows[i] = origin.rows[i]
    <3>1. /\ origin.rows[i] \in Line /\ DOMAIN origin.rows[i] = DOMAIN columns
          /\ \A c \in DOMAIN columns : origin.rows[i][c] # None =>
                origin.rows[i][c] = [type |-> columns[c].type, value |-> origin.rows[i][c].value]
      BY <1>2, <1>5, <1>7, <2>1, TableRows DEF Line
    <3>2. \A c \in DOMAIN columns : Taken(columns[c].type, origin.rows[i][c]) = origin.rows[i][c]
      BY <3>1 DEF Taken
    <3> QED
      BY <1>5, <3>1, <3>2 DEF Converted, Line
  <2>3. staged.rows = origin.rows
    <3>1. origin.rows = [i \in 1..Behind |-> origin.rows[i]]
      BY <1>2, <1>5
    <3> QED
      BY <1>3, <2>2, <3>1
  <2> QED
    BY <1>1, <1>7, <2>1, <2>3
<1> QED
  BY <1>1, <1>3, <1>5, <1>6, <1>7

-----------------------------------------------------------------------------
\* Every phase finds what it works on, in every transfer.
THEOREM TypesHold == Spec => []TypeOK
BY Invariance, InvTypeOK, PTL

\* From the moment the COPY is open until the transfer ends well, each row of
\* the table is in one place on its way, once and in order, and has its values,
\* for tables, batches and chunks of any size: try_chunks, Decoder::decode,
\* CopyIn::write and CopyIn::finish together lose no row and repeat none.
THEOREM NothingIsLost == Spec => []NothingLost
BY Invariance, InvNothingLost, PTL

\* What a finished transfer has staged was the source's table at one moment,
\* never an empty one; its types too, unless the columns changed between the
\* prepared query and the COPY.
THEOREM StagedIsOneVersion == Spec => []CopyIsOneVersion
BY Invariance, InvCopyIsOneVersion, PTL

\* The chunk and the batch together hold at most BATCH_ROWS rows, and the
\* buffer was below CHUNK_BYTES before the last thing was put in it.
THEOREM MemoryIsBounded == Spec => []BoundedMemory
BY Invariance, InvBoundedMemory, PTL
=============================================================================
