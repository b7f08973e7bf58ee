------------------------------ MODULE CopyPipe ------------------------------
(***************************************************************************)
(* One transfer from a Postgres table to a Postgres table, row by row: the  *)
(* source prepares a query and opens a COPY of the table, takes the rows out *)
(* of its messages, collects a chunk, decodes it into a batch; the           *)
(* destination pulls the batches and writes their rows into a buffer, which  *)
(* it sends whenever it is full. What the server does with the staging table *)
(* is PgDestination's; here a COPY that ends well is `staged`.               *)
(*                                                                          *)
(* A column is [name, type], a cell [type, value] or None, for NULL; a       *)
(* message is a sequence of Header, rows and Trailer, and so is the buffer.  *)
(***************************************************************************)
EXTENDS Naturals, Sequences, SequencesExt, FiniteSets

CONSTANTS
    Tables,      \* what the source's name may stand for: [columns, rows]
    Alike,       \* pairs of types whose values read as one another's
    Unreadable,  \* values without an Arrow form
    BatchRows,   \* BATCH_ROWS
    ChunkBytes,  \* CHUNK_BYTES
    None, Header, Trailer

IsSeq(s) == s \in Seq(ToSet(s))

\* A row has a cell for every column, and a value is sent as its column's type.
IsTable(t) ==
    /\ t = [columns |-> t.columns, rows |-> t.rows]
    /\ IsSeq(t.columns) /\ IsSeq(t.rows)
    /\ \A row \in ToSet(t.rows) :
          /\ row \notin {Header, Trailer}
          /\ IsSeq(row) /\ Len(row) = Len(t.columns)
          /\ \A c \in DOMAIN row :
                row[c] # None => row[c] = [type |-> t.columns[c].type, value |-> row[c].value]

Types == UNION {{column.type : column \in ToSet(t.columns)} : t \in Tables}
Data == UNION {UNION {{cell.value : cell \in ToSet(row) \ {None}} : row \in ToSet(t.rows)} : t \in Tables}

\* A chunk has room for more than the header.
ASSUME PipeAssumption ==
    /\ BatchRows \in Nat \ {0}
    /\ ChunkBytes \in Nat /\ ChunkBytes > 2
    /\ Header # Trailer
    /\ \A t \in Tables : IsTable(t)
    /\ None \notin Tables \cup [type : Types, value : Data]

VARIABLES
    phase,     \* what the transfer waits for next
    table,     \* what the source's name stands for
    columns,   \* the columns of the prepared query, and the decoder's
    origin,    \* the table the COPY reads
    wire,      \* its messages still to come
    chunk,     \* rows collected for the next batch
    builders,  \* the decoder's cells, column by column
    batch,     \* rows of the batch still to be written
    opened,    \* whether the destination has opened its COPY
    buf,       \* the destination's buffer
    sent,      \* what it has sent, one chunk behind the other
    staged     \* what they have come to: [columns, rows]

source == <<table, columns, origin, wire, chunk, builders>>
sink == <<opened, buf, sent, staged>>
vars == <<phase, source, batch, sink>>

Ended == phase \in {"done", "failed"}

\* Nothing has been done; the source's table may be any.
Init ==
    /\ phase = "start"
    /\ table \in Tables
    /\ origin = None /\ columns = <<>> /\ wire = <<>> /\ chunk = <<>> /\ builders = <<>>
    /\ batch = <<>>
    /\ opened = FALSE /\ buf = <<>> /\ sent = <<>> /\ staged = None

-----------------------------------------------------------------------------
(* The source. *)

\* Another session replaces the table. A prepared statement holds no lock on it, a COPY does.
Replace ==
    /\ phase \in {"start", "prepared"}
    /\ table' \in Tables \ {table}
    /\ UNCHANGED <<phase, columns, origin, wire, chunk, builders, batch, sink>>

\* The query is prepared, which tells its columns.
Prepare ==
    /\ phase = "start"
    /\ phase' = "prepared"
    /\ columns' = table.columns
    /\ UNCHANGED <<table, origin, wire, chunk, builders, batch, sink>>

\* A message for each row, the header in front of the first, the trailer in one of its own; for
\* an empty table one message holds both.
Messages(rows) ==
    [i \in 1..Len(rows) + 1 |->
        (IF i = 1 THEN <<Header>> ELSE <<>>)
            \o (IF i <= Len(rows) THEN <<rows[i]>> ELSE <<Trailer>>)]

NoCells == [c \in DOMAIN columns |-> <<>>]

\* The COPY opens on what the name stands for now; the decoder is derived from the query's columns.
OpenCopyOut ==
    /\ phase = "prepared"
    /\ phase' = "reading"
    /\ origin' = table
    /\ wire' = Messages(table.rows)
    /\ builders' = NoCells
    /\ UNCHANGED <<table, columns, chunk, batch, sink>>

\* copy_out::row: the rows in a message, past the header; none in the closing trailer.
Row(message) ==
    LET rest == IF Head(message) = Header THEN Tail(message) ELSE message
    IN IF Head(rest) = Trailer THEN <<>> ELSE rest

\* Bug: a chunk is full when one more row has come.
ReceiveOneMore ==
    /\ phase = "reading" /\ wire # <<>>
    /\ wire' = Tail(wire)
    /\ chunk' = chunk \o Row(Head(wire))
    /\ phase' = IF Len(chunk') > BatchRows THEN "decoding" ELSE "reading"
    /\ UNCHANGED <<table, columns, origin, builders, batch, sink>>

\* try_chunks takes one message, until it has a batch of rows.
Receive ==
    /\ phase = "reading" /\ wire # <<>>
    /\ wire' = Tail(wire)
    /\ chunk' = chunk \o Row(Head(wire))
    /\ phase' = IF Len(chunk') = BatchRows THEN "decoding" ELSE "reading"
    /\ UNCHANGED <<table, columns, origin, builders, batch, sink>>

\* Bug: the rows collected when the stream ends are forgotten.
EndOfRowsDropsRest ==
    /\ phase = "reading" /\ wire = <<>>
    /\ phase' = IF opened THEN "finishing" ELSE "failed"
    /\ UNCHANGED <<source, batch, sink>>

\* Bug: a stream without rows is finished like any other.
EndOfRowsEvenIfEmpty ==
    /\ phase = "reading" /\ wire = <<>>
    /\ phase' = IF chunk # <<>> THEN "decoding" ELSE "finishing"
    /\ UNCHANGED <<source, batch, sink>>

\* Bug: only a full chunk becomes a batch.
EndOfRowsWaits ==
    /\ phase = "reading" /\ wire = <<>> /\ chunk = <<>>
    /\ phase' = IF opened THEN "finishing" ELSE "failed"
    /\ UNCHANGED <<source, batch, sink>>

\* The last chunk is what there is. A stream that ends without a batch is EmptySource.
EndOfRows ==
    /\ phase = "reading" /\ wire = <<>>
    /\ phase' = IF chunk # <<>> THEN "decoding" ELSE IF opened THEN "finishing" ELSE "failed"
    /\ UNCHANGED <<source, batch, sink>>

\* A cell's bytes read as a value of a type, whatever they were sent as.
Reads(type, cell) ==
    cell # None =>
        /\ cell.value \notin Unreadable
        /\ cell.type = type \/ {cell.type, type} \in Alike

\* A row has one cell for each column, and each of them reads as its column's type.
Fits(row) ==
    /\ Len(row) = Len(columns)
    /\ \A c \in DOMAIN columns : Reads(columns[c].type, row[c])

\* What a column's builder takes of a cell.
Taken(type, cell) == IF cell = None THEN None ELSE [type |-> type, value |-> cell.value]

\* The builders after a chunk of rows that all fit.
Filled ==
    [c \in DOMAIN columns |->
        builders[c] \o [i \in DOMAIN chunk |-> Taken(columns[c].type, chunk[i][c])]]

\* Bug: the builders are not replaced when their arrays are taken.
DecodeKeepsCells ==
    /\ phase = "decoding"
    /\ columns # <<>> /\ \A i \in DOMAIN chunk : Fits(chunk[i])
    /\ phase' = "writing"
    /\ batch' = [i \in DOMAIN Filled[1] |-> [c \in DOMAIN columns |-> Filled[c][i]]]
    /\ builders' = Filled
    /\ chunk' = <<>>
    /\ UNCHANGED <<table, columns, origin, wire, sink>>

\* Decoder::decode: every cell goes to its column's builder, the columns become a batch and the
\* builders fresh ones. A row that does not fit, or a batch without columns, is an error, which
\* drops the stream and its decoder.
Decode ==
    /\ phase = "decoding"
    /\ IF columns # <<>> /\ \A i \in DOMAIN chunk : Fits(chunk[i])
       THEN /\ phase' = "writing"
            /\ batch' = [i \in DOMAIN Filled[1] |-> [c \in DOMAIN columns |-> Filled[c][i]]]
            /\ builders' = NoCells
       ELSE /\ phase' = "failed"
            /\ builders' = <<>>
            /\ UNCHANGED batch
    /\ chunk' = <<>>
    /\ UNCHANGED <<table, columns, origin, wire, sink>>

-----------------------------------------------------------------------------
(* The destination. *)

\* The bytes of an item of the buffer: a row's field count and its cells' lengths and values,
\* NULL having none.
ItemBytes(item) ==
    CASE item = Header -> 2
      [] item = Trailer -> 1
      [] OTHER -> 1 + Cardinality({c \in DOMAIN item : item[c] # None})

BufBytes(items) ==
    LET bytes[n \in 0..Len(items)] == IF n = 0 THEN 0 ELSE bytes[n - 1] + ItemBytes(items[n])
    IN  bytes[Len(items)]

\* The first batch has come: its staging table is created, and a COPY into it opened.
OpenCopyIn ==
    /\ phase = "writing" /\ ~opened
    /\ opened' = TRUE
    /\ buf' = <<Header>>
    /\ UNCHANGED <<phase, source, batch, sent, staged>>

\* The next row of the batch goes to the buffer, which is sent once it is full.
WriteRow ==
    /\ phase = "writing" /\ opened /\ batch # <<>>
    /\ batch' = Tail(batch)
    /\ buf' = Append(buf, Head(batch))
    /\ phase' = IF BufBytes(buf') >= ChunkBytes THEN "sending" ELSE "writing"
    /\ UNCHANGED <<source, opened, sent, staged>>

\* The batch is written; the next is pulled, which is what makes the source read on.
NextBatch ==
    /\ phase = "writing" /\ opened /\ batch = <<>>
    /\ phase' = "reading"
    /\ UNCHANGED <<source, batch, sink>>

\* Bug: the buffer is copied out, not split off.
SendKeepsBuffer ==
    /\ phase = "sending"
    /\ phase' = "writing"
    /\ sent' = sent \o buf
    /\ UNCHANGED <<source, batch, opened, buf, staged>>

\* A full buffer goes out in the middle of a batch.
Send ==
    /\ phase = "sending"
    /\ phase' = "writing"
    /\ sent' = sent \o buf
    /\ buf' = <<>>
    /\ UNCHANGED <<source, batch, opened, staged>>

\* What the server takes of a complete COPY: all between its header and its trailer.
RowsOf(items) == SubSeq(items, 2, Len(items) - 1)

\* CopyIn::finish: what is left goes out with the trailer behind it, and the server takes the rows.
Finish ==
    /\ phase = "finishing"
    /\ phase' = "done"
    /\ sent' = sent \o Append(buf, Trailer)
    /\ buf' = <<>>
    /\ staged' = [columns |-> columns, rows |-> RowsOf(sent')]
    /\ UNCHANGED <<source, batch, opened>>

-----------------------------------------------------------------------------
\* Any await may fail, as when a connection is lost; all that was held is dropped.
Fail ==
    /\ ~Ended
    /\ phase' = "failed"
    /\ UNCHANGED <<source, batch, sink>>

Stop == Ended /\ UNCHANGED vars

Transfer ==
    \/ Prepare \/ OpenCopyOut \/ Receive \/ EndOfRows \/ Decode
    \/ OpenCopyIn \/ WriteRow \/ NextBatch \/ Send \/ Finish

Next == Transfer \/ Replace \/ Fail \/ Stop

\* The transfer is one future, polled until it is ready; the other session and the failures owe
\* nothing.
Spec == Init /\ [][Next]_vars /\ WF_vars(Transfer)

-----------------------------------------------------------------------------
(* Properties. *)

\* Every phase finds what it works on: a chunk to decode, an open COPY to finish, an empty buffer
\* behind a COPY that is done.
TypeOK ==
    /\ phase \in {"start", "prepared", "reading", "decoding", "writing", "sending", "finishing",
                  "done", "failed"}
    /\ table \in Tables /\ origin \in Tables \cup {None}
    /\ phase = "decoding" => chunk # <<>> /\ batch = <<>>
    /\ phase = "reading" => DOMAIN builders = DOMAIN columns /\ batch = <<>>
    /\ phase \in {"sending", "finishing", "done"} => opened /\ origin # None
    /\ phase = "done" => buf = <<>> /\ staged.columns = columns

Values(row) == [c \in DOMAIN row |-> IF row[c] = None THEN None ELSE row[c].value]

\* The rows the destination has written: what it sent or holds behind the COPY's header.
Written == IF phase = "done" THEN RowsOf(sent) ELSE SubSeq(sent \o buf, 2, Len(sent \o buf))

\* The rows still on the wire, one at the end of each message but the last.
OnWire == [i \in DOMAIN Front(wire) |-> Last(wire[i])]

\* Every row there is, oldest first: written, in the batch, in the chunk, on the wire.
InFlight == Written \o batch \o chunk \o OnWire

\* From the moment the COPY is open until the transfer ends well, every row of the table it reads
\* is in one place on its way, once and in order, with the values it has: across chunks, batches,
\* full buffers and the header and trailer around them.
NothingLost ==
    origin # None /\ phase # "failed" =>
        [i \in DOMAIN InFlight |-> Values(InFlight[i])]
            = [i \in DOMAIN origin.rows |-> Values(origin.rows[i])]

\* What a transfer stages was the table at one moment, rows and all: the values are those of the
\* one table its COPY read, however often the name changes hands meanwhile, never none, and the
\* types too when the columns did not change between the query and the COPY.
CopyIsOneVersion ==
    phase = "done" =>
        /\ origin.rows # <<>>
        /\ [i \in DOMAIN staged.rows |-> Values(staged.rows[i])]
               = [i \in DOMAIN origin.rows |-> Values(origin.rows[i])]
        /\ columns = origin.columns => staged = origin

\* The source reads no further than the batch being written, and the buffer never holds more than
\* what filled it: a transfer of any length takes the memory of one batch and one chunk.
BoundedMemory ==
    /\ Len(chunk) + Len(batch) <= BatchRows
    /\ buf # <<>> => BufBytes(Front(buf)) < ChunkBytes

\* Unless it fails a transfer comes to its end: short chunks, messages without a row and full
\* buffers never leave it waiting.
RunEnds == <>Ended

\* docs/design/DESIGN.md:102: the source's schema is ground truth, preserved end to end. What is
\* staged is the table that was read, with its columns.
ArrivesWhole == phase = "done" => staged = origin
=============================================================================
