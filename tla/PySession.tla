------------------------------ MODULE PySession ------------------------------
(***************************************************************************)
(* A Python program that makes and runs transfers: the package's Transfer  *)
(* (transferred-py/python/transferred/transfer.py, iterable.py), the       *)
(* native classes under it (transferred-py/src/transfer.rs, arrow.rs) and  *)
(* the engine's run (transferred-core/src/transfer.rs).                    *)
(*                                                                         *)
(* Calls follow one another, for the native classes stay on one thread     *)
(* (`unsendable`), but they nest: rows are pulled out of a generator while *)
(* a transfer is made and while it runs, and the generator's body may make *)
(* and run transfers itself.  `calls` is the stack of calls in progress;   *)
(* all of them but the last are waiting inside their generator's body.     *)
(***************************************************************************)
EXTENDS FilesSource

CONSTANTS
    Transfers,     \* 1..n, in the order the program makes them
    Generators,    \* iterables that are used up
    Lists,         \* iterables that can be gone through again
    Frames,        \* DataFrames: their rows are there at once
    FileObject,    \* the FilesSource object
    Destinations,  \* the destination objects
    Tables,        \* those of them that are Postgres tables
    Stranger,      \* an object that is none of these
    ChunkRows      \* _BATCH_SIZE

VARIABLES
    table,        \* iterable -> its rows, given by the world, never changed
    cursor,       \* generator, or transfer over a list -> rows taken; one more: ended
    calls,        \* the stack of calls: what, on which transfer, how far
    source, destination,  \* transfer -> what it was made from, None before
    held,         \* native connectors still in their Python object (`inner`)
    waiting,      \* transfers whose `inner` holds both connectors
    ran,          \* transfers whose connectors a run has taken
    chunk,        \* transfer -> rows taken and not yet delivered
    first,        \* transfer -> the row its schema and converter come from
    published,    \* transfer -> the batches its destination published
    outcome       \* transfer -> "made", "ok", or the exception it ended in

args == <<table, source, destination>>
connectors == <<held, waiting, ran>>
results == <<first, published, outcome>>
sessionVars == <<args, cursor, calls, connectors, chunk, results>>
vars == <<filesVars, sessionVars>>

Iterables == Generators \cup Lists \cup Frames
Natives == {FileObject} \cup Destinations

\* A row is named by where it is from; what is in it is looked up: its kind, and as
\* `keys` its keys, its fields or attributes, or the members of a tuple or a list.
Row(r) == table[r[1]][r[2]]
Rows(it) == [n \in 1..Len(table[it]) |-> <<it, n>>]

\* to_pyerr: the exception class of an error of the core.
ToPyErr == [Source |-> "SourceError", EmptySource |-> "EmptySourceError",
            Destination |-> "DestinationError", Arrow |-> "ArrowError", Io |-> "IoError"]

Exceptions == {ToPyErr[e] : e \in DOMAIN ToPyErr}
              \cup {"TypeError", "ValueError", "RuntimeError", "PanicException", "Raised"}

SessionAssumption ==
    /\ ChunkRows \in Nat \ {0}
    /\ Transfers \subseteq Nat /\ Transfers \cap Generators = {}
    /\ Tables \subseteq Destinations
    /\ Generators \cap (Lists \cup Frames) = {} /\ Lists \cap Frames = {}
    /\ {FileObject, Stranger} \cap Iterables = {} /\ FileObject \notin Destinations
    /\ Stranger \notin Destinations \cup {FileObject}
    /\ None \notin Iterables \cup {FileObject, Stranger}
    /\ None \notin Exceptions \cup {"made", "ok"}
    /\ \A w \in Worlds, it \in Iterables :
          /\ w.table[it] \in Seq(ToSet(w.table[it]))
          /\ \A i \in DOMAIN w.table[it] :
                w.table[it][i].kind \in {"dict", "dataclass", "model", "container", "other"}

ASSUME SessionAssumption

Init ==
    /\ \E w \in Worlds : FilesInit(w) /\ table = w.table
    /\ cursor = [x \in Generators \cup Transfers |-> 0]
    /\ calls = <<>>
    /\ source = [t \in Transfers |-> None]
    /\ destination = [t \in Transfers |-> None]
    /\ held = Natives
    /\ waiting = {}
    /\ ran = {}
    /\ chunk = [t \in Transfers |-> <<>>]
    /\ first = [t \in Transfers |-> None]
    /\ published = [t \in Transfers |-> <<>>]
    /\ outcome = [t \in Transfers |-> None]

-----------------------------------------------------------------------------
\* The stack of calls.
Top == Last(calls)
At(op, t, step) == calls # <<>> /\ Top = [op |-> op, t |-> t, step |-> step]
Goto(step) == calls' = [calls EXCEPT ![Len(calls)].step = step]

Pausing == IF calls = <<>> THEN <<>> ELSE [calls EXCEPT ![Len(calls)].step = "body"]
Enter(op, t, step) == calls' = Append(Pausing, [op |-> op, t |-> t, step |-> step])

Executing == {source[calls[i].t] : i \in 1..(Len(calls) - 1)}
Running == {calls[i].t : i \in {j \in DOMAIN calls : calls[j].op = "run"}}

Cursor(t) == IF source[t] \in Generators THEN source[t] ELSE t
Ended(t) == cursor[Cursor(t)] > Len(table[source[t]])

\* t's call is asking its iterable for a row.
Asking(t) ==
    /\ calls # <<>> /\ Top.t = t
    /\ Top.step \in {"next", "body"}
    /\ source[t] \notin Executing

\* In the body of the generator it asks, anything may be called.
InBody(t) == Asking(t) /\ source[t] \in Generators /\ ~Ended(t)
MayCall == calls # <<>> => InBody(Top.t)

\* A constructor raises: the rows it took are gone.
NewRaises(t, exception) ==
    /\ calls' = Front(calls)
    /\ outcome' = [outcome EXCEPT ![t] = exception]
    /\ chunk' = [chunk EXCEPT ![t] = <<>>]

\* A run returns, and the source, the destination and the batches are dropped.
RunReturns(t, result) ==
    /\ calls' = Front(calls)
    /\ outcome' = [outcome EXCEPT ![t] = result]
    /\ chunk' = [chunk EXCEPT ![t] = <<>>]
    /\ received' = <<>>
    /\ partitions' = <<>>
    /\ UNCHANGED <<given, disk, version, resolved>>

-----------------------------------------------------------------------------
\* Transfer.__new__ up to _coerce_source: what the source is decides how it starts.
NewTransfer(t, s, d) ==
    /\ MayCall
    /\ source[t] = None
    /\ \A u \in Transfers : u < t => source[u] # None
    /\ source' = [source EXCEPT ![t] = s]
    /\ destination' = [destination EXCEPT ![t] = d]
    /\ IF s = Stranger
       THEN /\ calls' = Pausing
            /\ outcome' = [outcome EXCEPT ![t] = "TypeError"]
       ELSE /\ Enter("new", t, IF s \in Generators \cup Lists THEN "next" ELSE "coerced")
            /\ outcome' = outcome
    /\ chunk' = [chunk EXCEPT ![t] = IF s \in Frames THEN Rows(s) ELSE <<>>]
    /\ cursor' = [cursor EXCEPT ![t] = IF s \in Frames THEN Len(Rows(s)) ELSE 0]
    /\ UNCHANGED <<filesVars, table, connectors, first, published>>

\* batched: the next row joins the chunk, in a constructor and in a run alike.
Take(t, by, size) ==
    /\ Asking(t)
    /\ cursor[Cursor(t)] < Len(table[source[t]])
    /\ cursor' = [cursor EXCEPT ![Cursor(t)] = @ + by]
    /\ chunk' = [chunk EXCEPT ![t] = Append(@, <<source[t], cursor[Cursor(t)] + 1>>)]
    /\ Goto(IF Len(chunk'[t]) = size THEN "coerced" ELSE "next")
    /\ UNCHANGED <<filesVars, args, connectors, results>>

\* Bug: a chunk of one row more than batched makes.
TakeRowPastChunk(t) == Take(t, 1, ChunkRows + 1)

\* Bug: the first row is looked at before it is taken with the rest.
TakeRowPeeks(t) == Take(t, IF chunk[t] = <<>> /\ Top.op = "new" THEN 0 ELSE 1, ChunkRows)

TakeRow(t) == Take(t, 1, ChunkRows)

\* StopIteration: the chunk is what it is, and asking again brings no more.
EndRows(t) ==
    /\ Asking(t)
    /\ cursor[Cursor(t)] >= Len(table[source[t]])
    /\ cursor' = [cursor EXCEPT ![Cursor(t)] = Len(table[source[t]]) + 1]
    /\ Goto("coerced")
    /\ UNCHANGED <<filesVars, args, connectors, chunk, results>>

\* The generator's body raises, or is executing already further down the stack:
\* the constructor passes that on, a run's reader makes an Arrow error of it.
RowFails(t, exception) ==
    /\ IF Top.op = "new"
       THEN NewRaises(t, exception) /\ UNCHANGED filesVars
       ELSE RunReturns(t, ToPyErr["Arrow"])
    /\ UNCHANGED <<args, connectors, first, published>>

BodyRaises(t) ==
    /\ InBody(t)
    /\ cursor' = [cursor EXCEPT ![Cursor(t)] = Len(table[source[t]]) + 1]
    /\ RowFails(t, "Raised")

GeneratorBusy(t) ==
    /\ calls # <<>> /\ Top.t = t /\ Top.step = "next"
    /\ source[t] \in Executing
    /\ UNCHANGED cursor
    /\ RowFails(t, "ValueError")

-----------------------------------------------------------------------------
\* The converter is chosen by the first row.  A dict's passes rows through, and
\* from_pylist asks every row `key in row`: of a model nothing is found, nor of a
\* tuple, a list or a string that does not hold the key, and the row is one of
\* nulls; one that holds it cannot be indexed by it, and any other object cannot be
\* asked.  A dataclass's reads attributes, which a model or another object may have.
Converts(f, row) ==
    CASE f.kind = "dict" ->
            row.kind \in {"dict", "model"} \/ (row.kind = "container" /\ f.keys \cap row.keys = {})
      [] f.kind = "dataclass" ->
            row.kind \in {"dataclass", "model", "other"} /\ f.keys \subseteq row.keys
      [] f.kind = "model" -> row.kind = "model"

AllConvert(f, rows) == \A i \in DOMAIN rows : Converts(Row(f), Row(rows[i]))

\* What _iterable_to_reader makes of the first chunk.
FirstChunkError(t) ==
    IF source[t] \notin Generators \cup Lists THEN None
    ELSE IF chunk[t] = <<>> THEN "EmptySourceError"
    ELSE IF Row(Head(chunk[t])).kind \in {"container", "other"} THEN "TypeError"
    ELSE IF ~AllConvert(Head(chunk[t]), chunk[t]) THEN "Raised"
    ELSE None

\* The connectors _Transfer takes out of their objects; an ArrowSource is always new.
Connectors(t) == {source[t], destination[t]} \cap Natives

RefuseRows(t) ==
    /\ At("new", t, "coerced")
    /\ FirstChunkError(t) # None
    /\ NewRaises(t, FirstChunkError(t))
    /\ UNCHANGED <<filesVars, args, cursor, connectors, first, published>>

\* Bug: the connectors are taken before the destination is looked at.
RefuseDestinationTakes(t) ==
    /\ At("new", t, "coerced")
    /\ FirstChunkError(t) = None
    /\ destination[t] \notin Destinations
    /\ held' = held \ Connectors(t)
    /\ NewRaises(t, "TypeError")
    /\ UNCHANGED <<filesVars, args, cursor, waiting, ran, first, published>>

\* The destination is looked at only now.
RefuseDestination(t) ==
    /\ At("new", t, "coerced")
    /\ FirstChunkError(t) = None
    /\ destination[t] \notin Destinations
    /\ NewRaises(t, "TypeError")
    /\ UNCHANGED <<filesVars, args, cursor, connectors, first, published>>

\* PyTransfer::new takes both before it looks at either: one that was there is lost.
RefuseConsumed(t) ==
    /\ At("new", t, "coerced")
    /\ FirstChunkError(t) = None
    /\ destination[t] \in Destinations
    /\ ~(Connectors(t) \subseteq held)
    /\ held' = held \ Connectors(t)
    /\ NewRaises(t, "RuntimeError")
    /\ UNCHANGED <<filesVars, args, cursor, waiting, ran, first, published>>

\* Both connectors taken, the transfer holds them and, for rows, the reader.
Make(t, taken, ahead) ==
    /\ At("new", t, "coerced")
    /\ FirstChunkError(t) = None
    /\ destination[t] \in Destinations
    /\ Connectors(t) \subseteq held
    /\ held' = held \ taken
    /\ waiting' = waiting \cup {t}
    /\ first' = [first EXCEPT ![t] = IF chunk[t] = <<>> THEN None ELSE Head(chunk[t])]
    /\ outcome' = [outcome EXCEPT ![t] = "made"]
    /\ chunk' = [chunk EXCEPT ![t] = ahead]
    /\ calls' = Front(calls)
    /\ UNCHANGED <<filesVars, args, cursor, ran, published>>

\* Bug: the destination is shared with its object in place of taken from it.
MakeTransferShares(t) == Make(t, {source[t]}, chunk[t])

\* Bug: the reader is made of the chunks still to come, without chain([first], rest).
MakeTransferDropsFirst(t) == Make(t, Connectors(t), <<>>)

MakeTransfer(t) == Make(t, Connectors(t), chunk[t])

-----------------------------------------------------------------------------
\* PyTransfer::run takes `inner` and enters a runtime of its own.
Run(t) ==
    /\ MayCall
    /\ t \in waiting
    /\ Running = {}
    /\ waiting' = waiting \ {t}
    /\ ran' = ran \cup {t}
    /\ Enter("run", t, IF source[t] = FileObject THEN "resolve"
                       ELSE IF chunk[t] # <<>> THEN "coerced" ELSE "next")
    /\ UNCHANGED <<filesVars, args, cursor, held, chunk, results>>

\* Inside another run there is a runtime on this thread already: block_on panics,
\* after the connectors were taken.
RunPanics(t) ==
    /\ MayCall
    /\ t \in waiting
    /\ Running # {}
    /\ waiting' = waiting \ {t}
    /\ ran' = ran \cup {t}
    /\ calls' = Pausing
    /\ chunk' = [chunk EXCEPT ![t] = <<>>]
    /\ outcome' = [outcome EXCEPT ![t] = "PanicException"]
    /\ UNCHANGED <<filesVars, args, cursor, held, first, published>>

\* A second run, or one from within the first, raises RuntimeError and changes nothing.
RunAgain(t) ==
    /\ MayCall
    /\ t \in ran
    /\ calls' = Pausing
    /\ UNCHANGED <<filesVars, args, cursor, connectors, chunk, results>>

\* The reader's next batch.
DeliverAs(t, columns) ==
    /\ At("run", t, "coerced")
    /\ chunk[t] # <<>>
    /\ source[t] \in Frames \/ AllConvert(first[t], chunk[t])
    /\ received' = Append(received, [rows |-> chunk[t], columns |-> columns])
    /\ chunk' = [chunk EXCEPT ![t] = <<>>]
    /\ Goto("next")
    /\ UNCHANGED <<given, disk, version, resolved, partitions, args, cursor, connectors, results>>

\* Bug: a later chunk is converted without `schema=first.schema`.
DeliverInfers(t) == DeliverAs(t, Row(Head(chunk[t])).keys)

\* Its columns are the keys of the first row: others are dropped, missing ones null.
\* One schema for the whole reader, so no table refuses a batch for its columns.
Deliver(t) == DeliverAs(t, Row(first[t]).keys)

\* A row that does not convert comes out of the reader as an Arrow error.
ChunkFails(t) ==
    /\ At("run", t, "coerced")
    /\ chunk[t] # <<>>
    /\ source[t] \notin Frames
    /\ ~AllConvert(first[t], chunk[t])
    /\ RunReturns(t, ToPyErr["Arrow"])
    /\ UNCHANGED <<args, cursor, connectors, first, published>>

-----------------------------------------------------------------------------
\* Transfer::run over the files source.
Resolve(t) ==
    /\ At("run", t, "resolve")
    /\ StreamPartitions
    /\ Goto("files")
    /\ UNCHANGED <<args, cursor, connectors, chunk, results>>

ResolveFails(t) ==
    /\ At("run", t, "resolve")
    /\ ~Resolvable
    /\ RunReturns(t, ToPyErr["Source"])
    /\ UNCHANGED <<args, cursor, connectors, first, published>>

\* Encoder::check: a table is created from the first batch, and no batch of
\* other columns goes into it.
Fits(t, batch) ==
    destination[t] \in Tables /\ received # <<>> => batch.columns = Head(received).columns

\* Bug: batches are not checked.
ReadFilesUnchecked(t) ==
    /\ At("run", t, "files")
    /\ OpenFile \/ EndFile \/ ReadBatch
    /\ UNCHANGED sessionVars

\* The destination asks on, and writes what it gets.
ReadFiles(t) ==
    /\ At("run", t, "files")
    /\ OpenFile \/ EndFile \/ (ReadBatch /\ Fits(t, Last(received')))
    /\ UNCHANGED sessionVars

\* The next file's first batch has other columns than the table.
BatchRefused(t) ==
    /\ At("run", t, "files")
    /\ partitions # <<>> /\ ~Unopened /\ Head(partitions).rest # <<>>
    /\ ~Fits(t, Head(Head(partitions).rest))
    /\ RunReturns(t, ToPyErr["Destination"])
    /\ UNCHANGED <<args, cursor, connectors, first, published>>

OpenFails(t) ==
    /\ At("run", t, "files")
    /\ Unopened /\ ~Readable
    /\ RunReturns(t, ToPyErr[OpenError])
    /\ UNCHANGED <<args, cursor, connectors, first, published>>

\* A row group of an open file does not decode.
DecodeFails(t) ==
    /\ At("run", t, "files")
    /\ partitions # <<>> /\ ~Unopened
    /\ RunReturns(t, ToPyErr["Source"])
    /\ UNCHANGED <<args, cursor, connectors, first, published>>

-----------------------------------------------------------------------------
\* Every partition has been read through.
SourceEnded(t) ==
    \/ At("run", t, "coerced") /\ chunk[t] = <<>>
    \/ At("run", t, "files") /\ partitions = <<>>

\* Bug: the source is asked again after it said there is no more.
FinishAsksAgain(t) ==
    /\ SourceEnded(t)
    /\ Goto(IF source[t] = FileObject THEN "files" ELSE "next")
    /\ UNCHANGED <<filesVars, args, cursor, connectors, chunk, results>>

\* The destination publishes what it was given; nothing at all is an error.
Finish(t) ==
    /\ SourceEnded(t)
    /\ published' = [published EXCEPT ![t] = received]
    /\ RunReturns(t, IF received = <<>> THEN ToPyErr["EmptySource"] ELSE "ok")
    /\ UNCHANGED <<args, cursor, connectors, first>>

\* The destination fails before it asks for a batch, or after the last.
DestinationFails(t) ==
    /\ calls # <<>> /\ Top.op = "run" /\ Top.t = t
    /\ Top.step \in {"files", "coerced", "next"}
    /\ Top.step = "next" => chunk[t] = <<>>
    /\ \E e \in {"Destination", "Io"} : RunReturns(t, ToPyErr[e])
    /\ UNCHANGED <<args, cursor, connectors, first, published>>

\* Bound: another process replaces the files only while a run reads them.
Replace ==
    /\ calls # <<>> /\ Top.step \in {"resolve", "files"}
    /\ PublishOutput \/ \E p \in Names : RemoveEntry(p)
    /\ UNCHANGED sessionVars

Proceed(t) ==
    \/ TakeRow(t) \/ EndRows(t) \/ BodyRaises(t) \/ GeneratorBusy(t)
    \/ RefuseRows(t) \/ RefuseDestination(t) \/ RefuseConsumed(t) \/ MakeTransfer(t)
    \/ Deliver(t) \/ ChunkFails(t)
    \/ Resolve(t) \/ ResolveFails(t) \/ ReadFiles(t) \/ BatchRefused(t)
    \/ OpenFails(t) \/ DecodeFails(t)
    \/ Finish(t)

Next ==
    \/ \E t \in Transfers :
          \/ \E s \in Iterables \cup {FileObject, Stranger}, d \in Destinations \cup {Stranger} :
                 NewTransfer(t, s, d)
          \/ Run(t) \/ RunPanics(t) \/ RunAgain(t)
          \/ Proceed(t)
          \/ DestinationFails(t)
    \/ Replace

Spec == Init /\ [][Next]_vars

\* A call in progress goes on: its own code, or the generator it asks, which
\* yields, ends or raises in the end.
FairSpec == Spec /\ WF_vars(\E t \in Transfers : Proceed(t))

-----------------------------------------------------------------------------
RowIds == UNION {{Rows(it)[n] : n \in DOMAIN Rows(it)} : it \in Iterables}

\* Every variable has values of its kind: the connectors, the calls, the rows.
TypeOK ==
    /\ FilesTypeOK
    /\ table \in {w.table : w \in Worlds}
    /\ \A t \in Transfers :
          /\ source[t] \in Iterables \cup {FileObject, Stranger, None}
          /\ destination[t] \in Destinations \cup {Stranger, None}
          /\ outcome[t] \in Exceptions \cup {None, "made", "ok"}
          /\ ToSet(chunk[t]) \subseteq RowIds
          /\ source[t] \notin Frames => Len(chunk[t]) <= ChunkRows
          /\ first[t] \in RowIds \cup {None}
    /\ \A g \in Generators : cursor[g] \in 0..(Len(table[g]) + 1)
    /\ held \subseteq Natives
    /\ waiting \cup ran \subseteq Transfers
    /\ \A i \in DOMAIN calls :
          /\ calls[i].op \in {"new", "run"}
          /\ calls[i].t \in Transfers
          /\ calls[i].step \in {"next", "body", "coerced", "resolve", "files"}
          /\ i < Len(calls) => calls[i].step = "body" /\ source[calls[i].t] \in Generators

\* A connector is in one place: in its Python object, or with the one transfer
\* that took it, which waits for its run or has had it.  Nothing is run twice,
\* however calls are nested ("Single-shot", transfer.rs:1; trait Destination).
UsedOnce ==
    /\ waiting \cap ran = {}
    /\ \A t \in waiting \cup ran : Connectors(t) \cap held = {}
    /\ \A t, u \in waiting \cup ran : t # u => Connectors(t) \cap Connectors(u) = {}

\* A connector leaves its Python object only for the transfer it is in, or with
\* a RuntimeError: a constructor that refuses the rows or the destination for
\* what they are takes nothing, and the same source can be given to the next.
ConnectorsKept ==
    [][\A c \in held \ held' :
          \E t \in Transfers :
              /\ c \in Connectors(t)
              /\ t \in waiting' \/ outcome'[t] = "RuntimeError"]_vars

\* The rows of transfer t, from the first it published to the last it took.
RowsIn(batches) == FlattenSeq([i \in DOMAIN batches |-> batches[i].rows])
RowsOf(t) ==
    RowsIn(published[t]) \o (IF t \in Running THEN RowsIn(received) ELSE <<>>) \o chunk[t]

UsersOf(it) == {t \in Transfers : source[t] = it}

\* A generator's row is taken by one transfer, once, and a transfer keeps the
\* rows it took in order, even if several read the generator by turns or one
\* inside the other's call.
RowsOnce ==
    \A g \in Generators : \A t, u \in UsersOf(g) :
        LET mine == RowsOf(t)
            others == RowsOf(u)
        IN  /\ \A i, j \in DOMAIN mine : i < j => mine[i][2] < mine[j][2]
            /\ t # u => ToSet(mine) \cap ToSet(others) = {}

\* While no call over a generator has raised, every row it gave is with a
\* transfer that read it, and one that succeeds has seen the generator's end:
\* the rows a constructor took to learn the schema are delivered like the rest.
\* Over a list or a DataFrame a run that succeeds has published every row.
NoRowLost ==
    \A it \in Iterables :
        IF it \in Generators
        THEN (\A t \in UsersOf(it) : outcome[t] \in {None, "made", "ok"}) =>
                 /\ UNION {ToSet(RowsOf(t)) : t \in UsersOf(it)}
                    = {r \in ToSet(Rows(it)) : r[2] <= cursor[it]}
                 /\ \A t \in UsersOf(it) : outcome[t] = "ok" => Ended(t)
        ELSE \A t \in UsersOf(it) : outcome[t] = "ok" => RowsOf(t) = Rows(it)

\* All batches of a successful run have the columns of its first row, not of the
\* chunk they come from, and nothing but rows that this row's converter takes: a
\* row that fails to convert ends the run wherever it comes, also in a chunk the
\* constructor never saw.  A row of another kind may convert: into nulls, after dicts.
FirstRowSetsColumns ==
    \A t \in Transfers :
        outcome[t] = "ok" /\ source[t] \in Generators \cup Lists =>
            LET f == Head(RowsOf(t))
            IN  /\ AllConvert(f, RowsOf(t))
                /\ \A i \in DOMAIN published[t] : published[t][i].columns = Row(f).keys

\* A successful run over files has read every path it resolved, once, whole and
\* in order, each from one output and none from an older one than the path before.
FilesReadWhole ==
    \A t \in UsersOf(FileObject) :
        outcome[t] = "ok" =>
            /\ ReadWhole(resolved, published[t])
            /\ given # Glob => resolved = given

\* Whatever becomes of the files under a run, the rows it puts in a table all
\* come under the columns the table was created with: a file that was replaced
\* by one of other columns never ends up in the same table as its forerunners.
TablesHaveOneSchema ==
    \A t \in Transfers :
        destination[t] \in Tables =>
            \A i, j \in DOMAIN published[t] : published[t][i].columns = published[t][j].columns

\* Every call returns, however deep they are nested.
CallsReturn == calls # <<>> ~> calls = <<>>
=============================================================================
