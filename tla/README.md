# A TLA+ model of transferred

`transferred` moves tables. A *source* (a Postgres table, Parquet files, a Python iterable or
DataFrame) yields partitions: streams of Arrow batches. A *destination* (a Postgres table, a
directory of files) takes them and replaces what it held. A `Transfer` runs one source into one
destination, once. This directory holds TLA+ modules of the parts that keep state or take several
steps, the TLC configurations that check them, and proofs checked by TLAPS.

## The system

| Component | State it keeps | Operations | Talks to |
| --- | --- | --- | --- |
| Transfer engine (`transferred-core/src/transfer.rs`) | the source and destination, each used once | `run` | pulls batches one at a time; the destination drives |
| Postgres destination (`transferred-postgres/src/destination.rs`, `destination/copy_in.rs`) | one connection, the names of the target and its staging table; in the server a staging table, a COPY, a transaction | load (first batch, encoder, `create_staging`, `copy`), `swap`, `drop_staging` | the server, other sessions through locks and the catalog |
| Arrow to Postgres types (`destination/arrow_to_pg.rs`) | the schema of the first batch | `Encoder::new`, `check`, `write_row` | the COPY buffer |
| Postgres source (`source.rs`, `source/copy_out.rs`) | a connection, a COPY OUT, a chunk of rows | prepare, COPY, `try_chunks`, decode | the server; holds a lock on the table it reads |
| Postgres to Arrow types (`source/pg_to_arrow.rs`, `pg_range.rs`, `geoarrow.rs`) | one builder per column | `Decoder::derive`, `decode` | |
| Files destination (`transferred-files/src/destination.rs`, `formats/parquet.rs`) | a tmp directory, open files, the list of files written | `write_files`, `atomic_replace`, `cleanup`, `report` | the file system, shared with other runs |
| Files source (`transferred-files/src/source.rs`) | a list of paths | resolve, open lazily | the file system |
| Python bindings (`transferred-py/src`) | an `Option` per source, destination and transfer: taken when used | constructors, `run` off the GIL | the engine; pulls rows back out of Python while it runs |
| Python package (`transferred-py/python`) | an iterator and its first chunk | coercion of rows and DataFrames | bindings; the caller's generators |

What is hard here is not the flow of one run that succeeds. It is what a run leaves behind when one
of its steps fails, when it is killed, when its connection goes at the wrong moment, and what the
next run, or one that runs at the same time, makes of it. Both destinations stage their output under
a name derived from the target's alone (`{table}__transferred_staging`, `{dir}.tmp`), so runs into
the same target meet there. `PROJECT.json` lists the hazards line by line.

What makes each part correct:

- a destination: its target is replaced as a whole or not at all; success is reported only for rows
  that are there; a failed run leaves the target as it was and no staging behind; every run returns;
- the wire: what COPY IN writes is one header, whole rows in order, one trailer, wherever the
  buffer is cut into chunks; COPY OUT returns the same rows;
- the type mappings: a column either arrives as it left or the transfer refuses it;
- the Python objects: a source or destination is used once, and not lost by a call that refuses rows or
  destination; rows come out of a generator once; every call returns;
- the files source: what a run that succeeds has read is every file it settled on, each one whole.

## Modules

| Module | What it models |
| --- | --- |
| `AtomicReplace` | the abstract specification of a destination (`trait Destination`, "writes batch partitions atomically and reports stats") |
| `PgDestination` | the Postgres destination, its COPY, and the server's catalog and locks |
| `PgDestinationProofs` | theorems about `PgDestination` |
| `FilesDestination` | the files destination and Parquet writer, with the file system as directories of inodes |
| `FilesDestinationProofs` | theorems about `FilesDestination` |
| `FilesSource` | the files source: paths resolved once, files opened one by one, while another process may replace them |
| `FilesSourceProofs` | lemmas about `FilesSource`, cited by the proofs about `PySession` |
| `PySession` | a Python program that makes and runs transfers: the package, the bindings, the engine's `run` |
| `PySessionProofs` | theorems about `PySession`: objects and the stack of calls |
| `PySessionRowsProofs` | theorems about `PySession`: types, rows and files |
| `CopyPipe` | the pipe of a transfer from Postgres to Postgres: prepare, COPY OUT, chunks, decoder, batches, COPY IN's buffer |
| `CopyPipeProofs` | theorems about `CopyPipe` |
| `TypeMap` | the two mappings between Postgres columns and Arrow fields, and their values, as functions; with what Postgres makes of the DDL and the bytes |
| `ColumnTrip` | one value of one column on its way back and forth between tables and batches |
| `ColumnTripProofs` | theorems about `TypeMap` and `ColumnTrip` |
| `SequenceFacts` | lemmas on numbers and sequences that several proofs need |
| `MCPgDestination`, `MCFilesDestination`, `MCPySession`, `MCCopyPipe`, `MCColumnTrip` | constants for TLC |

`AtomicReplace` is instantiated by both destinations. `PySession` extends `FilesSource`: a session's
runs over files take that module's steps, and its own are those over rows. The other compositions are by what is left out:
`PgDestination` takes a load as batches that come or fail and follows the tables, `CopyPipe` follows
every row of one load and takes its staging table as given, `ColumnTrip` follows one value through
what `CopyPipe`'s decoder and encoder do to each cell.

### AtomicReplace

`published` says whose complete output the target holds, `outcome` what each run has come to. One
action, `Publish`, changes `published`. A run succeeds only after publishing and fails only without.
A run that lost contact may be `unsure`: one publication of its may still follow; one that has
published already stays published.

### PgDestination

`phase[r]` is where run `r` stands in `write_partitions`; each phase is one `await` on the server or
the source, and each action is the statement that is executed there, with what the code does before
the next `await`.

| Action | Code |
| --- | --- |
| `Start`, `Refuse` | the source opened by `Transfer::run`, `connect`, `Loader::new`; or an error in them, after which nothing is cleaned up |
| `FirstBatch` | `load` up to `Encoder::new` |
| `CreateStaging` | `create_staging`: one `batch_execute`, hence one implicit transaction |
| `CopyOpen`, `WriteBatch`, `Finish` | `copy`: `CopyIn::open`, `write_batch` per batch, `finish`, which makes all rows visible at once |
| `SwapDrop`, `SwapRename`, `Commit` | `swap`: the two statements of `swap_sql` inside a transaction |
| `Return` | the report |
| `Fail` | any error from `load` or `swap`: dropping the `CopyInSink` or the `Transaction` ends what the session had open, then `replace` goes on to `drop_staging` |
| `DropStaging`, `DropStagingFails` | `drop_staging`, whose own failure is only logged |
| `Sever` | the process is killed or its connection lost; the server's side of the session stays |
| `ServerAborts`, `Commit` at phase `"lost"` | the server ends such a session; if its transaction was complete the COMMIT may have been on its way |

A table is identified by the run that created it. `target` and `staging` are the committed meaning
of the two names; `content` the committed rows, one row for a batch. Partitions are flattened by the
code, so a source is a number of batches (`size`, 0 is an empty source). The server is modelled as
far as the code relies on it: COPY locks the table it writes or reads until it ends, DDL waits for
every lock and keeps its own until its transaction ends, a name is resolved when the lock is
granted, and a transaction's DDL is seen by others at commit. A statement that was sent by a client
that is then lost counts as executed before the loss; only COMMIT, whose late execution is visible,
may follow it. A COPY into a staging table of another run with other columns fails, one with
the same columns does not: `Fail` and `WriteBatch` are both possible. The names themselves (quoting,
schemas, the 63-byte limit) are left out.

### FilesDestination

`target` and `tmp` are directories, functions from file names to inodes, or `None`; the target may
also be a regular file. `disk` is what an inode holds since it was last truncated, in the order it was
written: batches and, after `close`, the footer (piece 0). This keeps a file the same file while its directory is renamed or
emptied under its writer. `streams[r]` is what `file_streams` makes of the partitions: with
`single_file`, one stream. `former` is a history variable: what the output was when a removal began.

| Action | Code |
| --- | --- |
| `Start`, `Refuse` | `create_dir_all(tmp)`, which keeps an existing directory; or an error before it |
| `SkipStream`, `CreateFile` | `peek`, `output_filename`, `File::create`, which truncates |
| `WriteBatch`, `CloseFile` | `Parquet::write` |
| `WriteFails` | any error of source, file or writer |
| `EndStreams` | `EmptySource`, or on to `atomic_replace` |
| `RemoveEntry`, `RemoveDir`, `RemoveFails` | `remove_dir_all(path)`, file by file; `NotFound` is no error, a regular file is |
| `Rename`, `RenameFails` | `rename`, which replaces nothing or an empty directory |
| `CleanupEntry`, `CleanupDir`, `CleanupFails` | `cleanup` |
| `Report`, `ReportFails` | `report`: `metadata` of every file written |
| `Crash` | the process is killed; its writes stay |

Two variables never change and let one run cover several configurations: `single` is the set of runs
with `single_file`, `faults` what may go wrong in this behaviour beside reading and writing (a kill, an
error of the removal, the rename, the cleanup or the report). `TmpGone` and `ReplacesAtomically` speak
of the behaviours without such faults or with a failing report only (`Mild`), the other properties of
all. A run whose report fails ends in a phase of its own, `"unreported"`: to its caller it failed, to
`AtomicReplace` it published and then lost contact. A power loss is not modelled: nothing is synced, so what survives is the file system's choice.

### FilesSource

`disk` is what each name stands for: nothing, a directory, a torn file, or a whole file, which is the
sequence of its batches; `version` counts the outputs that have been in place. A partition is a path
and, once opened, what is left of the file: an open file is read to its end whatever becomes of its
name. `resolved` is the list of paths a run settled on.

| Action | Code |
| --- | --- |
| `StreamPartitions` | `resolve_paths` (an explicit list as given, or what a glob finds now), the refusal of no path and of a directory, and a lazy stream for each file |
| `OpenFile` | `open_file_stream`, when its partition is first asked for a batch; `OpenError` is what becomes of a file that is gone (`Io`) or has no footer (`Source`) |
| `ReadBatch`, `EndFile` | the batches of the open file, and the end of its stream |
| `RemoveEntry`, `PublishOutput` | another process replaces the directory, as `FilesDestination` does |

The module has no specification of its own: `PySession` takes these steps on behalf of a run. Both
destinations of the repository read partitions one after the other, so this order is the model's.
Globs of several directories and the syntax errors of a glob are left out.

### PySession

A session is one Python thread: the native classes are `unsendable`, so no other thread may touch
them. What interleaves are calls that nest. A transfer over a generator pulls rows inside its
constructor (to learn the schema) and inside `run`, and the generator's body is the caller's code,
which may construct and run transfers, over the very same generator or the very transfer that is
running. `calls` is that stack: constructors and runs in progress, each at a step; all but the last
are in their generator's body. `held` is which source and destination objects still have their
`inner`, `waiting` and `ran` where the transfers are with theirs. `cursor` counts the rows taken from
a generator (or by one transfer from a list, which each goes through from its beginning), `chunk` are
rows taken and not delivered.

| Action | Code |
| --- | --- |
| `NewTransfer` | `Transfer.__new__` up to what `_coerce_source` finds the source to be; a foreign object is a `TypeError` |
| `TakeRow`, `EndRows` | `batched`: one `next()` of the iterable, in a constructor or a run |
| `BodyRaises`, `GeneratorBusy` | the generator raises, or says it is already executing; the constructor passes the exception on, in a run the reader turns it into an Arrow error |
| `RefuseRows` | what `_iterable_to_reader` makes of the first chunk: `EmptySourceError`, `TypeError`, a converter's error |
| `RefuseDestination` | the destination is looked at after the source has been read from |
| `RefuseConsumed`, `MakeTransfer` | `PyTransfer::new`: both connectors are taken, then each is looked at |
| `Run`, `RunAgain`, `RunPanics` | `PyTransfer::run`: `inner` is taken, the engine entered; a second run is refused; a run inside a run panics in `block_on`, its connectors gone |
| `Deliver`, `ChunkFails` | the reader's next batch, under the schema of the first row |
| `Resolve`, `ResolveFails`, `ReadFiles`, `OpenFails`, `DecodeFails` | a run over `FilesSource` |
| `BatchRefused` | `Encoder::check` in `write_batch`: a Postgres table gets no batch of other columns than its first |
| `Finish`, `DestinationFails` | the destination publishes what it was given, `EmptySource` if that is nothing; or fails |
| `Replace` | another process, on the files |

A row is a kind and its keys: a `dict`, a `dataclass`, a `model`, a `container` (a tuple, a list, a
string), or another object, whose keys are its attributes. `Converts` says which kinds the first row's
converter, and the batch made of what it returns, take without raising. A destination is one
that collects batches: what it does with them is `PgDestination`'s and `FilesDestination`'s. Only what it
refuses matters here: a Postgres table (`Tables`) is created from the first batch and checks the others,
a directory with a file for each partition takes what comes.
`outcome` is the Python exception a call ends in, by `to_pyerr`.

Left out: a first row without keys, rows after dataclass rows that have the fields' names as methods,
values of another type than the first chunk's, DataFrames that are themselves one-shot readers, files of different columns under `single_file` (what the Parquet writer
makes of those is the library's), a missing pyarrow, the connectors' own constructors, and the fields of
the report and of the exceptions.

### CopyPipe

`phase` is what the transfer waits for next: the destination pulls, so there is one thread of control
and everything is either at the source (`wire`, `chunk`, `builders`), in the `batch` between them, or
at the destination (`buf`, `sent`). `table` is what the source's name stands for, `columns` what
`prepare` told of it, `origin` the table the COPY got hold of.

| Action | Code |
| --- | --- |
| `Prepare`, `OpenCopyOut` | `batches`: two statements, no transaction around them |
| `Replace` | another session puts another table, other columns or other rows under the name; not once the COPY has its lock |
| `Receive`, `EndOfRows` | `copy_out::rows` and `try_chunks(BATCH_ROWS)`; `EmptySource` |
| `Decode` | `Decoder::decode` with `Cells`, from rows to columns, and the fresh builders |
| `OpenCopyIn`, `WriteRow`, `Send`, `NextBatch` | `load`, `CopyIn::open`, `write_batch` |
| `Finish` | `CopyIn::finish`, and the server taking header, rows and trailer |
| `Fail` | any error or lost connection; what follows is `PgDestination`'s |

A message is a sequence of header, rows and trailer rather than bytes; the size of a row is a number
per cell. `sent` is what the destination has sent, one chunk behind the other: the server does not
see where chunks end (`RowsOf` is what it makes of them). Two types may be `Alike`: a value sent as one then reads as the other (an `int4` as a
`date`). A value without an Arrow form fails the chunk it is in.

### TypeMap and ColumnTrip

`TypeMap` is a module of functions. `Decoding`, `Field` and `Decoded` are `pg_to_arrow.rs`: which
decoding a column gets, its Arrow field with its extension tag, the item a cell becomes. `Encoding`,
`SqlColumn` and `Encoded` are `arrow_to_pg.rs` in the other direction; `Stored` is what Postgres makes
of what it receives. A column is a type and a modifier (an integer, taken apart with masks as in the
code); a field is a data type and a tag; values are integers, decimals (mantissa and scale), ranges
(`PgRange`), geometries, or opaque where nothing depends on them. `Refused` is an error that names the
column; `None`, `Refused` and `Unreadable` are no numbers and no ranges (`MapAssumption`), and no error
is a decoding or an encoding (`CodingAssumption`).

`ColumnTrip` composes them. `Read` moves the value from `table` to `batch` (`Decoder::derive` and
`decode`), `Write` from `batch` to `table` (`Encoder::new`, the DDL, `write_row`, the server); either
may refuse. `BatchOf` and `TableOf` say what the value becomes, `Decodes` and `Encodes` whether it does:
the guards of the two steps, and, negated, of `ReadRefused` and `WriteRefused`. A trip may start at any
column Postgres can declare with any value it can hold (`IsColumn`, `IsCell`), or at any field and value
of another producer (`IsField`, `IsItem`); these four say where Postgres and Arrow keep what the code
relies on: a numeric within its digits, ranges normalised, at most `MaxPrecision` digits in a decimal's
type. `origin` remembers the table a batch was read from, so that a copy can be compared with it.

Left out: months and days of an interval, which pass through; PostGIS's refusal of a `geography` in
a coordinate system that is not of longitudes and latitudes (`ForeignGeometriesLoad` speaks of planar edges for that); the wire bytes of values nothing
depends on; column names; declared scales beyond the decimal library's 28, and its own limits on
what it reads (a numeric of more than its 96 bits or 28 decimals is `Unreadable`); `Encoder::check`, which compares the schemas
of two partitions, of which a Postgres source has one.

Definitions whose comment begins with "Bug:" are not part of a specification. Each is a form its
neighbour could take by a plausible mistake, and shows that a property notices it.

## Checks

| Run | Instance | What it shows |
| --- | --- | --- |
| `pg_alone` | 3 runs, at most 2 batches each, one run copying the table to itself, not overlapping | `TargetWhole`, `StagingIsOwn`, `ReplacesAtomically` (it implements `AtomicReplace`), `RunsEnd`: whatever fails or is cut off |
| `pg_overlap` | the same, 1 batch, every interleaving | `TargetReadable`, `StagingGone`, `RunsEnd` |
| `pg_overlap_shared_staging` | 2 runs that overlap | violates `TargetWhole` |
| `files` | 2 runs, 2 streams and 2 batches in all, with and without `single_file`, with reads, writes and reports that fail or with crashes and every fault, not overlapping | `NewIsOnDisk`, `TmpGone`, `SuccessHoldsAll`, `ReplacesAtomically`, `RunsEnd` |
| `session` | 2 transfers over a generator, a list, a DataFrame or files, 2 destinations, chunks of 2 rows, 19 worlds of rows and files | `UsedOnce`, `ConnectorsKept` (single use, and nothing taken by a call that refuses), `RowsOnce`, `NoRowLost`, `FirstRowSetsColumns`, `OneFileOpen`, `FilesReadWhole`, `TablesHaveOneSchema`, `CallsReturn` |
| `files_stale_tmp` | crashes | violates `NoTornFile` |
| `files_killed_replace` | crashes | violates `WholeAtRest` |
| `files_overlap_shared_tmp` | 2 runs that overlap | violates `SuccessHoldsAll` |
| `copy_pipe` | 89 tables of up to 3 rows and 2 columns, any of them replaced by any other at any time, batches of 2 rows, a buffer of 5 bytes, a failure at every step | `NothingLost` (every row is in exactly one place, in order), `CopyIsOneVersion`, `BoundedMemory`, `RunEnds` |
| `copy_pipe_replaced` | the same | violates `ArrivesWhole` |
| `column_trip` | every supported type with its boundary values, and fields of other producers, 5 legs | `BatchIsValid`, `CopyKeepsType`, `CopyKeepsValue`, `SettlesAtOnce` (a copy of a copy is that copy), `FieldsComeBack`, `ForeignGeometriesLoad` |
| `column_trip_numrange` | the same | violates `RangesAreLossless` |

**Bounds.** A run meets another only through the two names, so three Postgres runs show a run that
leaves something, one that finds it, and one that is affected by both; for files two runs do, as all
that a run finds is one tmp directory. Two batches tell a first batch from a later one, two streams
tell the order and numbering of files and an empty stream before a full one. Every run in an instance
happens at most once: a retry is another run. In `session` two transfers are enough for one to be made
or run inside the other's generator and for the two to share a source or a destination; generators of
three rows are a full chunk and a short one with chunks of two; the worlds hold rows that are too few,
of a wrong kind at once or later, of another kind that arrives as itself or as nulls, with keys that come and go, and files that are gone, torn, or a
directory, given by name or by glob. Two outputs of different columns follow one another on disk, the second while a run
resolves or reads (at other times another process changes nothing that a run looks at). In `CopyPipe` three rows are a full batch and a short
one, two an even one, one a short one alone; rows of two and three bytes fill the buffer of five inside
a batch, between batches and at the end. In `ColumnTrip` the numbers are scaled down with their
relations kept: a mantissa of at most 792 and scale 2 for the decimal library's 2^96 and 28, four digits
for Decimal128's 38, scale 1 for bare numeric's 9, three nanoseconds to the microsecond; values lie on
and beside each limit and half-way between roundings. The modifiers are not scaled. Five legs are
two full round trips from either side, which `SettlesAtOnce` needs.

**Fairness.** `WF` of each run's own steps: a future that is ready is polled again, and the server or
file system answers what does not wait for a lock. `WF` of the server's noticing that a client is
gone. Starts, lost connections and crashes are never owed. In `PgDestination` a failure is not
possible while a statement waits for a lock, so that a cycle of locks cannot be hidden by an error.
A `CopyPipe` transfer is one future and has one `WF`; the session that replaces the table owes nothing.
In `PySession` the call on top of the stack goes on: its own code runs, or the generator it asks yields,
ends or raises in the end, which is an assumption on the caller's code without which no call over a
generator need ever return. A program owes no new calls, so it may simply stop: `session` does not
check for deadlock, and `CallsReturn` says that nothing stops inside a call. `DestinationFails` and
`Replace` are never owed. `ColumnTrip` has no liveness.

**What the violations show.** Two overlapping transfers into one table can publish an empty or mixed
table while reporting success, and two into one directory a truncated file; a killed file transfer
can leave old output half removed, and its tmp directory makes the next run publish files nobody
closed. A table replaced between the source's two statements can arrive with the rows of the new one
under the columns of the old one (`copy_pipe` shows that this is all: the values are always those of
one version). A `numrange` whose bounds round onto each other at nine decimals arrives empty. The
runs' entries in `PROJECT.json` quote the lines that promise otherwise.

## Proofs

`PgDestinationProofs` proves, for every set of runs, every source size and every choice of sources
that read the target:

- `Typing`: `TypeOK`;
- `SwapsAreStable`, `StagingIsGone`, `TargetStaysReadable`: also when runs overlap;
- `StagingIsItsOwn`, `TargetIsWhole` and `RefinesAtomicReplace`: when they do not.

Assumptions: the named `ASSUME`s of `PgDestination` (runs, `Original` and `None` are different
things; the bound is a number; `Overlapping` is a Boolean).

The invariants are not inductive alone. `TargetReadable` needs that no COPY runs into the table that
has the target's name. That table got its name by a rename, so one has to know that nobody loads into
a table being renamed: the rename waited for the COPYs there were (`SwapStable`), no new one gets
past its lock, and a run's own table is not known to anybody before it is created (`Births`).
`LockInv` is the conjunction. Without overlap `AloneInv` adds that the staging name belongs to the
run under way from `CreateStaging` to the commit (`StagingIsOwn`). The hard case is a killed run whose
COMMIT is still on its way: its lock on the staging table keeps the next run from creating its own,
so that the two never meet. Then each table is loaded only by the run that created it (`OwnTable`),
all at once (`AllAtOnce`), and the target is whole. Each proof has one step per action.

`FilesDestinationProofs` proves, for every set of runs, any number of streams and batches, every choice
of `single_file` and of faults:

- `Typing`: `TypeOK`, also when runs overlap;
- `ReplacesWhatIsWhole`, `SuccessIsComplete`, `TmpIsGone`: `NewIsOnDisk`, `SuccessHoldsAll` and `TmpGone`,
  when they do not;
- `RefinesAtomicReplace`: `ReplacesAtomically`, when they do not.

Assumptions: `RunsAssumption`, `BoundAssumption`, and `PathsAssumption` (no file or directory is the
value that stands for "nothing there" or for a regular file). `Typing` needs `Counted` beside it: a run
has finished as many files as there are non-empty streams before the one it has come to, so `written +
1` is the name of the next one and stays within `Names`. Without overlap, `Progress` follows one run
through the tmp directory: up to its stream `at` every file is whole (`Filled`), and the one it writes
has the batches fed so far. It holds because a file of one stream is never written for another: names
differ (`NamesDiffer`), no inode goes by two names (`Slots`), and nobody else is under way (`Alone`). It
does not need an empty tmp directory to start from, which is why a killed run's leftovers do not break
`SuccessHoldsAll`. The refinement does: a leftover file that no stream of the new run truncates would be
renamed with the rest and the output would be nobody's. `Clean` says of the `Mild` behaviours that
every file under the tmp name is the run's own, that nothing of a run is in the output before its
rename, and that what the rename replaces is gone. `OwnerFact` then gives a directory one owner: the
files a run made carry its name.

`PySessionProofs` proves, for every set of transfers, sources and destinations, every world of rows and
files, and any depth of nesting:

- `EachIsUsedOnce`: `UsedOnce` is an invariant;
- `RefusalsTakeNothing`: `ConnectorsKept`.

`UsedOnce` is inductive but for one thing: a step that makes a transfer must know that this transfer
does not wait or run already, or the connectors it takes would be a second time in the same place.
`Making` says so: a transfer under construction is in one call of the stack, in none of `waiting` and
`ran`, and every transfer that is made or being made has a source. Its preservation is about the stack
alone (a call is entered, goes on, or returns), which lemmas on sequences settle once for all actions;
`Typing` says what the stack and the sets are made of.

`PySessionRowsProofs` goes on from there and proves, likewise for every program:

- `SessionTypes`: `TypeOK`;
- `OneOpenAtATime`: `OneFileOpen`;
- `RowsAreTakenOnce`, `NoRowIsLost`: `RowsOnce` and `NoRowLost`;
- `ColumnsAreTheFirstRows`: `FirstRowSetsColumns`;
- `FilesAreReadWhole`, `TablesAreOfOneSchema`: `FilesReadWhole` and `TablesHaveOneSchema`.

Assumptions: `SessionAssumption` and `FilesAssumption` (the kinds of object are told apart, chunks hold
a row, an iterable is a sequence of rows, what is on disk to begin with is of the first output).
The properties about rows speak of batches published, and a row reaches one in several steps: taken
by a constructor, kept in its chunk while the transfer waits, delivered in a run. The inductive invariant
`SInv` therefore follows `Mine[t]`, the rows that are anywhere with a transfer: those in its run's or its published
batches and those in its chunk.

| Part | What it says | Needed because |
| --- | --- | --- |
| `Kinds` | rows, chunks and batches are what their names say | every sequence lemma asks for it |
| `Stack` | each call at a step its operation has (`Sound`), all but the last in a generator's body, one call for a transfer, one run in all | a step of one call must leave the chunk of the calls below it alone, and `received` has one owner |
| `Lives` | what is empty or unset before and after a transfer's run, by `outcome` and `waiting` | a transfer that starts must bring no rows with it |
| `Given` | a run over rows was given rows only, one over files has no chunk | `received` is shared by both kinds of run |
| `Chunks` | no chunk is longer than `ChunkRows` | part of `TypeOK` |
| `OfGenerators` | the rows of `Mine` are a generator's own, below its cursor, in order, and no two transfers have one in common | it is `RowsOnce` before anything is published |
| `NoneLost` | as long as no call over a generator raised, each of its rows up to the cursor is in some `Mine` | it is `NoRowLost` likewise |
| `OfOthers` | `Mine` is a list's or a DataFrame's rows from the first to the cursor | the same, where each transfer has its own iterator |
| `Schema` | the first row of `Mine` is the one that `first` names, and what its converter takes | links `first`, set in the constructor, to the batches of a later run |

A step does one of few things to rows: nothing, takes one, drops those of a call that raised, delivers
a chunk (which leaves `Mine` as it is), begins a transfer (with no rows, or with all of a DataFrame's). Each has its lemma, and each action
is shown to be one of them.

The files' invariant is `FilesInv` with, during a run, `Reading`: there are versions `vs`, never going
back, such that what was received and what is left of the open file are together the first files, one
of each version (`ReadSoFar`). The witness grows by the version on disk when a file is opened; a file
replaced afterwards is still read as it was opened, so nothing else depends on `disk`. `FilesSourceProofs`
has a lemma for each action of `FilesSource`; `FromFiles` lifts them to sessions, adding that a run
into a table has been given batches of one schema so far.

`CopyPipeProofs` proves, for every set of tables of any length and width, every size of batch and chunk,
and a table replaced and a failure at any moment:

- `TypesHold`: `TypeOK`;
- `NothingIsLost`: `NothingLost`;
- `StagedIsOneVersion`: `CopyIsOneVersion`;
- `MemoryIsBounded`: `BoundedMemory`.

Assumptions: `PipeAssumption` (sizes are positive, a chunk has room for more than the header, so that
the one that opens the COPY is not full already; a row of a table has a cell for each of its columns, of
that column's type, and is not the header or trailer). `NothingLost` compares sequences whole and is not
inductive; `IInv` says the same by position. `Routed`: of the rows of the table the COPY reads, the
first are converted in what has been sent or buffered behind one header, the next converted in the
batch, the next as they came in the chunk, and the rest in messages to come; a row that has passed the decoder was
readable as the prepared columns. `Stages` says what each phase has emptied, `Filling` how full chunk, batch and buffer are.
`CopyIsOneVersion` then needs that the rows which read without an error under columns of another
version have that version's values still (`DecodedRows`, `ConvertedRow`).

**Induction over data.** The installed provers cannot instantiate an induction theorem. Where a proof
needs one (the bytes of a buffer, the flattening of a sequence of files), `SequenceFacts` has it from sets
instead: a set of numbers that is not empty has a least element (`LeastNumber`, from
the library's theorem that strict inclusion of finite sets is well-founded), so one that has 0 and with each number the next has all (`AllNumbers`). A recursive
function is then a value that satisfies its equation: one exists, and two agree (`CountExists`,
`CountUnique`, `FlatteningExists`, `FlatteningUnique`, `PowersExist`, `PowersAgree`). `FilesSource!Found` is a flattening of
sequences of no or one name, rather than a filter, for this reason.

`ColumnTripProofs` proves, for every set of tables and batches to start from, every bound and every
modifier, without scaling anything down:

- `NumericTypmodComesBack`, `SridComesBack`: the masks, shifts and the sign extension of the code
  undo Postgres's and PostGIS's packing, for all precisions, all scales from -1000 to 1000, all SRIDs
  of 20 bits;
- `IntervalComesBack`: an interval that fits nanoseconds comes back to the microsecond;
- `CopiesKeepTheirType`, `BatchesAreValid`, `CopiesKeepTheirValue`: `CopyKeepsType`, `BatchIsValid` and
  `CopyKeepsValue` are invariants of `ColumnTrip`;
- `CopiesSettle`, `FieldsComeBackAsTheyWere`, `ForeignGeometriesAreTaken`: its steps have the action
  properties `SettlesAtOnce`, `FieldsComeBack` and `ForeignGeometriesLoad`.

Assumptions: `MapAssumption` (the limits of the library and of Arrow are numbers in the order they have:
9 decimals, at most 28, at most 38 digits, 2^96 less than 10^38; the three markers are no values),
`CodingAssumption`, `StampAssumption` (an error is not the geometry PostGIS stores), and `TripAssumption` (the tables and batches a trip starts from are ones Postgres and
Arrow can have). Nothing is assumed of the two calendars: whichever is longer, a date goes through or
is refused.

The properties speak of one copy, one batch or one step, and say nothing of where these came from. The
inductive invariant `TripInv` does:

| Part | What it says | Needed because |
| --- | --- | --- |
| `Turns` | the side the value is on gives the parity of `legs`, and whether it was ever read | `read`, `legs = 1` and `legs >= 3` are how the properties tell trips apart |
| `Provenance` | a table is one Postgres can have, a batch one Arrow can have, whoever made them | every lemma about the mapping asks for it; it is what makes two halves compose |
| `Origins` | a batch that was read is `BatchOf` its origin; from the third leg on the origin is what the batch is written as | `BatchIsValid`; the second half is `SettlesAtOnce` before the write |
| `Copies` | a copy is `TableOf` of `BatchOf` its origin; a table written first is `TableOf` of its batch | ties `table` to `origin` over two steps, and a field that comes back to the one it was |

Its preservation is three facts about the mapping, each by cases over the types:

- `DecodedRowIsBatch`: what the source reads from a legal row is a legal batch;
- `WrittenTableIsRow`: what the destination writes of a legal batch is a legal row, with a numeric that
  has the digits of its column and a range that Postgres has normalised;
- `RowTrips`: of a legal row that can be read, the batch is valid, the destination takes it, the copy
  keeps the value and can be read, and the copy of the copy is the copy. `FieldComesBack` is its counterpart
  for fields.

The arithmetic is nonlinear, and is proved in small pieces. Powers of ten are shown to add, to divide
and to grow by induction with `AllNumbers` (`PowersAre`, `PowerAdds`, `PowerParts`). Rounding half
away from zero is dealt with for any unit (`HalfUp`, `RoundsToNearest`), then `UnitsAreNearest` says
that `DecimalUnits` yields the nearest decimal of a scale, and, as the library holds no more
than 2^96, one of at most 38 digits. That rounding does not turn a range's bounds round is
`RoundingKeepsOrder`; Postgres therefore never refuses a range the source has rounded, and makes it
empty only if its bounds have met (`NumrangeRowTrips`): `BoundsMeet` names the one decimal that both
are rounded to, and that they are not both inclusive.

`ForeignGeometriesLoad` is about batches nobody read from a table, for which `Provenance` says little:
`Foreign` adds that such a batch is one of `Batches`, unchanged.

None of this holds of arbitrary records, so `IsCell` and `IsItem`, which say what a trip may start from,
are part of `Provenance`: each side is shown to hand over nothing else.

Only model-checked: what must happen in the end (`RunsEnd` of both destinations, `RunEnds`, `CallsReturn`),
as it rests on fairness. All other properties of the passing runs are theorems.

## Where code and documents differ

Six disagreements are runs that end in a violation (see above and `PROJECT.json`). Others showed while
modelling, and the models follow the code:

- `transferred-py/src/transfer.rs:1` says the connectors are consumed on `run()`; the constructor
  consumes them (`RefuseConsumed`, `MakeTransfer`).
- `transferred-py/src/error.rs:34` says a missing file is a `SourceError`; a file that is gone when
  its partition is opened is an `IoError` (`OpenError`).
- `geoarrow.rs` knows planar and spherical edges; a field of another producer whose edges are any other
  curve is written as planar geometry (`TagComesBack`).
- `docs/design/DESIGN.md:90` says the schema of an iterable is inferred from the first batch; its columns are the
  keys of the first row alone (`FirstRowSetsColumns`), only their types come from the whole batch.
- `iterable.py:31` promises a `TypeError` for rows that are none of dict, dataclass and model. Only the
  first row is looked at: after a dict, a tuple or a string becomes a row of nulls, and so does a model;
  after a dataclass any object with its attributes passes; other rows fail the run as they raise (`Converts`).
- `docs/design/DESIGN.md:292-294` says a decimal's truncation stops the run. A numeric declared without scale is
  rounded to nine decimals, after a warning that names the column (`pg_to_arrow.rs:224`): the test at
  `pg_to_arrow.rs:665` calls it "Lossy by design" and DESIGN.md:312 has the warning. `CopyKeepsValue`
  follows these and says how values are rounded.
- `docs/design/DESIGN.md:281` has destinations refuse an `arrow.opaque` they cannot decode, loudly; its table at
  `:268` and the code make it `bytea`, which is what `CopyKeepsType` says.

Two more things the code does that a user may not expect, as the models show them: rows a generator gave
to a constructor that then refuses the destination are gone, and so are they for the next transfer over
it (`NoRowLost` speaks of calls that did not raise); a glob resolved while another run replaces the
directory yields part of an output, and a run over it may read files of two outputs and succeed
(`FilesReadWhole` says that each file is whole, and none older than the one before).

## Not modelled

DSN parsing and TLS (`connection.rs`, `tls.rs`): no state. The report object and the fields of the
Python exceptions: a mapping; which class an error becomes is in `PySession`. The 63-byte limit on the
staging table's name, which is a check on one string. A power loss: nothing is synced before
the rename, so the file system decides what is left. The performance harness, the build and CI.

## Plan

Done: both destinations and their abstract specification, both sources, the pipe between two Postgres
tables, the type mappings, the Python session; proofs of every invariant and action property of all of
them, and of the refinement of `AtomicReplace` by both destinations. The liveness properties stay with
TLC. What could follow, in this order:

1. The report: the counts of rows that a destination returns, against what it published.
2. A specification of a transfer that `PySession` and `CopyPipe` both implement.
