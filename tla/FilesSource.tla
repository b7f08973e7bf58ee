----------------------------- MODULE FilesSource -----------------------------
(***************************************************************************)
(* The files source, crates/transferred-files/src/source.rs: which files a *)
(* run reads is settled once, when its partitions are asked for; each file *)
(* is opened when the destination first asks its partition for a batch,    *)
(* which may be much later.  In between another process may replace the    *)
(* directory the files are in, the way the files destination does: remove  *)
(* every entry, then rename a whole new output into its place.             *)
(*                                                                         *)
(* PySession runs these steps; partitions are read one after the other,    *)
(* as both destinations do.                                                *)
(***************************************************************************)
EXTENDS Naturals, Sequences, FiniteSets, SequencesExt

CONSTANTS
    Paths,    \* the names in the directory, in the order a glob yields them
    Outputs,  \* the outputs that follow one another: each file's columns and how
              \* many batches it has
    Worlds,   \* how a run may start: records of what FilesSource was given, Glob
              \* or a sequence of names, and of what is on disk under each name
    Glob, None, Torn, Dir

VARIABLES
    given,       \* the source's `paths`, never changed
    disk,        \* name -> what is there: None, Dir, Torn or a file's batches
    version,     \* how many outputs have been in place
    resolved,    \* the paths the run's partitions were made from
    partitions,  \* the run's partitions not yet read through
    received     \* the batches the run's destination has been given

filesVars == <<given, disk, version, resolved, partitions, received>>

Names == ToSet(Paths)

\* A whole file is the sequence of its batches, all under the file's columns.
FileOf(v, p) ==
    [b \in 1..Outputs[v][p].batches |-> [rows |-> <<v, p, b>>, columns |-> Outputs[v][p].columns]]

Output(v) == [p \in Names |-> IF p \in DOMAIN Outputs[v] THEN FileOf(v, p) ELSE None]

WholeFiles == UNION {{FileOf(v, p) : p \in DOMAIN Outputs[v]} : v \in DOMAIN Outputs}

\* What can be left to read of an open file.
Unread == {<<>>} \cup UNION {Suffixes(f) : f \in WholeFiles}

FilesAssumption ==
    /\ IsInjective(Paths) /\ Paths \in Seq(Names)
    /\ Outputs # <<>> /\ Outputs \in Seq(ToSet(Outputs))
    /\ \A v \in DOMAIN Outputs :
          DOMAIN Outputs[v] \subseteq Names /\ \A p \in DOMAIN Outputs[v] : Outputs[v][p].batches \in Nat
    /\ \A w \in Worlds :
          /\ w.given # Glob => w.given \in Seq(Names)
          /\ w.disk \in [Names -> {None, Torn, Dir} \cup WholeFiles]
          /\ \A p \in Names : w.disk[p] \in {None, Torn, Dir, Output(1)[p]}
    /\ {None, Torn, Dir} \cap Unread = {}

ASSUME FilesAssumption

FilesInit(w) ==
    /\ given = w.given
    /\ disk = w.disk
    /\ version = 1
    /\ resolved = <<>>
    /\ partitions = <<>>
    /\ received = <<>>

-----------------------------------------------------------------------------
\* expand_glob: what has a name now.
Found == FlattenSeq([i \in DOMAIN Paths |-> IF disk[Paths[i]] = None THEN <<>> ELSE <<Paths[i]>>])

\* Explicit paths are not looked up.
Expand == IF given = Glob THEN Found ELSE given

\* No path at all, or a directory among them, is refused.
Resolvable ==
    /\ Expand # <<>>
    /\ \A i \in DOMAIN Expand : disk[Expand[i]] # Dir

\* Bug: every file is opened at once.
StreamPartitionsOpens ==
    /\ Resolvable
    /\ resolved' = Expand
    /\ partitions' = [i \in DOMAIN Expand |-> [path |-> Expand[i], rest |-> disk[Expand[i]]]]
    /\ UNCHANGED <<given, disk, version, received>>

\* stream_partitions: one lazy stream per file, none of them opened.
StreamPartitions ==
    /\ Resolvable
    /\ resolved' = Expand
    /\ partitions' = [i \in DOMAIN Expand |-> [path |-> Expand[i], rest |-> None]]
    /\ UNCHANGED <<given, disk, version, received>>

Unopened == partitions # <<>> /\ Head(partitions).rest = None

Readable == disk[Head(partitions).path] \notin {None, Torn, Dir}

\* What open_file_stream makes of a file that is gone or was never closed.
OpenError == IF disk[Head(partitions).path] = None THEN "Io" ELSE "Source"

\* Bug: a file that is gone is passed over.
OpenFileSkips ==
    /\ Unopened
    /\ disk[Head(partitions).path] \notin {Torn, Dir}
    /\ partitions' = IF disk[Head(partitions).path] = None
                     THEN Tail(partitions)
                     ELSE [partitions EXCEPT ![1].rest = disk[Head(partitions).path]]
    /\ UNCHANGED <<given, disk, version, resolved, received>>

\* open_file_stream: an open file is read to its end, whatever becomes of its name.
OpenFile ==
    /\ Unopened
    /\ Readable
    /\ partitions' = [partitions EXCEPT ![1].rest = disk[Head(partitions).path]]
    /\ UNCHANGED <<given, disk, version, resolved, received>>

\* The destination asks for the next batch of the file that is open.
ReadBatch ==
    /\ partitions # <<>> /\ ~Unopened
    /\ Head(partitions).rest # <<>>
    /\ received' = Append(received, Head(Head(partitions).rest))
    /\ partitions' = [partitions EXCEPT ![1].rest = Tail(@)]
    /\ UNCHANGED <<given, disk, version, resolved>>

\* The file is read through: its stream, and with it its descriptor, is done with.
EndFile ==
    /\ partitions # <<>>
    /\ Head(partitions).rest = <<>>
    /\ partitions' = Tail(partitions)
    /\ UNCHANGED <<given, disk, version, resolved, received>>

\* Another process replaces the output: its entries go one by one, ...
RemoveEntry(p) ==
    /\ version < Len(Outputs)
    /\ disk[p] # None
    /\ disk' = [disk EXCEPT ![p] = None]
    /\ UNCHANGED <<given, version, resolved, partitions, received>>

\* ... and when none is left the new output takes their place.
PublishOutput ==
    /\ version < Len(Outputs)
    /\ \A p \in Names : disk[p] = None
    /\ version' = version + 1
    /\ disk' = Output(version + 1)
    /\ UNCHANGED <<given, resolved, partitions, received>>

-----------------------------------------------------------------------------
FilesTypeOK ==
    /\ given \in {w.given : w \in Worlds}
    /\ version \in DOMAIN Outputs
    /\ \A p \in Names : disk[p] \in {None, Torn, Dir} \cup WholeFiles
    /\ resolved \in Seq(Names)
    /\ \A i \in DOMAIN partitions :
           partitions[i].path \in Names /\ partitions[i].rest \in {None} \cup Unread

\* At most one file is open, and it is the one being read: what lazy_open_file
\* is for ("only opened files hold file descriptors", source.rs:90).
OneFileOpen ==
    \A i \in DOMAIN partitions : partitions[i].rest # None => i = 1

\* Some choice of versions, never going back, accounts for every batch: each
\* of the paths was read once, whole and in order.
ReadWhole(paths, batches) ==
    \E vs \in [DOMAIN paths -> 1..version] :
        /\ \A i \in DOMAIN paths : paths[i] \in DOMAIN Outputs[vs[i]]
        /\ \A i, j \in DOMAIN paths : i < j => vs[i] <= vs[j]
        /\ batches = FlattenSeq([i \in DOMAIN paths |-> FileOf(vs[i], paths[i])])
=============================================================================
