--------------------------- MODULE FilesDestination ---------------------------
(***************************************************************************)
(* The files destination: crates/transferred-files/src/destination.rs with *)
(* the Parquet writer it drives, formats/parquet.rs.  A run fills          *)
(* "{name}.tmp" beside the output directory, removes the directory and     *)
(* renames the tmp one into its place.                                     *)
(*                                                                         *)
(* A directory maps file names to inodes, so that a file that is open, or  *)
(* whose directory was renamed or emptied under its writer, stays the same *)
(* file.  An inode holds the pieces written to it since it was last        *)
(* truncated, in order: batches of a stream, and the footer its close      *)
(* writes.                                                                 *)
(***************************************************************************)
EXTENDS Naturals, FiniteSets, Sequences, Functions

CONSTANTS
    Runs,         \* transfers into this one output directory
    MaxStreams,   \* bound: streams of a run, as file_streams groups its partitions
    MaxBatches,   \* bound: batches of a run
    SingleFile,   \* the sets of runs that may be those with single_file: all partitions in one stream
    Overlapping,  \* may one run start while another is under way?
    Faults,       \* the sets of things that may go wrong beside a run's reads and writes
    Original,     \* the output that was there before any run
    RegularFile,  \* a regular file at the output path
    None          \* nothing there

ASSUME RunsAssumption ==
    /\ SingleFile \subseteq SUBSET Runs
    /\ {Original, RegularFile, None} \cap Runs = {}
    /\ Original # None /\ Original # RegularFile /\ RegularFile # None
ASSUME BoundAssumption == MaxStreams \in Nat /\ MaxBatches \in Nat
ASSUME FaultsAssumption ==
    /\ Faults \subseteq SUBSET {"crash", "remove", "rename", "cleanup", "report"}
    /\ Overlapping \in BOOLEAN

VARIABLES
    phase,    \* where each run stands in write_partitions
    single,   \* the runs with single_file
    faults,   \* what may go wrong in this behaviour
    streams,  \* how many batches each stream of a run holds, 0 for an empty one
    at,       \* the stream a run has come to
    fed,      \* how many of its batches went to the writer
    written,  \* how many files the run has finished
    open,     \* the inode the run is writing
    target,   \* the output path: a directory, RegularFile or None
    tmp,      \* the tmp path: a directory or None
    disk,     \* what each inode holds
    former    \* history: what the output was when the last removal began

vars == <<phase, faults, single, streams, at, fed, written, open, target, tmp, disk, former>>

Streams == 1..MaxStreams
Names == 0..MaxStreams                   \* part-NNNNN by number, 0 for the single file
Inodes == (Runs \cup {Original}) \X Names
Pieces == Runs \X Streams \X (0..MaxBatches)   \* batch by number, 0 for the footer
Contents == Seq(Pieces)

Directory == [Names -> Inodes \cup {None}]
EmptyDir == [n \in Names |-> None]
OriginalDir == [n \in Names |-> IF n = 0 THEN None ELSE <<Original, n>>]

ASSUME PathsAssumption ==
    /\ None \notin Inodes
    /\ {None, RegularFile} \cap Directory = {}

Writing == {"peek", "write"}
Replacing == {"remove", "rename"}
Active == Writing \cup Replacing \cup {"cleanup", "report"}
Ended == {"ok", "failed", "unreported", "crashed"}

NonEmpty(r) == {i \in Streams : streams[r][i] > 0}

\* The whole file a stream makes: every batch once, in order, then the footer.
Batches(r, i, n) == [b \in 1..n |-> <<r, i, b>>]
FileOf(r, i) == Append(Batches(r, i, streams[r][i]), <<r, i, 0>>)

\* The name it belongs under: files are numbered without gaps, in stream order.
NameOf(r, i) == IF r \in single THEN 0 ELSE Cardinality({j \in NonEmpty(r) : j <= i})

\* Directory d holds all of r's output.
HoldsAll(r, d) ==
    \A i \in NonEmpty(r) :
        /\ d[NameOf(r, i)] # None
        /\ disk[d[NameOf(r, i)]] = FileOf(r, i)

\* And nothing else.
HoldsOnly(r, d) ==
    /\ NonEmpty(r) # {}
    /\ HoldsAll(r, d)
    /\ \A n \in Names : d[n] # None => \E i \in NonEmpty(r) : NameOf(r, i) = n

IsDir(t) == t \notin {None, RegularFile}

TypeOK ==
    /\ phase \in [Runs -> {"idle"} \cup Active \cup Ended]
    /\ faults \in Faults
    /\ single \in SingleFile
    /\ streams \in [Runs -> [Streams -> 0..MaxBatches]]
    /\ at \in [Runs -> 1..(MaxStreams + 1)]
    /\ fed \in [Runs -> 0..MaxBatches]
    /\ written \in [Runs -> Names]
    /\ open \in [Runs -> Inodes \cup {None}]
    /\ target \in Directory \cup {RegularFile, None}
    /\ tmp \in Directory \cup {None}
    /\ disk \in [Inodes -> Contents]
    /\ former \in Runs \cup {Original, RegularFile, None, "torn"}

-----------------------------------------------------------------------------
Init ==
    /\ phase = [r \in Runs |-> "idle"]
    /\ faults \in Faults
    /\ single \in SingleFile
    /\ streams \in [Runs -> [Streams -> 0..MaxBatches]]
    /\ \A r \in Runs : SumFunction(streams[r]) <= MaxBatches
    /\ \A r \in single : \A i \in Streams \ {1} : streams[r][i] = 0
    /\ at = [r \in Runs |-> 1]
    /\ fed = [r \in Runs |-> 0]
    /\ written = [r \in Runs |-> 0]
    /\ open = [r \in Runs |-> None]
    /\ target \in {OriginalDir, RegularFile, None}
    /\ tmp = None
    /\ disk = [f \in Inodes |-> <<>>]
    /\ former = None

Goto(r, p) == phase' = [phase EXCEPT ![r] = p]

MayStart(r) ==
    /\ phase[r] = "idle"
    /\ Overlapping \/ \A q \in Runs : phase[q] \notin Active

\* create_dir_all: a tmp directory that is there already is kept as it is.
Start(r) ==
    /\ MayStart(r)
    /\ tmp' = IF tmp = None THEN EmptyDir ELSE tmp
    /\ Goto(r, "peek")
    /\ UNCHANGED <<streams, faults, single, at, fed, written, open, target, disk, former>>

\* The source's set-up or create_dir_all fails: no cleanup.
Refuse(r) ==
    /\ MayStart(r)
    /\ Goto(r, "failed")
    /\ UNCHANGED <<streams, faults, single, at, fed, written, open, target, tmp, disk, former>>

\* write_files: peek finds the stream empty.
SkipStream(r) ==
    /\ phase[r] = "peek"
    /\ at[r] <= MaxStreams /\ streams[r][at[r]] = 0
    /\ at' = [at EXCEPT ![r] = @ + 1]
    /\ UNCHANGED <<phase, streams, faults, single, fed, written, open, target, tmp, disk, former>>

\* Bug: the file is opened for appending.
CreateFileAppends(r) ==
    /\ phase[r] = "peek"
    /\ at[r] <= MaxStreams /\ streams[r][at[r]] > 0
    /\ tmp # None
    /\ LET name == IF r \in single THEN 0 ELSE written[r] + 1
           file == IF tmp[name] # None THEN tmp[name] ELSE <<r, name>>
       IN  /\ tmp' = [tmp EXCEPT ![name] = file]
           /\ open' = [open EXCEPT ![r] = file]
    /\ Goto(r, "write")
    /\ UNCHANGED <<streams, faults, single, at, fed, written, target, disk, former>>

\* output_filename, then File::create: a file of that name is truncated.
CreateFile(r) ==
    /\ phase[r] = "peek"
    /\ at[r] <= MaxStreams /\ streams[r][at[r]] > 0
    /\ tmp # None
    /\ LET name == IF r \in single THEN 0 ELSE written[r] + 1
           file == IF tmp[name] # None THEN tmp[name] ELSE <<r, name>>
       IN  /\ tmp' = [tmp EXCEPT ![name] = file]
           /\ disk' = [disk EXCEPT ![file] = <<>>]
           /\ open' = [open EXCEPT ![r] = file]
    /\ Goto(r, "write")
    /\ UNCHANGED <<streams, faults, single, at, fed, written, target, former>>

\* Bug: the writer goes on after the stream's end.
WriteBatchPastEnd(r) ==
    /\ phase[r] = "write"
    /\ fed[r] <= streams[r][at[r]]
    /\ fed' = [fed EXCEPT ![r] = @ + 1]
    /\ UNCHANGED <<phase, streams, faults, single, at, written, open, target, tmp, disk, former>>

\* Parquet::write: the next batch of the stream.
WriteBatch(r) ==
    /\ phase[r] = "write"
    /\ fed[r] < streams[r][at[r]]
    /\ fed' = [fed EXCEPT ![r] = @ + 1]
    /\ disk' = [disk EXCEPT ![open[r]] = Append(@, <<r, at[r], fed[r] + 1>>)]
    /\ UNCHANGED <<phase, streams, faults, single, at, written, open, target, tmp, former>>

\* Bug: the writer is dropped without close.
CloseFileWithoutFooter(r) ==
    /\ phase[r] = "write"
    /\ fed[r] = streams[r][at[r]]
    /\ open' = [open EXCEPT ![r] = None]
    /\ written' = [written EXCEPT ![r] = @ + 1]
    /\ at' = [at EXCEPT ![r] = @ + 1]
    /\ fed' = [fed EXCEPT ![r] = 0]
    /\ Goto(r, "peek")
    /\ UNCHANGED <<streams, faults, single, target, tmp, disk, former>>

\* The stream is over: close writes the footer, write_files goes on to the next one.
CloseFile(r) ==
    /\ phase[r] = "write"
    /\ fed[r] = streams[r][at[r]]
    /\ disk' = [disk EXCEPT ![open[r]] = Append(@, <<r, at[r], 0>>)]
    /\ open' = [open EXCEPT ![r] = None]
    /\ written' = [written EXCEPT ![r] = @ + 1]
    /\ at' = [at EXCEPT ![r] = @ + 1]
    /\ fed' = [fed EXCEPT ![r] = 0]
    /\ Goto(r, "peek")
    /\ UNCHANGED <<streams, faults, single, target, tmp, former>>

\* Bug: the error returns before cleanup.
WriteFailsKeepsTmp(r) ==
    /\ phase[r] \in Writing
    /\ at[r] <= MaxStreams
    /\ open' = [open EXCEPT ![r] = None]
    /\ Goto(r, "failed")
    /\ UNCHANGED <<streams, faults, single, at, fed, written, target, tmp, disk, former>>

\* The stream, File::create or the writer fails.
WriteFails(r) ==
    /\ phase[r] \in Writing
    /\ at[r] <= MaxStreams
    /\ open' = [open EXCEPT ![r] = None]
    /\ Goto(r, "cleanup")
    /\ UNCHANGED <<streams, faults, single, at, fed, written, target, tmp, disk, former>>

\* Whose whole output a path holds.
Owner(t) ==
    IF t \in {None, RegularFile} THEN t
    ELSE IF t = OriginalDir THEN Original
    ELSE IF \E r \in Runs : HoldsOnly(r, t) THEN CHOOSE r \in Runs : HoldsOnly(r, t)
    ELSE "torn"

\* Bug: without the EmptySource check.
EndStreamsEmpty(r) ==
    /\ phase[r] = "peek"
    /\ at[r] > MaxStreams
    /\ Goto(r, "remove") /\ former' = Owner(target)
    /\ UNCHANGED <<streams, faults, single, at, fed, written, open, target, tmp, disk>>

\* Every stream is done: EmptySource if none made a file, else atomic_replace.
EndStreams(r) ==
    /\ phase[r] = "peek"
    /\ at[r] > MaxStreams
    /\ IF written[r] = 0
         THEN Goto(r, "cleanup") /\ UNCHANGED former
         ELSE Goto(r, "remove") /\ former' = Owner(target)
    /\ UNCHANGED <<streams, faults, single, at, fed, written, open, target, tmp, disk>>

\* remove_dir_all(path) unlinks file by file.
RemoveEntry(r) ==
    /\ phase[r] = "remove"
    /\ IsDir(target)
    /\ \E n \in Names :
          /\ target[n] # None
          /\ target' = [target EXCEPT ![n] = None]
    /\ UNCHANGED <<phase, streams, faults, single, at, fed, written, open, tmp, disk, former>>

\* It removes the empty directory, or finds none: NotFound is no error.
RemoveDir(r) ==
    /\ phase[r] = "remove"
    /\ target \in {EmptyDir, None}
    /\ target' = None
    /\ Goto(r, "rename")
    /\ UNCHANGED <<streams, faults, single, at, fed, written, open, tmp, disk, former>>

\* Bug: a failed removal is tried again.
RemoveFailsRetries(r) ==
    /\ phase[r] = "remove"
    /\ target = RegularFile \/ "remove" \in faults
    /\ UNCHANGED vars

\* The path is a regular file, or the removal is refused half way.
RemoveFails(r) ==
    /\ phase[r] = "remove"
    /\ target = RegularFile \/ "remove" \in faults
    /\ Goto(r, "cleanup")
    /\ UNCHANGED <<streams, faults, single, at, fed, written, open, target, tmp, disk, former>>

\* rename(tmp_dir, path): an empty directory gives way, anything else refuses.
Rename(r) ==
    /\ phase[r] = "rename"
    /\ tmp # None /\ target \in {EmptyDir, None}
    /\ target' = tmp
    /\ tmp' = None
    /\ Goto(r, "report")
    /\ UNCHANGED <<streams, faults, single, at, fed, written, open, disk, former>>

RenameFails(r) ==
    /\ phase[r] = "rename"
    /\ \/ tmp = None \/ target \notin {EmptyDir, None}
       \/ "rename" \in faults
    /\ Goto(r, "cleanup")
    /\ UNCHANGED <<streams, faults, single, at, fed, written, open, target, tmp, disk, former>>

\* cleanup: remove_dir_all(tmp_dir), file by file too, then the run's error is returned.
CleanupEntry(r) ==
    /\ phase[r] = "cleanup"
    /\ tmp # None
    /\ \E n \in Names :
          /\ tmp[n] # None
          /\ tmp' = [tmp EXCEPT ![n] = None]
    /\ UNCHANGED <<phase, streams, faults, single, at, fed, written, open, target, disk, former>>

CleanupDir(r) ==
    /\ phase[r] = "cleanup"
    /\ tmp \in {EmptyDir, None}
    /\ tmp' = None
    /\ Goto(r, "failed")
    /\ UNCHANGED <<streams, faults, single, at, fed, written, open, target, disk, former>>

\* A failed cleanup is logged; what it did not remove stays.
CleanupFails(r) ==
    /\ phase[r] = "cleanup"
    /\ "cleanup" \in faults
    /\ Goto(r, "failed")
    /\ UNCHANGED <<streams, faults, single, at, fed, written, open, target, tmp, disk, former>>

\* report stats every file the run wrote, under its final path.
AllThere(r) ==
    /\ IsDir(target)
    /\ \A k \in 1..written[r] : target[IF r \in single THEN 0 ELSE k] # None

Report(r) ==
    /\ phase[r] = "report"
    /\ AllThere(r)
    /\ Goto(r, "ok")
    /\ UNCHANGED <<streams, faults, single, at, fed, written, open, target, tmp, disk, former>>

\* Its error is the run's, though the output has been replaced.
ReportFails(r) ==
    /\ phase[r] = "report"
    /\ ~AllThere(r) \/ "report" \in faults
    /\ Goto(r, "unreported")
    /\ UNCHANGED <<streams, faults, single, at, fed, written, open, target, tmp, disk, former>>

\* The process is killed: everything it wrote stays, nothing is cleaned up.
Crash(r) ==
    /\ "crash" \in faults
    /\ phase[r] \in Active
    /\ open' = [open EXCEPT ![r] = None]
    /\ Goto(r, "crashed")
    /\ UNCHANGED <<streams, faults, single, at, fed, written, target, tmp, disk, former>>

Done ==
    /\ \A r \in Runs : phase[r] \in Ended
    /\ UNCHANGED vars

Advance(r) ==
    \/ SkipStream(r) \/ CreateFile(r) \/ WriteBatch(r) \/ CloseFile(r) \/ WriteFails(r)
    \/ EndStreams(r) \/ RemoveEntry(r) \/ RemoveDir(r) \/ RemoveFails(r)
    \/ Rename(r) \/ RenameFails(r)
    \/ CleanupEntry(r) \/ CleanupDir(r) \/ CleanupFails(r)
    \/ Report(r) \/ ReportFails(r)

Next ==
    \/ \E r \in Runs : Start(r) \/ Refuse(r) \/ Advance(r) \/ Crash(r)
    \/ Done

Spec == Init /\ [][Next]_vars

\* A run that has started is polled until it returns and the file system answers;
\* nobody owes a start or a crash.
Fairness == \A r \in Runs : WF_vars(Advance(r))

FairSpec == Spec /\ Fairness

-----------------------------------------------------------------------------
(* Whatever fails or crashes, one run at a time.                           *)

\* A run that returns success has all its rows under the paths it reports, each file whole
\* and numbered in stream order, whatever earlier runs left in the tmp directory.
SuccessHoldsAll ==
    [][\A r \in Runs : phase[r] = "report" /\ phase'[r] = "ok" => HoldsAll(r, target)]_vars

\* The old output is touched only when all of the new one is on disk, closed: a crash in
\* the middle of the replacement leaves the new output to be found under the tmp name.
NewIsOnDisk ==
    \A r \in Runs : phase[r] \in Replacing => tmp # None /\ HoldsAll(r, tmp)

\* Every run that started returns: neither removal nor cleanup waits for anything.
RunsEnd == \A r \in Runs : phase[r] \in Active ~> phase[r] \in Ended

(* One run at a time, when only its reads, its writes and its report fail. *)

Mild == faults \subseteq {"report"}

\* "Staging artifacts are always cleaned up".
TmpGone == Mild /\ (\A r \in Runs : phase[r] \notin Active) => tmp = None

\* For an observer that waits while the directory is being replaced, the output is
\* replaced as AtomicReplace says: a run whose report failed has published all the
\* same, one that failed before has not. Larger faults show the observer nothing.
Outcome(r) ==
    IF ~Mild THEN "running"
    ELSE CASE phase[r] = "report" -> "published"
           [] phase[r] \in {"ok", "failed"} -> phase[r]
           [] phase[r] = "unreported" -> "lost"
           [] OTHER -> "running"

Published ==
    IF ~Mild THEN Original
    ELSE IF \E r \in Runs : phase[r] \in Replacing THEN former
    ELSE Owner(target)

Atomic == INSTANCE AtomicReplace
    WITH Before <- {Original, RegularFile, None},
         published <- Published,
         outcome <- [r \in Runs |-> Outcome(r)]

ReplacesAtomically == Atomic!Spec

(* What the documentation says and a killed run or a second one refutes.   *)

\* "Atomic destinations guarantee no half-written state on failure": a reader never finds
\* a file in the output whose writer has not closed it.
NoTornFile ==
    IsDir(target) =>
        \A n \in Names : target[n] # None /\ target[n][1] # Original =>
            \E r \in Runs, i \in Streams : disk[target[n]] = FileOf(r, i)

\* "Transfers never leave the destination half-written": once no run is under way the
\* output is what it was before, or the whole output of one run.
WholeAtRest ==
    (\A r \in Runs : phase[r] \notin Active) =>
        /\ Owner(target) # "torn"
        /\ target = None => former = None
==============================================================================
