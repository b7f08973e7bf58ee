------------------------ MODULE FilesDestinationProofs ------------------------
(***************************************************************************)
(* Proofs about FilesDestination, for every set of runs, any number of     *)
(* streams and batches, and every choice of single_file and of faults.     *)
(***************************************************************************)
EXTENDS FilesDestination, FiniteSetTheorems, TLAPS

-----------------------------------------------------------------------------
(* How files are numbered.                                                 *)

\* The streams of a run before the k-th that have a file.
Before(r, k) == {j \in NonEmpty(r) : j < k}
Count(r, k) == Cardinality(Before(r, k))

LEMMA BeforeFinite ==
    ASSUME NEW r, NEW k
    PROVE  IsFiniteSet(Before(r, k)) /\ Count(r, k) \in 0..MaxStreams
<1>1. IsFiniteSet(Streams) /\ Cardinality(Streams) = MaxStreams
  BY FS_Interval, BoundAssumption DEF Streams
<1>2. Before(r, k) \in SUBSET Streams
  BY DEF Before, NonEmpty
<1>3. IsFiniteSet(Before(r, k)) /\ Cardinality(Before(r, k)) <= MaxStreams
  BY <1>1, <1>2, FS_Subset
<1>4. Cardinality(Before(r, k)) \in Nat
  BY <1>3, FS_CardinalityType
<1> QED
  BY <1>3, <1>4, BoundAssumption DEF Count

\* Only a stream with batches takes a number.
LEMMA CountNext ==
    ASSUME NEW r, NEW k \in Streams
    PROVE  Count(r, k + 1) = IF k \in NonEmpty(r) THEN Count(r, k) + 1 ELSE Count(r, k)
<1>1. CASE k \in NonEmpty(r)
  <2>1. Before(r, k + 1) = Before(r, k) \cup {k} /\ k \notin Before(r, k)
    BY <1>1, BoundAssumption DEF Before, NonEmpty, Streams
  <2> QED
    BY <1>1, <2>1, BeforeFinite, FS_AddElement DEF Count
<1>2. CASE k \notin NonEmpty(r)
  <2>1. Before(r, k + 1) = Before(r, k)
    BY <1>2, BoundAssumption DEF Before, NonEmpty, Streams
  <2> QED
    BY <1>2, <2>1 DEF Count
<1> QED
  BY <1>1, <1>2

LEMMA CountFirst ==
    ASSUME NEW r
    PROVE  Count(r, 1) = 0
<1>1. Before(r, 1) = {}
  BY BoundAssumption DEF Before, NonEmpty, Streams
<1> QED
  BY <1>1, FS_EmptySet DEF Count

\* The number of a file is one more than the number of files before it.
LEMMA NameIsNext ==
    ASSUME NEW r, NEW k \in NonEmpty(r)
    PROVE  NameOf(r, k) = IF r \in single THEN 0 ELSE Count(r, k) + 1
<1>1. k \in Streams
  BY DEF NonEmpty
<1>2. {j \in NonEmpty(r) : j <= k} = Before(r, k + 1)
  BY <1>1, BoundAssumption DEF Before, NonEmpty, Streams
<1> QED
  BY <1>1, <1>2, CountNext DEF NameOf, Count

LEMMA CountGrows ==
    ASSUME NEW r, NEW i \in NonEmpty(r), NEW k \in NonEmpty(r), i < k
    PROVE  Count(r, i) < Count(r, k)
<1>1. i \in Streams /\ k \in Streams
  BY DEF NonEmpty
<1>2. Before(r, i + 1) \in SUBSET Before(r, k)
  BY <1>1, BoundAssumption DEF Before, NonEmpty, Streams
<1>3. Count(r, i + 1) <= Count(r, k)
  BY <1>2, BeforeFinite, FS_Subset DEF Count
<1> QED
  BY <1>1, <1>3, CountNext, BeforeFinite

\* Every name is one a directory has.
LEMMA NameType ==
    ASSUME NEW r, NEW k \in NonEmpty(r)
    PROVE  NameOf(r, k) \in Names
<1>1. k \in Streams
  BY DEF NonEmpty
<1> QED
  BY <1>1, CountNext, NameIsNext, BeforeFinite, BoundAssumption DEF Names

-----------------------------------------------------------------------------
(* Type correctness, also when runs overlap.                               *)

\* What a run has counted is what its streams say, and a file that is being
\* written is open.
CountedRun(r) ==
    /\ phase[r] = "idle" => at[r] = 1 /\ written[r] = 0
    /\ phase[r] \in {"idle", "peek"} => fed[r] = 0
    /\ phase[r] \in Writing => written[r] = Count(r, at[r])
    /\ phase[r] = "write" =>
          at[r] \in NonEmpty(r) /\ open[r] \in Inodes /\ fed[r] <= streams[r][at[r]]

Counted == \A r \in Runs : CountedRun(r)

TInv == TypeOK /\ Counted

LEMMA EmptyDirType == EmptyDir \in Directory /\ OriginalDir \in Directory
BY DEF EmptyDir, OriginalDir, Directory, Inodes, Names

LEMMA OwnerType == Owner(target) \in Runs \cup {Original, RegularFile, None, "torn"}
BY DEF Owner

\* The streams of a run never change, and with them no count does.
LEMMA Rigid ==
    ASSUME streams' = streams, NEW r, NEW k
    PROVE  NonEmpty(r)' = NonEmpty(r) /\ Count(r, k)' = Count(r, k)
BY DEF NonEmpty, Count, Before

\* Appending a piece is all a writer does.
LEMMA ContentsGrow ==
    ASSUME NEW c \in Contents, NEW piece \in Pieces
    PROVE  Append(c, piece) \in Contents
BY DEF Contents

LEMMA NothingIsContents == <<>> \in Contents
BY DEF Contents

LEMMA BatchesNext ==
    ASSUME NEW r, NEW i, NEW n \in Nat
    PROVE  /\ Batches(r, i, 0) = <<>>
           /\ Append(Batches(r, i, n), <<r, i, n + 1>>) = Batches(r, i, n + 1)
BY DEF Batches

\* The file a run opens has the next name of its output.
LEMMA FileType ==
    ASSUME TypeOK, NEW r \in Runs, at[r] \in NonEmpty(r), written[r] = Count(r, at[r]), CreateFile(r)
    PROVE  LET name == NameOf(r, at[r])
           IN  /\ name \in Names
               /\ open'[r] = IF tmp[name] # None THEN tmp[name] ELSE <<r, name>>
               /\ open'[r] \in Inodes
               /\ open' = [open EXCEPT ![r] = open'[r]]
               /\ tmp \in Directory
               /\ tmp' = [tmp EXCEPT ![name] = open'[r]]
               /\ disk' = [disk EXCEPT ![open'[r]] = <<>>]
               /\ tmp' \in Directory
               /\ disk' \in [Inodes -> Contents]
<1> DEFINE name == NameOf(r, at[r])
           file == IF tmp[name] # None THEN tmp[name] ELSE <<r, name>>
<1>1. name \in Names /\ name = IF r \in single THEN 0 ELSE written[r] + 1
  BY NameType, NameIsNext
<1>2. tmp \in Directory
  BY DEF CreateFile, TypeOK
<1> HIDE DEF name
<1>3. file \in Inodes
  BY <1>1, <1>2 DEF Directory, Inodes
<1>4. /\ tmp' = [tmp EXCEPT ![name] = file]
      /\ disk' = [disk EXCEPT ![file] = <<>>]
      /\ open' = [open EXCEPT ![r] = file]
  BY <1>1 DEF CreateFile
<1> HIDE DEF file
<1>5. open'[r] = file
  BY <1>4 DEF TypeOK
<1>6. tmp' \in Directory /\ disk' \in [Inodes -> Contents]
  BY <1>1, <1>2, <1>3, <1>4, NothingIsContents DEF Directory, TypeOK
<1> QED
  BY <1>1, <1>2, <1>3, <1>4, <1>5, <1>6 DEF name, file

LEMMA TypeStep ==
    ASSUME TypeOK, Counted, [Next]_vars
    PROVE  TypeOK'
<1> USE RunsAssumption, BoundAssumption, PathsAssumption
<1> USE DEF TypeOK, Goto, Writing, Replacing, Active, Ended, MayStart
<1>1. ASSUME NEW r \in Runs, Start(r) PROVE TypeOK'
  BY <1>1, EmptyDirType DEF Start
<1>2. ASSUME NEW r \in Runs, Refuse(r) PROVE TypeOK'
  BY <1>2 DEF Refuse
<1>3. ASSUME NEW r \in Runs, SkipStream(r) PROVE TypeOK'
  BY <1>3 DEF SkipStream
<1>4. ASSUME NEW r \in Runs, CreateFile(r) PROVE TypeOK'
  <2>1. at[r] \in Streams /\ at[r] \in NonEmpty(r)
    BY <1>4 DEF CreateFile, Streams, NonEmpty
  <2>2. written[r] = Count(r, at[r])
    BY <1>4 DEF CreateFile, Counted, CountedRun
  <2>3. /\ open'[r] \in Inodes
        /\ open' = [open EXCEPT ![r] = open'[r]]
        /\ tmp' \in Directory
        /\ disk' \in [Inodes -> Contents]
    BY <1>4, <2>1, <2>2, FileType DEF Directory
  <2> QED
    BY <1>4, <2>3 DEF CreateFile
<1>5. ASSUME NEW r \in Runs, WriteBatch(r) PROVE TypeOK'
  <2>1. at[r] \in Streams /\ fed[r] + 1 \in 1..MaxBatches
    <3>1. at[r] \in Streams /\ fed[r] < streams[r][at[r]] /\ fed[r] \in Nat
      BY <1>5 DEF WriteBatch, Counted, CountedRun, NonEmpty
    <3>2. streams[r][at[r]] \in 0..MaxBatches
      BY <3>1
    <3> QED
      BY <3>1, <3>2
  <2>2. <<r, at[r], fed[r] + 1>> \in Pieces
    BY <2>1 DEF Pieces
  <2>3. disk' \in [Inodes -> Contents]
    BY <1>5, <2>2, ContentsGrow DEF WriteBatch, Counted, CountedRun
  <2>4. fed' \in [Runs -> 0..MaxBatches]
    BY <1>5, <2>1 DEF WriteBatch
  <2> QED
    BY <1>5, <2>3, <2>4 DEF WriteBatch
<1>6. ASSUME NEW r \in Runs, CloseFile(r) PROVE TypeOK'
  <2>1. at[r] \in NonEmpty(r) /\ at[r] \in Streams /\ written[r] = Count(r, at[r])
    BY <1>6 DEF CloseFile, Counted, CountedRun, NonEmpty
  <2>2. written[r] + 1 \in Names
    BY <2>1, CountNext, BeforeFinite DEF Names
  <2>3. <<r, at[r], 0>> \in Pieces
    BY <2>1 DEF Pieces
  <2>4. at[r] + 1 \in 1..(MaxStreams + 1)
    BY <2>1 DEF Streams
  <2>5. disk' \in [Inodes -> Contents]
    BY <1>6, <2>3, ContentsGrow DEF CloseFile, Counted, CountedRun
  <2>6. /\ at' \in [Runs -> 1..(MaxStreams + 1)]
        /\ fed' \in [Runs -> 0..MaxBatches]
        /\ written' \in [Runs -> Names]
    BY <1>6, <2>2, <2>4 DEF CloseFile
  <2> QED
    BY <1>6, <2>5, <2>6 DEF CloseFile
<1>7. ASSUME NEW r \in Runs, WriteFails(r) PROVE TypeOK'
  BY <1>7 DEF WriteFails
<1>8. ASSUME NEW r \in Runs, EndStreams(r) PROVE TypeOK'
  BY <1>8, OwnerType DEF EndStreams
<1>9. ASSUME NEW r \in Runs, RemoveEntry(r) PROVE TypeOK'
  <2>1. target' \in Directory
    BY <1>9 DEF RemoveEntry, IsDir, Directory
  <2> QED
    BY <1>9, <2>1 DEF RemoveEntry
<1>10. ASSUME NEW r \in Runs, RemoveDir(r) PROVE TypeOK'
  BY <1>10 DEF RemoveDir
<1>11. ASSUME NEW r \in Runs, RemoveFails(r) PROVE TypeOK'
  BY <1>11 DEF RemoveFails
<1>12. ASSUME NEW r \in Runs, Rename(r) PROVE TypeOK'
  BY <1>12 DEF Rename
<1>13. ASSUME NEW r \in Runs, RenameFails(r) PROVE TypeOK'
  BY <1>13 DEF RenameFails
<1>14. ASSUME NEW r \in Runs, CleanupEntry(r) PROVE TypeOK'
  <2>1. tmp' \in Directory
    BY <1>14 DEF CleanupEntry, Directory
  <2> QED
    BY <1>14, <2>1 DEF CleanupEntry
<1>15. ASSUME NEW r \in Runs, CleanupDir(r) PROVE TypeOK'
  BY <1>15 DEF CleanupDir
<1>16. ASSUME NEW r \in Runs, CleanupFails(r) PROVE TypeOK'
  BY <1>16 DEF CleanupFails
<1>17. ASSUME NEW r \in Runs, Report(r) PROVE TypeOK'
  BY <1>17 DEF Report
<1>18. ASSUME NEW r \in Runs, ReportFails(r) PROVE TypeOK'
  BY <1>18 DEF ReportFails
<1>19. ASSUME NEW r \in Runs, Crash(r) PROVE TypeOK'
  BY <1>19 DEF Crash
<1>20. CASE Done \/ UNCHANGED vars
  BY <1>20 DEF Done, vars
<1> QED
  BY <1>1, <1>2, <1>3, <1>4, <1>5, <1>6, <1>7, <1>8, <1>9, <1>10, <1>11, <1>12, <1>13, <1>14,
     <1>15, <1>16, <1>17, <1>18, <1>19, <1>20 DEF Next, Advance

\* No step changes the streams, or how they are grouped.
LEMMA SourcesStay == ASSUME [Next]_vars PROVE streams' = streams /\ single' = single
BY DEF Next, Advance, Done, vars, Start, Refuse, SkipStream, CreateFile, WriteBatch, CloseFile,
       WriteFails, EndStreams, RemoveEntry, RemoveDir, RemoveFails, Rename, RenameFails,
       CleanupEntry, CleanupDir, CleanupFails, Report, ReportFails, Crash

\* A run that stands still has counted as before.
LEMMA CountedKeeps ==
    ASSUME streams' = streams, NEW q \in Runs, CountedRun(q),
           phase'[q] = phase[q], at'[q] = at[q], written'[q] = written[q], fed'[q] = fed[q],
           open'[q] = open[q]
    PROVE  CountedRun(q)'
BY Rigid DEF CountedRun

\* One that does not write has nothing to count.
LEMMA CountedOutside ==
    ASSUME NEW q \in Runs, phase'[q] \notin {"idle"} \cup Writing
    PROVE  CountedRun(q)'
BY DEF CountedRun, Writing

LEMMA CountedStep ==
    ASSUME TypeOK, Counted, [Next]_vars
    PROVE  Counted'
<1>0. streams' = streams
  BY SourcesStay
<1> USE DEF Goto
<1>1. ASSUME NEW r \in Runs, Start(r) PROVE Counted'
  <2>1. CountedRun(r)'
    BY <1>0, <1>1, Rigid, CountFirst DEF Start, MayStart, Counted, CountedRun, TypeOK, Writing
  <2> QED
    BY <1>0, <1>1, <2>1, CountedKeeps DEF Start, Counted, TypeOK
<1>2. ASSUME NEW r \in Runs, SkipStream(r) PROVE Counted'
  <2>1. at[r] \in Streams /\ at[r] \notin NonEmpty(r)
    BY <1>2, BoundAssumption DEF SkipStream, TypeOK, Streams, NonEmpty
  <2>2. Count(r, at[r] + 1) = written[r]
    BY <1>2, <2>1, CountNext DEF SkipStream, Counted, CountedRun, Writing
  <2>3. CountedRun(r)'
    BY <1>0, <1>2, <2>2, Rigid DEF SkipStream, Counted, CountedRun, TypeOK
  <2> QED
    BY <1>0, <1>2, <2>3, CountedKeeps DEF SkipStream, Counted, TypeOK
<1>3. ASSUME NEW r \in Runs, CreateFile(r) PROVE Counted'
  <2>1. at[r] \in NonEmpty(r)
    BY <1>3, BoundAssumption DEF CreateFile, TypeOK, Streams, NonEmpty
  <2>2. /\ written[r] = Count(r, at[r])
        /\ fed[r] = 0 /\ fed[r] <= streams[r][at[r]]
    BY <1>3, <2>1, BoundAssumption
    DEF CreateFile, Counted, CountedRun, Writing, NonEmpty, TypeOK
  <2>3. open'[r] \in Inodes
    BY <1>3, <2>1, <2>2, FileType
  <2>4. CountedRun(r)'
    BY <1>0, <1>3, <2>1, <2>2, <2>3, Rigid DEF CreateFile, CountedRun, TypeOK
  <2> QED
    BY <1>0, <1>3, <2>4, CountedKeeps DEF CreateFile, Counted, TypeOK
<1>4. ASSUME NEW r \in Runs, WriteBatch(r) PROVE Counted'
  <2>1. CountedRun(r)'
    BY <1>0, <1>4, Rigid, BoundAssumption
    DEF WriteBatch, Counted, CountedRun, TypeOK, NonEmpty, Streams
  <2> QED
    BY <1>0, <1>4, <2>1, CountedKeeps DEF WriteBatch, Counted, TypeOK
<1>5. ASSUME NEW r \in Runs, CloseFile(r) PROVE Counted'
  <2>1. at[r] \in Streams /\ at[r] \in NonEmpty(r)
    BY <1>5 DEF CloseFile, Counted, CountedRun, NonEmpty
  <2>2. Count(r, at[r] + 1) = written[r] + 1
    BY <1>5, <2>1, CountNext DEF CloseFile, Counted, CountedRun, Writing
  <2>3. CountedRun(r)'
    BY <1>0, <1>5, <2>2, Rigid DEF CloseFile, CountedRun, TypeOK
  <2> QED
    BY <1>0, <1>5, <2>3, CountedKeeps DEF CloseFile, Counted, TypeOK
<1>6. ASSUME NEW r \in Runs,
             \/ Refuse(r) \/ WriteFails(r) \/ EndStreams(r) \/ RemoveDir(r) \/ RemoveFails(r)
             \/ Rename(r) \/ RenameFails(r) \/ CleanupDir(r) \/ CleanupFails(r)
             \/ Report(r) \/ ReportFails(r) \/ Crash(r)
      PROVE  Counted'
  <2>1. phase'[r] \notin {"idle"} \cup Writing
    BY <1>6 DEF Refuse, WriteFails, EndStreams, RemoveDir, RemoveFails, Rename, RenameFails,
                CleanupDir, CleanupFails, Report, ReportFails, Crash, TypeOK, Writing
  <2>2. ASSUME NEW q \in Runs, q # r
        PROVE  /\ phase'[q] = phase[q] /\ at'[q] = at[q] /\ written'[q] = written[q]
               /\ fed'[q] = fed[q] /\ open'[q] = open[q]
    BY <1>6, <2>2
    DEF Refuse, WriteFails, EndStreams, RemoveDir, RemoveFails, Rename, RenameFails,
        CleanupDir, CleanupFails, Report, ReportFails, Crash, TypeOK
  <2> QED
    BY <1>0, <2>1, <2>2, CountedKeeps, CountedOutside DEF Counted
<1>7. CASE \/ Done \/ UNCHANGED vars
           \/ \E r \in Runs : RemoveEntry(r) \/ CleanupEntry(r)
  BY <1>0, <1>7, CountedKeeps DEF Done, vars, RemoveEntry, CleanupEntry, Counted
<1> QED
  BY <1>1, <1>2, <1>3, <1>4, <1>5, <1>6, <1>7 DEF Next, Advance

LEMMA TInit == Init => TypeOK /\ Counted
<1> SUFFICES ASSUME Init PROVE TypeOK /\ Counted
  OBVIOUS
<1>1. TypeOK
  BY RunsAssumption, BoundAssumption, EmptyDirType, NothingIsContents DEF Init, TypeOK, Names
<1>2. Counted
  BY DEF Init, Counted, CountedRun, Writing
<1> QED
  BY <1>1, <1>2

\* Every variable keeps its type, overlapping runs or not: files stay within
\* the names there are, batches within the streams.
THEOREM Typing == Spec => []TypeOK
<1>1. TypeOK /\ Counted /\ [Next]_vars => (TypeOK /\ Counted)'
  BY TypeStep, CountedStep
<1> QED
  BY TInit, <1>1, PTL DEF Spec

-----------------------------------------------------------------------------
(* One run at a time: what is under the tmp directory.                     *)

Alone == \A q, r \in Runs : phase[q] \in Active /\ phase[r] \in Active => q = r

\* With single_file there is one stream.
OneStream == \A r \in single : \A i \in Streams : i # 1 => streams[r][i] = 0

\* Every file was made under the name it has, so no file has two.
Slots == tmp # None => \A n \in Names : tmp[n] # None => tmp[n][2] = n

\* Directory d holds the files of r's streams before the k-th.
Filled(r, d, k) ==
    \A i \in NonEmpty(r) : i < k =>
        /\ d[NameOf(r, i)] # None
        /\ disk[d[NameOf(r, i)]] = FileOf(r, i)

\* A run finds in the tmp directory what it has put there, and in the output
\* what it has renamed, whatever was there before it started.
RunProgress(r) ==
    /\ phase[r] \in Writing => tmp # None /\ Filled(r, tmp, at[r])
    /\ phase[r] = "write" =>
          /\ tmp[NameOf(r, at[r])] = open[r]
          /\ disk[open[r]] = Batches(r, at[r], fed[r])
    /\ phase[r] \in Replacing => tmp # None /\ Filled(r, tmp, MaxStreams + 1)
    /\ phase[r] = "report" => tmp = None /\ Filled(r, target, MaxStreams + 1)

Progress == \A r \in Runs : RunProgress(r)

AloneInv == TypeOK /\ Counted /\ Alone /\ OneStream /\ Slots /\ Progress /\ TmpGone

StepOf(r) == Start(r) \/ Refuse(r) \/ Advance(r) \/ Crash(r)

\* While a run takes a step no other is under way.
LEMMA OthersRest ==
    ASSUME ~Overlapping, TypeOK, Alone, NEW r \in Runs, StepOf(r), NEW q \in Runs, q # r
    PROVE  phase[q] \notin Active /\ phase'[q] = phase[q]
<1> USE DEF TypeOK, Goto
<1>1. CASE Start(r) \/ Refuse(r)
  BY <1>1 DEF Start, Refuse, MayStart
<1>2. CASE Advance(r) \/ Crash(r)
  <2>1. phase[r] \in Active
    BY <1>2 DEF Advance, SkipStream, CreateFile, WriteBatch, CloseFile, WriteFails, EndStreams,
                RemoveEntry, RemoveDir, RemoveFails, Rename, RenameFails, CleanupEntry, CleanupDir,
                CleanupFails, Report, ReportFails, Crash, Active, Writing, Replacing
  <2>2. phase'[q] = phase[q]
    BY <1>2 DEF Advance, SkipStream, CreateFile, WriteBatch, CloseFile, WriteFails, EndStreams,
                RemoveEntry, RemoveDir, RemoveFails, Rename, RenameFails, CleanupEntry, CleanupDir,
                CleanupFails, Report, ReportFails, Crash
  <2> QED
    BY <2>1, <2>2 DEF Alone
<1> QED
  BY <1>1, <1>2 DEF StepOf

LEMMA AloneStep ==
    ASSUME ~Overlapping, TypeOK, Alone, [Next]_vars
    PROVE  Alone'
<1>1. CASE UNCHANGED vars \/ Done
  BY <1>1 DEF vars, Done, Alone
<1>2. ASSUME NEW r \in Runs, StepOf(r) PROVE Alone'
  BY <1>2, OthersRest DEF Alone
<1> QED
  BY <1>1, <1>2 DEF Next, StepOf

\* Two files of a run have two names.
LEMMA NamesDiffer ==
    ASSUME OneStream, NEW r \in Runs, NEW i \in NonEmpty(r), NEW k \in NonEmpty(r), i < k
    PROVE  NameOf(r, i) # NameOf(r, k)
<1>1. CASE r \in single
  BY <1>1 DEF OneStream, NonEmpty, Streams
<1>2. CASE r \notin single
  BY <1>2, NameIsNext, CountGrows, BeforeFinite
<1> QED
  BY <1>1, <1>2

LEMMA SlotsStep ==
    ASSUME TypeOK, Counted, Slots, [Next]_vars
    PROVE  Slots'
<1>1. ASSUME NEW r \in Runs, Start(r) PROVE Slots'
  BY <1>1 DEF Start, Slots, EmptyDir
<1>2. ASSUME NEW r \in Runs, CreateFile(r) PROVE Slots'
  <2>1. at[r] \in NonEmpty(r) /\ written[r] = Count(r, at[r])
    BY <1>2, BoundAssumption
    DEF CreateFile, TypeOK, Streams, NonEmpty, Counted, CountedRun, Writing
  <2> DEFINE name == NameOf(r, at[r])
  <2>2. /\ name \in Names
        /\ open'[r] = IF tmp[name] # None THEN tmp[name] ELSE <<r, name>>
        /\ tmp \in Directory
        /\ tmp' = [tmp EXCEPT ![name] = open'[r]]
    BY <1>2, <2>1, FileType
  <2>3. open'[r][2] = name /\ tmp # None
    BY <1>2, <2>2 DEF CreateFile, Slots
  <2> HIDE DEF name
  <2> QED
    BY <2>2, <2>3 DEF Slots, Directory
<1>3. ASSUME NEW r \in Runs, CleanupEntry(r) PROVE Slots'
  BY <1>3 DEF CleanupEntry, Slots, TypeOK, Directory
<1>4. ASSUME NEW r \in Runs, Rename(r) \/ CleanupDir(r) PROVE Slots'
  BY <1>4 DEF Rename, CleanupDir, Slots
<1>5. CASE tmp' = tmp
  BY <1>5 DEF Slots
<1> QED
  BY <1>1, <1>2, <1>3, <1>4, <1>5
  DEF Next, Advance, Done, vars, Refuse, SkipStream, WriteBatch, CloseFile, WriteFails,
      EndStreams, RemoveEntry, RemoveDir, RemoveFails, RenameFails, CleanupFails, Report,
      ReportFails, Crash

\* What a run's files are called and are to hold does not change either.
LEMMA FilesStay ==
    ASSUME [Next]_vars, NEW r, NEW i
    PROVE  /\ NonEmpty(r)' = NonEmpty(r)
           /\ NameOf(r, i)' = NameOf(r, i)
           /\ FileOf(r, i)' = FileOf(r, i)
BY SourcesStay DEF NonEmpty, NameOf, FileOf

\* Files stay as they are while nobody writes or removes them.
LEMMA FilledStays ==
    ASSUME [Next]_vars, disk' = disk, NEW r, NEW d, NEW k, Filled(r, d, k)
    PROVE  \A i \in NonEmpty(r)' : i < k =>
               /\ d[NameOf(r, i)'] # None
               /\ disk'[d[NameOf(r, i)']] = FileOf(r, i)'
BY FilesStay DEF Filled

LEMMA CreateFileStep ==
    ASSUME AloneInv, [Next]_vars, NEW r \in Runs, CreateFile(r)
    PROVE  RunProgress(r)'
<1>1. /\ at[r] \in NonEmpty(r) /\ written[r] = Count(r, at[r])
      /\ fed[r] = 0 /\ phase[r] = "peek" /\ tmp # None
      /\ Filled(r, tmp, at[r])
  BY BoundAssumption
  DEF CreateFile, AloneInv, TypeOK, Streams, NonEmpty, Counted, CountedRun, Writing, Progress,
      RunProgress
<1> DEFINE name == NameOf(r, at[r])
<1>2. /\ name \in Names
      /\ open'[r] = IF tmp[name] # None THEN tmp[name] ELSE <<r, name>>
      /\ open'[r] \in Inodes
      /\ tmp \in Directory /\ tmp' \in Directory
      /\ tmp' = [tmp EXCEPT ![name] = open'[r]]
      /\ disk' = [disk EXCEPT ![open'[r]] = <<>>]
  BY <1>1, FileType DEF AloneInv
<1>3. open'[r][2] = name
  BY <1>1, <1>2 DEF AloneInv, Slots
<1>4. ASSUME NEW i \in NonEmpty(r), i < at[r]
      PROVE  /\ tmp'[NameOf(r, i)] # None
             /\ disk'[tmp'[NameOf(r, i)]] = FileOf(r, i)
  <2> DEFINE n == NameOf(r, i)
  <2>1. n \in Names /\ n # name
    BY <1>1, <1>4, NamesDiffer, NameType DEF AloneInv
  <2>2. tmp[n] # None /\ disk[tmp[n]] = FileOf(r, i)
    BY <1>1, <1>4 DEF Filled
  <2>3. tmp[n][2] = n /\ tmp[n] \in Inodes
    BY <1>1, <1>2, <2>1, <2>2 DEF AloneInv, Slots, Directory
  <2>4. tmp'[n] = tmp[n] /\ tmp[n] # open'[r]
    BY <1>2, <1>3, <2>1, <2>3 DEF Directory
  <2> HIDE DEF n, name
  <2>5. disk'[tmp[n]] = disk[tmp[n]]
    BY <1>2, <2>3, <2>4 DEF AloneInv, TypeOK
  <2> QED
    BY <2>2, <2>4, <2>5 DEF n
<1>5. phase'[r] = "write" /\ at' = at /\ fed' = fed
  BY DEF CreateFile, Goto, AloneInv, TypeOK
<1>6. tmp' # None /\ tmp'[name] = open'[r] /\ disk'[open'[r]] = <<>>
  <2> HIDE DEF name
  <2> QED
    BY <1>2, PathsAssumption DEF Directory, AloneInv, TypeOK
<1>7. Batches(r, at[r], fed[r]) = <<>>
  BY <1>1, BatchesNext
<1> QED
  BY <1>4, <1>5, <1>6, <1>7, FilesStay DEF RunProgress, Filled, Writing, Replacing

\* A write goes to the file under the next name and leaves the others alone.
LEMMA WritesOneFile ==
    ASSUME AloneInv, NEW r \in Runs, phase[r] = "write", NEW pieces,
           disk' = [disk EXCEPT ![open[r]] = pieces]
    PROVE  /\ disk'[open[r]] = pieces
           /\ tmp[NameOf(r, at[r])] = open[r] /\ open[r] # None
           /\ \A i \in NonEmpty(r) : i < at[r] =>
                 /\ tmp[NameOf(r, i)] # None
                 /\ disk'[tmp[NameOf(r, i)]] = FileOf(r, i)
<1>1. /\ at[r] \in NonEmpty(r) /\ open[r] \in Inodes /\ open[r] # None
      /\ tmp # None /\ tmp \in Directory
      /\ Filled(r, tmp, at[r])
      /\ tmp[NameOf(r, at[r])] = open[r]
  BY PathsAssumption
  DEF AloneInv, TypeOK, Counted, CountedRun, Progress, RunProgress, Writing
<1>2. disk'[open[r]] = pieces
  BY <1>1 DEF AloneInv, TypeOK
<1>3. ASSUME NEW i \in NonEmpty(r), i < at[r]
      PROVE  tmp[NameOf(r, i)] # None /\ disk'[tmp[NameOf(r, i)]] = FileOf(r, i)
  <2> DEFINE n == NameOf(r, i)
             m == NameOf(r, at[r])
  <2>1. n \in Names /\ m \in Names /\ n # m
    BY <1>1, <1>3, NamesDiffer, NameType DEF AloneInv
  <2>2. tmp[n] # None /\ disk[tmp[n]] = FileOf(r, i) /\ tmp[m] # None
    BY <1>1, <1>3 DEF Filled
  <2>3. tmp[n] \in Inodes /\ tmp[n] # tmp[m]
    BY <1>1, <2>1, <2>2 DEF AloneInv, Slots, Directory
  <2>4. tmp[n] # open[r]
    BY <1>1, <2>3
  <2> HIDE DEF n, m
  <2>5. disk'[tmp[n]] = disk[tmp[n]]
    BY <2>3, <2>4 DEF AloneInv, TypeOK
  <2> QED
    BY <2>2, <2>5 DEF n
<1> QED
  BY <1>1, <1>2, <1>3

LEMMA WriteBatchStep ==
    ASSUME AloneInv, [Next]_vars, NEW r \in Runs, WriteBatch(r)
    PROVE  RunProgress(r)'
<1>1. /\ phase[r] = "write" /\ phase' = phase /\ tmp' = tmp /\ at' = at /\ open' = open
      /\ tmp # None
      /\ disk[open[r]] = Batches(r, at[r], fed[r])
      /\ disk' = [disk EXCEPT ![open[r]] = Append(disk[open[r]], <<r, at[r], fed[r] + 1>>)]
      /\ fed[r] \in Nat /\ fed'[r] = fed[r] + 1
  BY BoundAssumption DEF WriteBatch, AloneInv, TypeOK, Progress, RunProgress, Writing
<1>2. /\ disk'[open[r]] = Append(disk[open[r]], <<r, at[r], fed[r] + 1>>)
      /\ tmp[NameOf(r, at[r])] = open[r]
      /\ \A i \in NonEmpty(r) : i < at[r] =>
            tmp[NameOf(r, i)] # None /\ disk'[tmp[NameOf(r, i)]] = FileOf(r, i)
  BY <1>1, WritesOneFile
<1>3. disk'[open[r]] = Batches(r, at[r], fed'[r])
  BY <1>1, <1>2, BatchesNext
<1> QED
  BY <1>1, <1>2, <1>3, FilesStay DEF RunProgress, Filled, Writing, Replacing

LEMMA CloseFileStep ==
    ASSUME AloneInv, [Next]_vars, NEW r \in Runs, CloseFile(r)
    PROVE  RunProgress(r)'
<1>1. /\ phase[r] = "write" /\ phase'[r] = "peek" /\ tmp' = tmp /\ at'[r] = at[r] + 1
      /\ tmp # None
      /\ disk[open[r]] = Batches(r, at[r], fed[r])
      /\ disk' = [disk EXCEPT ![open[r]] = Append(disk[open[r]], <<r, at[r], 0>>)]
      /\ fed[r] = streams[r][at[r]] /\ fed[r] \in Nat
      /\ at[r] \in Streams /\ at[r] \in NonEmpty(r)
  BY BoundAssumption
  DEF CloseFile, Goto, AloneInv, TypeOK, Progress, RunProgress, Writing, Counted, CountedRun,
      NonEmpty
<1>2. /\ disk'[open[r]] = Append(disk[open[r]], <<r, at[r], 0>>)
      /\ tmp[NameOf(r, at[r])] = open[r] /\ open[r] # None
      /\ \A i \in NonEmpty(r) : i < at[r] =>
            tmp[NameOf(r, i)] # None /\ disk'[tmp[NameOf(r, i)]] = FileOf(r, i)
  BY <1>1, WritesOneFile
<1>4. disk'[open[r]] = FileOf(r, at[r])
  BY <1>1, <1>2 DEF FileOf
<1>5. \A i \in NonEmpty(r) : i < at[r] + 1 => i < at[r] \/ i = at[r]
  BY <1>1, BoundAssumption DEF NonEmpty, Streams
<1>6. Filled(r, tmp, at[r])'
  <2> SUFFICES ASSUME NEW i \in NonEmpty(r), i < at[r] + 1
               PROVE  tmp[NameOf(r, i)] # None /\ disk'[tmp[NameOf(r, i)]] = FileOf(r, i)
    BY <1>1, FilesStay DEF Filled
  <2>1. CASE i < at[r]
    BY <1>2, <2>1
  <2>2. CASE i = at[r]
    BY <1>2, <1>4, <2>2
  <2> QED
    BY <1>5, <2>1, <2>2
<1> QED
  BY <1>1, <1>6 DEF RunProgress, Writing, Replacing

LEMMA ProgressStep ==
    ASSUME ~Overlapping, AloneInv, [Next]_vars
    PROVE  Progress'
<1> USE DEF AloneInv, Goto, Writing, Replacing
<1>1. ASSUME NEW r \in Runs, Start(r) PROVE RunProgress(r)'
  <2>1. /\ phase'[r] = "peek" /\ at'[r] = 1 /\ tmp' # None
    BY <1>1, EmptyDirType, PathsAssumption DEF Start, MayStart, TypeOK, Counted, CountedRun
  <2>2. \A i \in NonEmpty(r) : ~(i < 1)
    BY BoundAssumption DEF NonEmpty, Streams
  <2> QED
    BY <2>1, <2>2, FilesStay DEF RunProgress, Filled
<1>2. ASSUME NEW r \in Runs, SkipStream(r) PROVE RunProgress(r)'
  <2>1. /\ phase[r] = "peek" /\ phase' = phase /\ at'[r] = at[r] + 1 /\ tmp' = tmp /\ disk' = disk
        /\ at[r] \in Int /\ at[r] \notin NonEmpty(r)
        /\ tmp # None /\ Filled(r, tmp, at[r])
    BY <1>2, BoundAssumption DEF SkipStream, TypeOK, NonEmpty, Progress, RunProgress
  <2>2. \A i \in NonEmpty(r) : i < at[r] + 1 => i < at[r]
    BY <2>1, BoundAssumption DEF NonEmpty, Streams
  <2> QED
    BY <2>1, <2>2, FilledStays, FilesStay DEF RunProgress, Filled
<1>3. ASSUME NEW r \in Runs, EndStreams(r) PROVE RunProgress(r)'
  <2>1. /\ phase[r] = "peek" /\ phase'[r] \in {"remove", "cleanup"}
        /\ at[r] = MaxStreams + 1 /\ tmp' = tmp /\ disk' = disk
        /\ tmp # None /\ Filled(r, tmp, at[r])
    BY <1>3, BoundAssumption DEF EndStreams, TypeOK, Progress, RunProgress
  <2> QED
    BY <2>1, FilledStays, FilesStay DEF RunProgress, Filled
<1>4. ASSUME NEW r \in Runs, RemoveEntry(r) \/ RemoveDir(r) PROVE RunProgress(r)'
  <2>1. /\ phase'[r] \in Replacing /\ tmp' = tmp /\ disk' = disk
        /\ tmp # None /\ Filled(r, tmp, MaxStreams + 1)
    BY <1>4 DEF RemoveEntry, RemoveDir, TypeOK, Progress, RunProgress
  <2> QED
    BY <2>1, FilledStays, FilesStay DEF RunProgress, Filled
<1>5. ASSUME NEW r \in Runs, Rename(r) PROVE RunProgress(r)'
  <2>1. /\ phase'[r] = "report" /\ target' = tmp /\ tmp' = None /\ disk' = disk
        /\ Filled(r, tmp, MaxStreams + 1)
    BY <1>5 DEF Rename, TypeOK, Progress, RunProgress
  <2> QED
    BY <2>1, FilledStays, FilesStay DEF RunProgress, Filled
<1>6. ASSUME NEW r \in Runs,
             \/ Refuse(r) \/ WriteFails(r) \/ RemoveFails(r) \/ RenameFails(r) \/ CleanupEntry(r)
             \/ CleanupDir(r) \/ CleanupFails(r) \/ Report(r) \/ ReportFails(r) \/ Crash(r)
      PROVE  RunProgress(r)'
  <2>1. phase'[r] \notin Writing \cup Replacing \cup {"report"}
    BY <1>6 DEF Refuse, WriteFails, RemoveFails, RenameFails, CleanupEntry, CleanupDir,
                CleanupFails, Report, ReportFails, Crash, TypeOK
  <2> QED
    BY <2>1 DEF RunProgress
<1>7. ASSUME NEW r \in Runs, StepOf(r) PROVE RunProgress(r)'
  BY <1>1, <1>2, <1>3, <1>4, <1>5, <1>6, <1>7, CreateFileStep, WriteBatchStep, CloseFileStep
  DEF StepOf, Advance
<1>8. ASSUME NEW r \in Runs, StepOf(r) PROVE Progress'
  <2>1. ASSUME NEW q \in Runs, q # r PROVE RunProgress(q)'
    BY <1>8, <2>1, OthersRest DEF RunProgress, Active
  <2> QED
    BY <1>7, <1>8, <2>1 DEF Progress
<1>9. CASE UNCHANGED vars \/ Done
  BY <1>9, FilesStay DEF vars, Done, Progress, RunProgress, Filled
<1> QED
  BY <1>8, <1>9 DEF Next, StepOf

\* Unless more than its report fails, a run that ends has emptied or renamed its tmp directory.
LEMMA TmpStep ==
    ASSUME ~Overlapping, AloneInv, [Next]_vars
    PROVE  TmpGone'
<1> SUFFICES ASSUME Mild', \A r \in Runs : phase'[r] \notin Active PROVE tmp' = None
  BY DEF TmpGone
<1>1. Mild
  BY DEF Mild, Next, Advance, Done, vars, Start, Refuse, SkipStream, CreateFile, WriteBatch, CloseFile,
         WriteFails, EndStreams, RemoveEntry, RemoveDir, RemoveFails, Rename, RenameFails,
         CleanupEntry, CleanupDir, CleanupFails, Report, ReportFails, Crash
<1>2. CASE UNCHANGED vars \/ Done
  BY <1>1, <1>2 DEF vars, Done, AloneInv, TmpGone
<1>3. ASSUME NEW r \in Runs, StepOf(r) PROVE tmp' = None
  <2> USE DEF AloneInv, TypeOK, Goto, Active, Writing, Replacing, Mild
  <2>1. CASE Refuse(r)
    <3>1. \A q \in Runs : phase[q] \notin Active
      BY <2>1 DEF Refuse, MayStart
    <3> QED
      BY <1>1, <2>1, <3>1 DEF Refuse, TmpGone
  <2>2. CASE CleanupDir(r)
    BY <2>2 DEF CleanupDir
  <2>3. CASE Report(r) \/ ReportFails(r)
    BY <2>3 DEF Report, ReportFails, Progress, RunProgress
  <2>4. CASE CleanupFails(r) \/ Crash(r)
    BY <1>1, <2>4 DEF CleanupFails, Crash
  <2>5. phase'[r] \notin Active
    BY DEF Active
  <2> QED
    BY <1>3, <2>1, <2>2, <2>3, <2>4, <2>5
    DEF StepOf, Advance, Start, SkipStream, CreateFile, WriteBatch, CloseFile, WriteFails,
        EndStreams, RemoveEntry, RemoveDir, RemoveFails, Rename, RenameFails, CleanupEntry
<1> QED
  BY <1>2, <1>3 DEF Next, StepOf

LEMMA AloneInvInit == Init => AloneInv
<1> SUFFICES ASSUME Init PROVE AloneInv
  OBVIOUS
<1>1. Alone /\ Slots /\ Progress /\ TmpGone
  BY DEF Init, Alone, Slots, Progress, RunProgress, TmpGone, Active, Writing, Replacing
<1>2. OneStream
  BY RunsAssumption DEF Init, OneStream
<1> QED
  BY <1>1, <1>2, TInit DEF AloneInv

LEMMA AloneInvStep ==
    ASSUME ~Overlapping, AloneInv, [Next]_vars
    PROVE  AloneInv'
<1>1. OneStream'
  BY SourcesStay DEF AloneInv, OneStream
<1> QED
  BY <1>1, TypeStep, CountedStep, AloneStep, SlotsStep, ProgressStep, TmpStep DEF AloneInv

\* All of an output is what its streams up to the last make.
LEMMA AllFilled ==
    ASSUME NEW r, NEW d
    PROVE  HoldsAll(r, d) <=> Filled(r, d, MaxStreams + 1)
BY BoundAssumption DEF HoldsAll, Filled, NonEmpty, Streams

\* Runs that do not overlap touch the old output only when the new one is on
\* disk, every file whole and under its name, whatever fails or is killed and
\* whatever a killed run has left in the tmp directory.
THEOREM ReplacesWhatIsWhole ==
    ASSUME ~Overlapping
    PROVE  Spec => []NewIsOnDisk
<1>1. AloneInv /\ [Next]_vars => AloneInv'
  BY AloneInvStep
<1>2. AloneInv => NewIsOnDisk
  BY AllFilled DEF AloneInv, Progress, RunProgress, NewIsOnDisk
<1> QED
  BY AloneInvInit, <1>1, <1>2, PTL DEF Spec

\* And one that reports success has all its rows in the output.
THEOREM SuccessIsComplete ==
    ASSUME ~Overlapping
    PROVE  Spec => SuccessHoldsAll
<1>1. AloneInv /\ [Next]_vars => AloneInv'
  BY AloneInvStep
<1>2. AloneInv => [\A r \in Runs : phase[r] = "report" /\ phase'[r] = "ok" => HoldsAll(r, target)]_vars
  BY AllFilled DEF AloneInv, Progress, RunProgress
<1> QED
  BY AloneInvInit, <1>1, <1>2, PTL DEF Spec, SuccessHoldsAll

\* Where only reading, writing and reporting fail, no tmp directory is left behind.
THEOREM TmpIsGone ==
    ASSUME ~Overlapping
    PROVE  Spec => []TmpGone
<1>1. AloneInv /\ [Next]_vars => AloneInv'
  BY AloneInvStep
<1>2. AloneInv => TmpGone
  BY DEF AloneInv
<1> QED
  BY AloneInvInit, <1>1, <1>2, PTL DEF Spec

-----------------------------------------------------------------------------
(* Where reads, writes and reports fail, AtomicReplace is implemented.     *)

\* Directory d holds nothing but r's files, and those it has counted.
Only(r, d) == \A n \in Names : d[n] # None => \E i \in NonEmpty(r) : NameOf(r, i) = n
Numbered(r, d) == \A k \in 1..written[r] : d[IF r \in single THEN 0 ELSE k] # None

\* The tmp directory is the run's own, the output is none of its making until
\* it is all of it.
CleanRun(r) ==
    /\ phase[r] \in Active /\ tmp # None => \A n \in Names : tmp[n] # None => tmp[n] = <<r, n>>
    /\ phase[r] \notin {"report"} \cup Ended /\ target \in Directory =>
          \A n \in Names : target[n] # None => target[n][1] # r
    /\ phase[r] \in Writing \cup Replacing => Only(r, tmp) /\ Numbered(r, tmp)
    /\ phase[r] \in Replacing => NonEmpty(r) # {}
    /\ phase[r] = "remove" /\ target = RegularFile => former = RegularFile
    /\ phase[r] = "rename" => target = None
    /\ phase[r] = "report" => AllThere(r)

Clean == Mild => \A r \in Runs : CleanRun(r)

\* A run that is not under way only has to see that the output is not its own.
LEMMA CleanOthers ==
    ASSUME ~Overlapping, AloneInv, Clean, Mild, NEW r \in Runs, StepOf(r),
           NEW q \in Runs, q # r
    PROVE  CleanRun(q)'
<1>1. phase[q] \notin Active /\ phase'[q] = phase[q] /\ CleanRun(q)
  BY OthersRest DEF AloneInv, Clean
<1> USE DEF Active, Writing, Replacing, Ended
<1>2. SUFFICES ASSUME phase[q] \notin {"report"} \cup Ended, target' \in Directory,
                      NEW n \in Names, target'[n] # None
               PROVE  target'[n][1] # q
  BY <1>1 DEF CleanRun
<1>3. CASE target' = target
  BY <1>1, <1>2, <1>3 DEF CleanRun
<1>4. CASE RemoveEntry(r)
  <2>1. target \in Directory /\ target[n] # None /\ target'[n] = target[n]
    BY <1>2, <1>4 DEF RemoveEntry, IsDir, AloneInv, TypeOK, Directory
  <2> QED
    BY <1>1, <1>2, <2>1 DEF CleanRun
<1>5. CASE RemoveDir(r)
  BY <1>2, <1>5, PathsAssumption DEF RemoveDir
<1>6. CASE Rename(r)
  <2>1. target' = tmp /\ tmp # None /\ phase[r] = "rename" /\ CleanRun(r)
    BY <1>6 DEF Rename, Clean
  <2>2. tmp[n] = <<r, n>>
    BY <1>2, <2>1 DEF CleanRun
  <2> QED
    BY <2>1, <2>2
<1> QED
  BY <1>3, <1>4, <1>5, <1>6
  DEF StepOf, Advance, Start, Refuse, SkipStream, CreateFile, WriteBatch, CloseFile, WriteFails,
      EndStreams, RemoveFails, RenameFails, CleanupEntry, CleanupDir, CleanupFails, Report,
      ReportFails, Crash

LEMMA CleanCreateFile ==
    ASSUME AloneInv, [Next]_vars, NEW r \in Runs, CleanRun(r), CreateFile(r)
    PROVE  CleanRun(r)'
<1>1. /\ at[r] \in NonEmpty(r) /\ written[r] = Count(r, at[r])
      /\ phase[r] = "peek" /\ tmp # None
      /\ phase'[r] = "write" /\ target' = target /\ written' = written /\ single' = single
  BY BoundAssumption
  DEF CreateFile, Goto, AloneInv, TypeOK, Streams, NonEmpty, Counted, CountedRun, Writing
<1> DEFINE name == NameOf(r, at[r])
<1>2. /\ name \in Names
      /\ open'[r] = IF tmp[name] # None THEN tmp[name] ELSE <<r, name>>
      /\ open'[r] \in Inodes
      /\ tmp \in Directory
      /\ tmp' = [tmp EXCEPT ![name] = open'[r]]
  BY <1>1, FileType DEF AloneInv
<1>3. \A n \in Names : tmp[n] # None => tmp[n] = <<r, n>>
  BY <1>1 DEF CleanRun, Active, Writing
<1>4. open'[r] = <<r, name>> /\ open'[r] # None
  BY <1>2, <1>3, PathsAssumption
<1> HIDE DEF name
<1>5. \A n \in Names : tmp'[n] = IF n = name THEN <<r, n>> ELSE tmp[n]
  BY <1>2, <1>4 DEF Directory
<1>6. Only(r, tmp) /\ Numbered(r, tmp)
  BY <1>1 DEF CleanRun, Writing
<1>7. Only(r, tmp)'
  <2>1. \A n \in Names : tmp'[n] # None => \E i \in NonEmpty(r) : NameOf(r, i) = n
    BY <1>1, <1>5, <1>6 DEF Only, name
  <2> QED
    BY <2>1, FilesStay DEF Only
<1>8. Numbered(r, tmp)'
  <2>1. \A k \in 1..written[r] : (IF r \in single THEN 0 ELSE k) \in Names
    BY BoundAssumption DEF AloneInv, TypeOK, Names
  <2> QED
    BY <1>1, <1>2, <1>4, <1>5, <1>6, <2>1 DEF Numbered
<1>9. \A n \in Names : tmp'[n] # None => tmp'[n] = <<r, n>>
  BY <1>3, <1>5
<1> QED
  BY <1>1, <1>7, <1>8, <1>9 DEF CleanRun, Active, Writing, Replacing, Ended

LEMMA CleanCloseFile ==
    ASSUME AloneInv, [Next]_vars, NEW r \in Runs, CleanRun(r), CloseFile(r)
    PROVE  CleanRun(r)'
<1>1. /\ at[r] \in NonEmpty(r) /\ written[r] = Count(r, at[r])
      /\ phase[r] = "write" /\ tmp[NameOf(r, at[r])] = open[r] /\ open[r] # None
      /\ phase'[r] = "peek" /\ target' = target /\ tmp' = tmp /\ single' = single
      /\ written'[r] = written[r] + 1
      /\ written[r] \in Nat
  BY BoundAssumption, PathsAssumption
  DEF CloseFile, Goto, AloneInv, TypeOK, Counted, CountedRun, Writing, Progress, RunProgress, Names
<1>2. Only(r, tmp) /\ Numbered(r, tmp)
  BY <1>1 DEF CleanRun, Writing
<1>3. tmp[IF r \in single THEN 0 ELSE written[r] + 1] # None
  BY <1>1, NameIsNext
<1>4. Numbered(r, tmp)'
  <2>1. \A k \in 1..(written[r] + 1) : k \in 1..written[r] \/ k = written[r] + 1
    BY <1>1
  <2> QED
    BY <1>1, <1>2, <1>3, <2>1 DEF Numbered
<1>5. Only(r, tmp)'
  BY <1>1, <1>2, FilesStay DEF Only
<1> QED
  BY <1>1, <1>4, <1>5 DEF CleanRun, Active, Writing, Replacing, Ended

LEMMA CleanStep ==
    ASSUME ~Overlapping, AloneInv, Clean, [Next]_vars
    PROVE  Clean'
<1>1. faults' = faults
  BY DEF Next, Advance, Done, vars, Start, Refuse, SkipStream, CreateFile, WriteBatch, CloseFile,
         WriteFails, EndStreams, RemoveEntry, RemoveDir, RemoveFails, Rename, RenameFails,
         CleanupEntry, CleanupDir, CleanupFails, Report, ReportFails, Crash
<1> SUFFICES ASSUME Mild PROVE \A r \in Runs : CleanRun(r)'
  BY <1>1 DEF Clean, Mild
<1>2. \A r \in Runs : CleanRun(r)
  BY DEF Clean
<1> USE DEF AloneInv, TypeOK, Goto, Active, Writing, Replacing, Ended, Mild
<1>3. ASSUME NEW r \in Runs, Start(r) PROVE CleanRun(r)'
  <2>1. tmp = None /\ written'[r] = 0 /\ phase[r] = "idle"
    BY <1>3 DEF Start, MayStart, TmpGone, Counted, CountedRun
  <2>2. tmp' = EmptyDir /\ phase'[r] = "peek" /\ target' = target
    BY <1>3, <2>1 DEF Start
  <2>3. \A n \in Names : tmp'[n] = None
    BY <2>2 DEF EmptyDir
  <2>4. Only(r, tmp)' /\ Numbered(r, tmp)'
    BY <2>1, <2>3 DEF Only, Numbered
  <2> QED
    BY <1>2, <2>1, <2>2, <2>3, <2>4 DEF CleanRun
<1>4. ASSUME NEW r \in Runs, SkipStream(r) \/ WriteBatch(r) PROVE CleanRun(r)'
  <2>1. /\ phase' = phase /\ tmp' = tmp /\ target' = target /\ written' = written
        /\ single' = single /\ phase[r] \in Writing
    BY <1>4 DEF SkipStream, WriteBatch
  <2>2. Only(r, tmp)' /\ Numbered(r, tmp)'
    BY <1>2, <2>1, FilesStay DEF CleanRun, Only, Numbered
  <2> QED
    BY <1>2, <2>1, <2>2 DEF CleanRun
<1>5. ASSUME NEW r \in Runs, EndStreams(r) PROVE CleanRun(r)'
  <2>1. /\ phase[r] = "peek" /\ tmp' = tmp /\ target' = target /\ written' = written
        /\ single' = single
        /\ \/ phase'[r] = "cleanup"
           \/ phase'[r] = "remove" /\ former' = Owner(target) /\ written[r] # 0
    BY <1>5 DEF EndStreams
  <2>2. CASE phase'[r] = "cleanup"
    BY <1>2, <2>1, <2>2 DEF CleanRun
  <2>3. CASE phase'[r] = "remove"
    <3>1. Only(r, tmp)' /\ Numbered(r, tmp)'
      BY <1>2, <2>1, FilesStay DEF CleanRun, Only, Numbered
    <3>2. Count(r, at[r]) # 0
      BY <2>1, <2>3 DEF Counted, CountedRun
    <3>3. NonEmpty(r) # {}
      <4>1. Before(r, at[r]) # {}
        BY <3>2, FS_EmptySet DEF Count
      <4> QED
        BY <4>1 DEF Before
    <3>4. target = RegularFile => former' = RegularFile
      BY <2>1, <2>3 DEF Owner
    <3> QED
      BY <1>2, <2>1, <2>3, <3>1, <3>3, <3>4, FilesStay DEF CleanRun
  <2> QED
    BY <2>1, <2>2, <2>3
<1>6. ASSUME NEW r \in Runs, RemoveEntry(r) \/ RemoveDir(r) PROVE CleanRun(r)'
  <2>1. /\ phase[r] = "remove" /\ tmp' = tmp /\ written' = written /\ single' = single
        /\ former' = former
        /\ \/ phase'[r] = "remove" /\ target \in Directory /\ target' \in Directory
              /\ \A n \in Names : target'[n] # None => target'[n] = target[n]
           \/ phase'[r] = "rename" /\ target' = None
    BY <1>6 DEF RemoveEntry, RemoveDir, IsDir, Directory
  <2>2. Only(r, tmp)' /\ Numbered(r, tmp)'
    BY <1>2, <2>1, FilesStay DEF CleanRun, Only, Numbered
  <2> QED
    BY <1>2, <2>1, <2>2, FilesStay, PathsAssumption DEF CleanRun
<1>7. ASSUME NEW r \in Runs, Rename(r) PROVE CleanRun(r)'
  <2>1. /\ phase[r] = "rename" /\ phase'[r] = "report" /\ target' = tmp /\ tmp' = None
        /\ written' = written /\ single' = single /\ tmp \in Directory
    BY <1>7 DEF Rename
  <2>2. AllThere(r)'
    BY <1>2, <2>1, PathsAssumption DEF CleanRun, Numbered, AllThere, IsDir
  <2> QED
    BY <2>1, <2>2 DEF CleanRun
<1>8. ASSUME NEW r \in Runs,
             WriteFails(r) \/ RemoveFails(r) \/ RenameFails(r) \/ CleanupEntry(r)
      PROVE  CleanRun(r)'
  <2>1. /\ phase[r] \in Writing \cup Replacing \cup {"cleanup"} /\ phase'[r] = "cleanup"
        /\ target' = target
        /\ \/ tmp' = tmp
           \/ tmp # None /\ tmp \in Directory
              /\ \A n \in Names : tmp'[n] # None => tmp'[n] = tmp[n]
    BY <1>8 DEF WriteFails, RemoveFails, RenameFails, CleanupEntry, Directory
  <2> QED
    BY <1>2, <2>1 DEF CleanRun
<1>9. ASSUME NEW r \in Runs,
             \/ Refuse(r) \/ CleanupDir(r) \/ CleanupFails(r) \/ Report(r) \/ ReportFails(r)
             \/ Crash(r)
      PROVE  CleanRun(r)'
  <2>1. phase'[r] \in Ended
    BY <1>9 DEF Refuse, CleanupDir, CleanupFails, Report, ReportFails, Crash
  <2> QED
    BY <2>1 DEF CleanRun
<1>10. ASSUME NEW r \in Runs, StepOf(r) PROVE CleanRun(r)'
  BY <1>2, <1>3, <1>4, <1>5, <1>6, <1>7, <1>8, <1>9, <1>10, CleanCreateFile, CleanCloseFile
  DEF StepOf, Advance
<1>11. ASSUME NEW r \in Runs, StepOf(r) PROVE \A q \in Runs : CleanRun(q)'
  BY <1>10, <1>11, CleanOthers
<1>12. CASE UNCHANGED vars \/ Done
  <2>1. vars' = vars
    BY <1>12 DEF Done
  <2>2. ASSUME NEW r \in Runs
        PROVE  /\ Only(r, tmp)' <=> Only(r, tmp)
               /\ Numbered(r, tmp)' <=> Numbered(r, tmp)
               /\ AllThere(r)' <=> AllThere(r)
               /\ NonEmpty(r)' = NonEmpty(r)
    BY <2>1, FilesStay DEF vars, Only, Numbered, AllThere, IsDir
  <2> QED
    BY <1>2, <2>1, <2>2 DEF vars, CleanRun
<1> QED
  BY <1>11, <1>12 DEF Next, StepOf

LEMMA CleanInit == Init => Clean
<1> SUFFICES ASSUME Init, NEW r \in Runs PROVE CleanRun(r)
  BY DEF Clean
<1>1. phase[r] = "idle" /\ target \in {OriginalDir, RegularFile, None}
  BY DEF Init
<1>2. target \in Directory => target = OriginalDir
  BY <1>1, PathsAssumption
<1>3. \A n \in Names : OriginalDir[n] # None => OriginalDir[n][1] # r
  BY RunsAssumption DEF OriginalDir
<1> QED
  BY <1>1, <1>2, <1>3 DEF CleanRun, Active, Writing, Replacing

\* A path holds the whole output of one run at most: a file tells whose it is.
LEMMA OneOwner ==
    ASSUME TypeOK, NEW d \in Directory, NEW q \in Runs, NEW r \in Runs,
           HoldsOnly(q, d), HoldsOnly(r, d)
    PROVE  q = r
<1>1. PICK i \in NonEmpty(q) : TRUE
  BY DEF HoldsOnly
<1>2. /\ NameOf(q, i) \in Names
      /\ d[NameOf(q, i)] # None
      /\ disk[d[NameOf(q, i)]] = FileOf(q, i)
  BY NameType DEF HoldsOnly, HoldsAll
<1>3. PICK j \in NonEmpty(r) : NameOf(r, j) = NameOf(q, i)
  BY <1>2 DEF HoldsOnly
<1>4. FileOf(q, i) = FileOf(r, j)
  BY <1>2, <1>3 DEF HoldsOnly, HoldsAll
<1>5. streams[q][i] \in Nat /\ streams[r][j] \in Nat
  BY BoundAssumption DEF TypeOK, NonEmpty
<1>6. FileOf(q, i)[1][1] = q /\ FileOf(r, j)[1][1] = r
  BY <1>5 DEF FileOf, Batches
<1> QED
  BY <1>4, <1>6

OwnerFact ==
    TypeOK => \A d \in Directory, r \in Runs : d # OriginalDir /\ HoldsOnly(r, d) => Owner(d) = r

LEMMA OwnerIs == OwnerFact
<1> SUFFICES ASSUME TypeOK, NEW d \in Directory, NEW r \in Runs, d # OriginalDir, HoldsOnly(r, d)
             PROVE  Owner(d) = r
  BY DEF OwnerFact
<1>1. d \notin {None, RegularFile}
  BY PathsAssumption
<1>2. Owner(d) = CHOOSE q \in Runs : HoldsOnly(q, d)
  BY <1>1 DEF Owner
<1>3. Owner(d) \in Runs /\ HoldsOnly(Owner(d), d)
  BY <1>2
<1> QED
  BY <1>3, OneOwner

LEMMA OwnerIsNext == OwnerFact'
BY OwnerIs, PTL

\* Writing elsewhere does not change whose output a path holds.
LEMMA OwnerStays ==
    ASSUME TypeOK, TypeOK', [Next]_vars, target' = target,
           target \in Directory =>
               \A n \in Names : target[n] # None => disk'[target[n]] = disk[target[n]]
    PROVE  Owner(target)' = Owner(target)
<1>1. CASE target \notin Directory \/ target = OriginalDir
  BY <1>1, PathsAssumption DEF Owner, TypeOK
<1>2. CASE target \in Directory /\ target # OriginalDir
  <2>1. target \notin {None, RegularFile}
    BY <1>2, PathsAssumption
  <2>2. \A r \in Runs : HoldsOnly(r, target)' <=> HoldsOnly(r, target)
    BY <1>2, FilesStay, NameType DEF HoldsOnly, HoldsAll
  <2>3. CASE \E r \in Runs : HoldsOnly(r, target)
    <3>1. PICK r \in Runs : HoldsOnly(r, target)
      BY <2>3
    <3>2. HoldsOnly(r, target)'
      BY <2>2, <3>1
    <3>3. Owner(target) = r
      BY <1>2, <3>1, OwnerIs DEF OwnerFact
    <3>4. Owner(target)' = r
      BY <1>2, <3>2, OwnerIsNext DEF OwnerFact
    <3> QED
      BY <3>3, <3>4
  <2>4. CASE ~ \E r \in Runs : HoldsOnly(r, target)
    BY <1>2, <2>1, <2>2, <2>4 DEF Owner
  <2> QED
    BY <2>3, <2>4
<1> QED
  BY <1>1, <1>2

\* Around a step of r, what is published is what r is replacing, or else what
\* the path holds.
LEMMA PublishedIs ==
    ASSUME ~Overlapping, AloneInv, Mild, Mild', NEW r \in Runs, StepOf(r)
    PROVE  /\ Published = IF phase[r] \in Replacing THEN former ELSE Owner(target)
           /\ Published' = IF phase'[r] \in Replacing THEN former' ELSE Owner(target)'
<1>1. \A q \in Runs : q # r => phase[q] \notin Replacing /\ phase'[q] \notin Replacing
  BY OthersRest DEF AloneInv, Active
<1> QED
  BY <1>1 DEF Published

LEMMA RefinesInit == Init => Atomic!Init
<1> SUFFICES ASSUME Init PROVE Atomic!Init
  OBVIOUS
<1>1. Published \in {Original, RegularFile, None}
  <2>1. Owner(target) \in {Original, RegularFile, None}
    BY EmptyDirType, PathsAssumption DEF Init, Owner
  <2>2. \A r \in Runs : phase[r] \notin Replacing
    BY DEF Init, Replacing
  <2> QED
    BY <2>1, <2>2 DEF Published
<1>2. \A r \in Runs : Outcome(r) = "running"
  BY DEF Init, Outcome
<1> QED
  BY <1>1, <1>2 DEF Atomic!Init

\* The files of the output stay as they are while a run writes its own.
LEMMA OwnerStaysInStep ==
    ASSUME ~Overlapping, AloneInv, Clean, Mild, [Next]_vars, NEW r \in Runs,
           \/ Start(r) \/ Refuse(r) \/ SkipStream(r) \/ CreateFile(r) \/ WriteBatch(r)
           \/ CloseFile(r) \/ WriteFails(r) \/ EndStreams(r) \/ RemoveFails(r) \/ CleanupEntry(r)
           \/ CleanupDir(r) \/ CleanupFails(r) \/ Report(r) \/ ReportFails(r)
    PROVE  Owner(target)' = Owner(target)
<1> USE DEF AloneInv, TypeOK
<1>1. target' = target
  BY DEF Start, Refuse, SkipStream, CreateFile, WriteBatch, CloseFile, WriteFails, EndStreams,
         RemoveFails, CleanupEntry, CleanupDir, CleanupFails, Report, ReportFails
<1>2. ASSUME target \in Directory, NEW n \in Names, target[n] # None
      PROVE  disk'[target[n]] = disk[target[n]]
  <2>1. target[n] \in Inodes
    BY <1>2 DEF Directory
  <2>2. CASE CreateFile(r)
    <3>1. /\ at[r] \in NonEmpty(r) /\ written[r] = Count(r, at[r]) /\ phase[r] = "peek"
          /\ tmp # None
      BY <2>2, BoundAssumption
      DEF CreateFile, Streams, NonEmpty, Counted, CountedRun, Writing
    <3> DEFINE name == NameOf(r, at[r])
    <3>2. /\ name \in Names
          /\ open'[r] = IF tmp[name] # None THEN tmp[name] ELSE <<r, name>>
          /\ disk' = [disk EXCEPT ![open'[r]] = <<>>]
      BY <2>2, <3>1, FileType
    <3> HIDE DEF name
    <3>3. open'[r] = <<r, name>>
      BY <3>1, <3>2 DEF Clean, CleanRun, Active, Writing
    <3>4. target[n][1] # r
      BY <1>2, <3>1 DEF Clean, CleanRun, Ended
    <3> QED
      BY <2>1, <3>2, <3>3, <3>4
  <2>3. CASE WriteBatch(r) \/ CloseFile(r)
    <3>1. /\ phase[r] = "write" /\ at[r] \in NonEmpty(r) /\ open[r] \in Inodes
          /\ tmp[NameOf(r, at[r])] = open[r] /\ tmp # None
      BY <2>3 DEF WriteBatch, CloseFile, Counted, CountedRun, Progress, RunProgress, Writing
    <3>2. open[r][1] = r
      BY <3>1, NameType, PathsAssumption DEF Clean, CleanRun, Active, Writing
    <3>3. target[n][1] # r
      BY <1>2, <3>1 DEF Clean, CleanRun, Ended
    <3>4. \E pieces : disk' = [disk EXCEPT ![open[r]] = pieces]
      BY <2>3 DEF WriteBatch, CloseFile
    <3> QED
      BY <2>1, <3>1, <3>2, <3>3, <3>4
  <2> QED
    BY <2>2, <2>3
    DEF Start, Refuse, SkipStream, WriteFails, EndStreams, RemoveFails, CleanupEntry, CleanupDir,
        CleanupFails, Report, ReportFails
<1>3. TypeOK'
  BY TypeStep
<1> QED
  BY <1>1, <1>2, <1>3, OwnerStays

\* Once renamed, the output is the run's.
LEMMA RenamePublishes ==
    ASSUME ~Overlapping, AloneInv, Clean, Mild, [Next]_vars, NEW r \in Runs, Rename(r)
    PROVE  Owner(target)' = r
<1>1. /\ phase[r] = "rename" /\ target' = tmp /\ tmp # None /\ tmp \in Directory /\ disk' = disk
      /\ Filled(r, tmp, MaxStreams + 1)
      /\ Only(r, tmp) /\ NonEmpty(r) # {}
      /\ \A n \in Names : tmp[n] # None => tmp[n] = <<r, n>>
  BY DEF Rename, AloneInv, TypeOK, Progress, RunProgress, Clean, CleanRun, Active, Replacing
<1>2. HoldsOnly(r, tmp)
  BY <1>1, AllFilled DEF HoldsOnly, Only
<1>3. HoldsOnly(r, target)'
  BY <1>1, <1>2, FilesStay DEF HoldsOnly, HoldsAll
<1>4. tmp # OriginalDir
  <2>1. PICK i \in NonEmpty(r) : TRUE
    BY <1>1
  <2>2. NameOf(r, i) \in Names /\ tmp[NameOf(r, i)] = <<r, NameOf(r, i)>>
    BY <1>1, <1>2, NameType DEF HoldsOnly, HoldsAll
  <2>3. tmp[NameOf(r, i)] # None
    BY <1>2 DEF HoldsOnly, HoldsAll
  <2>4. OriginalDir[NameOf(r, i)] \in {None, <<Original, NameOf(r, i)>>}
    BY <2>2 DEF OriginalDir
  <2>5. <<r, NameOf(r, i)>> # <<Original, NameOf(r, i)>>
    BY RunsAssumption
  <2> QED
    BY <2>2, <2>3, <2>4, <2>5
<1>5. TypeOK'
  BY TypeStep DEF AloneInv
<1> QED
  BY <1>1, <1>3, <1>4, <1>5, OwnerIsNext DEF OwnerFact

LEMMA RefinesStep ==
    ASSUME ~Overlapping, AloneInv, Clean, [Next]_vars
    PROVE  [Atomic!Next]_(Atomic!vars)
<1> DEFINE out == [q \in Runs |-> Outcome(q)]
<1>1. faults' = faults
  BY DEF Next, Advance, Done, vars, Start, Refuse, SkipStream, CreateFile, WriteBatch, CloseFile,
         WriteFails, EndStreams, RemoveEntry, RemoveDir, RemoveFails, Rename, RenameFails,
         CleanupEntry, CleanupDir, CleanupFails, Report, ReportFails, Crash
<1>2. CASE ~Mild
  <2>1. Published = Original /\ Published' = Original
    BY <1>1, <1>2 DEF Published, Mild
  <2>2. \A r \in Runs : Outcome(r) = "running" /\ Outcome(r)' = "running"
    BY <1>1, <1>2 DEF Outcome, Mild
  <2> QED
    BY <2>1, <2>2 DEF Atomic!vars
<1>3. CASE UNCHANGED vars \/ Done
  <2>1. vars' = vars
    BY <1>3 DEF Done
  <2>2. TypeOK'
    BY TypeStep DEF AloneInv
  <2>3. Owner(target)' = Owner(target)
    BY <2>1, <2>2, OwnerStays DEF AloneInv, vars
  <2> QED
    BY <2>1, <2>3 DEF vars, Atomic!vars, Published, Outcome, Mild
<1>4. ASSUME Mild, NEW r \in Runs, StepOf(r)
      PROVE  [Atomic!Next]_(Atomic!vars)
  <2>1. /\ Published = IF phase[r] \in Replacing THEN former ELSE Owner(target)
        /\ Published' = IF phase'[r] \in Replacing THEN former' ELSE Owner(target)'
    BY <1>1, <1>4, PublishedIs DEF Mild
  <2>2. out' = [out EXCEPT ![r] = Outcome(r)'] /\ out[r] = Outcome(r)
    <3>1. \A q \in Runs \ {r} : phase'[q] = phase[q]
      BY <1>4, OthersRest DEF AloneInv
    <3>2. \A q \in Runs \ {r} : Outcome(q)' = Outcome(q)
      BY <1>1, <3>1 DEF Outcome, Mild
    <3> QED
      BY <3>2
  <2>3. CleanRun(r)
    BY <1>4 DEF Clean
  <2> HIDE DEF out
  <2> USE DEF AloneInv, TypeOK, Goto, Replacing
  <2>4. CASE \/ Start(r) \/ SkipStream(r) \/ CreateFile(r) \/ WriteBatch(r) \/ CloseFile(r)
             \/ WriteFails(r) \/ CleanupEntry(r)
    <3>1. Published' = Published
      BY <1>4, <2>1, <2>4, OwnerStaysInStep
      DEF Start, MayStart, SkipStream, CreateFile, WriteBatch, CloseFile, WriteFails,
          CleanupEntry, Writing
    <3>2. Outcome(r)' = Outcome(r)
      BY <1>1, <1>4, <2>4
      DEF Mild, Outcome, Start, MayStart, SkipStream, CreateFile, WriteBatch, CloseFile, WriteFails,
          CleanupEntry, Writing
    <3> QED
      BY <2>2, <3>1, <3>2 DEF Atomic!vars, out
  <2>5. CASE EndStreams(r)
    <3>1. Published' = Published
      BY <1>4, <2>1, <2>5, OwnerStaysInStep DEF EndStreams
    <3>2. Outcome(r)' = Outcome(r)
      BY <1>1, <1>4, <2>5 DEF Mild, Outcome, EndStreams
    <3> QED
      BY <2>2, <3>1, <3>2 DEF Atomic!vars, out
  <2>6. CASE RemoveEntry(r) \/ RemoveDir(r)
    <3>1. Published' = Published
      BY <2>1, <2>6 DEF RemoveEntry, RemoveDir
    <3>2. Outcome(r)' = Outcome(r)
      BY <1>1, <1>4, <2>6 DEF Mild, Outcome, RemoveEntry, RemoveDir
    <3> QED
      BY <2>2, <3>1, <3>2 DEF Atomic!vars, out
  <2>7. CASE RemoveFails(r)
    <3>1. /\ phase[r] = "remove" /\ phase'[r] = "cleanup"
          /\ target = RegularFile /\ former = RegularFile
      BY <1>4, <2>3, <2>7 DEF Mild, RemoveFails, CleanRun
    <3>2. Owner(target)' = RegularFile
      BY <1>4, <2>7, <3>1, OwnerStaysInStep DEF Owner
    <3>3. Published' = Published
      BY <2>1, <3>1, <3>2
    <3>4. Outcome(r)' = Outcome(r)
      BY <1>1, <1>4, <3>1 DEF Outcome, Mild
    <3> QED
      BY <2>2, <3>3, <3>4 DEF Atomic!vars, out
  <2>8. CASE Rename(r)
    <3>1. Published' = r
      BY <1>4, <2>1, <2>8, RenamePublishes DEF Rename
    <3>2. Outcome(r) = "running" /\ Outcome(r)' = "published"
      BY <1>1, <1>4, <2>8 DEF Mild, Outcome, Rename
    <3> QED
      BY <2>2, <3>1, <3>2 DEF Atomic!Next, Atomic!Publish, out
  <2>9. CASE RenameFails(r)
    BY <1>4, <2>3, <2>9 DEF Mild, RenameFails, CleanRun, Progress, RunProgress
  <2>10. CASE Report(r)
    <3>1. Published' = Published
      BY <1>4, <2>1, <2>10, OwnerStaysInStep DEF Report
    <3>2. Outcome(r) = "published" /\ Outcome(r)' = "ok"
      BY <1>1, <1>4, <2>10 DEF Mild, Outcome, Report
    <3> QED
      BY <2>2, <3>1, <3>2 DEF Atomic!Next, Atomic!Succeed, out
  <2>11. CASE Refuse(r) \/ CleanupDir(r)
    <3>1. Published' = Published
      BY <1>4, <2>1, <2>11, OwnerStaysInStep DEF Refuse, MayStart, CleanupDir
    <3>2. Outcome(r) = "running" /\ Outcome(r)' = "failed"
      BY <1>1, <1>4, <2>11 DEF Mild, Outcome, Refuse, MayStart, CleanupDir
    <3> QED
      BY <2>2, <3>1, <3>2 DEF Atomic!Next, Atomic!Fail, out
  <2>12. CASE ReportFails(r)
    <3>1. Published' = Published
      BY <1>4, <2>1, <2>12, OwnerStaysInStep DEF ReportFails
    <3>2. Outcome(r) = "published" /\ Outcome(r)' = "lost"
      BY <1>1, <1>4, <2>12 DEF Outcome, ReportFails, Mild
    <3> QED
      BY <2>2, <3>1, <3>2 DEF Atomic!Next, Atomic!Lose, out
  <2>13. ~(CleanupFails(r) \/ Crash(r))
    BY <1>4 DEF CleanupFails, Crash, Mild
  <2> QED
    BY <1>4, <2>4, <2>5, <2>6, <2>7, <2>8, <2>9, <2>10, <2>11, <2>12, <2>13 DEF StepOf, Advance
<1> QED
  BY <1>2, <1>3, <1>4 DEF Next, StepOf

\* Runs one at a time whose reads, writes and report may fail replace the output as
\* AtomicReplace says: by the whole output of one run, reported after it.
THEOREM RefinesAtomicReplace ==
    ASSUME ~Overlapping
    PROVE  Spec => ReplacesAtomically
<1>1. AloneInv /\ Clean /\ [Next]_vars => (AloneInv /\ Clean)'
  BY AloneInvStep, CleanStep
<1>2. AloneInv /\ Clean /\ [Next]_vars => [Atomic!Next]_(Atomic!vars)
  BY RefinesStep
<1> QED
  BY RefinesInit, AloneInvInit, CleanInit, <1>1, <1>2, PTL
  DEF Spec, Atomic!Spec, ReplacesAtomically
=============================================================================
