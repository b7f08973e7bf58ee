--------------------------- MODULE FilesSourceProofs ---------------------------
(***************************************************************************)
(* What a run reads of files that another process replaces meanwhile, for  *)
(* any paths and outputs: one file is open at most, and every batch it has *)
(* been given is accounted for by whole files, in the order of the paths   *)
(* and of one output each, the versions never going back.                  *)
(***************************************************************************)
EXTENDS FilesSource, SequenceFacts

Batch == UNION {ToSet(f) : f \in WholeFiles}
Partition == [path : Names, rest : {None} \cup Unread]

\* Everything but the last part is type correctness; what is on disk is of the
\* output in place, and no file is open but the one being read.
FilesInv ==
    /\ given \in {w.given : w \in Worlds}
    /\ version \in DOMAIN Outputs
    /\ disk \in [Names -> {None, Torn, Dir} \cup WholeFiles]
    /\ \A p \in Names : disk[p] \in {None, Torn, Dir, Output(version)[p]}
    /\ resolved \in Seq(Names)
    /\ partitions \in Seq(Partition)
    /\ OneFileOpen

\* The batches of the first files, of the versions vs.
FilesOf(vs, paths) == [i \in 1..Len(vs) |-> FileOf(vs[i], paths[i])]

Opened == partitions # <<>> /\ partitions[1].rest # None
Left == IF Opened THEN partitions[1].rest ELSE <<>>

\* So many paths have been read or are being read, each one once and of one output.
ReadSoFar(vs) ==
    /\ vs \in Seq(1..version)
    /\ Len(vs) + Len(partitions) = Len(resolved) + IF Opened THEN 1 ELSE 0
    /\ \A i \in 1..Len(vs) : resolved[i] \in DOMAIN Outputs[vs[i]]
    /\ \A i, j \in 1..Len(vs) : i < j => vs[i] <= vs[j]
    /\ \A i \in DOMAIN partitions :
          partitions[i].path = resolved[Len(resolved) - Len(partitions) + i]
    /\ FlattenSeq(FilesOf(vs, resolved)) = received \o Left

Reading == received \in Seq(Batch) /\ \E vs : ReadSoFar(vs)

-----------------------------------------------------------------------------
(* Files.                                                                  *)

\* A file is a sequence of batches.
LEMMA FileIs ==
    ASSUME NEW v \in DOMAIN Outputs, NEW p \in DOMAIN Outputs[v]
    PROVE  /\ FileOf(v, p) \in WholeFiles /\ FileOf(v, p) \in Seq(Batch)
           /\ p \in Names /\ Output(v)[p] = FileOf(v, p)
<1> DEFINE n == Outputs[v][p].batches
<1>1. n \in Nat /\ p \in Names
  BY FilesAssumption DEF FilesAssumption
<1>2. FileOf(v, p) \in WholeFiles
  BY DEF WholeFiles
<1>3. DOMAIN FileOf(v, p) = 1..n /\ FileOf(v, p) = [i \in 1..n |-> FileOf(v, p)[i]]
  BY DEF FileOf
<1>4. \A i \in 1..n : FileOf(v, p)[i] \in Batch
  <2>1. \A i \in 1..n : FileOf(v, p)[i] \in ToSet(FileOf(v, p))
    BY <1>3 DEF ToSet
  <2> QED
    BY <1>2, <2>1 DEF Batch
<1>5. FileOf(v, p) \in [1..n -> Batch]
  BY <1>3, <1>4
<1>6. FileOf(v, p) \in Seq(Batch)
  BY <1>1, <1>5, Numbered
<1> QED
  BY <1>1, <1>2, <1>6 DEF Output

\* A file is something to read, as is what is left of one after its first batch.
LEMMA UnreadIs ==
    /\ WholeFiles \subseteq Unread
    /\ \A r \in Unread : r \in Seq(Batch) /\ r \notin {None, Torn, Dir}
    /\ \A r \in Unread : r # <<>> => Head(r) \in Batch /\ Tail(r) \in Unread
    /\ <<>> \in Unread
<1>0. \A r : r \in Unread <=> r = <<>> \/ \E f \in WholeFiles : r \in Suffixes(f)
  BY DEF Unread
<1>1. \A f \in WholeFiles : f \in Seq(Batch)
  BY FileIs DEF WholeFiles
<1>2. \A f \in WholeFiles : f \in Unread
  <2> SUFFICES ASSUME NEW f \in WholeFiles PROVE f \in Suffixes(f) \cup {<<>>}
    BY <1>0
  <2>1. f \in Seq(Batch) /\ SubSeq(f, 1, Len(f)) = f
    BY <1>1, SubSeqFull
  <2>2. CASE Len(f) = 0
    BY <2>1, <2>2
  <2>3. CASE Len(f) # 0
    <3>1. 1 \in 1..Len(f)
      BY <2>1, <2>3
    <3> QED
      BY <2>1, <3>1 DEF Suffixes
  <2> QED
    BY <2>2, <2>3
<1>3. ASSUME NEW f \in WholeFiles, NEW i \in 1..Len(f)
      PROVE  LET r == SubSeq(f, i, Len(f)) IN
             r \in Seq(Batch) /\ r # <<>> /\ Head(r) \in Batch /\ Tail(r) \in Suffixes(f)
  <2> DEFINE r == SubSeq(f, i, Len(f))
  <2>1. f \in Seq(Batch) /\ Len(f) \in i..Len(f) /\ Len(f) \in Nat
    BY <1>1, <1>3
  <2>2. Tail(r) = SubSeq(f, i + 1, Len(f))
    BY <2>1, HeadTailOfSubSeq
  <2>3. r \in Seq(Batch) /\ Len(r) = Len(f) - i + 1
    <3>1. \A j \in i..Len(f) : f[j] \in Batch
      BY <2>1
    <3>2. i \in Int /\ Len(f) \in Int /\ i <= Len(f)
      BY <2>1
    <3> QED
      BY <3>1, <3>2, SubSeqProperties
  <2>4. r # <<>> /\ Head(r) \in Batch
    <3> HIDE DEF r
    <3> QED
      BY <2>1, <2>3
  <2>5. CASE i = Len(f)
    <3>1. i + 1 \in Int /\ Len(f) \in Int /\ Len(f) < i + 1
      BY <2>1, <2>5
    <3>2. SubSeq(f, i + 1, Len(f)) = <<>>
      BY <3>1, SubSeqEmpty
    <3> QED
      BY <2>2, <2>3, <2>4, <3>2 DEF Suffixes
  <2>6. CASE i # Len(f)
    <3>1. i + 1 \in 1..Len(f)
      BY <2>1, <2>6
    <3> QED
      BY <2>2, <2>3, <2>4, <3>1 DEF Suffixes
  <2> QED
    BY <2>5, <2>6
<1>4. ASSUME NEW r \in Unread
      PROVE  r \in Seq(Batch) /\ (r # <<>> => Head(r) \in Batch /\ Tail(r) \in Unread)
  <2>1. CASE r = <<>>
    BY <2>1
  <2>2. CASE r # <<>>
    <3>1. PICK f \in WholeFiles : r \in Suffixes(f)
      BY <1>0, <2>2
    <3>2. PICK i \in 1..Len(f) : r = SubSeq(f, i, Len(f))
      BY <2>2, <3>1 DEF Suffixes
    <3> QED
      BY <1>0, <1>3, <3>2
  <2> QED
    BY <2>1, <2>2
<1> QED
  BY <1>0, <1>2, <1>4, FilesAssumption DEF FilesAssumption

\* What a file is found to be is a file of the output in place.
LEMMA OnDisk ==
    ASSUME FilesInv, NEW p \in Names, disk[p] \notin {None, Torn, Dir}
    PROVE  p \in DOMAIN Outputs[version] /\ disk[p] = FileOf(version, p) /\ disk[p] \in Unread
<1>1. disk[p] = Output(version)[p] /\ disk[p] # None
  BY DEF FilesInv
<1>2. p \in DOMAIN Outputs[version]
  BY <1>1 DEF Output
<1> QED
  BY <1>1, <1>2, FileIs, UnreadIs DEF FilesInv

\* What a glob or a caller names.
LEMMA ExpandIs ==
    ASSUME FilesInv
    PROVE  Expand \in Seq(Names) /\ Len(Expand) \in Nat
<1>1. CASE given = Glob
  <2> DEFINE one == [i \in DOMAIN Paths |-> IF disk[Paths[i]] = None THEN <<>> ELSE <<Paths[i]>>]
  <2>1. Paths \in Seq(Names)
    BY FilesAssumption DEF FilesAssumption
  <2>2. Len(Paths) \in Nat /\ one \in [1..Len(Paths) -> Seq(Names)]
    BY <2>1
  <2>3. one \in Seq(Seq(Names))
    BY <2>2, Numbered
  <2>4. Found \in Seq(Names)
    BY <2>3, FlattenType DEF Found
  <2> QED
    BY <1>1, <2>4 DEF Expand
<1>2. CASE given # Glob
  <2>1. PICK w \in Worlds : given = w.given
    BY DEF FilesInv
  <2> QED
    BY <1>2, <2>1, FilesAssumption DEF FilesAssumption, Expand
<1> QED
  BY <1>1, <1>2

-----------------------------------------------------------------------------
(* The steps.                                                              *)

\* A program starts with its files as the world left them.
LEMMA FilesInitInv ==
    ASSUME NEW w \in Worlds, FilesInit(w)
    PROVE  FilesInv /\ received = <<>> /\ partitions = <<>>
<1>1. 1 \in DOMAIN Outputs
  BY FilesAssumption DEF FilesAssumption
<1>2. /\ disk \in [Names -> {None, Torn, Dir} \cup WholeFiles]
      /\ \A p \in Names : disk[p] \in {None, Torn, Dir, Output(1)[p]}
  BY FilesAssumption DEF FilesAssumption, FilesInit
<1>3. \A p \in Names : Output(1)[p] \in {None} \cup WholeFiles
  BY <1>1, FileIs DEF Output
<1> QED
  BY <1>1, <1>2, <1>3 DEF FilesInit, FilesInv, OneFileOpen

\* The partitions that are left after the first.
LEMMA TailIs ==
    ASSUME partitions \in Seq(Partition), partitions # <<>>
    PROVE  /\ Tail(partitions) \in Seq(Partition) /\ Len(Tail(partitions)) = Len(partitions) - 1
           /\ DOMAIN Tail(partitions) = 1..(Len(partitions) - 1)
           /\ Len(partitions) \in Nat /\ Len(partitions) >= 1 /\ DOMAIN partitions = 1..Len(partitions)
           /\ Head(partitions) = partitions[1] /\ partitions[1] \in Partition
           /\ \A i \in 1..(Len(partitions) - 1) : Tail(partitions)[i] = partitions[i + 1]
<1>1. /\ Tail(partitions) \in Seq(Partition) /\ Len(Tail(partitions)) = Len(partitions) - 1
      /\ \A i \in 1..Len(Tail(partitions)) : Tail(partitions)[i] = partitions[i + 1]
  BY HeadTailProperties
<1>2. Len(partitions) \in Nat /\ Len(partitions) >= 1 /\ DOMAIN partitions = 1..Len(partitions)
  OBVIOUS
<1>3. Head(partitions) = partitions[1] /\ partitions[1] \in Partition
  OBVIOUS
<1> QED
  BY <1>1, <1>2, <1>3

\* The first partition goes on.
LEMMA FirstGoesOn ==
    ASSUME partitions \in Seq(Partition), partitions # <<>>, NEW r \in Unread,
           partitions' = [partitions EXCEPT ![1].rest = r]
    PROVE  /\ partitions' \in Seq(Partition) /\ Len(partitions') = Len(partitions)
           /\ DOMAIN partitions' = DOMAIN partitions /\ partitions' # <<>>
           /\ partitions'[1].rest = r /\ partitions'[1].path = partitions[1].path
           /\ \A i \in DOMAIN partitions : i # 1 => partitions'[i] = partitions[i]
<1>1. partitions[1] \in Partition /\ 1 \in DOMAIN partitions
  BY TailIs
<1>2. [partitions[1] EXCEPT !.rest = r] \in Partition
  BY <1>1 DEF Partition
<1>3. partitions' \in Seq(Partition) /\ Len(partitions') = Len(partitions)
  BY <1>1, <1>2
<1>4. partitions'[1] = [partitions[1] EXCEPT !.rest = r]
  BY <1>1
<1>5. partitions'[1].rest = r /\ partitions'[1].path = partitions[1].path
  BY <1>1, <1>4 DEF Partition
<1>6. DOMAIN partitions' = DOMAIN partitions /\ partitions' # <<>>
  BY <1>1
<1>7. \A i \in DOMAIN partitions : i # 1 => partitions'[i] = partitions[i]
  OBVIOUS
<1> QED
  BY <1>3, <1>5, <1>6, <1>7

\* Every path gets a partition, none is opened.
LEMMA StreamPartitionsStep ==
    ASSUME FilesInv, StreamPartitions
    PROVE  /\ FilesInv'
           /\ received = <<>> => Reading'
<1>1. Expand \in Seq(Names) /\ Len(Expand) \in Nat
  BY ExpandIs
<1>2. /\ resolved' = Expand
      /\ partitions' = [i \in DOMAIN Expand |-> [path |-> Expand[i], rest |-> None]]
      /\ given' = given /\ disk' = disk /\ version' = version /\ received' = received
  BY DEF StreamPartitions
<1>3. partitions' \in [1..Len(Expand) -> Partition]
  BY <1>1, <1>2 DEF Partition
<1>4. partitions' \in Seq(Partition) /\ Len(partitions') = Len(Expand) /\ DOMAIN partitions' = 1..Len(Expand)
  BY <1>1, <1>3, Numbered
<1>5. \A i \in DOMAIN partitions' : partitions'[i].rest = None /\ partitions'[i].path = Expand[i]
  BY <1>1, <1>2
<1>6. FilesInv'
  BY <1>1, <1>2, <1>4, <1>5 DEF FilesInv, OneFileOpen
<1>7. ASSUME received = <<>> PROVE Reading'
  <2>1. ~Opened' /\ Left' = <<>>
    <3>1. partitions' # <<>> => partitions'[1].rest = None
      BY <1>4, <1>5
    <3> QED
      BY <3>1 DEF Opened, Left
  <2>2. FilesOf(<<>>, resolved') = <<>>
    BY DEF FilesOf
  <2>3. <<>> \o <<>> = <<>>
    OBVIOUS
  <2>4. FlattenSeq(FilesOf(<<>>, resolved')) = received' \o Left'
    BY <1>2, <1>7, <2>1, <2>2, <2>3, FlattenEmpty
  <2>5. \A i \in DOMAIN partitions' : partitions'[i].path = resolved'[Len(resolved') - Len(partitions') + i]
    BY <1>1, <1>2, <1>4, <1>5
  <2>6. ReadSoFar(<<>>)'
    BY <1>1, <1>2, <1>4, <2>1, <2>4, <2>5 DEF ReadSoFar
  <2>7. received' \in Seq(Batch)
    BY <1>2, <1>7
  <2> QED
    BY <2>6, <2>7 DEF Reading
<1> QED
  BY <1>6, <1>7

\* What is found is of the output in place.
LEMMA OpenFileStep ==
    ASSUME FilesInv, OpenFile
    PROVE  FilesInv'
<1> DEFINE p == partitions[1].path
<1>1. /\ partitions \in Seq(Partition) /\ partitions # <<>>
      /\ Head(partitions) = partitions[1] /\ p \in Names
  BY TailIs DEF OpenFile, Unopened, FilesInv, Partition
<1>2. disk[p] \in Unread
  BY <1>1, OnDisk DEF OpenFile, Readable
<1>3. partitions' = [partitions EXCEPT ![1].rest = disk[p]]
  BY <1>1 DEF OpenFile
<1>4. /\ partitions' \in Seq(Partition) /\ DOMAIN partitions' = DOMAIN partitions
      /\ \A i \in DOMAIN partitions : i # 1 => partitions'[i] = partitions[i]
  BY <1>1, <1>2, <1>3, FirstGoesOn
<1>5. given' = given /\ disk' = disk /\ version' = version /\ resolved' = resolved
  BY DEF OpenFile
<1> QED
  BY <1>4, <1>5 DEF FilesInv, OneFileOpen

\* What the versions read so far stand for.
LEMMA ReadSoFarIs ==
    ASSUME FilesInv, NEW vs, ReadSoFar(vs)
    PROVE  /\ vs \in Seq(1..version) /\ Len(vs) \in Nat
           /\ version \in Nat /\ version >= 1 /\ \A v \in 1..version : v \in DOMAIN Outputs
           /\ \A i \in 1..Len(vs) : vs[i] \in 1..version
           /\ FilesOf(vs, resolved) \in Seq(Seq(Batch)) /\ Len(FilesOf(vs, resolved)) = Len(vs)
           /\ resolved \in Seq(Names) /\ Len(resolved) \in Nat
<1>1. vs \in Seq(1..version) /\ Len(vs) \in Nat
  BY DEF ReadSoFar
<1>2. version \in DOMAIN Outputs /\ DOMAIN Outputs = 1..Len(Outputs) /\ Len(Outputs) \in Nat
  BY FilesAssumption DEF FilesAssumption, FilesInv
<1>3. version \in Nat /\ version >= 1 /\ \A v \in 1..version : v \in DOMAIN Outputs
  BY <1>2
<1>4. \A i \in 1..Len(vs) : vs[i] \in 1..version
  BY <1>1, SeqItems
<1>5. \A i \in 1..Len(vs) : FileOf(vs[i], resolved[i]) \in Seq(Batch)
  BY <1>3, <1>4, FileIs DEF ReadSoFar
<1>6. FilesOf(vs, resolved) \in [1..Len(vs) -> Seq(Batch)]
  BY <1>5 DEF FilesOf
<1>7. FilesOf(vs, resolved) \in Seq(Seq(Batch)) /\ Len(FilesOf(vs, resolved)) = Len(vs)
  BY <1>1, <1>6, Numbered
<1>8. resolved \in Seq(Names) /\ Len(resolved) \in Nat
  BY DEF FilesInv
<1> QED
  BY <1>1, <1>3, <1>4, <1>7, <1>8

LEMMA OpenFileReads ==
    ASSUME FilesInv, Reading, OpenFile
    PROVE  Reading'
<1> DEFINE p == partitions[1].path
           n == Len(resolved) - Len(partitions)
           file == FileOf(version, p)
<1>1. /\ partitions \in Seq(Partition) /\ partitions # <<>> /\ Len(partitions) \in Nat
      /\ Head(partitions) = partitions[1] /\ p \in Names /\ DOMAIN partitions = 1..Len(partitions)
      /\ Len(partitions) >= 1
  BY TailIs DEF OpenFile, Unopened, FilesInv, Partition
<1>2. disk[p] \in Unread /\ disk[p] = file /\ p \in DOMAIN Outputs[version]
  BY <1>1, OnDisk DEF OpenFile, Readable
<1>3. partitions' = [partitions EXCEPT ![1].rest = disk[p]]
  BY <1>1 DEF OpenFile
<1>4. /\ Len(partitions') = Len(partitions) /\ DOMAIN partitions' = DOMAIN partitions
      /\ partitions' # <<>> /\ partitions'[1].rest = file /\ partitions'[1].path = p
      /\ \A i \in DOMAIN partitions : i # 1 => partitions'[i] = partitions[i]
  BY <1>1, <1>2, <1>3, FirstGoesOn
<1>5. PICK vs : ReadSoFar(vs)
  BY DEF Reading
<1>6. /\ vs \in Seq(1..version) /\ Len(vs) \in Nat
      /\ version \in Nat /\ version >= 1 /\ version \in DOMAIN Outputs
      /\ \A i \in 1..Len(vs) : vs[i] \in 1..version
      /\ FilesOf(vs, resolved) \in Seq(Seq(Batch)) /\ Len(FilesOf(vs, resolved)) = Len(vs)
      /\ Len(resolved) \in Nat
  BY <1>5, ReadSoFarIs
<1>7. ~Opened /\ Left = <<>>
  BY <1>1 DEF OpenFile, Unopened, Opened, Left
<1>8. Opened' /\ Left' = file
  <2>1. file # None
    BY <1>2, UnreadIs
  <2> QED
    BY <1>4, <2>1 DEF Opened, Left
<1>9. Len(vs) = n
  <2>1. Len(vs) + Len(partitions) = Len(resolved) + 0
    BY <1>5, <1>7 DEF ReadSoFar
  <2> QED
    BY <1>1, <1>6, <2>1
<1>10. \A i \in DOMAIN partitions : partitions[i].path = resolved[n + i]
  BY <1>5 DEF ReadSoFar
<1>11. /\ \A i \in 1..n : resolved[i] \in DOMAIN Outputs[vs[i]]
       /\ \A i, j \in 1..n : i < j => vs[i] <= vs[j]
  BY <1>5, <1>9 DEF ReadSoFar
<1>12. FlattenSeq(FilesOf(vs, resolved)) = received /\ received \in Seq(Batch)
  <2>1. received \in Seq(Batch) /\ received \o <<>> = received
    BY DEF Reading
  <2> QED
    BY <1>5, <1>7, <2>1 DEF ReadSoFar
<1>13. PICK ws : ws = Append(vs, version)
  OBVIOUS
<1>14. /\ ws \in Seq(1..version) /\ Len(ws) = n + 1 /\ ws[n + 1] = version
       /\ \A i \in 1..n : ws[i] = vs[i] /\ ws[i] <= version
  <2> DEFINE V == 1..version
  <2>1. vs \in Seq(V) /\ version \in V
    BY <1>6
  <2> HIDE DEF V
  <2>2. /\ ws \in Seq(V) /\ Len(ws) = Len(vs) + 1 /\ ws[Len(vs) + 1] = version
        /\ \A i \in 1..Len(vs) : ws[i] = vs[i]
    BY <1>13, <2>1, AppendProperties
  <2>3. \A i \in 1..Len(vs) : vs[i] <= version
    BY <1>6
  <2> QED
    BY <1>9, <2>2, <2>3 DEF V
<1>15. p = resolved[n + 1]
  BY <1>1, <1>10
<1>16. n \in Nat
  BY <1>6, <1>9
<1>17. file \in Seq(Batch)
  BY <1>2, <1>6, FileIs
<1>18. Len(resolved) = n + Len(partitions)
  BY <1>1, <1>6
<1> HIDE DEF n, p
<1>19. FilesOf(ws, resolved) = Append(FilesOf(vs, resolved), file)
  <2> DEFINE fs == FilesOf(vs, resolved)
             gs == FilesOf(ws, resolved)
  <2>1. fs \in Seq(Seq(Batch)) /\ Len(fs) = n /\ \A i \in 1..n : fs[i] = FileOf(vs[i], resolved[i])
    BY <1>6, <1>9 DEF FilesOf
  <2>2. \A i \in 1..(n + 1) : gs[i] = IF i = n + 1 THEN file ELSE FileOf(vs[i], resolved[i])
    BY <1>14, <1>15, <1>16 DEF FilesOf
  <2>3. gs = [i \in 1..(n + 1) |-> gs[i]]
    BY <1>14 DEF FilesOf
  <2> HIDE DEF fs, gs, file
  <2>4. gs \in [1..(n + 1) -> Seq(Batch)]
    BY <1>16, <1>17, <2>1, <2>2, <2>3
  <2>5. gs \in Seq(Seq(Batch)) /\ Len(gs) = n + 1
    BY <1>16, <2>4, Numbered
  <2>6. Append(fs, file) \in Seq(Seq(Batch)) /\ Len(Append(fs, file)) = n + 1
    BY <1>17, <2>1
  <2>7. \A i \in 1..(n + 1) : gs[i] = Append(fs, file)[i]
    BY <1>16, <2>1, <2>2, <1>17
  <2>8. gs = Append(fs, file)
    BY <2>5, <2>6, <2>7, SeqEqual
  <2> QED
    BY <2>8 DEF fs, gs
<1>20. FlattenSeq(FilesOf(ws, resolved)) = received \o file
  BY <1>6, <1>12, <1>17, <1>19, FlattenAppend
<1>21. version' = version /\ resolved' = resolved /\ received' = received
  BY DEF OpenFile
<1>22. ReadSoFar(ws)'
  <2>1. Len(ws) + Len(partitions) = Len(resolved) + 1
    BY <1>1, <1>14, <1>16, <1>18
  <2>2. ASSUME NEW i \in 1..(n + 1) PROVE resolved[i] \in DOMAIN Outputs[ws[i]]
    <3>1. CASE i = n + 1
      BY <1>2, <1>14, <1>15, <3>1
    <3>2. CASE i # n + 1
      BY <1>11, <1>14, <1>16, <3>2
    <3> QED
      BY <3>1, <3>2
  <2>3. ASSUME NEW i \in 1..(n + 1), NEW j \in 1..(n + 1), i < j PROVE ws[i] <= ws[j]
    <3>1. i \in 1..n
      BY <1>16, <2>3
    <3>2. CASE j = n + 1
      BY <1>14, <3>1, <3>2
    <3>3. CASE j # n + 1
      <4>1. j \in 1..n /\ ws[i] = vs[i] /\ ws[j] = vs[j]
        BY <1>14, <1>16, <3>1, <3>3
      <4> QED
        BY <1>11, <2>3, <3>1, <4>1
    <3> QED
      BY <3>2, <3>3
  <2>4. \A i \in DOMAIN partitions : partitions'[i].path = partitions[i].path
    BY <1>4 DEF p
  <2> HIDE DEF file
  <2>5. partitions' # <<>> /\ DOMAIN partitions' = DOMAIN partitions /\ Len(partitions') = Len(partitions)
    BY <1>4
  <2>6. \A i \in DOMAIN partitions :
            partitions'[i].path = resolved[Len(resolved) - Len(partitions) + i]
    BY <1>10, <2>4 DEF n
  <2>7. \A i \in 1..Len(ws) : resolved[i] \in DOMAIN Outputs[ws[i]]
    BY <1>14, <2>2
  <2>8. \A i, j \in 1..Len(ws) : i < j => ws[i] <= ws[j]
    BY <1>14, <2>3
  <2> QED
    BY <1>8, <1>14, <1>20, <1>21, <2>1, <2>5, <2>6, <2>7, <2>8 DEF ReadSoFar
<1> QED
  BY <1>12, <1>21, <1>22 DEF Reading

\* A batch goes from the open file to the destination.
LEMMA ReadBatchStep ==
    ASSUME FilesInv, ReadBatch
    PROVE  /\ FilesInv'
           /\ \E b \in Batch : received' = Append(received, b)
           /\ Reading => Reading'
<1> DEFINE r == partitions[1].rest
<1>1. /\ partitions \in Seq(Partition) /\ partitions # <<>> /\ Len(partitions) \in Nat
      /\ Head(partitions) = partitions[1] /\ DOMAIN partitions = 1..Len(partitions)
      /\ Len(partitions) >= 1 /\ r \in {None} \cup Unread
  BY TailIs DEF ReadBatch, FilesInv, Partition
<1>2. r \in Unread /\ r # <<>> /\ r # None
  BY <1>1 DEF ReadBatch, Unopened
<1>3. r \in Seq(Batch) /\ Head(r) \in Batch /\ Tail(r) \in Unread /\ Tail(r) # None
  BY <1>2, UnreadIs
<1>4. /\ received' = Append(received, Head(r))
      /\ partitions' = [partitions EXCEPT ![1].rest = Tail(r)]
      /\ given' = given /\ disk' = disk /\ version' = version /\ resolved' = resolved
  BY <1>1 DEF ReadBatch
<1>5. /\ partitions' \in Seq(Partition) /\ DOMAIN partitions' = DOMAIN partitions
      /\ Len(partitions') = Len(partitions) /\ partitions' # <<>>
      /\ partitions'[1].rest = Tail(r) /\ partitions'[1].path = partitions[1].path
      /\ \A i \in DOMAIN partitions : i # 1 => partitions'[i] = partitions[i]
  BY <1>1, <1>3, <1>4, FirstGoesOn
<1>6. FilesInv'
  BY <1>4, <1>5 DEF FilesInv, OneFileOpen
<1>7. ASSUME Reading PROVE Reading'
  <2>1. PICK vs : ReadSoFar(vs)
    BY <1>7 DEF Reading
  <2>2. Opened /\ Left = r /\ Opened' /\ Left' = Tail(r)
    BY <1>1, <1>2, <1>3, <1>5 DEF Opened, Left
  <2>3. received \in Seq(Batch) /\ received' \in Seq(Batch)
    BY <1>3, <1>4, <1>7 DEF Reading
  <2>4. received' \o Tail(r) = received \o r
    <3> DEFINE b == Head(r)
               rest == Tail(r)
    <3>1. rest \in Seq(Batch) /\ <<b>> \in Seq(Batch)
      BY <1>3, UnreadIs
    <3>2. received' = received \o <<b>>
      BY <1>3, <1>4, <2>3, AppendIsConcat
    <3>3. r = <<b>> \o rest
      BY <1>2, <1>3
    <3> HIDE DEF b, rest
    <3>4. (received \o <<b>>) \o rest = received \o (<<b>> \o rest)
      BY <2>3, <3>1, ConcatAssociative
    <3> QED
      BY <3>2, <3>3, <3>4 DEF rest
  <2>5. \A i \in DOMAIN partitions : partitions'[i].path = partitions[i].path
    BY <1>5
  <2>6. ReadSoFar(vs)'
    <3> HIDE DEF r
    <3> QED
      BY <1>4, <1>5, <2>1, <2>2, <2>4, <2>5 DEF ReadSoFar
  <2> QED
    BY <2>3, <2>6 DEF Reading
<1> QED
  BY <1>3, <1>4, <1>6, <1>7

\* The file is read through, and the next is not opened yet.
LEMMA EndFileStep ==
    ASSUME FilesInv, EndFile
    PROVE  FilesInv' /\ received' = received /\ (Reading => Reading')
<1>1. /\ partitions \in Seq(Partition) /\ partitions # <<>>
      /\ partitions' = Tail(partitions)
      /\ given' = given /\ disk' = disk /\ version' = version /\ resolved' = resolved
      /\ received' = received
  BY DEF EndFile, FilesInv
<1>2. /\ partitions' \in Seq(Partition) /\ Len(partitions') = Len(partitions) - 1
      /\ DOMAIN partitions' = 1..(Len(partitions) - 1)
      /\ Len(partitions) \in Nat /\ Len(partitions) >= 1 /\ DOMAIN partitions = 1..Len(partitions)
      /\ Head(partitions) = partitions[1]
      /\ \A i \in 1..(Len(partitions) - 1) : partitions'[i] = partitions[i + 1]
  BY <1>1, TailIs
<1>3. ASSUME NEW i \in DOMAIN partitions' PROVE partitions'[i].rest = None
  <2>1. i + 1 \in DOMAIN partitions /\ i + 1 # 1 /\ partitions'[i] = partitions[i + 1]
    BY <1>2
  <2> QED
    BY <2>1 DEF FilesInv, OneFileOpen
<1>4. FilesInv'
  BY <1>1, <1>2, <1>3 DEF FilesInv, OneFileOpen
<1>5. ASSUME Reading PROVE Reading'
  <2>1. PICK vs : ReadSoFar(vs)
    BY <1>5 DEF Reading
  <2>2. partitions[1].rest = <<>> /\ <<>> # None
    BY <1>2, UnreadIs DEF EndFile
  <2>3. Opened /\ Left = <<>>
    BY <1>1, <2>2 DEF Opened, Left
  <2>4. ~Opened' /\ Left' = <<>>
    <3>1. partitions' # <<>> => partitions'[1].rest = None
      BY <1>2, <1>3
    <3> QED
      BY <3>1 DEF Opened, Left
  <2>5. Len(vs) \in Nat /\ Len(resolved) \in Nat /\ Len(vs) + Len(partitions) = Len(resolved) + 1
    BY <2>1, <2>3, ReadSoFarIs DEF ReadSoFar
  <2>6. Len(vs) + Len(partitions') = Len(resolved) + 0
    BY <1>2, <2>5
  <2>7. ASSUME NEW i \in DOMAIN partitions'
        PROVE  partitions'[i].path = resolved[Len(resolved) - Len(partitions') + i]
    <3>1. i + 1 \in DOMAIN partitions /\ partitions'[i] = partitions[i + 1]
      BY <1>2
    <3>2. partitions[i + 1].path = resolved[Len(resolved) - Len(partitions) + (i + 1)]
      BY <2>1, <3>1 DEF ReadSoFar
    <3>3. Len(resolved) - Len(partitions) + (i + 1) = Len(resolved) - Len(partitions') + i
      BY <1>2, <2>5
    <3> QED
      BY <3>1, <3>2, <3>3
  <2>8. ReadSoFar(vs)'
    BY <1>1, <2>1, <2>3, <2>4, <2>6, <2>7 DEF ReadSoFar
  <2> QED
    BY <1>1, <1>5, <2>8 DEF Reading
<1> QED
  BY <1>1, <1>4, <1>5

\* Replacing the files changes nothing of what has been read.
LEMMA ReplaceStep ==
    ASSUME FilesInv, PublishOutput \/ \E p \in Names : RemoveEntry(p)
    PROVE  FilesInv' /\ received' = received /\ partitions' = partitions /\ (Reading => Reading')
<1>1. /\ given' = given /\ resolved' = resolved /\ partitions' = partitions
      /\ received' = received
  BY DEF PublishOutput, RemoveEntry
<1>2. /\ version \in DOMAIN Outputs /\ DOMAIN Outputs = 1..Len(Outputs) /\ Len(Outputs) \in Nat
  BY FilesAssumption DEF FilesAssumption, FilesInv
<1>3. version' \in DOMAIN Outputs /\ version \in Nat /\ version' \in Nat /\ version <= version'
  BY <1>2 DEF PublishOutput, RemoveEntry
<1>4. /\ disk' \in [Names -> {None, Torn, Dir} \cup WholeFiles]
      /\ \A p \in Names : disk'[p] \in {None, Torn, Dir, Output(version')[p]}
  <2>1. CASE PublishOutput
    <3>1. disk' = Output(version')
      BY <2>1 DEF PublishOutput
    <3>2. \A p \in Names : Output(version')[p] \in {None} \cup WholeFiles
      BY <1>3, FileIs DEF Output
    <3>3. Output(version') \in [Names -> {None} \cup WholeFiles]
      BY <3>2 DEF Output
    <3> QED
      BY <3>1, <3>3
  <2>2. ASSUME NEW p \in Names, RemoveEntry(p)
        PROVE  /\ disk' \in [Names -> {None, Torn, Dir} \cup WholeFiles]
               /\ \A q \in Names : disk'[q] \in {None, Torn, Dir, Output(version')[q]}
    BY <2>2 DEF RemoveEntry, FilesInv
  <2> QED
    BY <2>1, <2>2
<1>5. FilesInv'
  BY <1>1, <1>3, <1>4 DEF FilesInv, OneFileOpen
<1>6. ASSUME Reading PROVE Reading'
  <2>1. PICK vs : ReadSoFar(vs)
    BY <1>6 DEF Reading
  <2>2. vs \in Seq(1..version')
    <3>1. vs \in Seq(1..version) /\ 1..version \subseteq 1..version'
      BY <1>3, <2>1 DEF ReadSoFar
    <3> QED
      BY <3>1, SeqWider
  <2>3. Opened' = Opened /\ Left' = Left
    BY <1>1 DEF Opened, Left
  <2>4. ReadSoFar(vs)'
    BY <1>1, <2>1, <2>2, <2>3 DEF ReadSoFar
  <2> QED
    BY <1>1, <1>6, <2>4 DEF Reading
<1> QED
  BY <1>1, <1>5, <1>6

-----------------------------------------------------------------------------
(* What a run that is through has read.                                    *)

LEMMA WholeWhenRead ==
    ASSUME FilesInv, Reading, partitions = <<>>
    PROVE  ReadWhole(resolved, received)
<1>1. PICK vs : ReadSoFar(vs)
  BY DEF Reading
<1>2. ~Opened /\ Left = <<>>
  BY DEF Opened, Left
<1>3. /\ vs \in Seq(1..version) /\ Len(vs) \in Nat /\ Len(resolved) \in Nat /\ resolved \in Seq(Names)
  BY <1>1, ReadSoFarIs
<1>4. Len(vs) = Len(resolved)
  <2>1. Len(vs) + Len(partitions) = Len(resolved) + 0 /\ Len(partitions) = 0
    BY <1>1, <1>2 DEF ReadSoFar
  <2> QED
    BY <1>3, <2>1
<1>5. DOMAIN resolved = 1..Len(vs) /\ vs \in [DOMAIN resolved -> 1..version]
  <2>1. DOMAIN resolved = 1..Len(vs)
    BY <1>3, <1>4
  <2>2. vs \in [1..Len(vs) -> 1..version]
    BY <1>3, SeqItems
  <2> QED
    BY <2>1, <2>2
<1>6. received = FlattenSeq([i \in DOMAIN resolved |-> FileOf(vs[i], resolved[i])])
  <2>1. received \o <<>> = received
    BY DEF Reading
  <2> QED
    BY <1>1, <1>2, <1>5, <2>1 DEF ReadSoFar, FilesOf
<1> QED
  BY <1>1, <1>5, <1>6 DEF ReadWhole, ReadSoFar

\* Versions that come later take nothing away from that.
LEMMA WholeStays ==
    ASSUME NEW paths, NEW batches, ReadWhole(paths, batches),
           version \in Nat, version' \in Nat, version <= version'
    PROVE  ReadWhole(paths, batches)'
<1>1. PICK vs \in [DOMAIN paths -> 1..version] :
         /\ \A i \in DOMAIN paths : paths[i] \in DOMAIN Outputs[vs[i]]
         /\ \A i, j \in DOMAIN paths : i < j => vs[i] <= vs[j]
         /\ batches = FlattenSeq([i \in DOMAIN paths |-> FileOf(vs[i], paths[i])])
  BY DEF ReadWhole
<1>2. vs \in [DOMAIN paths -> 1..version']
  <2>1. 1..version \subseteq 1..version'
    OBVIOUS
  <2> QED
    BY <2>1
<1> QED
  BY <1>1, <1>2 DEF ReadWhole
=============================================================================
