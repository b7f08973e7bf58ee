-------------------------- MODULE PySessionRowsProofs --------------------------
(***************************************************************************)
(* What becomes of the rows: that the calls in progress stay in order,     *)
(* that no row is lost or taken twice (RowsOnce, NoRowLost), that the      *)
(* first row settles a transfer's columns (FirstRowSetsColumns), and that  *)
(* a run reads whole files and fills tables with rows of one schema        *)
(* (FilesReadWhole, TablesHaveOneSchema), for any number of transfers,     *)
(* generators, lists, rows, paths and outputs, any size of a chunk and any *)
(* depth of nested calls.                                                  *)
(***************************************************************************)
EXTENDS PySessionProofs, FilesSourceProofs

-----------------------------------------------------------------------------
(* The invariant.                                                          *)

Columns == {Row(r).keys : r \in RowIds}
RowBatches == [rows : Seq(RowIds), columns : Columns]

Kinds ==
    /\ table \in {w.table : w \in Worlds}
    /\ cursor \in [Generators \cup Transfers -> Nat]
    /\ \A g \in Generators : cursor[g] <= Len(table[g]) + 1
    /\ chunk \in [Transfers -> Seq(RowIds)]
    /\ first \in [Transfers -> RowIds \cup {None}]
    /\ outcome \in [Transfers -> Exceptions \cup {None, "made", "ok"}]
    /\ published \in [Transfers -> Seq(RowBatches \cup Batch)]
    /\ received \in Seq(RowBatches \cup Batch)
    /\ held \subseteq Natives

Sources == Iterables \cup {FileObject}

\* What a call finds, where its operation and its source let it be: a chunk
\* that is being filled has room, one that is there holds rows or is the end.
Sound(op, t, step) ==
    /\ source[t] \in Sources
    /\ step = "body" => source[t] \in Generators
    /\ step = "next" => source[t] \in Iterables
    /\ step \in {"next", "body"} /\ source[t] \notin Frames => Len(chunk[t]) < ChunkRows
    /\ step = "coerced" /\ source[t] \in Generators \cup Lists => chunk[t] # <<>> \/ Ended(t)
    /\ op = "new" => outcome[t] = None /\ step \in {"next", "body", "coerced"}
    /\ op = "run" =>
          /\ outcome[t] = "made" /\ t \in ran
          /\ source[t] = FileObject <=> step \in {"resolve", "files"}

\* A call belongs to one transfer and waits in its generator's body unless it
\* is the last; one run at most is in progress.
Stack ==
    /\ \A i \in DOMAIN calls :
          /\ Sound(calls[i].op, calls[i].t, calls[i].step)
          /\ i < Len(calls) => calls[i].step = "body"
    /\ \A i, j \in DOMAIN calls : calls[i].t = calls[j].t => i = j
    /\ \A i, j \in DOMAIN calls : calls[i].op = "run" /\ calls[j].op = "run" => i = j

\* How far a transfer has come.
Lives ==
    \A t \in Transfers :
        /\ source[t] = None => outcome[t] = None /\ chunk[t] = <<>>
        /\ t \in waiting => outcome[t] = "made" /\ source[t] \in Sources
        /\ outcome[t] = "ok" => source[t] \in Sources
        /\ outcome[t] # "ok" => published[t] = <<>>
        /\ outcome[t] \notin {None, "made"} => chunk[t] = <<>>

\* What the one run there is was given.
Given ==
    /\ Running = {} => received = <<>> /\ partitions = <<>>
    /\ \A t \in Running : source[t] \in Iterables => received \in Seq(RowBatches) /\ partitions = <<>>
    /\ \A i \in DOMAIN calls : calls[i].step = "resolve" => received = <<>> /\ partitions = <<>>
    /\ \A t \in Transfers : source[t] \in Iterables => published[t] \in Seq(RowBatches)

Chunks == \A t \in Transfers : source[t] \notin Frames => Len(chunk[t]) <= ChunkRows

\* The batches of a transfer, published or still with its run.
Batches == [t \in Transfers |-> IF t \in Running THEN received ELSE published[t]]
Mine == [t \in Transfers |-> RowsIn(Batches[t]) \o chunk[t]]

\* A generator's rows.
OfGenerators ==
    \A g \in Generators : \A t \in Transfers : source[t] = g =>
        /\ \A i \in DOMAIN Mine[t] :
              Mine[t][i][1] = g /\ Mine[t][i][2] \in 1..cursor[g] /\ Mine[t][i][2] <= Len(table[g])
        /\ \A i, j \in DOMAIN Mine[t] : i < j => Mine[t][i][2] < Mine[t][j][2]
        /\ \A u \in Transfers : source[u] = g /\ t # u => ToSet(Mine[t]) \cap ToSet(Mine[u]) = {}
        /\ outcome[t] = "ok" => cursor[g] > Len(table[g])

NoneLost ==
    \A g \in Generators :
        (\A t \in Transfers : source[t] = g => outcome[t] \in {None, "made", "ok"}) =>
            \A n \in 1..Len(table[g]) :
                n <= cursor[g] =>
                    \E t \in Transfers : source[t] = g /\ <<g, n>> \in ToSet(Mine[t])

\* The rows of a list and of a DataFrame.
OfOthers ==
    \A t \in Transfers :
        /\ source[t] \in Lists \cup Frames /\ outcome[t] \in {None, "made", "ok"} =>
              /\ \A i \in DOMAIN Mine[t] : Mine[t][i] = <<source[t], i>>
              /\ Len(Mine[t]) <= Len(table[source[t]])
              /\ Len(Mine[t]) # cursor[t] =>
                    cursor[t] > Len(table[source[t]]) /\ Len(Mine[t]) = Len(table[source[t]])
              /\ outcome[t] = "ok" => cursor[t] >= Len(table[source[t]])
        /\ source[t] \in Frames => cursor[t] >= Len(table[source[t]])

\* What the first row has settled.
Schema ==
    \A t \in Transfers :
        source[t] \in Iterables /\ (t \in waiting \cup Running \/ outcome[t] = "ok") =>
            /\ \A i \in DOMAIN Batches[t] : Batches[t][i].columns = Row(first[t]).keys
            /\ source[t] \notin Frames =>
                  /\ first[t] \in RowIds /\ Mine[t] # <<>> /\ Head(Mine[t]) = first[t]
                  /\ AllConvert(first[t], RowsIn(Batches[t]))
            /\ source[t] \in Frames /\ chunk[t] # <<>> => first[t] \in RowIds

-----------------------------------------------------------------------------
(* The stack of calls.                                                     *)

\* A call on the stack is a call.
LEMMA CallsAre ==
    ASSUME calls \in Seq(Call)
    PROVE  /\ Len(calls) \in Nat /\ DOMAIN calls = 1..Len(calls)
           /\ calls # <<>> <=> Len(calls) # 0
           /\ \A i \in DOMAIN calls :
                 /\ calls[i] \in Call /\ calls[i].t \in Transfers
                 /\ calls[i].op \in {"new", "run"} /\ calls[i].step \in Steps
<1>1. \A i \in DOMAIN calls : calls[i] \in Call
  OBVIOUS
<1>2. \A c \in Call : c.t \in Transfers /\ c.op \in {"new", "run"} /\ c.step \in Steps
  BY DEF Call
<1> QED
  BY <1>1, <1>2

\* A call goes on to another step of its own.
LEMMA GotoCalls ==
    ASSUME calls \in Seq(Call), calls # <<>>, NEW s \in Steps, Goto(s)
    PROVE  /\ calls' \in Seq(Call) /\ Len(calls') = Len(calls) /\ DOMAIN calls' = DOMAIN calls
           /\ calls'[Len(calls)].step = s
           /\ \A i \in DOMAIN calls :
                 /\ calls'[i].op = calls[i].op /\ calls'[i].t = calls[i].t
                 /\ i # Len(calls) => calls'[i].step = calls[i].step
<1>1. Len(calls) \in DOMAIN calls /\ calls[Len(calls)] \in Call
  OBVIOUS
<1>2. [calls[Len(calls)] EXCEPT !.step = s] \in Call
  BY <1>1 DEF Call
<1>3. calls' = [calls EXCEPT ![Len(calls)].step = s]
  BY DEF Goto
<1>4. calls' \in Seq(Call) /\ Len(calls') = Len(calls) /\ DOMAIN calls' = DOMAIN calls
  BY <1>1, <1>2, <1>3
<1>5. ASSUME NEW i \in DOMAIN calls
      PROVE  /\ calls'[i].op = calls[i].op /\ calls'[i].t = calls[i].t
             /\ calls'[i].step = IF i = Len(calls) THEN s ELSE calls[i].step
  <2>1. calls[i] \in Call
    OBVIOUS
  <2>2. calls'[i] = IF i = Len(calls) THEN [calls[i] EXCEPT !.step = s] ELSE calls[i]
    BY <1>1, <1>3
  <2> QED
    BY <2>1, <2>2 DEF Call
<1> QED
  BY <1>1, <1>4, <1>5

\* Pausing is going on to the body.
LEMMA PausingIsGoto ==
    ASSUME calls # <<>>, calls' = Pausing
    PROVE  Goto("body") /\ "body" \in Steps
BY DEF Pausing, Goto, Steps

\* Which transfers run.
LEMMA RunningIs ==
    /\ \A t : t \in Running <=> \E i \in DOMAIN calls : calls[i].op = "run" /\ calls[i].t = t
    /\ \A i \in DOMAIN calls : calls[i].op = "run" => calls[i].t \in Running
BY DEF Running

\* While calls are left on the stack and are the same calls, the same transfers run.
LEMMA RunningKept ==
    ASSUME calls \in Seq(Call), DOMAIN calls' = DOMAIN calls,
           \A i \in DOMAIN calls : calls'[i].op = calls[i].op /\ calls'[i].t = calls[i].t
    PROVE  Running' = Running
BY DEF Running

\* The last call returns.
LEMMA RunningPopped ==
    ASSUME calls \in Seq(Call), calls # <<>>, calls' = Front(calls), Stack
    PROVE  /\ Running' = Running \ {Top.t}
           /\ Top = calls[Len(calls)] /\ Len(calls) \in DOMAIN calls
           /\ Top.op = "run" <=> Top.t \in Running
<1>1. /\ DOMAIN calls' = DOMAIN calls \ {Len(calls)}
      /\ \A i \in DOMAIN calls' : calls'[i] = calls[i]
  BY FrontCalls
<1>2. Top = calls[Len(calls)] /\ Len(calls) \in DOMAIN calls
  BY CallsAre DEF Top, Last
<1>3. \A i \in DOMAIN calls' : calls[i].t # Top.t
  BY <1>1, <1>2 DEF Stack
<1>4. Running' = {calls'[i].t : i \in {j \in DOMAIN calls' : calls'[j].op = "run"}}
  BY DEF Running
<1>5. \A t : t \in Running' <=> \E i \in DOMAIN calls' : calls'[i].op = "run" /\ calls'[i].t = t
  BY <1>4
<1>6. Top.op = "run" <=> Top.t \in Running
  BY <1>2, RunningIs DEF Stack
<1>7. \A t : t \in Running' <=> t \in Running /\ t # Top.t
  BY <1>1, <1>2, <1>3, <1>5, RunningIs
<1> QED
  BY <1>2, <1>6, <1>7

\* What a step leaves to every transfer but u.
Others(u) ==
    \A t \in Transfers \ {u} :
        /\ source'[t] = source[t] /\ outcome'[t] = outcome[t] /\ chunk'[t] = chunk[t]
        /\ t \in ran => t \in ran'
        /\ Ended(t) => Ended(t)'

\* Calls that are left where they are, but for how far the last of them is.
LEMMA StackKept ==
    ASSUME Stack, calls \in Seq(Call), calls' \in Seq(Call), Len(calls') <= Len(calls),
           NEW u, Others(u),
           \A i \in DOMAIN calls' :
              /\ i \in DOMAIN calls
              /\ calls'[i].op = calls[i].op /\ calls'[i].t = calls[i].t
              /\ i # Len(calls) => calls'[i].step = calls[i].step /\ calls[i].t # u
              /\ i = Len(calls) => Sound(calls[i].op, calls[i].t, calls[i].step)'
    PROVE  Stack'
<1>1. Len(calls) \in Nat /\ Len(calls') \in Nat /\ DOMAIN calls = 1..Len(calls) /\ DOMAIN calls' = 1..Len(calls')
  OBVIOUS
<1>2. \A i \in DOMAIN calls' : i < Len(calls') => i < Len(calls) /\ i # Len(calls)
  BY <1>1
<1>3. ASSUME NEW i \in DOMAIN calls'
      PROVE  Sound(calls[i].op, calls[i].t, calls[i].step)'
  <2>1. CASE i # Len(calls)
    <3>1. i \in DOMAIN calls /\ calls[i].t \in Transfers \ {u}
      BY <2>1, CallsAre
    <3>2. Sound(calls[i].op, calls[i].t, calls[i].step)
      BY <3>1 DEF Stack
    <3> QED
      BY <2>1, <3>1, <3>2 DEF Sound, Others
  <2> QED
    BY <2>1
<1>4. \A i, j \in DOMAIN calls' : calls'[i].t = calls'[j].t => i = j
  BY DEF Stack
<1>5. \A i, j \in DOMAIN calls' : calls'[i].op = "run" /\ calls'[j].op = "run" => i = j
  BY DEF Stack
<1>6. \A i \in DOMAIN calls' : i < Len(calls') => calls'[i].step = "body"
  BY <1>2 DEF Stack
<1> QED
  BY <1>3, <1>4, <1>5, <1>6 DEF Stack

LEMMA TopIs ==
    ASSUME calls \in Seq(Call), calls # <<>>
    PROVE  /\ Len(calls) \in DOMAIN calls /\ Top = calls[Len(calls)]
           /\ Top.t \in Transfers /\ Top.op \in {"new", "run"} /\ Top.step \in Steps
           /\ Stack => Sound(Top.op, Top.t, Top.step)
<1>1. Len(calls) \in DOMAIN calls /\ Top = calls[Len(calls)]
  BY CallsAre DEF Top, Last
<1> QED
  BY <1>1, CallsAre DEF Stack

\* The last call goes on.
LEMMA StackGoto ==
    ASSUME Stack, calls \in Seq(Call), calls # <<>>, NEW s \in Steps, Goto(s), Others(Top.t),
           NEW op, op = Top.op, NEW t, t = Top.t, Sound(op, t, s)'
    PROVE  Stack' /\ Running' = Running
<1>1. /\ calls' \in Seq(Call) /\ Len(calls') = Len(calls) /\ DOMAIN calls' = DOMAIN calls
      /\ calls'[Len(calls)].step = s
      /\ \A i \in DOMAIN calls :
            /\ calls'[i].op = calls[i].op /\ calls'[i].t = calls[i].t
            /\ i # Len(calls) => calls'[i].step = calls[i].step
  BY GotoCalls
<1>2. Len(calls) \in DOMAIN calls /\ Top = calls[Len(calls)] /\ Len(calls) \in Nat
  BY TopIs
<1>3. \A i \in DOMAIN calls : i # Len(calls) => calls[i].t # Top.t
  BY <1>2 DEF Stack
<1>4. \A i \in DOMAIN calls : i = Len(calls) => Sound(calls[i].op, calls[i].t, calls[i].step)'
  BY <1>1, <1>2 DEF Sound
<1>5. Stack'
  BY <1>1, <1>2, <1>3, <1>4, StackKept
<1> QED
  BY <1>1, <1>5, RunningKept

\* The last call returns.
LEMMA StackPops ==
    ASSUME Stack, calls \in Seq(Call), calls # <<>>, calls' = Front(calls), Others(Top.t)
    PROVE  Stack' /\ Running' = Running \ {Top.t}
<1>1. /\ calls' \in Seq(Call) /\ Len(calls') = Len(calls) - 1
      /\ DOMAIN calls' = DOMAIN calls \ {Len(calls)}
      /\ \A i \in DOMAIN calls' : calls'[i] = calls[i]
  BY FrontCalls
<1>2. Len(calls) \in DOMAIN calls /\ Top = calls[Len(calls)] /\ Len(calls) \in Nat
  BY TopIs
<1>3. \A i \in DOMAIN calls' : calls[i].t # Top.t
  BY <1>1, <1>2 DEF Stack
<1>4. Stack'
  BY <1>1, <1>2, <1>3, StackKept
<1> QED
  BY <1>4, RunningPopped

\* Something is called from the body of the generator that the last call asks,
\* and returns at once.
LEMMA StackPauses ==
    ASSUME Stack, calls \in Seq(Call), MayCall, calls' = Pausing,
           NEW u, Others(u), \A i \in DOMAIN calls : calls[i].t # u
    PROVE  Stack' /\ Running' = Running
<1>1. CASE calls = <<>>
  <2>1. calls' = calls
    BY <1>1 DEF Pausing
  <2> QED
    BY <1>1, <2>1, RunningKept DEF Stack
<1>2. CASE calls # <<>>
  <2>1. /\ calls' \in Seq(Call) /\ Len(calls') = Len(calls) /\ DOMAIN calls' = DOMAIN calls
        /\ calls'[Len(calls)].step = "body"
        /\ \A i \in DOMAIN calls :
              /\ calls'[i].op = calls[i].op /\ calls'[i].t = calls[i].t
              /\ i # Len(calls) => calls'[i].step = calls[i].step
    BY <1>2, PausingIsGoto, GotoCalls
  <2>2. /\ Len(calls) \in DOMAIN calls /\ Top = calls[Len(calls)] /\ Len(calls) \in Nat
        /\ Top.t \in Transfers \ {u}
    BY <1>2, TopIs
  <2>3. source[Top.t] \in Generators /\ Top.step \in {"next", "body"}
    BY <1>2 DEF MayCall, InBody, Asking
  <2>4. Sound(Top.op, Top.t, Top.step)
    BY <2>2 DEF Stack
  <2>5. \A i \in DOMAIN calls : i = Len(calls) => Sound(calls[i].op, calls[i].t, calls[i].step)'
    <3>1. Top.op = "run" => source[Top.t] # FileObject
      BY <2>3, SessionAssumption DEF SessionAssumption, Iterables
    <3> QED
      BY <2>1, <2>2, <2>3, <2>4, <3>1 DEF Sound, Others
  <2>6. Stack'
    BY <2>1, <2>2, <2>5, StackKept
  <2> QED
    BY <2>1, <2>6, RunningKept
<1> QED
  BY <1>1, <1>2

\* A call is begun.
LEMMA StackEnters ==
    ASSUME Stack, calls \in Seq(Call), MayCall, NEW op \in {"new", "run"}, NEW t \in Transfers,
           NEW s \in Steps, Enter(op, t, s), Others(t), \A i \in DOMAIN calls : calls[i].t # t,
           Sound(op, t, s)', op = "run" => Running = {}
    PROVE  Stack' /\ Running' = IF op = "run" THEN {t} ELSE Running
<1> DEFINE n == Len(calls)
           top == [op |-> op, t |-> t, step |-> s]
<1>1. /\ Pausing \in Seq(Call) /\ Len(Pausing) = n /\ n \in Nat
      /\ \A i \in 1..n : Pausing[i].op = calls[i].op /\ Pausing[i].t = calls[i].t
  BY PausingKeeps
<1>2. calls' = Append(Pausing, top) /\ top \in Call
  BY DEF Enter, Call
<1>3. /\ calls' \in Seq(Call) /\ Len(calls') = n + 1 /\ DOMAIN calls' = 1..(n + 1)
      /\ calls'[n + 1] = top
      /\ \A i \in 1..n : calls'[i] = Pausing[i] /\ calls'[i].op = calls[i].op /\ calls'[i].t = calls[i].t
  BY <1>1, <1>2, AppendProperties
<1>4. \A i \in 1..n : calls'[i].step = "body"
  <2>1. CASE calls = <<>>
    BY <2>1
  <2>2. CASE calls # <<>>
    <3>1. Pausing = [calls EXCEPT ![n].step = "body"]
      BY <2>2 DEF Pausing
    <3>2. \A i \in 1..n : i < n => calls[i].step = "body"
      BY DEF Stack
    <3>3. \A i \in 1..n : calls[i] \in Call
      OBVIOUS
    <3>4. ASSUME NEW i \in 1..n PROVE Pausing[i].step = "body"
      <4>1. Pausing[i] = IF i = n THEN [calls[i] EXCEPT !.step = "body"] ELSE calls[i]
        BY <3>1
      <4> QED
        BY <1>1, <3>2, <3>3, <4>1 DEF Call
    <3> QED
      BY <1>3, <3>4
  <2> QED
    BY <2>1, <2>2
<1>5. ASSUME NEW i \in 1..n
      PROVE  Sound(calls[i].op, calls[i].t, calls[i].step)'
  <2>1. calls[i].t \in Transfers \ {t} /\ Sound(calls[i].op, calls[i].t, calls[i].step)
    BY CallsAre DEF Stack
  <2>2. source[calls[i].t] \in Generators /\ (calls[i].step \in {"next", "body"})
    <3>1. CASE i < n
      BY <2>1, <3>1 DEF Stack, Sound
    <3>2. CASE i = n
      <4>1. calls # <<>> /\ Top = calls[i]
        BY <3>2, <1>1, TopIs
      <4> QED
        BY <4>1 DEF MayCall, InBody, Asking
    <3> QED
      BY <1>1, <3>1, <3>2
  <2>3. source[calls[i].t] # FileObject
    BY <2>2, SessionAssumption DEF SessionAssumption, Iterables
  <2> QED
    BY <1>3, <1>4, <2>1, <2>2, <2>3 DEF Sound, Others
<1>6. \A i \in 1..(n + 1) : i \in 1..n \/ i = n + 1
  BY <1>1
<1>7. ASSUME NEW i, i = n + 1 PROVE Sound(calls[i].op, calls[i].t, calls[i].step)'
  BY <1>3, <1>7 DEF Sound
<1>8. DOMAIN calls = 1..n
  BY CallsAre
<1>9. Stack'
  <2>1. \A i \in DOMAIN calls' : Sound(calls[i].op, calls[i].t, calls[i].step)'
    BY <1>3, <1>5, <1>6, <1>7
  <2>2. \A i \in DOMAIN calls' : i < Len(calls') => calls'[i].step = "body"
    BY <1>1, <1>3, <1>4, <1>6
  <2>3. \A i, j \in DOMAIN calls' : calls'[i].t = calls'[j].t => i = j
    BY <1>3, <1>6, <1>8 DEF Stack
  <2>4. \A i, j \in DOMAIN calls' : calls'[i].op = "run" /\ calls'[j].op = "run" => i = j
    BY <1>3, <1>6, <1>8, RunningIs DEF Stack
  <2> QED
    BY <2>1, <2>2, <2>3, <2>4 DEF Stack
<1>10. Running' = IF op = "run" THEN {t} ELSE Running
  <2>1. Running' = {calls'[i].t : i \in {j \in DOMAIN calls' : calls'[j].op = "run"}}
    BY DEF Running
  <2>2. \A u : u \in Running' <=> \E i \in 1..(n + 1) : calls'[i].op = "run" /\ calls'[i].t = u
    BY <1>3, <2>1
  <2>3. \A u : u \in Running' <=> u \in Running \/ (op = "run" /\ u = t)
    BY <1>3, <1>6, <1>8, <2>2, RunningIs
  <2>4. CASE op = "run"
    BY <2>3, <2>4
  <2>5. CASE op # "run"
    BY <2>3, <2>5
  <2> QED
    BY <2>4, <2>5
<1> QED
  BY <1>9, <1>10

-----------------------------------------------------------------------------
(* The rows of a transfer.                                                 *)

LEMMA RowsInAre ==
    ASSUME NEW S, NEW bs, Len(bs) \in Nat, DOMAIN bs = 1..Len(bs),
           \A i \in DOMAIN bs : bs[i].rows \in Seq(S)
    PROVE  /\ [i \in DOMAIN bs |-> bs[i].rows] \in Seq(Seq(S))
           /\ RowsIn(bs) \in Seq(S)
<1> DEFINE rows == [i \in DOMAIN bs |-> bs[i].rows]
           n == Len(bs)
<1>1. rows \in [1..n -> Seq(S)]
  OBVIOUS
<1>2. rows \in Seq(Seq(S))
  BY <1>1, Numbered
<1> QED
  BY <1>2, FlattenType DEF RowsIn

LEMMA RowsInNone == RowsIn(<<>>) = <<>>
<1>1. [i \in DOMAIN <<>> |-> <<>>[i].rows] = <<>>
  OBVIOUS
<1> QED
  BY <1>1, FlattenEmpty DEF RowsIn

LEMMA RowsInAppend ==
    ASSUME NEW S, NEW B, \A b \in B : b.rows \in Seq(S), NEW bs \in Seq(B), NEW b \in B
    PROVE  RowsIn(Append(bs, b)) = RowsIn(bs) \o b.rows
<1> DEFINE rows == [i \in DOMAIN bs |-> bs[i].rows]
           more == [i \in DOMAIN Append(bs, b) |-> Append(bs, b)[i].rows]
<1>1. /\ Len(bs) \in Nat /\ DOMAIN bs = 1..Len(bs)
      /\ DOMAIN Append(bs, b) = 1..(Len(bs) + 1)
      /\ \A i \in 1..Len(bs) : Append(bs, b)[i] = bs[i]
      /\ Append(bs, b)[Len(bs) + 1] = b
  OBVIOUS
<1>2. rows \in Seq(Seq(S)) /\ Len(rows) = Len(bs)
  <2>1. rows \in [1..Len(bs) -> Seq(S)]
    BY <1>1
  <2> QED
    BY <1>1, <2>1, Numbered
<1>3. more = Append(rows, b.rows)
  <2>1. more \in [1..(Len(bs) + 1) -> Seq(S)]
    BY <1>1
  <2>2. more \in Seq(Seq(S)) /\ Len(more) = Len(bs) + 1
    BY <1>1, <2>1, Numbered
  <2>3. Append(rows, b.rows) \in Seq(Seq(S)) /\ Len(Append(rows, b.rows)) = Len(bs) + 1
    BY <1>2
  <2>4. ASSUME NEW i \in 1..(Len(bs) + 1)
        PROVE  more[i] = Append(rows, b.rows)[i]
    <3>1. CASE i = Len(bs) + 1
      BY <1>1, <1>2, <3>1
    <3>2. CASE i # Len(bs) + 1
      <4>1. i \in 1..Len(bs)
        BY <1>1, <3>2
      <4>2. more[i] = bs[i].rows /\ rows[i] = bs[i].rows
        BY <1>1, <4>1
      <4>3. Append(rows, b.rows)[i] = rows[i]
        BY <1>2, <4>1
      <4> QED
        BY <4>2, <4>3
    <3> QED
      BY <3>1, <3>2
  <2> QED
    BY <2>2, <2>3, <2>4, SeqEqual
<1>4. b.rows \in Seq(S)
  OBVIOUS
<1> QED
  BY <1>2, <1>3, <1>4, FlattenAppend DEF RowsIn

\* What the invariant says of the rows a transfer over an iterable has.
LEMMA MineAre ==
    ASSUME Typing, Kinds, Stack, Lives, Given, NEW t \in Transfers, source[t] \in Iterables
    PROVE  /\ Batches[t] \in Seq(RowBatches)
           /\ RowsIn(Batches[t]) \in Seq(RowIds)
           /\ chunk[t] \in Seq(RowIds)
           /\ Mine[t] \in Seq(RowIds)
           /\ RowsOf(t) = Mine[t]
<1>1. t \in Running => received \in Seq(RowBatches) /\ published[t] = <<>>
  BY RunningIs DEF Given, Stack, Sound, Lives
<1>2. Batches[t] \in Seq(RowBatches)
  BY <1>1 DEF Batches, Given
<1>3. RowsIn(Batches[t]) \in Seq(RowIds)
  <2>1. /\ Len(Batches[t]) \in Nat /\ DOMAIN Batches[t] = 1..Len(Batches[t])
        /\ \A i \in DOMAIN Batches[t] : Batches[t][i] \in RowBatches
    BY <1>2
  <2>2. \A b \in RowBatches : b.rows \in Seq(RowIds)
    BY DEF RowBatches
  <2> QED
    BY <2>1, <2>2, RowsInAre
<1>4. chunk[t] \in Seq(RowIds)
  BY DEF Kinds
<1>5. Mine[t] \in Seq(RowIds)
  BY <1>3, <1>4 DEF Mine
<1>6. RowsOf(t) = Mine[t]
  <2>1. CASE t \in Running
    <3>1. RowsIn(published[t]) = <<>> /\ Batches[t] = received
      BY <1>1, <2>1, RowsInNone DEF Batches
    <3>2. <<>> \o RowsIn(received) = RowsIn(received)
      BY <1>3, <3>1, ConcatEmptySeq
    <3> QED
      BY <2>1, <3>1, <3>2 DEF RowsOf, Mine
  <2>2. CASE t \notin Running
    <3>1. Batches[t] = published[t]
      BY <2>2 DEF Batches
    <3>2. RowsIn(published[t]) \o <<>> = RowsIn(published[t])
      BY <1>3, <3>1, ConcatEmptySeq
    <3> QED
      BY <2>2, <3>1, <3>2 DEF RowsOf, Mine
  <2> QED
    BY <2>1, <2>2
<1> QED
  BY <1>2, <1>3, <1>4, <1>5, <1>6

-----------------------------------------------------------------------------
(* What a step does to the rows, whatever its action.                      *)

\* The outcomes of a transfer of which no call has raised.
Fine == {None, "made", "ok"}

\* A transfer over an iterable has rows.
HaveRows == \A t \in Transfers : source[t] \in Iterables => Mine[t] \in Seq(RowIds)

\* A cursor stays where it is, or an iterable that has no more rows says so.
CursorKept(x, it) ==
    \/ cursor'[x] = cursor[x]
    \/ cursor[x] >= Len(table[it]) /\ cursor'[x] = Len(table[it]) + 1

\* A transfer keeps its rows; it succeeds only when its iterable has ended.
RowsKept(t) ==
    /\ source'[t] = source[t]
    /\ source[t] \in Iterables => Mine'[t] = Mine[t]
    /\ outcome'[t] \in Fine <=> outcome[t] \in Fine
    /\ outcome'[t] = "ok" => outcome[t] = "ok" \/ (source[t] \in Generators \cup Lists => Ended(t))

\* No row is taken, none is dropped.
RowsStay ==
    /\ table' = table
    /\ \A t \in Transfers : RowsKept(t)
    /\ \A g \in Generators : CursorKept(g, g)
    /\ \A t \in Transfers : source[t] \in Lists \cup Frames => CursorKept(t, source[t])

\* The sources a program has, apart from one another.
LEMMA SourcesAre ==
    /\ \A t \in Transfers : t \notin Generators
    /\ \A s \in Generators : s \notin Lists \cup Frames /\ s \in Iterables
    /\ \A s \in Lists : s \notin Frames /\ s \in Iterables
    /\ \A s \in Frames : s \in Iterables
    /\ \A s \in Iterables : s \notin {FileObject, Stranger, None}
    /\ FileObject # None /\ Stranger # None /\ FileObject # Stranger
    /\ ChunkRows \in Nat /\ ChunkRows >= 1
BY SessionAssumption DEF SessionAssumption, Iterables

\* What the tables and the cursors are.
LEMMA TableIs ==
    ASSUME Kinds
    PROVE  /\ \A it \in Iterables :
                 /\ table[it] \in Seq(ToSet(table[it])) /\ Len(table[it]) \in Nat
                 /\ \A n \in 1..Len(table[it]) : <<it, n>> \in RowIds
           /\ \A x \in Generators \cup Transfers : cursor[x] \in Nat
<1>1. PICK w \in Worlds : table = w.table
  BY DEF Kinds
<1>2. \A it \in Iterables : table[it] \in Seq(ToSet(table[it]))
  BY <1>1, SessionAssumption DEF SessionAssumption
<1>3. ASSUME NEW it \in Iterables
      PROVE  Len(table[it]) \in Nat /\ \A n \in 1..Len(table[it]) : <<it, n>> \in RowIds
  <2>1. Len(table[it]) \in Nat
    BY <1>2
  <2>2. \A n \in 1..Len(table[it]) : n \in DOMAIN Rows(it) /\ Rows(it)[n] = <<it, n>>
    BY DEF Rows
  <2> QED
    BY <2>1, <2>2 DEF RowIds
<1> QED
  BY <1>2, <1>3 DEF Kinds

LEMMA EndedIs ==
    ASSUME NEW t \in Transfers
    PROVE  /\ source[t] \in Generators => Cursor(t) = source[t]
           /\ source[t] \notin Generators => Cursor(t) = t
           /\ source[t] \in Generators => (Ended(t) <=> cursor[source[t]] > Len(table[source[t]]))
           /\ source[t] \notin Generators => (Ended(t) <=> cursor[t] > Len(table[source[t]]))
BY DEF Ended, Cursor

LEMMA GeneratorsStay ==
    ASSUME Kinds, OfGenerators, RowsStay
    PROVE  OfGenerators'
<1> SUFFICES ASSUME NEW g \in Generators, NEW t \in Transfers, source'[t] = g
    PROVE  /\ \A i \in DOMAIN Mine'[t] :
                 Mine'[t][i][1] = g /\ Mine'[t][i][2] \in 1..cursor'[g] /\ Mine'[t][i][2] <= Len(table'[g])
           /\ \A i, j \in DOMAIN Mine'[t] : i < j => Mine'[t][i][2] < Mine'[t][j][2]
           /\ \A u \in Transfers : source'[u] = g /\ t # u => ToSet(Mine'[t]) \cap ToSet(Mine'[u]) = {}
           /\ outcome'[t] = "ok" => cursor'[g] > Len(table'[g])
  BY DEF OfGenerators
<1>1. \A u \in Transfers : source'[u] = g => source[u] = g /\ Mine'[u] = Mine[u]
  BY SourcesAre DEF RowsStay, RowsKept
<1>2. cursor[g] \in Nat /\ cursor'[g] \in Nat /\ cursor[g] <= cursor'[g] /\ Len(table[g]) \in Nat
  <2>1. CursorKept(g, g)
    BY DEF RowsStay
  <2> QED
    BY <2>1, TableIs, SourcesAre DEF CursorKept, Kinds
<1>3. table' = table
  BY DEF RowsStay
<1>4. \A i \in DOMAIN Mine[t] :
         Mine[t][i][1] = g /\ Mine[t][i][2] \in 1..cursor[g] /\ Mine[t][i][2] <= Len(table[g])
  BY <1>1 DEF OfGenerators
<1>5. \A i \in DOMAIN Mine[t] : Mine[t][i][2] \in 1..cursor'[g]
  BY <1>2, <1>4
<1>6. outcome'[t] = "ok" => cursor'[g] > Len(table'[g])
  <2>1. outcome'[t] = "ok" => outcome[t] = "ok" \/ Ended(t)
    BY <1>1 DEF RowsStay, RowsKept
  <2>2. outcome'[t] = "ok" => cursor[g] > Len(table[g])
    BY <1>1, <2>1, EndedIs DEF OfGenerators
  <2> QED
    BY <1>2, <1>3, <2>2
<1> QED
  BY <1>1, <1>3, <1>4, <1>5, <1>6 DEF OfGenerators

LEMMA NoneLostStay ==
    ASSUME Kinds, NoneLost, RowsStay
    PROVE  NoneLost'
<1> SUFFICES ASSUME NEW g \in Generators,
                    \A t \in Transfers : source'[t] = g => outcome'[t] \in {None, "made", "ok"},
                    NEW n \in 1..Len(table'[g]), n <= cursor'[g]
             PROVE  \E t \in Transfers : source'[t] = g /\ <<g, n>> \in ToSet(Mine'[t])
  BY DEF NoneLost
<1>1. \A t \in Transfers : source[t] = g => outcome[t] \in {None, "made", "ok"}
  BY DEF RowsStay, RowsKept, Fine
<1>2. table' = table /\ CursorKept(g, g) /\ cursor[g] \in Nat /\ Len(table[g]) \in Nat
  BY TableIs, SourcesAre DEF RowsStay
<1>3. n <= cursor[g]
  BY <1>2 DEF CursorKept
<1>4. PICK t \in Transfers : source[t] = g /\ <<g, n>> \in ToSet(Mine[t])
  BY <1>1, <1>2, <1>3 DEF NoneLost
<1> QED
  BY <1>4, SourcesAre DEF RowsStay, RowsKept

LEMMA OthersStay ==
    ASSUME Kinds, OfOthers, RowsStay, HaveRows
    PROVE  OfOthers'
<1> SUFFICES ASSUME NEW t \in Transfers, source'[t] \in Lists \cup Frames
    PROVE  /\ outcome'[t] \in {None, "made", "ok"} =>
              /\ \A i \in DOMAIN Mine'[t] : Mine'[t][i] = <<source'[t], i>>
              /\ Len(Mine'[t]) <= Len(table'[source'[t]])
              /\ Len(Mine'[t]) # cursor'[t] =>
                    cursor'[t] > Len(table'[source'[t]]) /\ Len(Mine'[t]) = Len(table'[source'[t]])
              /\ outcome'[t] = "ok" => cursor'[t] >= Len(table'[source'[t]])
           /\ source'[t] \in Frames => cursor'[t] >= Len(table'[source'[t]])
  BY DEF OfOthers
<1> DEFINE it == source[t]
<1>1. /\ source' [t] = it /\ Mine'[t] = Mine[t] /\ table' = table /\ it \in Iterables
      /\ it \notin Generators
  BY SourcesAre DEF RowsStay, RowsKept
<1>2. /\ cursor[t] \in Nat /\ Len(table[it]) \in Nat /\ Len(Mine[t]) \in Nat
      /\ CursorKept(t, it)
  <2>1. cursor[t] \in Nat /\ Len(table[it]) \in Nat
    BY <1>1, TableIs
  <2>2. CursorKept(t, it)
    BY <1>1 DEF RowsStay
  <2>3. Len(Mine[t]) \in Nat
    BY <1>1 DEF HaveRows
  <2> QED
    BY <2>1, <2>2, <2>3
<1>3. it \in Frames => cursor[t] >= Len(table[it])
  BY DEF OfOthers
<1>4. it \in Frames => cursor'[t] >= Len(table[it])
  BY <1>2, <1>3 DEF CursorKept
<1>5. ASSUME outcome'[t] \in {None, "made", "ok"}
      PROVE  /\ \A i \in DOMAIN Mine[t] : Mine[t][i] = <<it, i>>
             /\ Len(Mine[t]) <= Len(table[it])
             /\ Len(Mine[t]) # cursor'[t] =>
                    cursor'[t] > Len(table[it]) /\ Len(Mine[t]) = Len(table[it])
             /\ outcome'[t] = "ok" => cursor'[t] >= Len(table[it])
  <2>1. outcome[t] \in {None, "made", "ok"}
    BY <1>5 DEF RowsStay, RowsKept, Fine
  <2>2. /\ \A i \in DOMAIN Mine[t] : Mine[t][i] = <<it, i>>
        /\ Len(Mine[t]) <= Len(table[it])
        /\ Len(Mine[t]) # cursor[t] => cursor[t] > Len(table[it]) /\ Len(Mine[t]) = Len(table[it])
        /\ outcome[t] = "ok" => cursor[t] >= Len(table[it])
    BY <1>1, <2>1 DEF OfOthers
  <2>3. Len(Mine[t]) # cursor'[t] => cursor'[t] > Len(table[it]) /\ Len(Mine[t]) = Len(table[it])
    BY <1>2, <2>2 DEF CursorKept
  <2>4. outcome'[t] = "ok" => outcome[t] = "ok" \/ it \in Frames \/ Ended(t)
    BY <1>1 DEF RowsStay, RowsKept
  <2>5. outcome'[t] = "ok" => cursor'[t] >= Len(table[it])
    BY <1>1, <1>2, <1>3, <2>2, <2>4, EndedIs DEF CursorKept
  <2> QED
    BY <2>2, <2>3, <2>5
<1> QED
  BY <1>1, <1>4, <1>5

\* A row joins a transfer's chunk.
RowTaken(t) ==
    /\ table' = table /\ source' = source /\ outcome' = outcome
    /\ source[t] \in Iterables /\ outcome[t] \in Fine
    /\ cursor[Cursor(t)] < Len(table[source[t]])
    /\ cursor' = [cursor EXCEPT ![Cursor(t)] = @ + 1]
    /\ Mine'[t] = Append(Mine[t], <<source[t], cursor[Cursor(t)] + 1>>)
    /\ \A u \in Transfers : u # t /\ source[u] \in Iterables => Mine'[u] = Mine[u]

LEMMA GeneratorsTake ==
    ASSUME Kinds, OfGenerators, HaveRows, NEW t \in Transfers, RowTaken(t)
    PROVE  OfGenerators'
<1> SUFFICES ASSUME NEW g \in Generators, NEW v \in Transfers, source'[v] = g
    PROVE  /\ \A i \in DOMAIN Mine'[v] :
                 Mine'[v][i][1] = g /\ Mine'[v][i][2] \in 1..cursor'[g] /\ Mine'[v][i][2] <= Len(table'[g])
           /\ \A i, j \in DOMAIN Mine'[v] : i < j => Mine'[v][i][2] < Mine'[v][j][2]
           /\ \A u \in Transfers : source'[u] = g /\ v # u => ToSet(Mine'[v]) \cap ToSet(Mine'[u]) = {}
           /\ outcome'[v] = "ok" => cursor'[g] > Len(table'[g])
  BY DEF OfGenerators
<1> DEFINE c == cursor[g]
           r == <<g, c + 1>>
<1>1. /\ source' = source /\ table' = table /\ outcome' = outcome /\ source[v] = g
      /\ g \in Iterables
  BY SourcesAre DEF RowTaken
<1>2. c \in Nat /\ Len(table[g]) \in Nat
  BY <1>1, TableIs
<1>3. c <= cursor'[g]
  BY <1>2 DEF RowTaken, Kinds
<1>4. source[t] = g => Cursor(t) = g /\ cursor'[g] = c + 1 /\ c < Len(table[g]) /\ Mine'[t] = Append(Mine[t], r)
  BY EndedIs DEF RowTaken, Kinds
<1>5. \A u \in Transfers : source[u] = g =>
         /\ Mine[u] \in Seq(RowIds)
         /\ \A i \in DOMAIN Mine[u] :
              Mine[u][i][1] = g /\ Mine[u][i][2] \in 1..c /\ Mine[u][i][2] <= Len(table[g])
         /\ \A i, j \in DOMAIN Mine[u] : i < j => Mine[u][i][2] < Mine[u][j][2]
         /\ \A w \in Transfers : source[w] = g /\ u # w => ToSet(Mine[u]) \cap ToSet(Mine[w]) = {}
         /\ outcome[u] = "ok" => c > Len(table[g])
  BY <1>1 DEF OfGenerators, HaveRows
<1>6. \A u \in Transfers : source[u] = g => r \notin ToSet(Mine[u])
  <2> SUFFICES ASSUME NEW u \in Transfers, source[u] = g, NEW i \in DOMAIN Mine[u], Mine[u][i] = r
               PROVE  FALSE
    BY DEF ToSet
  <2> QED
    BY <1>2, <1>5
<1>7. \A u \in Transfers : u # t /\ source[u] = g => Mine'[u] = Mine[u]
  BY <1>1 DEF RowTaken
<1>8. source[t] = g =>
         /\ DOMAIN Mine'[t] = DOMAIN Mine[t] \cup {Len(Mine[t]) + 1}
         /\ Len(Mine[t]) \in Nat /\ DOMAIN Mine[t] = 1..Len(Mine[t])
         /\ \A i \in DOMAIN Mine[t] : Mine'[t][i] = Mine[t][i]
         /\ Mine'[t][Len(Mine[t]) + 1] = r
         /\ ToSet(Mine'[t]) = ToSet(Mine[t]) \cup {r}
  <2> SUFFICES ASSUME source[t] = g PROVE
         /\ DOMAIN Mine'[t] = DOMAIN Mine[t] \cup {Len(Mine[t]) + 1}
         /\ Len(Mine[t]) \in Nat /\ DOMAIN Mine[t] = 1..Len(Mine[t])
         /\ \A i \in DOMAIN Mine[t] : Mine'[t][i] = Mine[t][i]
         /\ Mine'[t][Len(Mine[t]) + 1] = r
         /\ ToSet(Mine'[t]) = ToSet(Mine[t]) \cup {r}
    OBVIOUS
  <2>1. Mine'[t] = Append(Mine[t], r) /\ Mine[t] \in Seq(RowIds)
    BY <1>4, <1>5
  <2> HIDE DEF r
  <2>2. /\ DOMAIN Mine'[t] = DOMAIN Mine[t] \cup {Len(Mine[t]) + 1}
        /\ Len(Mine[t]) \in Nat /\ DOMAIN Mine[t] = 1..Len(Mine[t])
        /\ \A i \in DOMAIN Mine[t] : Mine'[t][i] = Mine[t][i]
        /\ Mine'[t][Len(Mine[t]) + 1] = r
    BY <2>1
  <2>3. ToSet(Mine'[t]) = ToSet(Mine[t]) \cup {r}
    BY <2>2 DEF ToSet
  <2> QED
    BY <2>2, <2>3
<1>9. \A u, w \in Transfers : source[u] = g /\ source[w] = g /\ u # w =>
          ToSet(Mine'[u]) \cap ToSet(Mine'[w]) = {}
  <2> SUFFICES ASSUME NEW u \in Transfers, NEW w \in Transfers, source[u] = g, source[w] = g, u # w
               PROVE  ToSet(Mine'[u]) \cap ToSet(Mine'[w]) = {}
    OBVIOUS
  <2>1. ToSet(Mine[u]) \cap ToSet(Mine[w]) = {} /\ r \notin ToSet(Mine[u]) /\ r \notin ToSet(Mine[w])
    BY <1>5, <1>6
  <2> HIDE DEF r
  <2> QED
    BY <1>7, <1>8, <2>1
<1>10. /\ \A i \in DOMAIN Mine'[v] :
             Mine'[v][i][1] = g /\ Mine'[v][i][2] \in 1..cursor'[g] /\ Mine'[v][i][2] <= Len(table[g])
       /\ \A i, j \in DOMAIN Mine'[v] : i < j => Mine'[v][i][2] < Mine'[v][j][2]
  <2>1. CASE v # t
    <3>1. Mine'[v] = Mine[v]
      BY <1>1, <1>7, <2>1
    <3>2. cursor'[g] \in Nat
      BY <1>2 DEF RowTaken, Kinds
    <3>3. ASSUME NEW i \in DOMAIN Mine[v] PROVE Mine[v][i][2] \in 1..cursor'[g]
      <4>1. Mine[v][i][2] \in 1..c
        BY <1>1, <1>5
      <4> HIDE DEF c
      <4> QED
        BY <4>1, <3>2, <1>2, <1>3
    <3> QED
      BY <1>1, <1>5, <3>1, <3>3
  <2>2. CASE v = t
    <3>1. source[t] = g /\ cursor'[g] = c + 1 /\ c + 1 <= Len(table[g])
      BY <1>1, <1>2, <1>4, <2>2
    <3>2. r[1] = g /\ r[2] = c + 1
      OBVIOUS
    <3>3. \A i \in DOMAIN Mine[t] :
              Mine[t][i][1] = g /\ Mine[t][i][2] \in 1..c /\ Mine[t][i][2] <= Len(table[g])
      BY <1>5, <3>1
    <3>4. \A i, j \in DOMAIN Mine[t] : i < j => Mine[t][i][2] < Mine[t][j][2]
      BY <1>5, <3>1
    <3>5. /\ DOMAIN Mine'[t] = DOMAIN Mine[t] \cup {Len(Mine[t]) + 1}
          /\ Len(Mine[t]) \in Nat /\ DOMAIN Mine[t] = 1..Len(Mine[t])
          /\ \A i \in DOMAIN Mine[t] : Mine'[t][i] = Mine[t][i]
          /\ Mine'[t][Len(Mine[t]) + 1] = r
      BY <1>8, <3>1
    <3> HIDE DEF r, c
    <3>6. ASSUME NEW i \in DOMAIN Mine'[t]
          PROVE  Mine'[t][i][1] = g /\ Mine'[t][i][2] \in 1..cursor'[g] /\ Mine'[t][i][2] <= Len(table[g])
      BY <1>2, <3>1, <3>2, <3>3, <3>5
    <3>7. ASSUME NEW i \in DOMAIN Mine'[t], NEW j \in DOMAIN Mine'[t], i < j
          PROVE  Mine'[t][i][2] < Mine'[t][j][2]
      <4>1. i \in DOMAIN Mine[t]
        BY <3>5, <3>7
      <4> QED
        BY <1>2, <3>2, <3>3, <3>4, <3>5, <3>7, <4>1
    <3> QED
      BY <2>2, <3>6, <3>7
  <2> QED
    BY <2>1, <2>2
<1>11. outcome'[v] = "ok" => cursor'[g] > Len(table'[g])
  <2>1. outcome[v] = "ok" => c > Len(table[g])
    BY <1>1, <1>5
  <2>2. cursor'[g] \in Nat
    BY <1>2 DEF RowTaken, Kinds
  <2> HIDE DEF c
  <2> QED
    BY <1>1, <1>2, <1>3, <2>1, <2>2
<1> QED
  BY <1>1, <1>9, <1>10, <1>11

LEMMA NoneLostTake ==
    ASSUME Kinds, NoneLost, HaveRows, NEW t \in Transfers, RowTaken(t)
    PROVE  NoneLost'
<1> SUFFICES ASSUME NEW g \in Generators,
                    \A u \in Transfers : source'[u] = g => outcome'[u] \in {None, "made", "ok"},
                    NEW n \in 1..Len(table'[g]), n <= cursor'[g]
             PROVE  \E u \in Transfers : source'[u] = g /\ <<g, n>> \in ToSet(Mine'[u])
  BY DEF NoneLost
<1>1. source' = source /\ table' = table /\ outcome' = outcome
  BY DEF RowTaken
<1>2. cursor[g] \in Nat /\ Len(table[g]) \in Nat
  BY TableIs, SourcesAre
<1>3. Mine[t] \in Seq(RowIds) /\ Mine'[t] = Append(Mine[t], <<source[t], cursor[Cursor(t)] + 1>>)
  BY DEF RowTaken, HaveRows
<1>4. ToSet(Mine[t]) \subseteq ToSet(Mine'[t]) /\ <<source[t], cursor[Cursor(t)] + 1>> \in ToSet(Mine'[t])
  <2> DEFINE r == <<source[t], cursor[Cursor(t)] + 1>>
  <2>1. Mine'[t] = Append(Mine[t], r)
    BY <1>3
  <2> HIDE DEF r
  <2>2. /\ DOMAIN Mine'[t] = DOMAIN Mine[t] \cup {Len(Mine[t]) + 1}
        /\ \A i \in DOMAIN Mine[t] : Mine'[t][i] = Mine[t][i]
        /\ Mine'[t][Len(Mine[t]) + 1] = r
    BY <1>3, <2>1
  <2>3. ToSet(Mine[t]) \subseteq ToSet(Mine'[t]) /\ r \in ToSet(Mine'[t])
    BY <2>2 DEF ToSet
  <2> QED
    BY <2>3 DEF r
<1>5. CASE n <= cursor[g]
  <2>1. PICK u \in Transfers : source[u] = g /\ <<g, n>> \in ToSet(Mine[u])
    BY <1>1, <1>5 DEF NoneLost
  <2>2. CASE u = t
    BY <1>1, <1>4, <2>1, <2>2
  <2>3. CASE u # t
    BY <1>1, <2>1, <2>3, SourcesAre DEF RowTaken
  <2> QED
    BY <2>2, <2>3
<1>6. CASE ~(n <= cursor[g])
  <2>1. n \in Nat /\ Cursor(t) = g /\ cursor'[g] = cursor[g] + 1
    BY <1>1, <1>2, <1>6 DEF RowTaken, Kinds
  <2>2. n = cursor[g] + 1
    BY <1>2, <1>6, <2>1
  <2>3. source[t] = g
    BY <2>1, SourcesAre DEF Cursor
  <2> QED
    BY <1>1, <1>4, <2>1, <2>2, <2>3
<1> QED
  BY <1>5, <1>6

LEMMA OthersTake ==
    ASSUME Kinds, OfOthers, HaveRows, NEW t \in Transfers, RowTaken(t)
    PROVE  OfOthers'
<1> SUFFICES ASSUME NEW v \in Transfers, source'[v] \in Lists \cup Frames
    PROVE  /\ outcome'[v] \in {None, "made", "ok"} =>
              /\ \A i \in DOMAIN Mine'[v] : Mine'[v][i] = <<source'[v], i>>
              /\ Len(Mine'[v]) <= Len(table'[source'[v]])
              /\ Len(Mine'[v]) # cursor'[v] =>
                    cursor'[v] > Len(table'[source'[v]]) /\ Len(Mine'[v]) = Len(table'[source'[v]])
              /\ outcome'[v] = "ok" => cursor'[v] >= Len(table'[source'[v]])
           /\ source'[v] \in Frames => cursor'[v] >= Len(table'[source'[v]])
  BY DEF OfOthers
<1>1. source' = source /\ table' = table /\ outcome' = outcome /\ source[v] \in Iterables
  BY SourcesAre DEF RowTaken
<1>2. CASE v # t
  <2>1. Mine'[v] = Mine[v]
    BY <1>1, <1>2 DEF RowTaken
  <2>2. Cursor(t) # v
    BY <1>2, SourcesAre DEF Cursor
  <2>3. cursor'[v] = cursor[v]
    BY <2>2 DEF RowTaken, Kinds
  <2> QED
    BY <1>1, <2>1, <2>3 DEF OfOthers
<1>3. CASE v = t
  <2> DEFINE c == cursor[t]
             r == <<source[t], c + 1>>
             n == Len(table[source[t]])
  <2>1. Cursor(t) = t
    BY <1>1, <1>3, SourcesAre DEF Cursor
  <2>2. c \in Nat /\ n \in Nat /\ c < n /\ cursor'[t] = c + 1
    BY <1>1, <1>3, <2>1, TableIs DEF RowTaken, Kinds
  <2>3. Mine[t] \in Seq(RowIds) /\ Mine'[t] = Append(Mine[t], r)
    BY <1>1, <1>3, <2>1 DEF RowTaken, HaveRows
  <2>4. outcome[t] \in {None, "made", "ok"}
    BY DEF RowTaken, Fine
  <2>5. /\ \A i \in DOMAIN Mine[t] : Mine[t][i] = <<source[t], i>>
        /\ Len(Mine[t]) # c => c > n
        /\ source[t] \in Frames => c >= n
        /\ outcome[t] = "ok" => c >= n
    BY <1>1, <1>3, <2>4 DEF OfOthers
  <2> HIDE DEF c, n
  <2>6. Len(Mine[t]) = c
    BY <2>2, <2>5
  <2>7. Len(Mine'[t]) = c + 1 /\ Mine'[t][c + 1] = r /\ \A i \in 1..c : Mine'[t][i] = Mine[t][i]
    <3> HIDE DEF r
    <3> QED
      BY <2>2, <2>3, <2>6
  <2>8. DOMAIN Mine'[t] = 1..(c + 1) /\ DOMAIN Mine[t] = 1..c
    <3> HIDE DEF r
    <3> QED
      BY <2>2, <2>3, <2>6
  <2>9. ASSUME NEW i \in DOMAIN Mine'[t] PROVE Mine'[t][i] = <<source[t], i>>
    <3>1. CASE i = c + 1
      BY <2>7, <3>1
    <3>2. CASE i # c + 1
      BY <2>2, <2>5, <2>7, <2>8, <3>2
    <3> QED
      BY <3>1, <3>2
  <2>10. c + 1 <= n /\ ~(c >= n)
    BY <2>2
  <2>11. source[t] \notin Frames /\ outcome[t] # "ok"
    BY <2>5, <2>10
  <2> QED
    BY <1>1, <1>3, <2>2, <2>7, <2>9, <2>10, <2>11 DEF n
<1> QED
  BY <1>2, <1>3

\* A call on a transfer has raised: what it had is gone.  A generator whose body
\* raises has ended.
RowsDropped(t) ==
    /\ table' = table /\ source' = source
    /\ outcome'[t] \notin Fine
    /\ source[t] \in Iterables => Mine'[t] = <<>>
    /\ \A u \in Transfers \ {t} : RowsKept(u)
    /\ \A u \in Transfers : cursor'[u] = cursor[u]
    /\ \A g \in Generators :
          \/ cursor'[g] = cursor[g]
          \/ source[t] = g /\ cursor'[g] = Len(table[g]) + 1

LEMMA GeneratorsDrop ==
    ASSUME Kinds, OfGenerators, NEW t \in Transfers, RowsDropped(t)
    PROVE  OfGenerators'
<1> SUFFICES ASSUME NEW g \in Generators, NEW v \in Transfers, source'[v] = g
    PROVE  /\ \A i \in DOMAIN Mine'[v] :
                 Mine'[v][i][1] = g /\ Mine'[v][i][2] \in 1..cursor'[g] /\ Mine'[v][i][2] <= Len(table'[g])
           /\ \A i, j \in DOMAIN Mine'[v] : i < j => Mine'[v][i][2] < Mine'[v][j][2]
           /\ \A u \in Transfers : source'[u] = g /\ v # u => ToSet(Mine'[v]) \cap ToSet(Mine'[u]) = {}
           /\ outcome'[v] = "ok" => cursor'[g] > Len(table'[g])
  BY DEF OfGenerators
<1>1. /\ source' = source /\ table' = table /\ source[v] = g /\ g \in Iterables
      /\ outcome'[t] \notin Fine
  BY SourcesAre DEF RowsDropped
<1>2. cursor[g] \in Nat /\ cursor'[g] \in Nat /\ cursor[g] <= cursor'[g] /\ Len(table[g]) \in Nat
  <2>1. cursor'[g] = cursor[g] \/ cursor'[g] = Len(table[g]) + 1
    BY DEF RowsDropped
  <2> QED
    BY <1>1, <2>1, TableIs DEF Kinds
<1>3. \A u \in Transfers : u # t /\ source[u] = g => Mine'[u] = Mine[u]
  BY <1>1 DEF RowsDropped, RowsKept
<1>4. source[t] = g => Mine'[t] = <<>> /\ ToSet(Mine'[t]) = {}
  BY <1>1 DEF RowsDropped, ToSet
<1>5. \A u \in Transfers : source[u] = g /\ v # u => ToSet(Mine'[v]) \cap ToSet(Mine'[u]) = {}
  BY <1>1, <1>3, <1>4 DEF OfGenerators
<1>6. CASE v = t
  <2>1. DOMAIN Mine'[v] = {}
    BY <1>1, <1>4, <1>6
  <2>2. outcome'[v] # "ok"
    BY <1>1, <1>6 DEF Fine
  <2> QED
    BY <1>1, <1>5, <2>1, <2>2
<1>7. CASE v # t
  <2>1. Mine'[v] = Mine[v]
    BY <1>1, <1>3, <1>7
  <2>2. \A i \in DOMAIN Mine[v] :
           Mine[v][i][1] = g /\ Mine[v][i][2] \in 1..cursor[g] /\ Mine[v][i][2] <= Len(table[g])
    BY <1>1 DEF OfGenerators
  <2>3. \A i \in DOMAIN Mine[v] : Mine[v][i][2] \in 1..cursor'[g]
    BY <1>2, <2>2
  <2>4. outcome'[v] = "ok" => outcome[v] = "ok" \/ Ended(v)
    BY <1>1, <1>7 DEF RowsDropped, RowsKept
  <2>5. outcome'[v] = "ok" => cursor[g] > Len(table[g])
    BY <1>1, <2>4, EndedIs DEF OfGenerators
  <2>6. outcome'[v] = "ok" => cursor'[g] > Len(table[g])
    BY <1>2, <2>5
  <2> QED
    BY <1>1, <1>5, <2>1, <2>2, <2>3, <2>6 DEF OfGenerators
<1> QED
  BY <1>6, <1>7

LEMMA NoneLostDrop ==
    ASSUME Kinds, NoneLost, NEW t \in Transfers, RowsDropped(t)
    PROVE  NoneLost'
<1> SUFFICES ASSUME NEW g \in Generators,
                    \A u \in Transfers : source'[u] = g => outcome'[u] \in {None, "made", "ok"},
                    NEW n \in 1..Len(table'[g]), n <= cursor'[g]
             PROVE  \E u \in Transfers : source'[u] = g /\ <<g, n>> \in ToSet(Mine'[u])
  BY DEF NoneLost
<1>1. source' = source /\ table' = table /\ source[t] # g /\ g \in Iterables
  BY SourcesAre DEF RowsDropped, Fine
<1>2. cursor'[g] = cursor[g]
  BY <1>1 DEF RowsDropped
<1>3. \A u \in Transfers : source[u] = g =>
          u # t /\ outcome[u] \in {None, "made", "ok"} /\ Mine'[u] = Mine[u]
  BY <1>1 DEF RowsDropped, RowsKept, Fine
<1>4. PICK u \in Transfers : source[u] = g /\ <<g, n>> \in ToSet(Mine[u])
  BY <1>1, <1>2, <1>3 DEF NoneLost
<1> QED
  BY <1>1, <1>3, <1>4

LEMMA OthersDrop ==
    ASSUME Kinds, OfOthers, NEW t \in Transfers, RowsDropped(t)
    PROVE  OfOthers'
<1> SUFFICES ASSUME NEW v \in Transfers, source'[v] \in Lists \cup Frames
    PROVE  /\ outcome'[v] \in {None, "made", "ok"} =>
              /\ \A i \in DOMAIN Mine'[v] : Mine'[v][i] = <<source'[v], i>>
              /\ Len(Mine'[v]) <= Len(table'[source'[v]])
              /\ Len(Mine'[v]) # cursor'[v] =>
                    cursor'[v] > Len(table'[source'[v]]) /\ Len(Mine'[v]) = Len(table'[source'[v]])
              /\ outcome'[v] = "ok" => cursor'[v] >= Len(table'[source'[v]])
           /\ source'[v] \in Frames => cursor'[v] >= Len(table'[source'[v]])
  BY DEF OfOthers
<1>1. /\ source' = source /\ table' = table /\ cursor'[v] = cursor[v] /\ source[v] \in Iterables
      /\ source[v] \notin Generators
      /\ outcome'[t] \notin {None, "made", "ok"}
  BY SourcesAre DEF RowsDropped, Fine
<1>2. source[v] \in Frames => cursor[v] >= Len(table[source[v]])
  BY DEF OfOthers
<1>3. CASE v = t
  BY <1>1, <1>2, <1>3
<1>4. CASE v # t
  <2>1. /\ Mine'[v] = Mine[v]
        /\ outcome'[v] \in {None, "made", "ok"} => outcome[v] \in {None, "made", "ok"}
        /\ outcome'[v] = "ok" => outcome[v] = "ok" \/ (source[v] \in Lists => Ended(v))
    BY <1>1, <1>4 DEF RowsDropped, RowsKept, Fine
  <2>2. cursor[v] \in Nat /\ Len(table[source[v]]) \in Nat
    BY <1>1, TableIs
  <2>3. outcome'[v] = "ok" => cursor[v] >= Len(table[source[v]])
    BY <1>1, <1>2, <2>1, <2>2, EndedIs DEF OfOthers
  <2> QED
    BY <1>1, <1>2, <2>1, <2>3 DEF OfOthers
<1> QED
  BY <1>3, <1>4

\* A transfer begins with its source, a DataFrame's rows already with it.
RowsBegin(t, s) ==
    /\ table' = table
    /\ source[t] = None /\ source' = [source EXCEPT ![t] = s]
    /\ outcome'[t] = IF s = Stranger THEN "TypeError" ELSE None
    /\ Mine'[t] = IF s \in Frames THEN Rows(s) ELSE <<>>
    /\ cursor'[t] = IF s \in Frames THEN Len(table[s]) ELSE 0
    /\ \A u \in Transfers \ {t} : RowsKept(u) /\ cursor'[u] = cursor[u]
    /\ \A g \in Generators : cursor'[g] = cursor[g]

LEMMA GeneratorsBegin ==
    ASSUME Typing, Kinds, OfGenerators, NEW t \in Transfers, NEW s \in Objects, RowsBegin(t, s)
    PROVE  OfGenerators'
<1> SUFFICES ASSUME NEW g \in Generators, NEW v \in Transfers, source'[v] = g
    PROVE  /\ \A i \in DOMAIN Mine'[v] :
                 Mine'[v][i][1] = g /\ Mine'[v][i][2] \in 1..cursor'[g] /\ Mine'[v][i][2] <= Len(table'[g])
           /\ \A i, j \in DOMAIN Mine'[v] : i < j => Mine'[v][i][2] < Mine'[v][j][2]
           /\ \A u \in Transfers : source'[u] = g /\ v # u => ToSet(Mine'[v]) \cap ToSet(Mine'[u]) = {}
           /\ outcome'[v] = "ok" => cursor'[g] > Len(table'[g])
  BY DEF OfGenerators
<1>1. table' = table /\ cursor'[g] = cursor[g] /\ g \in Iterables /\ g \notin Frames /\ g # Stranger
  BY SourcesAre DEF RowsBegin
<1>2. \A u \in Transfers : u # t /\ source'[u] = g => source[u] = g /\ Mine'[u] = Mine[u]
  BY <1>1 DEF RowsBegin, RowsKept
<1>3. source'[t] = g => Mine'[t] = <<>> /\ ToSet(Mine'[t]) = {} /\ outcome'[t] = None
  BY <1>1 DEF RowsBegin, ToSet, Typing
<1>4. \A u \in Transfers : source'[u] = g /\ v # u => ToSet(Mine'[v]) \cap ToSet(Mine'[u]) = {}
  BY <1>2, <1>3 DEF OfGenerators
<1>5. CASE v = t
  <2>1. DOMAIN Mine'[v] = {}
    BY <1>3, <1>5
  <2>2. outcome'[v] # "ok"
    BY <1>3, <1>5, SessionAssumption DEF SessionAssumption
  <2> QED
    BY <1>4, <2>1, <2>2
<1>6. CASE v # t
  <2>1. Mine'[v] = Mine[v] /\ source[v] = g
    BY <1>2, <1>6
  <2>2. outcome'[v] = "ok" => outcome[v] = "ok" \/ Ended(v)
    BY <1>6, <2>1 DEF RowsBegin, RowsKept
  <2>3. outcome'[v] = "ok" => cursor[g] > Len(table[g])
    BY <2>1, <2>2, EndedIs DEF OfGenerators
  <2> QED
    BY <1>1, <1>4, <2>1, <2>3 DEF OfGenerators
<1> QED
  BY <1>5, <1>6

LEMMA NoneLostBegin ==
    ASSUME Typing, Kinds, NoneLost, NEW t \in Transfers, NEW s \in Objects, RowsBegin(t, s)
    PROVE  NoneLost'
<1> SUFFICES ASSUME NEW g \in Generators,
                    \A u \in Transfers : source'[u] = g => outcome'[u] \in {None, "made", "ok"},
                    NEW n \in 1..Len(table'[g]), n <= cursor'[g]
             PROVE  \E u \in Transfers : source'[u] = g /\ <<g, n>> \in ToSet(Mine'[u])
  BY DEF NoneLost
<1>1. table' = table /\ cursor'[g] = cursor[g] /\ g \in Iterables /\ source[t] = None
  BY SourcesAre DEF RowsBegin
<1>2. \A u \in Transfers : source[u] = g =>
          u # t /\ source'[u] = g /\ outcome[u] \in {None, "made", "ok"} /\ Mine'[u] = Mine[u]
  BY <1>1, SourcesAre DEF RowsBegin, RowsKept, Fine
<1>3. PICK u \in Transfers : source[u] = g /\ <<g, n>> \in ToSet(Mine[u])
  BY <1>1, <1>2 DEF NoneLost
<1> QED
  BY <1>2, <1>3

LEMMA OthersBegin ==
    ASSUME Typing, Kinds, OfOthers, NEW t \in Transfers, NEW s \in Objects, RowsBegin(t, s)
    PROVE  OfOthers'
<1> SUFFICES ASSUME NEW v \in Transfers, source'[v] \in Lists \cup Frames
    PROVE  /\ outcome'[v] \in {None, "made", "ok"} =>
              /\ \A i \in DOMAIN Mine'[v] : Mine'[v][i] = <<source'[v], i>>
              /\ Len(Mine'[v]) <= Len(table'[source'[v]])
              /\ Len(Mine'[v]) # cursor'[v] =>
                    cursor'[v] > Len(table'[source'[v]]) /\ Len(Mine'[v]) = Len(table'[source'[v]])
              /\ outcome'[v] = "ok" => cursor'[v] >= Len(table'[source'[v]])
           /\ source'[v] \in Frames => cursor'[v] >= Len(table'[source'[v]])
  BY DEF OfOthers
<1>1. table' = table
  BY DEF RowsBegin
<1>2. CASE v = t
  <2>1. source'[v] = s /\ s \in Iterables /\ s # Stranger
    BY <1>2, SourcesAre DEF RowsBegin, Typing
  <2>2. Len(table[s]) \in Nat /\ outcome'[t] = None /\ None # "ok"
    BY <2>1, TableIs, SessionAssumption DEF RowsBegin, SessionAssumption
  <2>3. CASE s \in Frames
    <3>1. Mine'[t] = Rows(s) /\ cursor'[t] = Len(table[s])
      BY <2>3 DEF RowsBegin
    <3>2. Len(Rows(s)) = Len(table[s]) /\ DOMAIN Rows(s) = 1..Len(table[s])
      <4>1. Rows(s) \in [1..Len(table[s]) -> RowIds]
        BY <2>1, TableIs DEF Rows
      <4> QED
        BY <2>2, <4>1, Numbered
    <3>3. \A i \in DOMAIN Rows(s) : Rows(s)[i] = <<s, i>>
      BY DEF Rows
    <3> QED
      BY <1>1, <1>2, <2>1, <2>2, <3>1, <3>2, <3>3
  <2>4. CASE s \notin Frames
    <3>1. Mine'[t] = <<>> /\ cursor'[t] = 0
      BY <2>4 DEF RowsBegin
    <3>2. Len(Mine'[t]) = 0 /\ DOMAIN Mine'[t] = {}
      BY <3>1
    <3> QED
      BY <1>1, <1>2, <2>1, <2>2, <2>4, <3>1, <3>2
  <2> QED
    BY <2>3, <2>4
<1>3. CASE v # t
  <2>1. source'[v] = source[v] /\ source[v] \in Iterables /\ source[v] \notin Generators
    BY <1>3, SourcesAre DEF RowsBegin, RowsKept
  <2>2. /\ Mine'[v] = Mine[v] /\ cursor'[v] = cursor[v]
        /\ outcome'[v] \in {None, "made", "ok"} => outcome[v] \in {None, "made", "ok"}
        /\ outcome'[v] = "ok" => outcome[v] = "ok" \/ (source[v] \in Lists => Ended(v))
    BY <1>3, <2>1 DEF RowsBegin, RowsKept, Fine
  <2>3. source[v] \in Frames => cursor[v] >= Len(table[source[v]])
    BY <2>1 DEF OfOthers
  <2>4. cursor[v] \in Nat /\ Len(table[source[v]]) \in Nat
    BY <2>1, TableIs
  <2>5. outcome'[v] = "ok" => cursor[v] >= Len(table[source[v]])
    BY <2>1, <2>2, <2>3, <2>4, EndedIs DEF OfOthers
  <2> QED
    BY <1>1, <2>1, <2>2, <2>3, <2>5 DEF OfOthers
<1> QED
  BY <1>2, <1>3

-----------------------------------------------------------------------------
(* The invariant, and what a step does to the transfers it is not about.   *)

Progress ==
    Kinds /\ Stack /\ Lives /\ Given /\ Chunks /\ OfGenerators /\ NoneLost /\ OfOthers /\ Schema

SInv == IInv /\ FilesInv /\ Progress

LEMMA RowsAreThere ==
    ASSUME SInv
    PROVE  HaveRows
BY MineAre DEF SInv, IInv, Progress, HaveRows

LEMMA MineIs ==
    /\ \A t \in Transfers :
          /\ Batches[t] = IF t \in Running THEN received ELSE published[t]
          /\ Mine[t] = RowsIn(Batches[t]) \o chunk[t]
    /\ \A t \in Transfers :
          /\ Batches'[t] = IF t \in Running' THEN received' ELSE published'[t]
          /\ Mine'[t] = RowsIn(Batches'[t]) \o chunk'[t]
BY DEF Batches, Mine

\* Nothing of a transfer's schema changes.
SchemaKept(t) ==
    /\ source'[t] = source[t] /\ first'[t] = first[t]
    /\ source[t] \in Iterables => Batches'[t] = Batches[t] /\ Mine'[t] = Mine[t]
    /\ source[t] \in Frames => chunk'[t] = chunk[t]
    /\ t \in waiting' \cup Running' => t \in waiting \cup Running
    /\ outcome'[t] = "ok" => outcome[t] = "ok" \/ t \in Running

Settled(t) ==
    source[t] \in Iterables /\ (t \in waiting \cup Running \/ outcome[t] = "ok") =>
        /\ \A i \in DOMAIN Batches[t] : Batches[t][i].columns = Row(first[t]).keys
        /\ source[t] \notin Frames =>
              /\ first[t] \in RowIds /\ Mine[t] # <<>> /\ Head(Mine[t]) = first[t]
              /\ AllConvert(first[t], RowsIn(Batches[t]))
        /\ source[t] \in Frames /\ chunk[t] # <<>> => first[t] \in RowIds

LEMMA SchemaIs == Schema <=> \A t \in Transfers : Settled(t)
BY DEF Schema, Settled

LEMMA SettledStays ==
    ASSUME NEW t \in Transfers, Settled(t), SchemaKept(t), table' = table
    PROVE  Settled(t)'
<1>1. CASE source[t] \notin Iterables
  BY <1>1 DEF Settled, SchemaKept
<1>2. CASE source[t] \in Iterables
  BY <1>2 DEF Settled, SchemaKept, AllConvert, Row, RowIds, Rows
<1> QED
  BY <1>1, <1>2

\* What a step leaves to all transfers but t.
Apart(t) ==
    \A u \in Transfers \ {t} :
        /\ source'[u] = source[u] /\ outcome'[u] = outcome[u] /\ chunk'[u] = chunk[u]
        /\ first'[u] = first[u] /\ published'[u] = published[u]
        /\ u \in waiting' <=> u \in waiting
        /\ u \in ran => u \in ran'
        /\ u \in Running' <=> u \in Running
        /\ u \in Running /\ source[u] \in Iterables => received' = received

LEMMA ApartKeeps ==
    ASSUME NEW t, Apart(t), NEW u \in Transfers \ {t}
    PROVE  RowsKept(u) /\ SchemaKept(u)
<1>1. source[u] \in Iterables => Batches'[u] = Batches[u]
  <2>1. CASE u \in Running
    BY <2>1, MineIs DEF Apart
  <2>2. CASE u \notin Running
    <3>1. Batches[u] = published[u] /\ Batches'[u] = published'[u]
      BY <2>2, MineIs DEF Apart
    <3> QED
      BY <3>1 DEF Apart
  <2> QED
    BY <2>1, <2>2
<1>2. source[u] \in Iterables => Mine'[u] = Mine[u]
  BY <1>1, MineIs DEF Apart
<1> QED
  BY <1>1, <1>2 DEF Apart, RowsKept, SchemaKept

LEMMA SettledApart ==
    ASSUME Schema, NEW t, Apart(t), table' = table, Settled(t)' \/ t \notin Transfers
    PROVE  Schema'
<1>1. ASSUME NEW u \in Transfers PROVE Settled(u)'
  <2>1. CASE u = t
    BY <2>1
  <2>2. CASE u # t
    BY <2>2, ApartKeeps, SettledStays, SchemaIs
  <2> QED
    BY <2>1, <2>2
<1> QED
  BY <1>1 DEF Schema, Settled

\* How far one transfer has come.
LivesOf(t) ==
    /\ source[t] = None => outcome[t] = None /\ chunk[t] = <<>>
    /\ t \in waiting => outcome[t] = "made" /\ source[t] \in Sources
    /\ outcome[t] = "ok" => source[t] \in Sources
    /\ outcome[t] # "ok" => published[t] = <<>>
    /\ outcome[t] \notin {None, "made"} => chunk[t] = <<>>

LEMMA LivesIs == Lives <=> \A t \in Transfers : LivesOf(t)
BY DEF Lives, LivesOf

LEMMA LivesApart ==
    ASSUME Lives, NEW t, Apart(t), LivesOf(t)' \/ t \notin Transfers
    PROVE  Lives'
<1>1. ASSUME NEW u \in Transfers PROVE LivesOf(u)'
  <2>1. CASE u = t
    BY <2>1
  <2>2. CASE u # t
    BY <2>2, LivesIs DEF Apart, LivesOf
  <2> QED
    BY <2>1, <2>2
<1> QED
  BY <1>1 DEF Lives, LivesOf

\* One run at most is in progress.
LEMMA OneRun ==
    ASSUME Stack, NEW t \in Running, NEW u \in Running
    PROVE  t = u
BY RunningIs DEF Stack

\* The outcomes.
LEMMA ExceptionsAre ==
    /\ \A e \in {"Source", "EmptySource", "Destination", "Arrow", "Io"} :
          e \in DOMAIN ToPyErr /\ ToPyErr[e] \in Exceptions
    /\ {"TypeError", "ValueError", "RuntimeError", "PanicException", "Raised", "EmptySourceError"}
       \subseteq Exceptions
    /\ Exceptions \cap Fine = {}
    /\ None \notin {"made", "ok"}
<1>1. /\ DOMAIN ToPyErr = {"Source", "EmptySource", "Destination", "Arrow", "Io"}
      /\ ToPyErr["Source"] = "SourceError" /\ ToPyErr["EmptySource"] = "EmptySourceError"
      /\ ToPyErr["Destination"] = "DestinationError" /\ ToPyErr["Arrow"] = "ArrowError"
      /\ ToPyErr["Io"] = "IoError"
  BY DEF ToPyErr
<1>2. \A e \in Exceptions :
         e \in {"SourceError", "EmptySourceError", "DestinationError", "ArrowError", "IoError",
                "TypeError", "ValueError", "RuntimeError", "PanicException", "Raised"}
  BY <1>1 DEF Exceptions
<1>3. None \notin Exceptions \cup {"made", "ok"}
  BY SessionAssumption DEF SessionAssumption
<1>4. Exceptions \cap Fine = {}
  BY <1>2, <1>3 DEF Fine
<1> QED
  BY <1>1, <1>3, <1>4 DEF Exceptions

-----------------------------------------------------------------------------
(* A call that raises.                                                     *)

CallFails(t) ==
    /\ calls # <<>> /\ Top.t = t /\ calls' = Front(calls)
    /\ \E e \in Exceptions : outcome' = [outcome EXCEPT ![t] = e]
    /\ chunk' = [chunk EXCEPT ![t] = <<>>]
    /\ table' = table /\ source' = source /\ first' = first /\ published' = published
    /\ waiting' = waiting /\ ran' = ran /\ held' \subseteq held
    /\ \/ cursor' = cursor
       \/ /\ source[t] \in Generators
          /\ cursor' = [cursor EXCEPT ![source[t]] = Len(table[source[t]]) + 1]
    /\ Top.op = "run" => received' = <<>> /\ partitions' = <<>>
    /\ Top.op = "new" => received' = received /\ partitions' = partitions

LEMMA CallFailsStep ==
    ASSUME SInv, NEW t \in Transfers, CallFails(t)
    PROVE  Progress'
<1> USE DEF SInv, Progress
<1>1. PICK e \in Exceptions : outcome' = [outcome EXCEPT ![t] = e]
  BY DEF CallFails
<1>2. /\ outcome'[t] = e /\ e \notin {None, "made", "ok"} /\ chunk'[t] = <<>>
      /\ \A u \in Transfers \ {t} : outcome'[u] = outcome[u] /\ chunk'[u] = chunk[u]
  BY <1>1, ExceptionsAre DEF CallFails, Kinds, Fine
<1>3. /\ calls \in Seq(Call) /\ calls # <<>> /\ Top.t = t /\ Top.op \in {"new", "run"}
      /\ Len(calls) \in DOMAIN calls /\ Top = calls[Len(calls)]
  BY TopIs DEF CallFails, IInv, Typing
<1>4. \A u \in Transfers \ {t} : Ended(u) => Ended(u)'
  <2> SUFFICES ASSUME NEW u \in Transfers \ {t}, Ended(u) PROVE Ended(u)'
    OBVIOUS
  <2>1. cursor[Cursor(u)] > Len(table[source[u]]) /\ Cursor(u)' = Cursor(u)
    BY DEF Ended, Cursor, CallFails
  <2>2. CASE cursor' = cursor
    BY <2>2, <2>1 DEF Ended, CallFails
  <2>3. CASE source[t] \in Generators /\ cursor' = [cursor EXCEPT ![source[t]] = Len(table[source[t]]) + 1]
    <3>1. CASE Cursor(u) # source[t]
      BY <2>1, <2>3, <3>1 DEF Ended, CallFails
    <3>2. CASE Cursor(u) = source[t]
      <4>1. source[u] = source[t]
        BY <2>3, <3>2, SourcesAre DEF Cursor
      <4>2. cursor'[source[t]] = Len(table[source[t]]) + 1 /\ Len(table[source[t]]) \in Nat
        BY <2>3, TableIs, SourcesAre DEF Kinds
      <4> QED
        BY <2>1, <3>2, <4>1, <4>2 DEF Ended, CallFails
    <3> QED
      BY <3>1, <3>2
  <2> QED
    BY <2>2, <2>3 DEF CallFails
<1>5. Others(t)
  BY <1>2, <1>4 DEF Others, CallFails
<1>6. Stack' /\ Running' = Running \ {t}
  BY <1>3, <1>5, StackPops DEF CallFails
<1>7. Top.op = "run" <=> t \in Running
  BY <1>3, RunningPopped DEF CallFails
<1>8. Apart(t)
  <2> SUFFICES ASSUME NEW u \in Transfers \ {t}, u \in Running PROVE received' = received
    BY <1>2, <1>6 DEF Apart, CallFails
  <2>1. Top.op = "new"
    BY <1>3, <1>7, OneRun
  <2> QED
    BY <2>1 DEF CallFails
<1>9. source[t] # None /\ t \notin waiting' \cup Running' /\ published'[t] = <<>>
  <2>1. Sound(Top.op, t, Top.step)
    BY <1>3, TopIs
  <2>2. Top.op = "new" => t \notin waiting
    BY <1>3 DEF IInv, Making
  <2>3. Top.op = "run" => t \notin waiting
    BY <2>1 DEF Sound, IInv, UsedOnce
  <2>4. outcome[t] \in {None, "made"}
    BY <1>3, <2>1 DEF Sound
  <2>5. published[t] = <<>>
    BY <2>4, ExceptionsAre DEF Lives
  <2> QED
    BY <1>3, <1>6, <2>2, <2>3, <2>5 DEF CallFails, IInv, Making
<1>10. /\ \A x \in Generators \cup Transfers : cursor'[x] = cursor[x] \/ x = source[t]
       /\ \A g \in Generators : cursor'[g] = cursor[g] \/ (source[t] = g /\ cursor'[g] = Len(table[g]) + 1)
       /\ cursor' \in [Generators \cup Transfers -> Nat]
  <2>1. source[t] \in Generators => Len(table[source[t]]) \in Nat
    BY TableIs, SourcesAre
  <2>2. CASE cursor' = cursor
    BY <2>2 DEF Kinds
  <2>3. CASE source[t] \in Generators /\ cursor' = [cursor EXCEPT ![source[t]] = Len(table[source[t]]) + 1]
    <3> DEFINE s == source[t]
               k == Len(table[s]) + 1
    <3>1. k \in Nat /\ s \in Generators /\ cursor' = [cursor EXCEPT ![s] = k]
      BY <2>1, <2>3
    <3>2. cursor \in [Generators \cup Transfers -> Nat]
      BY DEF Kinds
    <3> HIDE DEF s, k
    <3>3. /\ cursor' \in [Generators \cup Transfers -> Nat] /\ cursor'[s] = k
          /\ \A x \in Generators \cup Transfers : x # s => cursor'[x] = cursor[x]
      BY <3>1, <3>2
    <3> QED
      BY <3>1, <3>3 DEF s, k
  <2> QED
    BY <2>2, <2>3 DEF CallFails
<1>11. Kinds'
  <2>1. /\ table' = table /\ chunk' \in [Transfers -> Seq(RowIds)]
        /\ outcome' \in [Transfers -> Exceptions \cup {None, "made", "ok"}]
        /\ first' = first /\ published' = published /\ held' \subseteq Natives
    <3>1. <<>> \in Seq(RowIds)
      OBVIOUS
    <3> QED
      BY <1>1, <3>1 DEF CallFails, Kinds
  <2>2. received' \in Seq(RowBatches \cup Batch)
    <3>1. received \in Seq(RowBatches \cup Batch)
      BY DEF Kinds
    <3>2. received' = received \/ received' = <<>>
      BY <1>3 DEF CallFails
    <3>3. <<>> \in Seq(RowBatches \cup Batch)
      BY EmptySeq
    <3> QED
      BY <3>1, <3>2, <3>3
  <2>3. \A g \in Generators : cursor'[g] <= Len(table[g]) + 1
    <3> SUFFICES ASSUME NEW g \in Generators PROVE cursor'[g] <= Len(table[g]) + 1
      OBVIOUS
    <3>1. Len(table[g]) \in Nat /\ cursor[g] <= Len(table[g]) + 1
      BY TableIs, SourcesAre DEF Kinds
    <3>2. cursor'[g] = cursor[g] \/ cursor'[g] = Len(table[g]) + 1
      BY <1>10
    <3> QED
      BY <3>1, <3>2
  <2>4. RowIds' = RowIds
    BY <2>1 DEF RowIds, Rows
  <2>5. RowBatches' = RowBatches
    BY <2>1, <2>4 DEF RowBatches, Columns, Row
  <2> QED
    BY <1>10, <2>1, <2>2, <2>3, <2>4, <2>5 DEF Kinds
<1>12. Lives'
  <2>1. LivesOf(t)'
    BY <1>2, <1>9 DEF LivesOf, CallFails
  <2> QED
    BY <1>8, <2>1, LivesApart
<1>13. Given'
  <2>1. \A i \in DOMAIN calls' : i \in DOMAIN calls /\ calls'[i] = calls[i]
    BY <1>3, FrontCalls DEF CallFails
  <2>2. \A u \in Transfers : source'[u] \in Iterables => published'[u] \in Seq(RowBatches)'
    <3>1. RowBatches' = RowBatches
      BY DEF RowBatches, Columns, RowIds, Rows, Row, CallFails
    <3> QED
      BY <3>1 DEF CallFails, Given
  <2>3. CASE Top.op = "run"
    <3>1. Running' = {}
      BY <1>6, <1>7, <2>3, OneRun
    <3>2. received' = <<>> /\ partitions' = <<>>
      BY <2>3 DEF CallFails
    <3> QED
      BY <2>2, <3>1, <3>2 DEF Given
  <2>4. CASE Top.op = "new"
    <3>1. Running' = Running /\ received' = received /\ partitions' = partitions
      BY <1>6, <1>7, <2>4 DEF CallFails
    <3>2. RowBatches' = RowBatches
      BY DEF RowBatches, Columns, RowIds, Rows, Row, CallFails
    <3> QED
      BY <2>1, <2>2, <3>1, <3>2 DEF Given, CallFails
  <2> QED
    BY <1>3, <2>3, <2>4
<1>14. Chunks'
  <2>1. Len(chunk'[t]) <= ChunkRows
    BY <1>2, SourcesAre
  <2> QED
    BY <1>2, <2>1 DEF Chunks, CallFails
<1>15. RowsDropped(t)
  <2>1. \A u \in Transfers \ {t} : RowsKept(u)
    BY <1>8, ApartKeeps
  <2>2. Mine'[t] = <<>>
    <3>1. Batches'[t] = <<>>
      BY <1>9, MineIs
    <3>2. <<>> \o <<>> = <<>>
      OBVIOUS
    <3> QED
      BY <1>2, <3>1, <3>2, MineIs, RowsInNone
  <2>3. \A u \in Transfers : cursor'[u] = cursor[u]
    BY <1>10, SourcesAre DEF CallFails
  <2> QED
    BY <1>2, <1>10, <2>1, <2>2, <2>3 DEF RowsDropped, CallFails, Fine
<1>16. OfGenerators' /\ NoneLost' /\ OfOthers'
  BY <1>15, GeneratorsDrop, NoneLostDrop, OthersDrop
<1>17. Schema'
  <2>1. Settled(t)'
    BY <1>2, <1>9 DEF Settled
  <2> QED
    BY <1>8, <2>1, SettledApart DEF CallFails
<1> QED
  BY <1>6, <1>11, <1>12, <1>13, <1>14, <1>16, <1>17

\* The actions that are such a step.
LEMMA Raises ==
    ASSUME SInv, NEW t \in Transfers,
           \/ BodyRaises(t) \/ GeneratorBusy(t)
           \/ RefuseRows(t) \/ RefuseDestination(t) \/ RefuseConsumed(t)
           \/ ChunkFails(t) \/ ResolveFails(t) \/ BatchRefused(t)
           \/ OpenFails(t) \/ DecodeFails(t) \/ DestinationFails(t)
    PROVE  CallFails(t)
<1>1. calls \in Seq(Call) /\ (calls # <<>> => Top.op \in {"new", "run"})
  BY TopIs DEF SInv, IInv, Typing
<1>2. ASSUME NEW op, NEW step, At(op, t, step)
      PROVE  calls # <<>> /\ Top.t = t /\ Top.op = op
  BY <1>2 DEF At
<1>3. ASSUME Top.op = "new", calls # <<>>, Top.t = t, NEW e \in Exceptions, NewRaises(t, e),
             UNCHANGED <<table, source, first, published, waiting, ran, received, partitions>>,
             held' \subseteq held,
             \/ cursor' = cursor
             \/ /\ source[t] \in Generators
                /\ cursor' = [cursor EXCEPT ![source[t]] = Len(table[source[t]]) + 1]
      PROVE  CallFails(t)
  BY <1>3 DEF NewRaises, CallFails
<1>4. ASSUME Top.op = "run", calls # <<>>, Top.t = t, NEW e \in Exceptions, RunReturns(t, e),
             UNCHANGED <<table, source, first, published, waiting, ran, held>>,
             \/ cursor' = cursor
             \/ /\ source[t] \in Generators
                /\ cursor' = [cursor EXCEPT ![source[t]] = Len(table[source[t]]) + 1]
      PROVE  CallFails(t)
  BY <1>4 DEF RunReturns, CallFails
<1>5. ASSUME calls # <<>>, Top.t = t, NEW e \in Exceptions, RowFails(t, e),
             \/ cursor' = cursor
             \/ /\ source[t] \in Generators
                /\ cursor' = [cursor EXCEPT ![source[t]] = Len(table[source[t]]) + 1]
      PROVE  CallFails(t)
  <2>1. UNCHANGED <<table, source, first, published, waiting, ran, held>>
    BY <1>5 DEF RowFails, args, connectors
  <2>2. CASE Top.op = "new"
    BY <1>3, <1>5, <2>1, <2>2 DEF RowFails, filesVars
  <2>3. CASE Top.op = "run"
    BY <1>4, <1>5, <2>1, <2>3, ExceptionsAre DEF RowFails
  <2> QED
    BY <1>1, <1>5, <2>2, <2>3
<1>6. CASE BodyRaises(t)
  <2>1. calls # <<>> /\ Top.t = t /\ source[t] \in Generators
    BY <1>6 DEF BodyRaises, InBody, Asking
  <2>2. cursor' = [cursor EXCEPT ![source[t]] = Len(table[source[t]]) + 1]
    BY <1>6, <2>1 DEF BodyRaises, Cursor
  <2> QED
    BY <1>5, <1>6, <2>1, <2>2, ExceptionsAre DEF BodyRaises
<1>7. CASE GeneratorBusy(t)
  BY <1>5, <1>7, ExceptionsAre DEF GeneratorBusy
<1>8. CASE RefuseRows(t)
  <2>1. FirstChunkError(t) \in Exceptions
    BY <1>8, ExceptionsAre DEF RefuseRows, FirstChunkError
  <2> QED
    BY <1>2, <1>3, <1>8, <2>1 DEF RefuseRows, filesVars, args, connectors
<1>9. CASE RefuseDestination(t)
  BY <1>2, <1>3, <1>9, ExceptionsAre DEF RefuseDestination, filesVars, args, connectors
<1>10. CASE RefuseConsumed(t)
  BY <1>2, <1>3, <1>10, ExceptionsAre DEF RefuseConsumed, filesVars, args
<1>11. CASE ChunkFails(t)
  BY <1>2, <1>4, <1>11, ExceptionsAre DEF ChunkFails, args, connectors
<1>12. CASE ResolveFails(t)
  BY <1>2, <1>4, <1>12, ExceptionsAre DEF ResolveFails, args, connectors
<1>13. CASE BatchRefused(t)
  BY <1>2, <1>4, <1>13, ExceptionsAre DEF BatchRefused, args, connectors
<1>14. CASE OpenFails(t)
  <2>1. ToPyErr[OpenError] \in Exceptions
    BY ExceptionsAre DEF OpenError
  <2> QED
    BY <1>2, <1>4, <1>14, <2>1 DEF OpenFails, args, connectors
<1>15. CASE DecodeFails(t)
  BY <1>2, <1>4, <1>15, ExceptionsAre DEF DecodeFails, args, connectors
<1>16. CASE DestinationFails(t)
  BY <1>4, <1>16, ExceptionsAre DEF DestinationFails, args, connectors
<1> QED
  BY <1>6, <1>7, <1>8, <1>9, <1>10, <1>11, <1>12, <1>13, <1>14, <1>15, <1>16

\* A run inside another panics, and its rows are dropped.
LEMMA RunPanicsStep ==
    ASSUME SInv, NEW t \in Transfers, RunPanics(t)
    PROVE  Progress'
<1> USE DEF SInv, Progress
<1> DEFINE e == "PanicException"
<1>1. /\ t \in waiting /\ waiting' = waiting \ {t} /\ ran' = ran \cup {t} /\ MayCall
      /\ calls' = Pausing /\ chunk' = [chunk EXCEPT ![t] = <<>>]
      /\ outcome' = [outcome EXCEPT ![t] = e]
      /\ table' = table /\ source' = source /\ first' = first /\ published' = published
      /\ cursor' = cursor /\ held' = held /\ received' = received /\ partitions' = partitions
  BY DEF RunPanics, filesVars, args
<1>2. e \in Exceptions /\ e \notin {None, "made", "ok"}
  BY ExceptionsAre DEF Fine
<1>3. /\ outcome'[t] = e /\ chunk'[t] = <<>>
      /\ \A u \in Transfers \ {t} : outcome'[u] = outcome[u] /\ chunk'[u] = chunk[u]
  BY <1>1 DEF Kinds
<1> HIDE DEF e
<1>4. calls \in Seq(Call) /\ \A i \in DOMAIN calls : calls[i].t # t
  <2>1. calls \in Seq(Call)
    BY DEF IInv, Typing
  <2>2. \A i \in DOMAIN calls : calls[i].op = "new" => calls[i].t # t
    BY <1>1 DEF IInv, Making
  <2>3. \A i \in DOMAIN calls : calls[i].op = "run" => calls[i].t # t
    BY <1>1 DEF Stack, Sound, IInv, UsedOnce
  <2> QED
    BY <2>1, <2>2, <2>3, CallsAre
<1>5. Others(t)
  <2>1. \A u \in Transfers : Ended(u)' = Ended(u)
    BY <1>1 DEF Ended, Cursor
  <2> QED
    BY <1>1, <1>3, <2>1 DEF Others
<1>6. Stack' /\ Running' = Running
  BY <1>1, <1>4, <1>5, StackPauses
<1>7. t \notin Running
  BY <1>4, RunningIs
<1>8. Apart(t)
  BY <1>1, <1>3, <1>6 DEF Apart
<1>9. source[t] # None /\ t \notin waiting' \cup Running' /\ published'[t] = <<>>
  BY <1>1, <1>6, <1>7, ExceptionsAre DEF Lives, IInv, Making
<1>10. RowBatches' = RowBatches /\ RowIds' = RowIds
  BY <1>1 DEF RowBatches, Columns, RowIds, Rows, Row
<1>11. Kinds'
  <2>1. <<>> \in Seq(RowIds)
    OBVIOUS
  <2> QED
    BY <1>1, <1>2, <1>10, <2>1 DEF Kinds
<1>12. Lives'
  <2>1. LivesOf(t)'
    BY <1>1, <1>2, <1>3, <1>9 DEF LivesOf
  <2> QED
    BY <1>8, <2>1, LivesApart
<1>13. Given'
  <2>1. \A i \in DOMAIN calls' : calls'[i].step = "resolve" => i \in DOMAIN calls /\ calls[i].step = "resolve"
    <3>1. CASE calls = <<>>
      BY <1>1, <3>1 DEF Pausing
    <3>2. CASE calls # <<>>
      <4>1. /\ DOMAIN calls' = DOMAIN calls /\ calls'[Len(calls)].step = "body"
            /\ \A i \in DOMAIN calls : i # Len(calls) => calls'[i].step = calls[i].step
        BY <1>1, <1>4, <3>2, PausingIsGoto, GotoCalls
      <4> QED
        BY <4>1
    <3> QED
      BY <3>1, <3>2
  <2> QED
    BY <1>1, <1>6, <1>10, <2>1 DEF Given
<1>14. Chunks'
  <2>1. Len(chunk'[t]) <= ChunkRows
    BY <1>3, SourcesAre
  <2> QED
    BY <1>1, <1>3, <2>1 DEF Chunks
<1>15. RowsDropped(t)
  <2>1. \A u \in Transfers \ {t} : RowsKept(u)
    BY <1>8, ApartKeeps
  <2>2. Mine'[t] = <<>>
    <3>1. Batches'[t] = <<>>
      BY <1>9, MineIs
    <3>2. <<>> \o <<>> = <<>>
      OBVIOUS
    <3> QED
      BY <1>3, <3>1, <3>2, MineIs, RowsInNone
  <2> QED
    BY <1>1, <1>2, <1>3, <2>1, <2>2 DEF RowsDropped, Fine
<1>16. OfGenerators' /\ NoneLost' /\ OfOthers'
  BY <1>15, GeneratorsDrop, NoneLostDrop, OthersDrop
<1>17. Schema'
  <2>1. Settled(t)'
    BY <1>2, <1>3, <1>9 DEF Settled
  <2> QED
    BY <1>1, <1>8, <2>1, SettledApart
<1> QED
  BY <1>6, <1>11, <1>12, <1>13, <1>14, <1>16, <1>17

-----------------------------------------------------------------------------
(* Steps that leave the rows where they are.                               *)

\* What all of them have in common.
Quietly ==
    /\ table' = table /\ source' = source /\ outcome' = outcome /\ chunk' = chunk
    /\ first' = first /\ published' = published /\ held' = held
    /\ waiting' \subseteq waiting /\ waiting' \cup Running' \subseteq waiting \cup Running
    /\ \A u \in Transfers : source[u] \in Iterables => Batches'[u] = Batches[u]
    /\ \A g \in Generators : CursorKept(g, g)
    /\ \A u \in Transfers : source[u] \in Lists \cup Frames => CursorKept(u, source[u])

LEMMA QuietlyStep ==
    ASSUME SInv, Quietly
    PROVE  Lives' /\ Chunks' /\ OfGenerators' /\ NoneLost' /\ OfOthers' /\ Schema'
<1> USE DEF SInv, Progress
<1>1. \A u \in Transfers : source[u] \in Iterables => Mine'[u] = Mine[u]
  BY MineIs DEF Quietly
<1>2. ASSUME NEW u \in Transfers PROVE RowsKept(u) /\ SchemaKept(u)
  BY <1>1 DEF RowsKept, SchemaKept, Quietly
<1>3. RowsStay
  BY <1>2 DEF RowsStay, Quietly
<1>4. OfGenerators' /\ NoneLost' /\ OfOthers'
  BY <1>3, RowsAreThere, GeneratorsStay, NoneLostStay, OthersStay
<1>5. Schema'
  <2>1. ASSUME NEW u \in Transfers PROVE Settled(u)'
    BY <1>2, SettledStays, SchemaIs DEF Quietly
  <2> QED
    BY <2>1 DEF Schema, Settled
<1>6. Lives'
  BY DEF Lives, Quietly
<1>7. Chunks'
  BY DEF Chunks, Quietly
<1> QED
  BY <1>4, <1>5, <1>6, <1>7

LEMMA SameRows ==
    ASSUME table' = table
    PROVE  RowIds' = RowIds /\ RowBatches' = RowBatches
BY DEF RowBatches, Columns, RowIds, Rows, Row

\* Iterables have their batches from no run of files.
LEMMA OtherBatches ==
    ASSUME SInv, Running' = Running, published' = published,
           \A t \in Running : source[t] \notin Iterables
    PROVE  \A u \in Transfers : source[u] \in Iterables => Batches'[u] = Batches[u]
BY MineIs

\* The stack is left alone, with all it speaks of.
LEMMA StackSame ==
    ASSUME Stack, calls' = calls, UNCHANGED <<source, outcome, chunk, cursor, table, ran>>
    PROVE  Stack' /\ Running' = Running
<1>1. Running' = Running
  BY DEF Running
<1>2. Stack'
  BY DEF Stack, Sound, Ended, Cursor
<1> QED
  BY <1>1, <1>2

\* The program goes on elsewhere: a second run is refused, or the files change.
LEMMA IdleStep ==
    ASSUME SInv, (\E t \in Transfers : RunAgain(t)) \/ Replace \/ UNCHANGED vars
    PROVE  Progress'
<1> USE DEF SInv, Progress
<1>1. /\ UNCHANGED <<table, source, outcome, chunk, first, published, held, waiting, ran, cursor,
                     received, partitions>>
      /\ calls' = calls \/ (MayCall /\ calls' = Pausing)
  <2>1. CASE \E t \in Transfers : RunAgain(t)
    BY <2>1 DEF RunAgain, filesVars, args, connectors, results
  <2>2. CASE Replace
    BY <2>2, ReplaceStep DEF Replace, sessionVars, args, connectors, results
  <2>3. CASE UNCHANGED vars
    BY <2>3 DEF vars, filesVars, sessionVars, args, connectors, results
  <2> QED
    BY <2>1, <2>2, <2>3
<1>2. calls \in Seq(Call)
  BY DEF IInv, Typing
<1>3. \A u \in Transfers : Ended(u)' = Ended(u)
  BY <1>1 DEF Ended, Cursor
<1>4. Others(0 - 1) /\ \A i \in DOMAIN calls : calls[i].t # 0 - 1
  <2>1. \A i \in DOMAIN calls : calls[i].t \in Nat
    BY <1>2, CallsAre, SessionAssumption DEF SessionAssumption
  <2>2. Others(0 - 1)
    BY <1>1, <1>3 DEF Others
  <2> QED
    BY <2>1, <2>2
<1>5. Stack' /\ Running' = Running
  <2>1. CASE calls' = calls
    BY <1>1, <2>1, StackSame
  <2>2. CASE MayCall /\ calls' = Pausing
    BY <1>2, <1>4, <2>2, StackPauses
  <2> QED
    BY <1>1, <2>1, <2>2
<1>6. \A i \in DOMAIN calls' : calls'[i].step = "resolve" => i \in DOMAIN calls /\ calls[i].step = "resolve"
  <2>1. CASE calls' = calls
    BY <2>1
  <2>2. CASE calls = <<>> /\ calls' = Pausing
    BY <2>2 DEF Pausing
  <2>3. CASE calls # <<>> /\ calls' = Pausing
    <3>1. /\ DOMAIN calls' = DOMAIN calls /\ calls'[Len(calls)].step = "body"
          /\ \A i \in DOMAIN calls : i # Len(calls) => calls'[i].step = calls[i].step
      BY <1>2, <2>3, PausingIsGoto, GotoCalls
    <3> QED
      BY <3>1
  <2> QED
    BY <1>1, <2>1, <2>2, <2>3
<1>7. RowIds' = RowIds /\ RowBatches' = RowBatches
  BY <1>1, SameRows
<1>8. Kinds'
  BY <1>1, <1>7 DEF Kinds
<1>9. Given'
  BY <1>1, <1>5, <1>6, <1>7 DEF Given
<1>10. Quietly
  <2>1. Batches' = Batches
    BY <1>1, <1>5 DEF Batches
  <2> QED
    BY <1>1, <1>5, <2>1 DEF Quietly, CursorKept
<1>11. Lives' /\ Chunks' /\ OfGenerators' /\ NoneLost' /\ OfOthers' /\ Schema'
  BY <1>10, QuietlyStep
<1> QED
  BY <1>5, <1>8, <1>9, <1>11

\* What a call finds at its step.
LEMMA AtIs ==
    ASSUME SInv, NEW op, NEW t, NEW step, At(op, t, step)
    PROVE  /\ calls \in Seq(Call) /\ calls # <<>> /\ Len(calls) \in DOMAIN calls
           /\ Top = calls[Len(calls)] /\ Top.op = op /\ Top.t = t /\ Top.step = step
           /\ Sound(op, t, step) /\ source[t] # None
           /\ op = "run" => t \in Running
           /\ op = "new" => t \notin Running /\ t \notin waiting
           /\ \A u \in Running : op = "run" => u = t
<1> USE DEF SInv, Progress
<1>1. /\ calls \in Seq(Call) /\ calls # <<>> /\ Len(calls) \in DOMAIN calls
      /\ Top = calls[Len(calls)] /\ Top.op = op /\ Top.t = t /\ Top.step = step
  BY TopIs DEF At, IInv, Typing
<1>2. Sound(op, t, step) /\ source[t] # None
  BY <1>1, TopIs DEF IInv, Making
<1>3. op = "run" => t \in Running
  BY <1>1, RunningIs
<1>4. op = "new" => t \notin Running /\ t \notin waiting
  BY <1>1, RunningIs DEF Stack, IInv, Making
<1>5. \A u \in Running : op = "run" => u = t
  BY <1>3, OneRun
<1> QED
  BY <1>1, <1>2, <1>3, <1>4, <1>5

\* The files are named or read: no rows of an iterable are concerned.
LEMMA FilesStep ==
    ASSUME SInv, NEW t \in Transfers, Resolve(t) \/ ReadFiles(t)
    PROVE  Progress'
<1> USE DEF SInv, Progress
<1>1. PICK step \in {"resolve", "files"} : At("run", t, step)
  BY DEF Resolve, ReadFiles
<1>2. /\ calls \in Seq(Call) /\ calls # <<>> /\ Len(calls) \in DOMAIN calls
      /\ Top = calls[Len(calls)] /\ Top.op = "run" /\ Top.t = t /\ Top.step = step
      /\ Sound("run", t, step) /\ t \in Running /\ \A u \in Running : u = t
  BY <1>1, AtIs
<1>3. source[t] = FileObject /\ source[t] \notin Iterables
  BY <1>2, SourcesAre DEF Sound
<1>4. /\ UNCHANGED <<table, source, outcome, chunk, first, published, held, waiting, ran, cursor>>
      /\ (calls' = calls /\ step = "files") \/ Goto("files")
      /\ received' = received \/ \E b \in Batch : received' = Append(received, b)
  <2>1. CASE Resolve(t)
    BY <2>1 DEF Resolve, StreamPartitions, args, connectors, results
  <2>2. CASE ReadFiles(t)
    <3>1. step = "files"
      BY <1>1, <2>2 DEF ReadFiles, At
    <3> QED
      BY <2>2, <3>1, ReadBatchStep DEF ReadFiles, sessionVars, args, connectors, results, OpenFile, EndFile
  <2> QED
    BY <2>1, <2>2
<1>5. \A u \in Transfers : Ended(u)' = Ended(u)
  BY <1>4 DEF Ended, Cursor
<1>6. Others(t)
  BY <1>4, <1>5 DEF Others
<1>7. Sound("run", t, "files")'
  BY <1>2, <1>3, <1>4, SourcesAre DEF Sound, Iterables
<1>8. Stack' /\ Running' = Running
  <2>1. CASE calls' = calls
    BY <1>4, <2>1, StackSame
  <2>2. CASE Goto("files")
    BY <1>2, <1>6, <1>7, <2>2, StackGoto DEF Steps
  <2> QED
    BY <1>4, <2>1, <2>2
<1>9. \A i \in DOMAIN calls' : calls'[i].step # "resolve"
  <2>1. \A i \in DOMAIN calls : i # Len(calls) => calls[i].step = "body"
    BY <1>2, CallsAre DEF Stack
  <2>2. CASE calls' = calls /\ step = "files"
    BY <1>2, <2>1, <2>2
  <2>3. CASE Goto("files")
    <3>1. /\ DOMAIN calls' = DOMAIN calls /\ calls'[Len(calls)].step = "files"
          /\ \A i \in DOMAIN calls : i # Len(calls) => calls'[i].step = calls[i].step
      BY <1>2, <2>3, GotoCalls DEF Steps
    <3> QED
      BY <2>1, <3>1
  <2> QED
    BY <1>4, <2>2, <2>3
<1>10. RowIds' = RowIds /\ RowBatches' = RowBatches
  BY <1>4, SameRows
<1>11. received' \in Seq(RowBatches \cup Batch)
  <2> DEFINE B == RowBatches \cup Batch
  <2>1. received \in Seq(B) /\ \A b \in Batch : b \in B
    BY DEF Kinds
  <2> HIDE DEF B
  <2>2. received' \in Seq(B)
    BY <1>4, <2>1
  <2> QED
    BY <2>2 DEF B
<1>12. Kinds'
  BY <1>4, <1>10, <1>11 DEF Kinds
<1>13. Given'
  BY <1>2, <1>3, <1>4, <1>8, <1>9, <1>10 DEF Given
<1>14. Quietly
  <2>1. \A u \in Transfers : source[u] \in Iterables => Batches'[u] = Batches[u]
    BY <1>2, <1>3, <1>4, <1>8, OtherBatches
  <2> QED
    BY <1>4, <1>8, <2>1 DEF Quietly, CursorKept
<1>15. Lives' /\ Chunks' /\ OfGenerators' /\ NoneLost' /\ OfOthers' /\ Schema'
  BY <1>14, QuietlyStep
<1> QED
  BY <1>8, <1>12, <1>13, <1>15

\* A run begins.
LEMMA RunBeginsStep ==
    ASSUME SInv, NEW t \in Transfers, Run(t)
    PROVE  Progress'
<1> USE DEF SInv, Progress
<1>1. PICK s \in Steps :
         /\ Enter("run", t, s)
         /\ s = IF source[t] = FileObject THEN "resolve" ELSE IF chunk[t] # <<>> THEN "coerced" ELSE "next"
  BY DEF Run, Steps
<1>2. /\ MayCall /\ t \in waiting /\ Running = {} /\ waiting' = waiting \ {t} /\ ran' = ran \cup {t}
      /\ UNCHANGED <<table, source, outcome, chunk, first, published, held, cursor, received, partitions>>
  BY DEF Run, filesVars, args, results
<1>3. calls \in Seq(Call) /\ \A i \in DOMAIN calls : calls[i].t # t
  <2>1. calls \in Seq(Call)
    BY DEF IInv, Typing
  <2>2. \A i \in DOMAIN calls : calls[i].op = "new" => calls[i].t # t
    BY <1>2 DEF IInv, Making
  <2>3. \A i \in DOMAIN calls : calls[i].op # "run"
    BY <1>2, RunningIs
  <2> QED
    BY <2>1, <2>2, <2>3, CallsAre
<1>4. Others(t)
  <2>1. \A u \in Transfers : Ended(u)' = Ended(u)
    BY <1>2 DEF Ended, Cursor
  <2> QED
    BY <1>2, <2>1 DEF Others
<1>5. outcome[t] = "made" /\ source[t] \in Sources /\ published[t] = <<>>
  BY <1>2, ExceptionsAre DEF Lives
<1>6. Sound("run", t, s)'
  <2>1. source[t] # FileObject => source[t] \in Iterables
    BY <1>5 DEF Sources
  <2>2. chunk[t] = <<>> => Len(chunk[t]) < ChunkRows
    BY SourcesAre
  <2>3. source[t] = FileObject => s = "resolve"
    BY <1>1
  <2>4. source[t] # FileObject => s = IF chunk[t] # <<>> THEN "coerced" ELSE "next"
    BY <1>1
  <2> QED
    BY <1>2, <1>5, <2>1, <2>2, <2>3, <2>4, SourcesAre DEF Sound
<1>7. Stack' /\ Running' = {t}
  BY <1>1, <1>2, <1>3, <1>4, <1>6, StackEnters
<1>8. received = <<>> /\ partitions = <<>>
  BY <1>2 DEF Given
<1>9. RowIds' = RowIds /\ RowBatches' = RowBatches
  BY <1>2, SameRows
<1>10. Kinds'
  BY <1>2, <1>9 DEF Kinds
<1>11. Given'
  <2>1. <<>> \in Seq(RowBatches)
    BY EmptySeq
  <2> QED
    BY <1>2, <1>7, <1>8, <1>9, <2>1 DEF Given
<1>12. Quietly
  <2>1. ASSUME NEW u \in Transfers PROVE Batches'[u] = Batches[u]
    <3>1. CASE u = t
      BY <1>2, <1>5, <1>7, <1>8, <3>1, MineIs
    <3>2. CASE u # t
      BY <1>2, <1>7, <3>2, MineIs
    <3> QED
      BY <3>1, <3>2
  <2>2. waiting' \cup Running' \subseteq waiting \cup Running
    BY <1>2, <1>7
  <2> QED
    BY <1>2, <2>1, <2>2 DEF Quietly, CursorKept
<1>13. Lives' /\ Chunks' /\ OfGenerators' /\ NoneLost' /\ OfOthers' /\ Schema'
  BY <1>12, QuietlyStep
<1> QED
  BY <1>7, <1>10, <1>11, <1>13

-----------------------------------------------------------------------------
(* Rows are taken.                                                         *)

LEMMA ConcatAppend ==
    ASSUME NEW S, NEW s \in Seq(S), NEW u \in Seq(S), NEW r \in S
    PROVE  s \o Append(u, r) = Append(s \o u, r)
<1>1. Append(u, r) = u \o <<r>> /\ <<r>> \in Seq(S) /\ s \o u \in Seq(S)
  BY AppendIsConcat, ConcatProperties
<1>2. Append(s \o u, r) = (s \o u) \o <<r>>
  BY <1>1, AppendIsConcat
<1> QED
  BY <1>1, <1>2, ConcatAssociative

\* What a call that asks for a row finds.
LEMMA AskingIs ==
    ASSUME SInv, NEW t \in Transfers, Asking(t)
    PROVE  /\ calls \in Seq(Call) /\ calls # <<>> /\ Top.t = t /\ Top.op \in {"new", "run"}
           /\ source[t] \in Iterables /\ table[source[t]] \in Seq(ToSet(table[source[t]]))
           /\ Len(table[source[t]]) \in Nat
           /\ Cursor(t) \in Generators \cup Transfers /\ cursor[Cursor(t)] \in Nat
           /\ source[t] \notin Frames => Len(chunk[t]) < ChunkRows
           /\ Top.op = "new" => outcome[t] = None
           /\ Top.op = "run" => outcome[t] = "made" /\ t \in ran
           /\ chunk[t] \in Seq(RowIds)
<1> USE DEF SInv, Progress
<1>1. /\ calls \in Seq(Call) /\ calls # <<>> /\ Top.t = t /\ Top.op \in {"new", "run"}
      /\ Top.step \in {"next", "body"} /\ Sound(Top.op, t, Top.step)
  BY TopIs DEF Asking, IInv, Typing
<1>2. source[t] \in Iterables
  BY <1>1, SourcesAre DEF Sound
<1>3. Cursor(t) \in Generators \cup Transfers
  BY DEF Cursor
<1> QED
  BY <1>1, <1>2, <1>3, TableIs DEF Sound, Kinds

LEMMA EndRowsStep ==
    ASSUME SInv, NEW t \in Transfers, EndRows(t)
    PROVE  Progress'
<1> USE DEF SInv, Progress
<1> DEFINE x == Cursor(t)
           n == Len(table[source[t]])
<1>1. /\ calls \in Seq(Call) /\ calls # <<>> /\ Top.t = t /\ Top.op \in {"new", "run"}
      /\ source[t] \in Iterables /\ n \in Nat
      /\ x \in Generators \cup Transfers /\ cursor[x] \in Nat
      /\ Top.op = "new" => outcome[t] = None
      /\ Top.op = "run" => outcome[t] = "made" /\ t \in ran
  BY AskingIs DEF EndRows
<1>2. /\ cursor[x] >= n /\ cursor' = [cursor EXCEPT ![x] = n + 1] /\ Goto("coerced")
      /\ UNCHANGED <<table, source, outcome, chunk, first, published, held, waiting, ran,
                     received, partitions>>
  BY DEF EndRows, filesVars, args, connectors, results
<1>3. /\ cursor \in [Generators \cup Transfers -> Nat]
      /\ source[t] \in Generators => x = source[t]
      /\ source[t] \notin Generators => x = t
  BY EndedIs DEF Kinds
<1>4. /\ cursor'[x] = n + 1 /\ cursor' \in [Generators \cup Transfers -> Nat]
      /\ \A y \in Generators \cup Transfers : y # x => cursor'[y] = cursor[y]
  <2> HIDE DEF x, n
  <2> QED
    BY <1>1, <1>2, <1>3
<1>5. \A u \in Transfers : Ended(u) => Ended(u)'
  <2> SUFFICES ASSUME NEW u \in Transfers, Ended(u) PROVE Ended(u)'
    OBVIOUS
  <2>1. /\ Ended(u)' <=> cursor'[Cursor(u)] > Len(table[source[u]])
        /\ Cursor(u) \in Generators \cup Transfers /\ cursor[Cursor(u)] > Len(table[source[u]])
    BY <1>2 DEF Ended, Cursor
  <2>2. CASE Cursor(u) = x
    <3>1. source[u] = source[t]
      <4>1. x \in Generators => source[u] = x /\ source[t] = x
        BY <1>3, <2>2, SourcesAre DEF Cursor
      <4>2. x \notin Generators => u = x /\ t = x
        BY <1>3, <2>2, SourcesAre DEF Cursor
      <4> QED
        BY <4>1, <4>2
    <3> QED
      BY <1>1, <1>4, <2>1, <2>2, <3>1
  <2>3. CASE Cursor(u) # x
    BY <1>4, <2>1, <2>3
  <2> QED
    BY <2>2, <2>3
<1>6. Ended(t)'
  BY <1>1, <1>2, <1>4 DEF Ended, Cursor
<1>7. Others(t)
  BY <1>2, <1>5 DEF Others
<1>8. Stack' /\ Running' = Running
  <2>1. ASSUME NEW op, op = Top.op PROVE Sound(op, t, "coerced")'
    BY <1>1, <1>2, <1>6, <2>1, SourcesAre DEF Sound, Sources
  <2> QED
    BY <1>1, <1>2, <1>7, <2>1, StackGoto DEF Steps
<1>9. \A i \in DOMAIN calls' : calls'[i].step = "resolve" => i \in DOMAIN calls /\ calls[i].step = "resolve"
  <2>1. /\ DOMAIN calls' = DOMAIN calls /\ calls'[Len(calls)].step = "coerced"
        /\ \A i \in DOMAIN calls : i # Len(calls) => calls'[i].step = calls[i].step
    BY <1>1, <1>2, GotoCalls DEF Steps
  <2> QED
    BY <2>1
<1>10. RowIds' = RowIds /\ RowBatches' = RowBatches
  BY <1>2, SameRows
<1>11. Kinds'
  <2>1. ASSUME NEW g \in Generators PROVE cursor'[g] <= Len(table[g]) + 1
    <3>1. Len(table[g]) \in Nat /\ cursor[g] <= Len(table[g]) + 1
      BY TableIs, SourcesAre DEF Kinds
    <3>2. CASE g = x
      <4>1. g = source[t]
        BY <1>3, <3>2, SourcesAre
      <4> QED
        BY <1>4, <3>1, <3>2, <4>1
    <3>3. CASE g # x
      BY <1>4, <3>1, <3>3
    <3> QED
      BY <3>2, <3>3
  <2> QED
    BY <1>2, <1>4, <1>10, <2>1 DEF Kinds
<1>12. Given'
  BY <1>2, <1>8, <1>9, <1>10 DEF Given
<1>13. Quietly
  <2>1. Batches' = Batches
    BY <1>2, <1>8 DEF Batches
  <2>2. \A g \in Generators : CursorKept(g, g)
    <3> SUFFICES ASSUME NEW g \in Generators, g = x PROVE CursorKept(g, g)
      BY <1>4 DEF CursorKept
    <3>1. g = source[t]
      BY <1>3, SourcesAre
    <3> QED
      BY <1>2, <1>4, <3>1 DEF CursorKept
  <2>3. ASSUME NEW u \in Transfers, source[u] \in Lists \cup Frames PROVE CursorKept(u, source[u])
    <3>1. CASE u = x
      <4>1. u = t
        BY <1>3, <3>1, SourcesAre
      <4> QED
        BY <1>2, <1>4, <3>1, <4>1 DEF CursorKept
    <3>2. CASE u # x
      BY <1>4, <3>2 DEF CursorKept
    <3> QED
      BY <3>1, <3>2
  <2> QED
    BY <1>2, <1>8, <2>1, <2>2, <2>3 DEF Quietly
<1>14. Lives' /\ Chunks' /\ OfGenerators' /\ NoneLost' /\ OfOthers' /\ Schema'
  BY <1>13, QuietlyStep
<1> QED
  BY <1>8, <1>11, <1>12, <1>14

LEMMA TakeRowStep ==
    ASSUME SInv, NEW t \in Transfers, TakeRow(t)
    PROVE  Progress'
<1> USE DEF SInv, Progress
<1> DEFINE x == Cursor(t)
           n == Len(table[source[t]])
           r == <<source[t], cursor[x] + 1>>
<1>1. /\ calls \in Seq(Call) /\ calls # <<>> /\ Top.t = t /\ Top.op \in {"new", "run"}
      /\ source[t] \in Iterables /\ n \in Nat
      /\ x \in Generators \cup Transfers /\ cursor[x] \in Nat
      /\ source[t] \notin Frames => Len(chunk[t]) < ChunkRows
      /\ Top.op = "new" => outcome[t] = None
      /\ Top.op = "run" => outcome[t] = "made" /\ t \in ran
      /\ chunk[t] \in Seq(RowIds)
  BY AskingIs DEF TakeRow, Take
<1>2. /\ cursor[x] < n /\ cursor' = [cursor EXCEPT ![x] = @ + 1]
      /\ chunk' = [chunk EXCEPT ![t] = Append(@, r)]
      /\ Goto(IF Len(chunk'[t]) = ChunkRows THEN "coerced" ELSE "next")
      /\ UNCHANGED <<table, source, outcome, first, published, held, waiting, ran,
                     received, partitions>>
  BY DEF TakeRow, Take, filesVars, args, connectors, results
<1>3. /\ cursor \in [Generators \cup Transfers -> Nat]
      /\ source[t] \in Generators => x = source[t]
      /\ source[t] \notin Generators => x = t
  BY EndedIs DEF Kinds
<1>4. source[t] \notin Frames
  <2>1. source[t] \in Frames => x = t /\ cursor[t] >= n
    BY <1>3, SourcesAre DEF OfOthers
  <2> HIDE DEF x, n
  <2> QED
    BY <1>1, <1>2, <2>1
<1>5. r \in RowIds
  <2>1. cursor[x] + 1 \in 1..n
    BY <1>1, <1>2
  <2> QED
    BY <1>1, <2>1, TableIs
<1>6. /\ cursor'[x] = cursor[x] + 1 /\ cursor' \in [Generators \cup Transfers -> Nat]
      /\ \A y \in Generators \cup Transfers : y # x => cursor'[y] = cursor[y]
  <2> HIDE DEF x, n
  <2> QED
    BY <1>1, <1>2, <1>3
<1>7. /\ chunk'[t] = Append(chunk[t], r) /\ \A u \in Transfers \ {t} : chunk'[u] = chunk[u]
      /\ chunk' \in [Transfers -> Seq(RowIds)]
  <2> HIDE DEF r
  <2>1. Append(chunk[t], r) \in Seq(RowIds)
    BY <1>1, <1>5
  <2> QED
    BY <1>2, <2>1 DEF Kinds
<1>8. Len(chunk'[t]) = Len(chunk[t]) + 1 /\ Len(chunk[t]) \in Nat /\ chunk'[t] # <<>>
  <2> HIDE DEF r
  <2> QED
    BY <1>1, <1>5, <1>7
<1>9. \A u \in Transfers : Ended(u) => Ended(u)'
  <2> SUFFICES ASSUME NEW u \in Transfers, Ended(u) PROVE Ended(u)'
    OBVIOUS
  <2>1. /\ Ended(u)' <=> cursor'[Cursor(u)] > Len(table[source[u]])
        /\ Cursor(u) \in Generators \cup Transfers /\ cursor[Cursor(u)] > Len(table[source[u]])
    BY <1>2 DEF Ended, Cursor
  <2>2. CASE Cursor(u) = x
    <3>1. source[u] = source[t]
      <4>1. x \in Generators => source[u] = x /\ source[t] = x
        BY <1>3, <2>2, SourcesAre DEF Cursor
      <4>2. x \notin Generators => u = x /\ t = x
        BY <1>3, <2>2, SourcesAre DEF Cursor
      <4> QED
        BY <4>1, <4>2
    <3> QED
      BY <1>1, <1>2, <2>1, <2>2, <3>1
  <2>3. CASE Cursor(u) # x
    BY <1>6, <2>1, <2>3
  <2> QED
    BY <2>2, <2>3
<1>10. Others(t)
  BY <1>2, <1>7, <1>9 DEF Others
<1>11. ChunkRows \in Nat /\ Len(chunk'[t]) <= ChunkRows
  BY <1>1, <1>4, <1>8, SourcesAre
<1>12. PICK s \in {"next", "coerced"} :
          Goto(s) /\ (s = "next" => Len(chunk'[t]) < ChunkRows)
  <2>1. CASE Len(chunk'[t]) = ChunkRows
    BY <1>2, <2>1
  <2>2. CASE Len(chunk'[t]) # ChunkRows
    <3>1. Len(chunk'[t]) < ChunkRows
      BY <1>8, <1>11, <2>2
    <3> QED
      BY <1>2, <2>2, <3>1
  <2> QED
    BY <2>1, <2>2
<1>13. Stack' /\ Running' = Running
  <2>1. ASSUME NEW op, op = Top.op PROVE Sound(op, t, s)'
    BY <1>1, <1>2, <1>8, <1>12, <2>1, SourcesAre DEF Sound, Sources
  <2> QED
    BY <1>1, <1>10, <1>12, <2>1, StackGoto DEF Steps
<1>14. \A i \in DOMAIN calls' : calls'[i].step = "resolve" => i \in DOMAIN calls /\ calls[i].step = "resolve"
  <2>1. /\ DOMAIN calls' = DOMAIN calls /\ calls'[Len(calls)].step = s
        /\ \A i \in DOMAIN calls : i # Len(calls) => calls'[i].step = calls[i].step
    BY <1>1, <1>12, GotoCalls DEF Steps
  <2> QED
    BY <2>1
<1>15. RowIds' = RowIds /\ RowBatches' = RowBatches
  BY <1>2, SameRows
<1>16. Kinds'
  <2>1. ASSUME NEW g \in Generators PROVE cursor'[g] <= Len(table[g]) + 1
    <3>1. Len(table[g]) \in Nat /\ cursor[g] <= Len(table[g]) + 1
      BY TableIs, SourcesAre DEF Kinds
    <3>2. CASE g = x
      <4>1. g = source[t]
        BY <1>3, <3>2, SourcesAre
      <4> QED
        BY <1>1, <1>2, <1>6, <3>1, <3>2, <4>1
    <3>3. CASE g # x
      BY <1>6, <3>1, <3>3
    <3> QED
      BY <3>2, <3>3
  <2> QED
    BY <1>2, <1>6, <1>7, <1>15, <2>1 DEF Kinds
<1>17. Given'
  BY <1>2, <1>13, <1>14, <1>15 DEF Given
<1>18. Batches' = Batches
  BY <1>2, <1>13 DEF Batches
<1>19. Mine'[t] = Append(Mine[t], r) /\ \A u \in Transfers \ {t} : Mine'[u] = Mine[u]
  <2> HIDE DEF r
  <2>1. RowsIn(Batches[t]) \in Seq(RowIds)
    BY <1>1, MineAre DEF IInv
  <2>2. RowsIn(Batches[t]) \o Append(chunk[t], r) = Append(RowsIn(Batches[t]) \o chunk[t], r)
    <3>1. PICK b, c, y, S : b = RowsIn(Batches[t]) /\ c = chunk[t] /\ y = r /\ S = RowIds
      OBVIOUS
    <3>2. b \in Seq(S) /\ c \in Seq(S) /\ y \in S
      BY <1>1, <1>5, <2>1, <3>1
    <3>3. b \o Append(c, y) = Append(b \o c, y)
      BY <3>2, ConcatAppend
    <3> QED
      BY <3>1, <3>3
  <2> QED
    BY <1>7, <1>18, <2>2, MineIs
<1>20. RowTaken(t)
  BY <1>1, <1>2, <1>19 DEF RowTaken, Fine
<1>21. OfGenerators' /\ NoneLost' /\ OfOthers'
  BY <1>20, RowsAreThere, GeneratorsTake, NoneLostTake, OthersTake
<1>22. Lives'
  <2>1. source[t] # None /\ outcome[t] \in {None, "made"}
    BY <1>1, SourcesAre
  <2> QED
    BY <1>2, <1>7, <2>1 DEF Lives
<1>23. Chunks'
  BY <1>2, <1>7, <1>11 DEF Chunks
<1>24. Apart(t)
  BY <1>2, <1>7, <1>13 DEF Apart
<1>25. Schema'
  <2>1. Settled(t)
    BY SchemaIs
  <2>2. Mine[t] # <<>> => Head(Mine'[t]) = Head(Mine[t]) /\ Mine'[t] # <<>>
    <3> HIDE DEF r
    <3>1. Mine[t] \in Seq(RowIds)
      BY <1>1, RowsAreThere DEF HaveRows
    <3> QED
      BY <1>5, <1>19, <3>1, HeadTailAppend, AppendProperties
  <2>3. Settled(t)'
    <3> HIDE DEF r
    <3> QED
      BY <1>2, <1>4, <1>13, <1>15, <1>18, <2>1, <2>2 DEF Settled, AllConvert, Row
  <2> QED
    BY <1>2, <1>24, <2>3, SettledApart
<1> QED
  BY <1>13, <1>16, <1>17, <1>21, <1>22, <1>23, <1>25

-----------------------------------------------------------------------------
(* A transfer is begun, made, delivers and succeeds.                       *)

LEMMA PausingSteps ==
    ASSUME calls \in Seq(Call), NEW i \in 1..Len(calls)
    PROVE  i \in DOMAIN calls /\ (Pausing[i].step = "body" \/ Pausing[i] = calls[i])
<1>1. i \in DOMAIN calls /\ calls # <<>>
  OBVIOUS
<1>2. i = Len(calls) => Pausing[i].step = "body"
  <2>1. [calls[i] EXCEPT !.step = "body"].step = "body"
    <3>1. calls[i] \in Call
      BY <1>1
    <3> QED
      BY <3>1 DEF Call
  <2> QED
    BY <1>1, <2>1 DEF Pausing
<1>3. i # Len(calls) => Pausing[i] = calls[i]
  BY <1>1 DEF Pausing
<1> QED
  BY <1>1, <1>2, <1>3

LEMMA NewTransferRows ==
    ASSUME SInv, NEW t \in Transfers, NEW s \in Objects, NEW d, NewTransfer(t, s, d)
    PROVE  Progress'
<1> USE DEF SInv, Progress
<1> DEFINE rows == IF s \in Frames THEN Rows(s) ELSE <<>>
           upto == IF s \in Frames THEN Len(table[s]) ELSE 0
           step == IF s \in Generators \cup Lists THEN "next" ELSE "coerced"
           e == IF s = Stranger THEN "TypeError" ELSE None
<1>1. /\ MayCall /\ source[t] = None /\ source' = [source EXCEPT ![t] = s]
      /\ IF s = Stranger THEN calls' = Pausing ELSE Enter("new", t, step)
      /\ outcome' = [outcome EXCEPT ![t] = IF s = Stranger THEN "TypeError" ELSE @]
      /\ chunk' = [chunk EXCEPT ![t] = rows]
      /\ UNCHANGED <<table, held, waiting, ran, first, published, received, partitions>>
  <2>1. s # Stranger => outcome' = [outcome EXCEPT ![t] = outcome[t]]
    BY DEF NewTransfer, Kinds
  <2> QED
    BY <2>1 DEF NewTransfer, filesVars, connectors
<1>2. s \in Frames => Rows(s) \in Seq(RowIds) /\ Len(Rows(s)) = Len(table[s]) /\ Len(table[s]) \in Nat
  <2> SUFFICES ASSUME s \in Frames
               PROVE  Rows(s) \in Seq(RowIds) /\ Len(Rows(s)) = Len(table[s]) /\ Len(table[s]) \in Nat
    OBVIOUS
  <2>1. Len(table[s]) \in Nat /\ \A n \in 1..Len(table[s]) : <<s, n>> \in RowIds
    BY TableIs, SourcesAre
  <2>2. Rows(s) = [n \in 1..Len(table[s]) |-> <<s, n>>]
    BY DEF Rows
  <2>3. PICK k \in Nat : k = Len(table[s])
    BY <2>1
  <2>4. Rows(s) \in [1..k -> RowIds]
    BY <2>1, <2>2, <2>3
  <2> QED
    BY <2>1, <2>3, <2>4, Numbered
<1>3. rows \in Seq(RowIds) /\ upto \in Nat /\ cursor' = [cursor EXCEPT ![t] = upto]
  <2>1. <<>> \in Seq(RowIds)
    BY EmptySeq
  <2> QED
    BY <1>2, <2>1 DEF NewTransfer
<1>4. outcome[t] = None /\ published[t] = <<>> /\ chunk[t] = <<>>
  BY <1>1, ExceptionsAre DEF Lives
<1>5. /\ source'[t] = s /\ outcome'[t] = e /\ chunk'[t] = rows /\ cursor'[t] = upto
      /\ \A u \in Transfers \ {t} :
            /\ source'[u] = source[u] /\ outcome'[u] = outcome[u] /\ chunk'[u] = chunk[u]
            /\ cursor'[u] = cursor[u]
      /\ \A g \in Generators : cursor'[g] = cursor[g]
      /\ chunk' \in [Transfers -> Seq(RowIds)] /\ cursor' \in [Generators \cup Transfers -> Nat]
  <2> HIDE DEF rows, upto
  <2> QED
    BY <1>1, <1>3, <1>4, SourcesAre DEF Kinds, IInv, Typing
<1>6. s \in Iterables \cup {FileObject, Stranger} /\ e \in Exceptions \cup {None}
  BY ExceptionsAre DEF Objects
<1> HIDE DEF rows, upto, step
<1>7. calls \in Seq(Call) /\ \A i \in DOMAIN calls : calls[i].t # t
  <2>1. calls \in Seq(Call)
    BY DEF IInv, Typing
  <2> QED
    BY <1>1, <2>1 DEF IInv, Making
<1>8. Others(t)
  <2>1. ASSUME NEW u \in Transfers \ {t} PROVE Ended(u)' = Ended(u)
    <3>1. Cursor(u)' = Cursor(u) /\ cursor'[Cursor(u)] = cursor[Cursor(u)]
      BY <1>5 DEF Cursor
    <3> QED
      BY <1>1, <1>5, <3>1 DEF Ended
  <2> QED
    BY <1>1, <1>5, <2>1 DEF Others
<1>9. step \in {"next", "coerced"} /\ step \in Steps
  BY DEF step, Steps
<1>10. s # Stranger => Sound("new", t, step)'
  <2>1. s # Stranger => s \in Sources
    BY <1>6 DEF Sources
  <2>2. step = "next" => s \in Iterables /\ s \notin Frames /\ rows = <<>>
    BY SourcesAre DEF step, rows
  <2>3. step = "coerced" => s \notin Generators \cup Lists
    BY DEF step
  <2>4. Len(<<>>) < ChunkRows
    BY SourcesAre
  <2> QED
    BY <1>5, <1>9, <2>1, <2>2, <2>3, <2>4 DEF Sound, Sources, Iterables
<1>11. Stack' /\ Running' = Running
  <2>1. CASE s = Stranger
    BY <1>1, <1>7, <1>8, <2>1, StackPauses
  <2>2. CASE s # Stranger
    BY <1>1, <1>7, <1>8, <1>9, <1>10, <2>2, StackEnters
  <2> QED
    BY <2>1, <2>2
<1>12. \A i \in DOMAIN calls' : calls'[i].step = "resolve" => i \in DOMAIN calls /\ calls[i].step = "resolve"
  <2>1. Pausing \in Seq(Call) /\ Len(Pausing) = Len(calls) /\ Len(calls) \in Nat
    BY <1>7, PausingKeeps
  <2>2. CASE calls' = Pausing
    BY <1>7, <2>1, <2>2, PausingSteps
  <2>3. CASE Enter("new", t, step)
    <3> DEFINE c == [op |-> "new", t |-> t, step |-> step]
    <3>1. calls' = Append(Pausing, c) /\ c.step # "resolve"
      BY <1>9, <2>3 DEF Enter
    <3> HIDE DEF c
    <3>2. \A i \in DOMAIN calls' :
             \/ i = Len(calls) + 1 /\ calls'[i] = c
             \/ i \in 1..Len(calls) /\ calls'[i] = Pausing[i]
      BY <2>1, <3>1
    <3> QED
      BY <1>7, <3>1, <3>2, PausingSteps
  <2> QED
    BY <1>1, <2>2, <2>3
<1>13. t \notin Running /\ t \notin waiting /\ e # "ok" /\ e # "made"
  BY <1>1, <1>7, RunningIs, ExceptionsAre DEF IInv, Making
<1>14. RowIds' = RowIds /\ RowBatches' = RowBatches
  BY <1>1, SameRows
<1>15. Kinds'
  <2>1. outcome' \in [Transfers -> Exceptions \cup {None, "made", "ok"}]
    <3>1. outcome' = [outcome EXCEPT ![t] = e]
      BY <1>1, <1>4 DEF Kinds
    <3> QED
      BY <1>6, <3>1 DEF Kinds
  <2> QED
    BY <1>1, <1>5, <1>14, <2>1 DEF Kinds
<1>16. Given'
  <2>1. \A u \in Transfers : source'[u] \in Iterables => published[u] \in Seq(RowBatches)
    <3>1. <<>> \in Seq(RowBatches)
      BY EmptySeq
    <3> QED
      BY <1>4, <1>5, <3>1 DEF Given
  <2>2. \A u \in Running : u # t /\ u \in Transfers
    BY <1>7, <1>13, RunningIs, CallsAre
  <2> QED
    BY <1>1, <1>5, <1>11, <1>12, <1>14, <2>1, <2>2 DEF Given
<1>17. Apart(t)
  BY <1>1, <1>5, <1>11 DEF Apart
<1>18. Lives'
  <2>1. s # None /\ (s = Stranger => rows = <<>>)
    BY <1>6, SourcesAre DEF rows
  <2>2. LivesOf(t)'
    BY <1>1, <1>4, <1>5, <1>13, <2>1 DEF LivesOf
  <2> QED
    BY <1>17, <2>2, LivesApart
<1>19. Chunks'
  <2>1. s \notin Frames => Len(rows) <= ChunkRows
    BY SourcesAre DEF rows
  <2> QED
    BY <1>5, <2>1 DEF Chunks
<1>20. RowsBegin(t, s)
  <2>1. Mine'[t] = rows
    <3>1. Batches'[t] = <<>>
      BY <1>1, <1>4, <1>11, <1>13, MineIs
    <3>2. <<>> \o rows = rows
      BY <1>3
    <3> QED
      BY <1>5, <3>1, <3>2, MineIs, RowsInNone
  <2>2. \A u \in Transfers \ {t} : RowsKept(u)
    BY <1>17, ApartKeeps
  <2> QED
    BY <1>1, <1>5, <2>1, <2>2 DEF RowsBegin, rows, upto
<1>21. OfGenerators' /\ NoneLost' /\ OfOthers'
  BY <1>20, GeneratorsBegin, NoneLostBegin, OthersBegin DEF IInv
<1>22. Schema'
  <2>1. Settled(t)'
    BY <1>1, <1>5, <1>11, <1>13 DEF Settled
  <2> QED
    BY <1>1, <1>17, <2>1, SettledApart
<1> QED
  BY <1>11, <1>15, <1>16, <1>18, <1>19, <1>21, <1>22

\* The rows stay where they are, but for those that have become another's batch.
LEMMA MakeTransferRows ==
    ASSUME SInv, NEW t \in Transfers, MakeTransfer(t)
    PROVE  Progress'
<1> USE DEF SInv, Progress
<1> DEFINE f == IF chunk[t] = <<>> THEN None ELSE Head(chunk[t])
<1>1. /\ At("new", t, "coerced") /\ FirstChunkError(t) = None
      /\ held' = held \ Connectors(t) /\ waiting' = waiting \cup {t}
      /\ first' = [first EXCEPT ![t] = f] /\ outcome' = [outcome EXCEPT ![t] = "made"]
      /\ calls' = Front(calls)
      /\ UNCHANGED <<table, source, cursor, ran, published, received, partitions>>
  BY DEF MakeTransfer, Make, filesVars, args
<1>2. chunk' = chunk
  BY DEF MakeTransfer, Make, Kinds
<1>3. /\ calls \in Seq(Call) /\ calls # <<>> /\ Top.t = t /\ Sound("new", t, "coerced")
      /\ source[t] # None /\ t \notin Running
  BY <1>1, AtIs
<1>4. outcome[t] = None /\ source[t] \in Sources /\ published[t] = <<>>
  BY <1>3, ExceptionsAre DEF Sound, Lives
<1>5. /\ outcome'[t] = "made" /\ first'[t] = f
      /\ \A u \in Transfers \ {t} : outcome'[u] = outcome[u] /\ first'[u] = first[u]
  BY <1>1 DEF Kinds
<1>6. chunk[t] \in Seq(RowIds) /\ (chunk[t] # <<>> => f \in RowIds /\ f = Head(chunk[t]))
  <2>1. chunk[t] \in Seq(RowIds)
    BY DEF Kinds
  <2>2. \A S : \A c \in Seq(S) : c # <<>> => Head(c) \in S
    OBVIOUS
  <2> QED
    BY <2>1, <2>2
<1>7. chunk[t] = <<>> => f = None
  OBVIOUS
<1> HIDE DEF f
<1>8. Others(t)
  <2>1. \A u \in Transfers : Ended(u)' = Ended(u)
    BY <1>1 DEF Ended, Cursor
  <2> QED
    BY <1>1, <1>2, <1>5, <2>1 DEF Others
<1>9. Stack' /\ Running' = Running
  BY <1>1, <1>3, <1>8, StackPops
<1>10. RowIds' = RowIds /\ RowBatches' = RowBatches
  BY <1>1, SameRows
<1>11. Kinds'
  BY <1>1, <1>2, <1>6, <1>7, <1>10 DEF Kinds
<1>12. Apart(t)
  BY <1>1, <1>2, <1>5, <1>9 DEF Apart
<1>13. Lives'
  <2>1. LivesOf(t)'
    BY <1>1, <1>4, <1>5, <1>3 DEF LivesOf, Sources
  <2> QED
    BY <1>12, <2>1, LivesApart
<1>14. Given'
  <2>1. \A i \in DOMAIN calls' : i \in DOMAIN calls /\ calls'[i] = calls[i]
    BY <1>1, <1>3, FrontCalls
  <2> QED
    BY <1>1, <1>9, <1>10, <2>1 DEF Given
<1>15. Chunks'
  BY <1>1, <1>2 DEF Chunks
<1>16. Batches'[t] = <<>> /\ Mine'[t] = Mine[t] /\ Mine[t] = chunk[t]
  <2>1. Batches'[t] = <<>> /\ Batches[t] = <<>>
    BY <1>1, <1>3, <1>4, <1>9, MineIs
  <2>2. <<>> \o chunk[t] = chunk[t]
    BY <1>6
  <2> QED
    BY <1>2, <2>1, <2>2, MineIs, RowsInNone
<1>17. RowsStay
  <2>1. ASSUME NEW u \in Transfers PROVE RowsKept(u)
    <3>1. CASE u = t
      BY <1>1, <1>4, <1>5, <1>16, <3>1 DEF RowsKept, Fine
    <3>2. CASE u # t
      BY <1>12, <3>2, ApartKeeps
    <3> QED
      BY <3>1, <3>2
  <2> QED
    BY <1>1, <2>1 DEF RowsStay, CursorKept
<1>18. OfGenerators' /\ NoneLost' /\ OfOthers'
  BY <1>17, RowsAreThere, GeneratorsStay, NoneLostStay, OthersStay
<1>19. Schema'
  <2>1. source[t] \in Generators \cup Lists => chunk[t] # <<>>
    BY <1>1, ExceptionsAre DEF FirstChunkError, Fine
  <2>2. source[t] \in Iterables /\ source[t] \notin Frames => source[t] \in Generators \cup Lists
    BY DEF Iterables
  <2>3. DOMAIN Batches'[t] = {} /\ DOMAIN RowsIn(Batches'[t]) = {}
    BY <1>16, RowsInNone
  <2>4. Settled(t)'
    BY <1>1, <1>2, <1>5, <1>6, <1>10, <1>16, <2>1, <2>2, <2>3 DEF Settled, AllConvert
  <2> QED
    BY <1>1, <1>12, <2>4, SettledApart
<1> QED
  BY <1>9, <1>11, <1>13, <1>14, <1>15, <1>18, <1>19

\* A chunk becomes the run's next batch.
LEMMA DeliverRows ==
    ASSUME SInv, NEW t \in Transfers, Deliver(t)
    PROVE  Progress'
<1> USE DEF SInv, Progress
<1> DEFINE b == [rows |-> chunk[t], columns |-> Row(first[t]).keys]
<1>1. /\ At("run", t, "coerced") /\ chunk[t] # <<>>
      /\ source[t] \in Frames \/ AllConvert(first[t], chunk[t])
      /\ received' = Append(received, b) /\ chunk' = [chunk EXCEPT ![t] = <<>>] /\ Goto("next")
      /\ UNCHANGED <<table, source, cursor, held, waiting, ran, first, published, outcome, partitions>>
  BY DEF Deliver, DeliverAs, args, connectors, results
<1>2. /\ calls \in Seq(Call) /\ calls # <<>> /\ Top.t = t /\ Top.op = "run" /\ Top.step = "coerced"
      /\ Sound("run", t, "coerced") /\ source[t] # None
      /\ t \in Running /\ \A u \in Running : u = t
  BY <1>1, AtIs
<1>3. source[t] \in Iterables /\ outcome[t] = "made" /\ t \in ran
  BY <1>2 DEF Sound, Sources
<1>4. chunk'[t] = <<>> /\ \A u \in Transfers \ {t} : chunk'[u] = chunk[u]
  BY <1>1 DEF Kinds
<1>5. Settled(t) /\ first[t] \in RowIds /\ chunk[t] \in Seq(RowIds)
  <2>1. Settled(t) /\ chunk[t] \in Seq(RowIds)
    BY SchemaIs DEF Kinds
  <2> QED
    BY <1>1, <1>2, <1>3, <2>1 DEF Settled
<1>6. b \in RowBatches /\ b.rows = chunk[t] /\ b.columns = Row(first[t]).keys
  BY <1>5 DEF RowBatches, Columns
<1>7. received \in Seq(RowBatches)
  BY <1>2, <1>3 DEF Given
<1> HIDE DEF b
<1>8. Others(t)
  <2>1. \A u \in Transfers : Ended(u)' = Ended(u)
    BY <1>1 DEF Ended, Cursor
  <2> QED
    BY <1>1, <1>4, <2>1 DEF Others
<1>9. Sound("run", t, "next")'
  <2>1. Len(<<>>) < ChunkRows
    BY SourcesAre
  <2> QED
    BY <1>1, <1>3, <1>4, <2>1, SourcesAre DEF Sound, Sources, Iterables
<1>10. Stack' /\ Running' = Running
  BY <1>1, <1>2, <1>8, <1>9, StackGoto DEF Steps
<1>11. \A i \in DOMAIN calls' : calls'[i].step = "resolve" => i \in DOMAIN calls /\ calls[i].step = "resolve"
  <2>1. /\ DOMAIN calls' = DOMAIN calls /\ calls'[Len(calls)].step = "next"
        /\ \A i \in DOMAIN calls : i # Len(calls) => calls'[i].step = calls[i].step
    BY <1>1, <1>2, GotoCalls DEF Steps
  <2> QED
    BY <2>1
<1>12. \A i \in DOMAIN calls : calls[i].step # "resolve"
  <2>1. \A i \in DOMAIN calls : i < Len(calls) => calls[i].step = "body"
    BY DEF Stack
  <2>2. \A i \in DOMAIN calls : i < Len(calls) \/ i = Len(calls)
    BY <1>2, CallsAre
  <2>3. calls[Len(calls)].step = "coerced"
    BY <1>2, TopIs
  <2> QED
    BY <2>1, <2>2, <2>3
<1>13. RowIds' = RowIds /\ RowBatches' = RowBatches
  BY <1>1, SameRows
<1>14. received' \in Seq(RowBatches) /\ received' \in Seq(RowBatches \cup Batch)
  <2> DEFINE B == RowBatches
             C == RowBatches \cup Batch
  <2>1. received \in Seq(B) /\ b \in B /\ B \subseteq C
    BY <1>6, <1>7
  <2> HIDE DEF B, C
  <2>2. received' \in Seq(B)
    BY <1>1, <2>1
  <2>3. received' \in Seq(C)
    BY <2>1, <2>2, SeqWider
  <2> QED
    BY <2>2, <2>3 DEF B, C
<1>15. Kinds'
  <2>1. <<>> \in Seq(RowIds)
    BY EmptySeq
  <2> QED
    BY <1>1, <1>13, <1>14, <2>1 DEF Kinds
<1>16. Given'
  BY <1>1, <1>2, <1>10, <1>11, <1>12, <1>13, <1>14 DEF Given
<1>17. Apart(t)
  BY <1>1, <1>2, <1>4, <1>10 DEF Apart
<1>18. Lives'
  <2>1. LivesOf(t)'
    BY <1>1, <1>2, <1>3, <1>4, LivesIs DEF LivesOf
  <2> QED
    BY <1>17, <2>1, LivesApart
<1>19. Chunks'
  <2>1. Len(<<>>) <= ChunkRows
    BY SourcesAre
  <2> QED
    BY <1>1, <1>4, <2>1 DEF Chunks
<1>20. /\ Batches[t] = received /\ Batches'[t] = Append(received, b)
       /\ RowsIn(received) \in Seq(RowIds) /\ RowsIn(received') = RowsIn(received) \o chunk[t]
  <2>1. Batches[t] = received /\ Batches'[t] = Append(received, b)
    BY <1>1, <1>2, <1>10, MineIs
  <2>2. RowsIn(Batches[t]) \in Seq(RowIds)
    BY <1>3, MineAre DEF IInv
  <2>3. \A c \in RowBatches : c.rows \in Seq(RowIds)
    BY DEF RowBatches
  <2>4. RowsIn(Append(received, b)) = RowsIn(received) \o b.rows
    BY <1>6, <1>7, <2>3, RowsInAppend
  <2> QED
    BY <1>1, <1>6, <2>1, <2>2, <2>4
<1>21. Mine'[t] = Mine[t] /\ Mine[t] = RowsIn(received') /\ Mine[t] \in Seq(RowIds)
  <2>1. Mine[t] = RowsIn(received) \o chunk[t] /\ Mine'[t] = RowsIn(received') \o <<>>
    BY <1>1, <1>4, <1>20, MineIs
  <2>2. Mine[t] \in Seq(RowIds)
    BY <1>3, RowsAreThere DEF HaveRows
  <2>3. Mine[t] \o <<>> = Mine[t]
    BY <2>2
  <2> QED
    BY <1>20, <2>1, <2>2, <2>3
<1>22. RowsStay
  <2>1. ASSUME NEW u \in Transfers PROVE RowsKept(u)
    <3>1. CASE u = t
      BY <1>1, <1>3, <1>21, <3>1 DEF RowsKept
    <3>2. CASE u # t
      BY <1>17, <3>2, ApartKeeps
    <3> QED
      BY <3>1, <3>2
  <2> QED
    BY <1>1, <2>1 DEF RowsStay, CursorKept
<1>23. OfGenerators' /\ NoneLost' /\ OfOthers'
  BY <1>22, RowsAreThere, GeneratorsStay, NoneLostStay, OthersStay
<1>24. Schema'
  <2>1. \A i \in DOMAIN Batches'[t] : Batches'[t][i].columns = Row(first[t]).keys
    <3> DEFINE B == RowBatches
    <3>1. received \in Seq(B) /\ b \in B
      BY <1>6, <1>7
    <3> HIDE DEF B
    <3>2. \A i \in DOMAIN Append(received, b) :
             Append(received, b)[i] = b \/ (i \in DOMAIN received /\ Append(received, b)[i] = received[i])
      BY <3>1, AppendAt
    <3>3. \A i \in DOMAIN received : received[i].columns = Row(first[t]).keys
      BY <1>2, <1>3, <1>5, <1>20 DEF Settled
    <3> QED
      BY <1>6, <1>20, <3>2, <3>3
  <2>2. source[t] \notin Frames => AllConvert(first[t], RowsIn(received'))
    <3> SUFFICES ASSUME source[t] \notin Frames PROVE AllConvert(first[t], RowsIn(received'))
      OBVIOUS
    <3>1. AllConvert(first[t], RowsIn(received)) /\ AllConvert(first[t], chunk[t])
      BY <1>1, <1>2, <1>3, <1>5, <1>20 DEF Settled
    <3>2. ASSUME NEW S, NEW x \in Seq(S), NEW y \in Seq(S)
          PROVE  \A i \in DOMAIN (x \o y) :
                    \/ i \in DOMAIN x /\ (x \o y)[i] = x[i]
                    \/ i - Len(x) \in DOMAIN y /\ (x \o y)[i] = y[i - Len(x)]
      OBVIOUS
    <3>3. \A i \in DOMAIN RowsIn(received') :
             \/ i \in DOMAIN RowsIn(received) /\ RowsIn(received')[i] = RowsIn(received)[i]
             \/ i - Len(RowsIn(received)) \in DOMAIN chunk[t]
                /\ RowsIn(received')[i] = chunk[t][i - Len(RowsIn(received))]
      BY <1>5, <1>20, <3>2
    <3> QED
      BY <3>1, <3>3 DEF AllConvert
  <2>3. source[t] \notin Frames => Mine[t] # <<>> /\ Head(Mine[t]) = first[t]
    BY <1>2, <1>3, <1>5 DEF Settled
  <2>4. Batches'[t] = received'
    BY <1>1, <1>20
  <2>5. Settled(t)'
    BY <1>1, <1>3, <1>4, <1>5, <1>13, <1>21, <2>1, <2>2, <2>3, <2>4 DEF Settled, Row, AllConvert
  <2> QED
    BY <1>1, <1>17, <2>5, SettledApart
<1> QED
  BY <1>10, <1>15, <1>16, <1>18, <1>19, <1>23, <1>24

\* A run ends well, or has been given nothing.
LEMMA FinishRows ==
    ASSUME SInv, NEW t \in Transfers, Finish(t)
    PROVE  Progress'
<1> USE DEF SInv, Progress
<1>1. PICK step \in {"coerced", "files"} :
         At("run", t, step) /\ (step = "coerced" => chunk[t] = <<>>)
  BY DEF Finish, SourceEnded
<1>2. /\ published' = [published EXCEPT ![t] = received]
      /\ calls' = Front(calls) /\ chunk' = [chunk EXCEPT ![t] = <<>>]
      /\ outcome' = [outcome EXCEPT ![t] = IF received = <<>> THEN "EmptySourceError" ELSE "ok"]
      /\ received' = <<>> /\ partitions' = <<>>
      /\ UNCHANGED <<table, source, cursor, held, waiting, ran, first>>
  <2>1. ToPyErr["EmptySource"] = "EmptySourceError"
    BY DEF ToPyErr
  <2> QED
    BY <2>1 DEF Finish, RunReturns, args, connectors
<1>3. /\ calls \in Seq(Call) /\ calls # <<>> /\ Top.t = t /\ Top.op = "run"
      /\ Sound("run", t, step) /\ source[t] # None
      /\ t \in Running /\ \A u \in Running : u = t
  BY <1>1, AtIs
<1>4. source[t] \in Sources /\ outcome[t] = "made" /\ t \in ran /\ published[t] = <<>>
  BY <1>3, ExceptionsAre DEF Sound, Lives
<1>5. source[t] \in Iterables => step = "coerced" /\ chunk[t] = <<>>
  BY <1>1, <1>3, SourcesAre DEF Sound
<1>6. CASE received = <<>>
  <2>1. published' = published
    BY <1>2, <1>4, <1>6 DEF Kinds
  <2>2. "EmptySourceError" \in Exceptions
    BY ExceptionsAre
  <2>3. CallFails(t)
    BY <1>2, <1>3, <1>6, <2>1, <2>2 DEF CallFails
  <2> QED
    BY <2>3, CallFailsStep
<1>7. CASE received # <<>>
  <2>1. /\ outcome'[t] = "ok" /\ published'[t] = received /\ chunk'[t] = <<>>
        /\ \A u \in Transfers \ {t} :
              outcome'[u] = outcome[u] /\ published'[u] = published[u] /\ chunk'[u] = chunk[u]
    BY <1>2, <1>7 DEF Kinds
  <2>2. Others(t)
    <3>1. \A u \in Transfers : Ended(u)' = Ended(u)
      BY <1>2 DEF Ended, Cursor
    <3> QED
      BY <1>2, <2>1, <3>1 DEF Others
  <2>3. Stack' /\ Running' = Running \ {t}
    BY <1>2, <1>3, <2>2, StackPops
  <2>4. Running' = {}
    BY <1>3, <2>3
  <2>5. RowIds' = RowIds /\ RowBatches' = RowBatches
    BY <1>2, SameRows
  <2>6. Kinds'
    <3>1. <<>> \in Seq(RowIds) /\ <<>> \in Seq(RowBatches \cup Batch)
      BY EmptySeq
    <3> QED
      BY <1>2, <1>7, <2>5, <3>1 DEF Kinds
  <2>7. Given'
    <3>1. \A u \in Transfers : source[u] \in Iterables => published'[u] \in Seq(RowBatches)
      BY <1>3, <2>1 DEF Given
    <3>2. \A i \in DOMAIN calls' : i \in DOMAIN calls /\ calls'[i] = calls[i]
      BY <1>2, <1>3, FrontCalls
    <3> QED
      BY <1>2, <2>4, <2>5, <3>1, <3>2 DEF Given
  <2>8. Apart(t)
    BY <1>2, <1>3, <2>1, <2>3 DEF Apart
  <2>9. Lives'
    <3>1. t \notin waiting
      BY <1>4 DEF IInv, UsedOnce
    <3>2. LivesOf(t)'
      BY <1>2, <1>3, <1>4, <2>1, <3>1, ExceptionsAre DEF LivesOf, Sources
    <3> QED
      BY <2>8, <3>2, LivesApart
  <2>10. Chunks'
    <3>1. Len(<<>>) <= ChunkRows
      BY SourcesAre
    <3> QED
      BY <1>2, <2>1, <3>1 DEF Chunks
  <2>11. Batches'[t] = Batches[t] /\ (source[t] \in Iterables => Mine'[t] = Mine[t])
    <3>1. Batches[t] = received /\ Batches'[t] = received
      BY <1>3, <2>1, <2>4, MineIs
    <3>2. source[t] \in Iterables => chunk'[t] = chunk[t]
      BY <1>5, <2>1
    <3> QED
      BY <3>1, <3>2, MineIs
  <2>12. RowsStay
    <3>1. RowsKept(t)
      <4>1. source[t] \in Generators \cup Lists => Ended(t)
        BY <1>3, <1>5 DEF Sound, Iterables
      <4> QED
        BY <1>2, <1>4, <2>1, <2>11, <4>1 DEF RowsKept, Fine
    <3>2. \A u \in Transfers : RowsKept(u)
      BY <2>8, <3>1, ApartKeeps
    <3> QED
      BY <1>2, <3>2 DEF RowsStay, CursorKept
  <2>13. OfGenerators' /\ NoneLost' /\ OfOthers'
    BY <2>12, RowsAreThere, GeneratorsStay, NoneLostStay, OthersStay
  <2>14. Schema'
    <3>1. Settled(t)
      BY SchemaIs
    <3>2. SchemaKept(t)
      BY <1>2, <1>3, <1>5, <2>1, <2>4, <2>11, SourcesAre DEF SchemaKept
    <3>3. Settled(t)'
      BY <1>2, <3>1, <3>2, SettledStays
    <3> QED
      BY <1>2, <2>8, <3>3, SettledApart
  <2> QED
    BY <2>3, <2>6, <2>7, <2>9, <2>10, <2>13, <2>14
<1> QED
  BY <1>6, <1>7

-----------------------------------------------------------------------------
(* The invariant holds.                                                    *)

LEMMA ProgressStep ==
    ASSUME SInv, [Next]_vars
    PROVE  Progress'
<1>1. CASE UNCHANGED vars \/ Replace
  BY <1>1, IdleStep
<1>2. ASSUME NEW t \in Transfers, NEW s \in Iterables \cup {FileObject, Stranger}, NEW d,
             NewTransfer(t, s, d)
      PROVE  Progress'
  BY <1>2, NewTransferRows DEF Objects
<1>3. ASSUME NEW t \in Transfers, Run(t) \/ RunPanics(t) \/ RunAgain(t)
      PROVE  Progress'
  BY <1>3, RunBeginsStep, RunPanicsStep, IdleStep
<1>4. ASSUME NEW t \in Transfers, Proceed(t) \/ DestinationFails(t)
      PROVE  Progress'
  <2>1. CASE TakeRow(t)
    BY <2>1, TakeRowStep
  <2>2. CASE EndRows(t)
    BY <2>2, EndRowsStep
  <2>3. CASE MakeTransfer(t)
    BY <2>3, MakeTransferRows
  <2>4. CASE Deliver(t)
    BY <2>4, DeliverRows
  <2>5. CASE Resolve(t) \/ ReadFiles(t)
    BY <2>5, FilesStep
  <2>6. CASE Finish(t)
    BY <2>6, FinishRows
  <2>7. CASE \/ BodyRaises(t) \/ GeneratorBusy(t)
             \/ RefuseRows(t) \/ RefuseDestination(t) \/ RefuseConsumed(t)
             \/ ChunkFails(t) \/ ResolveFails(t) \/ BatchRefused(t)
             \/ OpenFails(t) \/ DecodeFails(t) \/ DestinationFails(t)
    BY <2>7, Raises, CallFailsStep
  <2> QED
    BY <1>4, <2>1, <2>2, <2>3, <2>4, <2>5, <2>6, <2>7 DEF Proceed
<1> QED
  BY <1>1, <1>2, <1>3, <1>4 DEF Next

\* The directory and the files are as the files source has them.
LEMMA FilesInvStep ==
    ASSUME SInv, [Next]_vars
    PROVE  FilesInv'
<1> USE DEF SInv
<1>1. ASSUME UNCHANGED filesVars PROVE FilesInv'
  BY <1>1 DEF FilesInv, OneFileOpen, Partition, filesVars
<1>2. ASSUME received' = <<>>, partitions' = <<>>, UNCHANGED <<given, disk, version, resolved>>
      PROVE  FilesInv'
  BY <1>2, EmptySeq DEF FilesInv, OneFileOpen, Partition
<1>3. ASSUME NEW t, NEW e, RunReturns(t, e) PROVE FilesInv'
  BY <1>2, <1>3 DEF RunReturns
<1>4. ASSUME NEW t \in Transfers, Proceed(t) \/ DestinationFails(t)
      PROVE  FilesInv'
  <2>1. CASE TakeRow(t) \/ EndRows(t) \/ RefuseRows(t) \/ RefuseDestination(t)
             \/ RefuseConsumed(t) \/ MakeTransfer(t)
    BY <1>1, <2>1 DEF TakeRow, Take, EndRows, RefuseRows, RefuseDestination, RefuseConsumed,
                      MakeTransfer, Make
  <2>2. CASE BodyRaises(t) \/ GeneratorBusy(t)
    BY <1>1, <1>3, <2>2 DEF BodyRaises, GeneratorBusy, RowFails
  <2>3. CASE ChunkFails(t) \/ ResolveFails(t) \/ BatchRefused(t) \/ OpenFails(t)
             \/ DecodeFails(t) \/ DestinationFails(t) \/ Finish(t)
    BY <1>3, <2>3 DEF ChunkFails, ResolveFails, BatchRefused, OpenFails, DecodeFails,
                      DestinationFails, Finish
  <2>4. CASE Resolve(t)
    BY <2>4, StreamPartitionsStep DEF Resolve
  <2>5. CASE ReadFiles(t)
    BY <2>5, OpenFileStep, ReadBatchStep, EndFileStep DEF ReadFiles
  <2>6. CASE Deliver(t)
    BY <2>6 DEF Deliver, DeliverAs, FilesInv, OneFileOpen, Partition
  <2> QED
    BY <1>4, <2>1, <2>2, <2>3, <2>4, <2>5, <2>6 DEF Proceed
<1> QED
  BY <1>1, <1>4, ReplaceStep
     DEF Next, NewTransfer, Run, RunPanics, RunAgain, Replace, vars

LEMMA ProgressInit ==
    ASSUME Init
    PROVE  SInv
<1>1. PICK w \in Worlds : FilesInit(w) /\ table = w.table
  BY DEF Init
<1>2. IInv /\ FilesInv /\ received = <<>> /\ partitions = <<>>
  BY <1>1, InvInit, FilesInitInv
<1>3. calls = <<>> /\ DOMAIN calls = {} /\ Running = {}
  BY DEF Init, Running
<1>4. /\ \A t \in Transfers : /\ source[t] = None /\ outcome[t] = None /\ chunk[t] = <<>>
                              /\ first[t] = None /\ published[t] = <<>>
      /\ \A x \in Generators \cup Transfers : cursor[x] = 0
      /\ waiting = {}
  BY DEF Init
<1>5. None \notin Iterables /\ None # "ok" /\ None \notin Lists \cup Frames \cup Generators
  BY SourcesAre, ExceptionsAre DEF Iterables
<1>6. Kinds
  <2>1. /\ <<>> \in Seq(RowIds) /\ <<>> \in Seq(RowBatches \cup Batch)
        /\ \A g \in Generators : Len(table[g]) \in Nat
    <3>1. table \in {v.table : v \in Worlds}
      BY <1>1
    <3>2. \A g \in Generators : g \in Iterables
      BY SourcesAre
    <3>3. \A v \in Worlds, it \in Iterables : Len(v.table[it]) \in Nat
      <4>1. \A v \in Worlds, it \in Iterables : v.table[it] \in Seq(ToSet(v.table[it]))
        BY SessionAssumption DEF SessionAssumption
      <4>2. \A S : \A s \in Seq(S) : Len(s) \in Nat
        OBVIOUS
      <4> QED
        BY <4>1, <4>2
    <3> QED
      BY <3>1, <3>2, <3>3, EmptySeq
  <2> QED
    BY <1>1, <1>2, <2>1 DEF Kinds, Init
<1>7. Stack
  BY <1>3 DEF Stack
<1>8. Lives
  BY <1>4, <1>5 DEF Lives
<1>9. Given
  <2>1. <<>> \in Seq(RowBatches)
    BY EmptySeq
  <2> QED
    BY <1>2, <1>3, <1>4, <2>1 DEF Given
<1>10. Chunks
  BY <1>4, SourcesAre DEF Chunks
<1>11. OfGenerators /\ OfOthers /\ Schema
  BY <1>4, <1>5, SourcesAre DEF OfGenerators, OfOthers, Schema
<1>12. NoneLost
  BY <1>4 DEF NoneLost
<1> QED
  BY <1>2, <1>6, <1>7, <1>8, <1>9, <1>10, <1>11, <1>12 DEF SInv, Progress

LEMMA SInvStep ==
    ASSUME SInv, [Next]_vars
    PROVE  SInv'
<1>1. IInv'
  BY InvStep DEF SInv
<1>2. FilesInv' /\ Progress'
  BY FilesInvStep, ProgressStep
<1> QED
  BY <1>1, <1>2 DEF SInv

\* No step breaks it.
THEOREM SessionInvariance == Spec => []SInv
<1> QED
  BY ProgressInit, SInvStep, PTL DEF Spec

\* The connectors, the calls, the rows and the files are what they are said to be.
THEOREM SessionTypes == Spec => []TypeOK
<1>1. SInv => TypeOK
  <2> SUFFICES ASSUME SInv PROVE TypeOK
    OBVIOUS
  <2> USE DEF SInv, Progress
  <2>1. FilesTypeOK
    <3>1. \A i \in DOMAIN partitions : partitions[i] \in Partition
      BY DEF FilesInv
    <3> QED
      BY <3>1 DEF FilesTypeOK, FilesInv, Partition
  <2>2. ASSUME NEW t \in Transfers
        PROVE  /\ source[t] \in Iterables \cup {FileObject, Stranger, None}
               /\ destination[t] \in Destinations \cup {Stranger, None}
               /\ outcome[t] \in Exceptions \cup {None, "made", "ok"}
               /\ ToSet(chunk[t]) \subseteq RowIds
               /\ source[t] \notin Frames => Len(chunk[t]) <= ChunkRows
               /\ first[t] \in RowIds \cup {None}
    <3>1. ToSet(chunk[t]) \subseteq RowIds
      BY DEF Kinds, ToSet
    <3> QED
      BY <3>1 DEF Kinds, Chunks, IInv, Typing, Objects
  <2>3. \A g \in Generators : cursor[g] \in 0..(Len(table[g]) + 1)
    <3> SUFFICES ASSUME NEW g \in Generators PROVE cursor[g] \in 0..(Len(table[g]) + 1)
      OBVIOUS
    <3>1. Len(table[g]) \in Nat /\ cursor[g] \in Nat /\ cursor[g] <= Len(table[g]) + 1
      BY TableIs, SourcesAre DEF Kinds
    <3> QED
      BY <3>1
  <2>4. ASSUME NEW i \in DOMAIN calls
        PROVE  /\ calls[i].op \in {"new", "run"} /\ calls[i].t \in Transfers
               /\ calls[i].step \in {"next", "body", "coerced", "resolve", "files"}
               /\ i < Len(calls) => calls[i].step = "body" /\ source[calls[i].t] \in Generators
    BY CallsAre DEF IInv, Typing, Steps, Stack, Sound
  <2> QED
    BY <2>1, <2>2, <2>3, <2>4 DEF TypeOK, Kinds, IInv, Typing
<1> QED
  BY SessionInvariance, <1>1, PTL

\* At most one file is open, whatever runs and whoever replaces the files.
THEOREM OneOpenAtATime == Spec => []OneFileOpen
<1>1. SInv => OneFileOpen
  BY DEF SInv, FilesInv
<1> QED
  BY SessionInvariance, <1>1, PTL

\* A row of a generator is taken once, and a transfer keeps its rows in order.
THEOREM RowsAreTakenOnce == Spec => []RowsOnce
<1>1. SInv => RowsOnce
  <2> SUFFICES ASSUME SInv, NEW g \in Generators, NEW t \in UsersOf(g), NEW u \in UsersOf(g)
               PROVE  /\ \A i, j \in DOMAIN RowsOf(t) : i < j => RowsOf(t)[i][2] < RowsOf(t)[j][2]
                      /\ t # u => ToSet(RowsOf(t)) \cap ToSet(RowsOf(u)) = {}
    BY DEF RowsOnce
  <2>1. t \in Transfers /\ u \in Transfers /\ source[t] = g /\ source[u] = g /\ g \in Iterables
    BY SourcesAre DEF UsersOf
  <2>2. RowsOf(t) = Mine[t] /\ RowsOf(u) = Mine[u]
    BY <2>1, MineAre DEF SInv, IInv, Progress
  <2> QED
    BY <2>1, <2>2 DEF SInv, Progress, OfGenerators
<1> QED
  BY SessionInvariance, <1>1, PTL

\* No row is lost between the calls: not the ones that were taken to learn the
\* schema, and not those of a generator that several transfers share.
THEOREM NoRowIsLost == Spec => []NoRowLost
<1>1. ASSUME SInv, NEW g \in Generators, \A t \in UsersOf(g) : outcome[t] \in {None, "made", "ok"}
      PROVE  /\ UNION {ToSet(RowsOf(t)) : t \in UsersOf(g)}
                = {r \in ToSet(Rows(g)) : r[2] <= cursor[g]}
             /\ \A t \in UsersOf(g) : outcome[t] = "ok" => Ended(t)
  <2> USE <1>1 DEF SInv, Progress
  <2>1. g \in Iterables /\ Rows(g) = [n \in 1..Len(table[g]) |-> <<g, n>>] /\ cursor[g] \in Nat
    BY SourcesAre, TableIs DEF Rows
  <2>2. ToSet(Rows(g)) = {<<g, n>> : n \in 1..Len(table[g])}
    BY <2>1 DEF ToSet
  <2>3. ASSUME NEW t \in UsersOf(g)
        PROVE  t \in Transfers /\ source[t] = g /\ RowsOf(t) = Mine[t] /\ Mine[t] \in Seq(RowIds)
    BY <2>1, MineAre DEF UsersOf, IInv
  <2>4. ASSUME NEW t \in UsersOf(g), NEW r \in ToSet(RowsOf(t))
        PROVE  r \in ToSet(Rows(g)) /\ r[2] <= cursor[g]
    <3>1. PICK i \in DOMAIN Mine[t] : r = Mine[t][i]
      BY <2>3 DEF ToSet
    <3>2. r \in RowIds
      BY <2>3, <3>1
    <3>3. PICK s, n : r = <<s, n>>
      BY <3>2 DEF RowIds, Rows
    <3>4. r[1] = g /\ r[2] \in 1..cursor[g] /\ r[2] <= Len(table[g])
      BY <2>3, <3>1 DEF OfGenerators
    <3>5. Len(table[g]) \in Nat
      BY <2>1, TableIs
    <3>6. s = g /\ n \in 1..cursor[g] /\ n <= Len(table[g]) /\ n <= cursor[g] /\ n \in 1..Len(table[g])
      BY <2>1, <3>3, <3>4, <3>5
    <3> QED
      BY <2>2, <3>3, <3>6
  <2>5. ASSUME NEW r \in ToSet(Rows(g)), r[2] <= cursor[g]
        PROVE  \E t \in UsersOf(g) : r \in ToSet(RowsOf(t))
    <3>1. PICK n \in 1..Len(table[g]) : r = <<g, n>>
      BY <2>2
    <3>2. \A t \in Transfers : source[t] = g => outcome[t] \in {None, "made", "ok"}
      BY DEF UsersOf
    <3>3. PICK t \in Transfers : source[t] = g /\ r \in ToSet(Mine[t])
      BY <2>5, <3>1, <3>2 DEF NoneLost
    <3> QED
      BY <2>3, <3>3 DEF UsersOf
  <2>6. ASSUME NEW t \in UsersOf(g), outcome[t] = "ok" PROVE Ended(t)
    BY <2>3, <2>6, EndedIs DEF OfGenerators
  <2> QED
    BY <2>4, <2>5, <2>6
<1>2. ASSUME SInv, NEW it \in Iterables, it \notin Generators, NEW t \in UsersOf(it), outcome[t] = "ok"
      PROVE  RowsOf(t) = Rows(it)
  <2> USE <1>2 DEF SInv, Progress
  <2>1. t \in Transfers /\ source[t] = it /\ it \in Lists \cup Frames
    BY DEF UsersOf, Iterables
  <2>2. RowsOf(t) = Mine[t] /\ Mine[t] \in Seq(RowIds)
    BY <2>1, MineAre DEF IInv
  <2>3. Len(table[it]) \in Nat /\ cursor[t] \in Nat
    BY <2>1, TableIs
  <2>4. PICK k \in Nat : k = Len(table[it])
    BY <2>3
  <2>5. Rows(it) = [n \in 1..k |-> <<it, n>>]
    BY <2>4 DEF Rows
  <2>6. Len(Mine[t]) \in Nat /\ DOMAIN Mine[t] = 1..Len(Mine[t]) /\ Mine[t] = [i \in 1..Len(Mine[t]) |-> Mine[t][i]]
    BY <2>2
  <2>7. /\ \A i \in DOMAIN Mine[t] : Mine[t][i] = <<it, i>>
        /\ Len(Mine[t]) <= k
        /\ Len(Mine[t]) # cursor[t] => Len(Mine[t]) = k
        /\ cursor[t] >= k
    BY <2>1, <2>4 DEF OfOthers
  <2>8. Len(Mine[t]) = k
    BY <2>3, <2>6, <2>7
  <2> QED
    BY <2>2, <2>5, <2>6, <2>7, <2>8
<1>3. SInv => NoRowLost
  BY <1>1, <1>2 DEF NoRowLost
<1> QED
  BY SessionInvariance, <1>3, PTL

\* The first row settles the columns of a whole run, and its converter takes
\* every row.
THEOREM ColumnsAreTheFirstRows == Spec => []FirstRowSetsColumns
<1>1. ASSUME SInv, NEW t \in Transfers, outcome[t] = "ok", source[t] \in Generators \cup Lists
      PROVE  LET f == Head(RowsOf(t))
             IN  /\ AllConvert(f, RowsOf(t))
                 /\ \A i \in DOMAIN published[t] : published[t][i].columns = Row(f).keys
  <2> USE <1>1 DEF SInv, Progress
  <2>1. source[t] \in Iterables /\ source[t] \notin Frames
    BY SourcesAre
  <2>2. RowsOf(t) = Mine[t] /\ Mine[t] = RowsIn(Batches[t]) \o chunk[t] /\ RowsIn(Batches[t]) \in Seq(RowIds)
    BY <2>1, MineAre, MineIs DEF IInv
  <2>3. chunk[t] = <<>>
    BY ExceptionsAre DEF Lives
  <2>4. t \notin Running
    BY RunningIs DEF Stack, Sound
  <2>5. Batches[t] = published[t]
    BY <2>4, MineIs
  <2>6. RowsOf(t) = RowsIn(Batches[t])
    <3>1. RowsIn(Batches[t]) \o <<>> = RowsIn(Batches[t])
      BY <2>2
    <3> QED
      BY <2>2, <2>3, <3>1
  <2>7. Settled(t)
    BY SchemaIs
  <2> QED
    BY <2>1, <2>2, <2>5, <2>6, <2>7 DEF Settled
<1>2. SInv => FirstRowSetsColumns
  BY <1>1 DEF FirstRowSetsColumns
<1> QED
  BY SessionInvariance, <1>2, PTL

-----------------------------------------------------------------------------
(* Files, and tables.                                                      *)

OneSchema(batches) == \A i, j \in DOMAIN batches : batches[i].columns = batches[j].columns

\* What a run over files has read so far, and what those that are through have read.
FromFiles ==
    /\ \A i \in DOMAIN calls : calls[i].step = "files" =>
          /\ Reading
          /\ given # Glob => resolved = given
          /\ destination[calls[i].t] \in Tables => OneSchema(received)
    /\ \A t \in Transfers : outcome[t] = "ok" => t \in ran
    /\ FilesReadWhole
    /\ TablesHaveOneSchema

\* No call has come to read files, no run has ended well.
Elsewhere ==
    /\ \A i \in DOMAIN calls' : calls'[i].step = "files" =>
          i \in DOMAIN calls /\ calls[i].step = "files" /\ calls'[i].t = calls[i].t
    /\ \A t \in Transfers : outcome'[t] = "ok" => outcome[t] = "ok"
    /\ \A t \in Transfers : source[t] # None => source'[t] = source[t] /\ destination'[t] = destination[t]
    /\ published' = published /\ ran \subseteq ran'
    /\ given' = given /\ resolved' = resolved /\ version' = version

\* The calls go on without reading files.
LEMMA NoFiles ==
    ASSUME calls \in Seq(Call),
           \/ calls' = calls \/ calls' = Pausing
           \/ calls # <<>> /\ calls' = Front(calls)
           \/ calls # <<>> /\ \E s \in Steps \ {"files"} : Goto(s)
           \/ \E op, t, s : s # "files" /\ Enter(op, t, s)
    PROVE  \A i \in DOMAIN calls' : calls'[i].step = "files" =>
              i \in DOMAIN calls /\ calls[i].step = "files" /\ calls'[i].t = calls[i].t
<1>1. CASE calls' = calls
  BY <1>1
<1>2. Pausing \in Seq(Call) /\ Len(Pausing) = Len(calls) /\ Len(calls) \in Nat
  BY PausingKeeps
<1>3. ASSUME NEW i \in 1..Len(calls), Pausing[i].step = "files"
      PROVE  i \in DOMAIN calls /\ calls[i].step = "files" /\ Pausing[i].t = calls[i].t
  BY <1>3, PausingSteps
<1>4. CASE calls' = Pausing
  BY <1>2, <1>3, <1>4
<1>5. CASE calls # <<>> /\ calls' = Front(calls)
  BY <1>5, FrontCalls
<1>6. ASSUME calls # <<>>, NEW s \in Steps \ {"files"}, Goto(s)
      PROVE  \A i \in DOMAIN calls' : calls'[i].step = "files" =>
                i \in DOMAIN calls /\ calls[i].step = "files" /\ calls'[i].t = calls[i].t
  <2>1. /\ DOMAIN calls' = DOMAIN calls /\ calls'[Len(calls)].step = s
        /\ \A i \in DOMAIN calls :
              /\ calls'[i].t = calls[i].t
              /\ i # Len(calls) => calls'[i].step = calls[i].step
    BY <1>6, GotoCalls
  <2> QED
    BY <1>6, <2>1
<1>7. ASSUME NEW op, NEW t, NEW s, s # "files", Enter(op, t, s)
      PROVE  \A i \in DOMAIN calls' : calls'[i].step = "files" =>
                i \in DOMAIN calls /\ calls[i].step = "files" /\ calls'[i].t = calls[i].t
  <2> DEFINE c == [op |-> op, t |-> t, step |-> s]
  <2>1. calls' = Append(Pausing, c) /\ c.step # "files"
    BY <1>7 DEF Enter
  <2> HIDE DEF c
  <2>2. \A i \in DOMAIN calls' :
           \/ i = Len(calls) + 1 /\ calls'[i] = c
           \/ i \in 1..Len(calls) /\ calls'[i] = Pausing[i]
    BY <1>2, <2>1
  <2> QED
    BY <1>3, <2>1, <2>2
<1> QED
  BY <1>1, <1>4, <1>5, <1>6, <1>7

\* Nothing that FromFiles speaks of has changed.
LEMMA ElsewhereStep ==
    ASSUME SInv, FromFiles, Elsewhere,
           \/ partitions' = partitions /\ received' = received /\ disk' = disk
           \/ \A i \in DOMAIN calls' : calls'[i].step # "files"
    PROVE  FromFiles'
<1> USE DEF SInv, Progress
<1>1. ASSUME NEW i \in DOMAIN calls', calls'[i].step = "files"
      PROVE  Reading' /\ (given' # Glob => resolved' = given')
             /\ (destination'[calls'[i].t] \in Tables => OneSchema(received'))
  <2>1. /\ i \in DOMAIN calls /\ calls[i].step = "files" /\ calls'[i].t = calls[i].t
        /\ partitions' = partitions /\ received' = received /\ resolved' = resolved
        /\ version' = version /\ given' = given
    BY <1>1 DEF Elsewhere
  <2>2. calls[i].t \in Transfers /\ source[calls[i].t] # None
    BY <2>1, CallsAre DEF IInv, Typing, Making
  <2>3. destination'[calls'[i].t] = destination[calls[i].t]
    BY <2>1, <2>2 DEF Elsewhere
  <2>4. Reading => Reading'
    BY <2>1 DEF Reading, ReadSoFar, Opened, Left
  <2> QED
    BY <2>1, <2>3, <2>4 DEF FromFiles
<1>2. ASSUME NEW t \in Transfers, outcome'[t] = "ok"
      PROVE  outcome[t] = "ok" /\ source'[t] = source[t] /\ t \in ran'
  <2>1. outcome[t] = "ok" /\ source[t] \in Sources /\ source[t] # None
    BY <1>2, SourcesAre DEF Elsewhere, Lives, Sources
  <2> QED
    BY <2>1 DEF Elsewhere, FromFiles
<1>3. FilesReadWhole'
  <2> SUFFICES ASSUME NEW t \in Transfers, source'[t] = FileObject, outcome'[t] = "ok"
               PROVE  ReadWhole(resolved, published[t])' /\ (given' # Glob => resolved' = given')
    BY DEF FilesReadWhole, UsersOf
  <2>1. ReadWhole(resolved, published[t]) /\ (given # Glob => resolved = given)
    BY <1>2 DEF FromFiles, FilesReadWhole, UsersOf
  <2> QED
    BY <2>1 DEF Elsewhere, ReadWhole
<1>4. TablesHaveOneSchema'
  <2> SUFFICES ASSUME NEW t \in Transfers, destination'[t] \in Tables
               PROVE  OneSchema(published'[t])
    BY DEF TablesHaveOneSchema, OneSchema
  <2>1. CASE source[t] = None
    BY <2>1, ExceptionsAre DEF Lives, Elsewhere, OneSchema
  <2>2. CASE source[t] # None
    BY <2>2 DEF Elsewhere, OneSchema, FromFiles, TablesHaveOneSchema
  <2> QED
    BY <2>1, <2>2
<1> QED
  BY <1>1, <1>2, <1>3, <1>4 DEF FromFiles, OneSchema

\* When a call returns, those left are in their generators' bodies.
LEMMA BodiesLeft ==
    ASSUME SInv, calls # <<>>, calls' = Front(calls)
    PROVE  \A i \in DOMAIN calls' : calls'[i].step # "files"
<1>1. calls \in Seq(Call)
  BY DEF SInv, IInv, Typing
<1>2. \A i \in DOMAIN calls' : i \in DOMAIN calls /\ i < Len(calls) /\ calls'[i] = calls[i]
  <2>1. \A S : \A s \in Seq(S) : s # <<>> =>
           \A i \in DOMAIN Front(s) : i \in DOMAIN s /\ i < Len(s) /\ Front(s)[i] = s[i]
    BY DEF Front
  <2> QED
    BY <1>1, <2>1
<1> QED
  BY <1>2 DEF SInv, Progress, Stack

LEMMA FailsElsewhere ==
    ASSUME SInv, FromFiles, NEW t \in Transfers,
           \/ BodyRaises(t) \/ GeneratorBusy(t)
           \/ RefuseRows(t) \/ RefuseDestination(t) \/ RefuseConsumed(t)
           \/ ChunkFails(t) \/ ResolveFails(t) \/ BatchRefused(t)
           \/ OpenFails(t) \/ DecodeFails(t) \/ DestinationFails(t)
    PROVE  FromFiles'
<1> USE DEF SInv, Progress
<1>1. CallFails(t)
  BY Raises
<1>2. given' = given /\ resolved' = resolved /\ version' = version /\ destination' = destination
  BY DEF BodyRaises, GeneratorBusy, RowFails, RefuseRows, RefuseDestination, RefuseConsumed,
         ChunkFails, ResolveFails, BatchRefused, OpenFails, DecodeFails, DestinationFails,
         RunReturns, filesVars, args
<1>3. \A i \in DOMAIN calls' : calls'[i].step # "files"
  BY <1>1, BodiesLeft DEF CallFails
<1>4. \A u \in Transfers : outcome'[u] = "ok" => outcome[u] = "ok"
  <2>1. PICK e \in Exceptions : outcome' = [outcome EXCEPT ![t] = e]
    BY <1>1 DEF CallFails
  <2> QED
    BY <2>1, ExceptionsAre DEF Kinds, Fine
<1>5. Elsewhere
  BY <1>1, <1>2, <1>3, <1>4 DEF Elsewhere, CallFails
<1> QED
  BY <1>3, <1>5, ElsewhereStep

LEMMA RowsElsewhere ==
    ASSUME SInv, FromFiles, NEW t \in Transfers,
           \/ TakeRow(t) \/ EndRows(t) \/ MakeTransfer(t) \/ Deliver(t)
           \/ Run(t) \/ RunPanics(t) \/ RunAgain(t)
           \/ \E s \in Objects, d \in Destinations \cup {Stranger} : NewTransfer(t, s, d)
    PROVE  FromFiles'
<1> USE DEF SInv, Progress
<1>1. calls \in Seq(Call)
  BY DEF IInv, Typing
<1>2. Elsewhere /\ partitions' = partitions /\ received' = received /\ disk' = disk => FromFiles'
  BY ElsewhereStep
<1>3. CASE TakeRow(t) \/ EndRows(t)
  <2>1. /\ UNCHANGED <<filesVars, args, connectors, results>> /\ calls # <<>>
        /\ \E s \in Steps \ {"files"} : Goto(s)
    BY <1>3 DEF TakeRow, Take, EndRows, Asking, Steps
  <2>2. Elsewhere
    BY <1>1, <2>1, NoFiles DEF Elsewhere, filesVars, args, connectors, results
  <2> QED
    BY <1>2, <2>1, <2>2 DEF filesVars
<1>4. CASE MakeTransfer(t)
  <2>1. /\ UNCHANGED <<filesVars, args, ran, published>> /\ calls # <<>> /\ calls' = Front(calls)
        /\ outcome' = [outcome EXCEPT ![t] = "made"]
    BY <1>4 DEF MakeTransfer, Make, At
  <2>2. \A u \in Transfers : outcome'[u] = "ok" => outcome[u] = "ok"
    BY <2>1 DEF Kinds
  <2>3. Elsewhere
    BY <1>1, <2>1, <2>2, NoFiles DEF Elsewhere, filesVars, args
  <2> QED
    BY <1>2, <2>1, <2>3 DEF filesVars
<1>5. CASE Deliver(t)
  <2>1. /\ UNCHANGED <<given, disk, version, resolved, partitions, args, connectors, results>>
        /\ calls # <<>> /\ Goto("next") /\ At("run", t, "coerced")
    BY <1>5 DEF Deliver, DeliverAs, At
  <2>2. Elsewhere
    BY <1>1, <2>1, NoFiles DEF Elsewhere, args, connectors, results, Steps
  <2>3. \A i \in DOMAIN calls' : calls'[i].step # "files"
    <3>1. /\ DOMAIN calls' = DOMAIN calls /\ calls'[Len(calls)].step = "next"
          /\ \A i \in DOMAIN calls : i # Len(calls) => calls'[i].step = calls[i].step
      BY <1>1, <2>1, GotoCalls DEF Steps
    <3>2. \A i \in DOMAIN calls : i < Len(calls) => calls[i].step = "body"
      BY DEF Stack
    <3>3. \A i \in DOMAIN calls : i < Len(calls) \/ i = Len(calls)
      BY <1>1, CallsAre
    <3> QED
      BY <3>1, <3>2, <3>3
  <2> QED
    BY <2>2, <2>3, ElsewhereStep
<1>6. CASE Run(t)
  <2>1. /\ UNCHANGED <<filesVars, args, results>> /\ ran \subseteq ran'
        /\ \E op, u, s : s # "files" /\ Enter(op, u, s)
    <3>1. PICK s : Enter("run", t, s) /\ s \in {"resolve", "coerced", "next"}
      BY <1>6 DEF Run
    <3> QED
      BY <1>6, <3>1 DEF Run
  <2>2. Elsewhere
    BY <1>1, <2>1, NoFiles DEF Elsewhere, filesVars, args, results
  <2> QED
    BY <1>2, <2>1, <2>2 DEF filesVars
<1>7. CASE RunPanics(t)
  <2>1. /\ UNCHANGED <<filesVars, args, published>> /\ ran \subseteq ran' /\ calls' = Pausing
        /\ outcome' = [outcome EXCEPT ![t] = "PanicException"]
    BY <1>7 DEF RunPanics
  <2>2. \A u \in Transfers : outcome'[u] = "ok" => outcome[u] = "ok"
    BY <2>1 DEF Kinds
  <2>3. Elsewhere
    BY <1>1, <2>1, <2>2, NoFiles DEF Elsewhere, filesVars, args
  <2> QED
    BY <1>2, <2>1, <2>3 DEF filesVars
<1>8. CASE RunAgain(t)
  <2>1. UNCHANGED <<filesVars, args, connectors, results>> /\ calls' = Pausing
    BY <1>8 DEF RunAgain
  <2>2. Elsewhere
    BY <1>1, <2>1, NoFiles DEF Elsewhere, filesVars, args, connectors, results
  <2> QED
    BY <1>2, <2>1, <2>2 DEF filesVars
<1>9. ASSUME NEW s \in Objects, NEW d \in Destinations \cup {Stranger}, NewTransfer(t, s, d)
      PROVE  FromFiles'
  <2>1. /\ UNCHANGED <<filesVars, ran, published>> /\ source[t] = None
        /\ source' = [source EXCEPT ![t] = s] /\ destination' = [destination EXCEPT ![t] = d]
        /\ outcome' = outcome \/ outcome' = [outcome EXCEPT ![t] = "TypeError"]
        /\ calls' = Pausing \/ \E op, u, step : step # "files" /\ Enter(op, u, step)
    <3>1. s # Stranger => \E step \in {"next", "coerced"} : Enter("new", t, step)
      BY <1>9 DEF NewTransfer
    <3> QED
      BY <1>9, <3>1 DEF NewTransfer, connectors
  <2>2. \A u \in Transfers : outcome'[u] = "ok" => outcome[u] = "ok"
    BY <2>1 DEF Kinds
  <2>3. \A u \in Transfers : source[u] # None => source'[u] = source[u] /\ destination'[u] = destination[u]
    BY <2>1 DEF IInv, Typing
  <2>4. Elsewhere
    BY <1>1, <2>1, <2>2, <2>3, NoFiles DEF Elsewhere, filesVars
  <2> QED
    BY <1>2, <2>1, <2>4 DEF filesVars
<1> QED
  BY <1>3, <1>4, <1>5, <1>6, <1>7, <1>8, <1>9

\* A transfer over files that waits or has run is the only one.
LEMMA OneOverFiles ==
    ASSUME SInv, NEW t \in waiting \cup ran, NEW u \in waiting \cup ran,
           source[t] = FileObject, source[u] = FileObject
    PROVE  t = u
<1>1. FileObject \in Connectors(t) \cap Connectors(u)
  BY DEF Connectors, Natives
<1> QED
  BY <1>1 DEF SInv, IInv, UsedOnce

LEMMA FilesReadStep ==
    ASSUME SInv, FromFiles, NEW t \in Transfers, Resolve(t) \/ ReadFiles(t)
    PROVE  FromFiles'
<1> USE DEF SInv, Progress
<1>1. PICK step \in {"resolve", "files"} : At("run", t, step)
  BY DEF Resolve, ReadFiles
<1>2. /\ calls \in Seq(Call) /\ calls # <<>> /\ Len(calls) \in DOMAIN calls
      /\ Top = calls[Len(calls)] /\ Top.op = "run" /\ Top.t = t /\ Top.step = step
      /\ Sound("run", t, step)
  BY <1>1, AtIs
<1>3. source[t] = FileObject /\ outcome[t] = "made" /\ t \in ran
  BY <1>2 DEF Sound
<1>4. UNCHANGED <<args, connectors, results>> /\ given' = given /\ version' = version
  BY StreamPartitionsStep DEF Resolve, ReadFiles, StreamPartitions, OpenFile, ReadBatch, EndFile,
                              sessionVars
<1>5. ASSUME NEW i \in DOMAIN calls', calls'[i].step = "files"
      PROVE  i = Len(calls) /\ calls'[i].t = t
  <2>1. \A j \in DOMAIN calls : j < Len(calls) => calls[j].step = "body"
    BY DEF Stack
  <2>2. \A j \in DOMAIN calls : j < Len(calls) \/ j = Len(calls)
    BY <1>2, CallsAre
  <2>3. calls' = calls \/ Goto("files")
    BY DEF Resolve, ReadFiles, sessionVars
  <2>4. CASE calls' = calls
    BY <1>2, <1>5, <2>1, <2>2, <2>4
  <2>5. CASE Goto("files")
    <3>1. /\ DOMAIN calls' = DOMAIN calls
          /\ \A j \in DOMAIN calls :
                /\ calls'[j].t = calls[j].t
                /\ j # Len(calls) => calls'[j].step = calls[j].step
      BY <1>2, <2>5, GotoCalls DEF Steps
    <3> QED
      BY <1>2, <1>5, <2>1, <2>2, <3>1
  <2> QED
    BY <2>3, <2>4, <2>5
<1>6. /\ Reading' /\ (given' # Glob => resolved' = given')
      /\ destination[t] \in Tables => OneSchema(received')
  <2>1. CASE Resolve(t)
    <3>1. received = <<>> /\ StreamPartitions /\ step = "resolve"
      <4>1. StreamPartitions /\ At("run", t, "resolve")
        BY <2>1 DEF Resolve
      <4>2. Top.step = "resolve"
        BY <4>1, AtIs
      <4> QED
        BY <1>2, <4>1, <4>2 DEF Given
    <3>2. Reading'
      BY <3>1, StreamPartitionsStep
    <3>3. received' = <<>> /\ (given # Glob => resolved' = given)
      BY <3>1 DEF StreamPartitions, Expand
    <3> QED
      BY <1>4, <3>2, <3>3 DEF OneSchema
  <2>2. CASE ReadFiles(t)
    <3>1. step = "files"
      BY <1>1, <2>2 DEF ReadFiles, At
    <3>2. Reading /\ (given # Glob => resolved = given) /\ (destination[t] \in Tables => OneSchema(received))
      BY <1>2, <3>1 DEF FromFiles
    <3>3. CASE OpenFile
      BY <1>4, <3>2, <3>3, OpenFileReads DEF OpenFile
    <3>4. CASE EndFile
      BY <1>4, <3>2, <3>4, EndFileStep DEF EndFile
    <3>5. CASE ReadBatch /\ Fits(t, Last(received'))
      <4>1. Reading' /\ resolved' = resolved
        BY <3>2, <3>5, ReadBatchStep DEF ReadBatch
      <4>2. PICK b \in Batch : received' = Append(received, b)
        BY <3>5, ReadBatchStep
      <4>3. received \in Seq(Batch)
        BY <3>2 DEF Reading
      <4>4. Last(received') = b
        BY <4>2, <4>3 DEF Last
      <4>5. ASSUME destination[t] \in Tables PROVE OneSchema(received')
        <5>1. OneSchema(received) /\ (received # <<>> => b.columns = Head(received).columns)
          BY <3>2, <3>5, <4>4, <4>5 DEF Fits
        <5>2. \A i \in DOMAIN received' : received'[i] = b \/ (i \in DOMAIN received /\ received'[i] = received[i])
          BY <4>2, <4>3, AppendAt
        <5>3. received # <<>> => 1 \in DOMAIN received /\ Head(received) = received[1]
          BY <4>3
        <5>4. \A i \in DOMAIN received : received[i].columns = b.columns
          BY <4>3, <5>1, <5>3 DEF OneSchema
        <5> QED
          BY <5>2, <5>4 DEF OneSchema
      <4> QED
        BY <1>4, <3>2, <4>1, <4>5
    <3> QED
      BY <2>2, <3>3, <3>4, <3>5 DEF ReadFiles
  <2> QED
    BY <2>1, <2>2
<1>7. FilesReadWhole'
  <2> SUFFICES ASSUME NEW u \in Transfers, source[u] = FileObject, outcome[u] = "ok" PROVE FALSE
    BY <1>4 DEF FilesReadWhole, UsersOf, args, results
  <2> QED
    BY <1>3, OneOverFiles DEF FromFiles
<1>8. TablesHaveOneSchema' /\ \A u \in Transfers : outcome'[u] = "ok" => u \in ran'
  BY <1>4 DEF TablesHaveOneSchema, FromFiles, args, results, connectors
<1> QED
  BY <1>4, <1>5, <1>6, <1>7, <1>8 DEF FromFiles, OneSchema, args

\* Another process replaces the files.
LEMMA ReplaceElsewhere ==
    ASSUME SInv, FromFiles, Replace
    PROVE  FromFiles'
<1>1. UNCHANGED sessionVars /\ given' = given /\ resolved' = resolved /\ received' = received
  BY DEF Replace, PublishOutput, RemoveEntry
<1>2. Reading => Reading'
  BY ReplaceStep DEF Replace, SInv
<1>3. version \in Nat /\ version' \in Nat /\ version <= version'
  <2>1. version \in Nat
    BY FilesAssumption DEF FilesAssumption, SInv, FilesInv
  <2> QED
    BY <2>1 DEF Replace, PublishOutput, RemoveEntry
<1>4. FilesReadWhole'
  <2> SUFFICES ASSUME NEW t \in Transfers, source[t] = FileObject, outcome[t] = "ok"
               PROVE  ReadWhole(resolved, published[t])' /\ (given' # Glob => resolved' = given')
    BY <1>1 DEF FilesReadWhole, UsersOf, sessionVars, args, results
  <2>1. ReadWhole(resolved, published[t]) /\ (given # Glob => resolved = given)
    BY DEF FromFiles, FilesReadWhole, UsersOf
  <2>2. PICK paths, batches : paths = resolved /\ batches = published[t]
    OBVIOUS
  <2>3. ReadWhole(paths, batches)'
    BY <1>3, <2>1, <2>2, WholeStays
  <2> QED
    BY <1>1, <2>1, <2>2, <2>3 DEF ReadWhole, sessionVars, results
<1> QED
  BY <1>1, <1>2, <1>4
     DEF FromFiles, TablesHaveOneSchema, OneSchema, sessionVars, args, connectors, results

\* A run that has read everything is through.
LEMMA FinishReads ==
    ASSUME SInv, FromFiles, NEW t \in Transfers, Finish(t)
    PROVE  FromFiles'
<1> USE DEF SInv, Progress
<1>1. PICK step \in {"coerced", "files"} :
         At("run", t, step) /\ (step = "files" => partitions = <<>>)
  BY DEF Finish, SourceEnded
<1>2. /\ published' = [published EXCEPT ![t] = received]
      /\ calls' = Front(calls) /\ given' = given /\ resolved' = resolved /\ version' = version
      /\ outcome' = [outcome EXCEPT ![t] = IF received = <<>> THEN "EmptySourceError" ELSE "ok"]
      /\ UNCHANGED <<source, destination, ran>>
  <2>1. ToPyErr["EmptySource"] = "EmptySourceError"
    BY DEF ToPyErr
  <2> QED
    BY <2>1 DEF Finish, RunReturns, args, connectors
<1>3. /\ calls \in Seq(Call) /\ calls # <<>> /\ Len(calls) \in DOMAIN calls
      /\ Top = calls[Len(calls)] /\ Top.op = "run" /\ Top.t = t /\ Top.step = step
      /\ Sound("run", t, step) /\ t \in Running
  BY <1>1, AtIs
<1>4. \A i \in DOMAIN calls' : calls'[i].step # "files"
  BY <1>2, <1>3, BodiesLeft
<1>5. /\ published'[t] = received /\ t \in ran
      /\ outcome'[t] = IF received = <<>> THEN "EmptySourceError" ELSE "ok"
      /\ \A u \in Transfers \ {t} : published'[u] = published[u] /\ outcome'[u] = outcome[u]
  BY <1>2, <1>3 DEF Kinds, Sound
<1>6. step = "files" =>
         /\ ReadWhole(resolved, received) /\ (given # Glob => resolved = given)
         /\ destination[t] \in Tables => OneSchema(received)
  <2> SUFFICES ASSUME step = "files"
               PROVE  /\ ReadWhole(resolved, received) /\ (given # Glob => resolved = given)
                      /\ destination[t] \in Tables => OneSchema(received)
    OBVIOUS
  <2>1. Reading /\ (given # Glob => resolved = given) /\ (destination[t] \in Tables => OneSchema(received))
    BY <1>3 DEF FromFiles
  <2> QED
    BY <1>1, <2>1, WholeWhenRead
<1>7. OneSchema(received) \/ step = "files"
  <2> SUFFICES ASSUME step = "coerced" PROVE OneSchema(received)
    OBVIOUS
  <2>1. source[t] \in Iterables
    BY <1>3 DEF Sound, Sources
  <2>2. Settled(t) /\ Batches[t] = received
    BY <1>3, SchemaIs, MineIs
  <2> QED
    BY <1>3, <2>1, <2>2 DEF Settled, OneSchema
<1>8. FilesReadWhole'
  <2> SUFFICES ASSUME NEW u \in Transfers, source[u] = FileObject, outcome'[u] = "ok"
               PROVE  ReadWhole(resolved, published[u])' /\ (given' # Glob => resolved' = given')
    BY <1>2 DEF FilesReadWhole, UsersOf
  <2>1. CASE u = t
    <3>1. step = "files"
      BY <1>3, <2>1 DEF Sound
    <3> QED
      BY <1>2, <1>5, <1>6, <2>1, <3>1 DEF ReadWhole
  <2>2. CASE u # t
    <3>1. ReadWhole(resolved, published[u]) /\ (given # Glob => resolved = given)
      BY <1>5, <2>2 DEF FromFiles, FilesReadWhole, UsersOf
    <3> QED
      BY <1>2, <1>5, <2>2, <3>1 DEF ReadWhole
  <2> QED
    BY <2>1, <2>2
<1>9. TablesHaveOneSchema'
  <2>1. destination[t] \in Tables => OneSchema(received)
    BY <1>6, <1>7
  <2> QED
    BY <1>2, <1>5, <2>1 DEF TablesHaveOneSchema, FromFiles, OneSchema
<1>10. \A u \in Transfers : outcome'[u] = "ok" => u \in ran'
  BY <1>2, <1>5 DEF FromFiles
<1> QED
  BY <1>4, <1>8, <1>9, <1>10 DEF FromFiles

LEMMA FromFilesStep ==
    ASSUME SInv, FromFiles, [Next]_vars
    PROVE  FromFiles'
<1>1. CASE UNCHANGED vars
  <2>1. Elsewhere
    BY <1>1 DEF Elsewhere, vars, filesVars, sessionVars, args, connectors, results
  <2> QED
    BY <1>1, <2>1, ElsewhereStep DEF vars, filesVars
<1>2. CASE Replace
  BY <1>2, ReplaceElsewhere
<1>3. ASSUME NEW t \in Transfers,
             \/ \E s \in Iterables \cup {FileObject, Stranger}, d \in Destinations \cup {Stranger} :
                    NewTransfer(t, s, d)
             \/ Run(t) \/ RunPanics(t) \/ RunAgain(t)
             \/ TakeRow(t) \/ EndRows(t) \/ MakeTransfer(t) \/ Deliver(t)
      PROVE  FromFiles'
  BY <1>3, RowsElsewhere DEF Objects
<1>4. ASSUME NEW t \in Transfers, Resolve(t) \/ ReadFiles(t) PROVE FromFiles'
  BY <1>4, FilesReadStep
<1>5. ASSUME NEW t \in Transfers, Finish(t) PROVE FromFiles'
  BY <1>5, FinishReads
<1>6. ASSUME NEW t \in Transfers,
             \/ BodyRaises(t) \/ GeneratorBusy(t)
             \/ RefuseRows(t) \/ RefuseDestination(t) \/ RefuseConsumed(t)
             \/ ChunkFails(t) \/ ResolveFails(t) \/ BatchRefused(t)
             \/ OpenFails(t) \/ DecodeFails(t) \/ DestinationFails(t)
      PROVE  FromFiles'
  BY <1>6, FailsElsewhere
<1> QED
  BY <1>1, <1>2, <1>3, <1>4, <1>5, <1>6 DEF Next, Proceed

LEMMA FromFilesInit ==
    ASSUME Init
    PROVE  FromFiles
<1>1. None # "ok"
  BY ExceptionsAre
<1> QED
  BY <1>1 DEF Init, FromFiles, FilesReadWhole, UsersOf, TablesHaveOneSchema

\* What FromFiles says holds of every program.
THEOREM FilesInvariance == Spec => [](SInv /\ FromFiles)
<1>1. Init => SInv /\ FromFiles
  BY ProgressInit, FromFilesInit
<1>2. SInv /\ FromFiles /\ [Next]_vars => SInv' /\ FromFiles'
  BY SInvStep, FromFilesStep
<1> QED
  BY <1>1, <1>2, PTL DEF Spec

\* Whatever another process does to the files, a run that succeeds has read each
\* path it resolved, once, whole, and from no older output than the path before.
THEOREM FilesAreReadWhole == Spec => []FilesReadWhole
<1>1. SInv /\ FromFiles => FilesReadWhole
  BY DEF FromFiles
<1> QED
  BY FilesInvariance, <1>1, PTL

\* The rows a run puts in a table all come under the same columns, even if the
\* files were replaced by others of other columns while it read them.
THEOREM TablesAreOfOneSchema == Spec => []TablesHaveOneSchema
<1>1. SInv /\ FromFiles => TablesHaveOneSchema
  BY DEF FromFiles
<1> QED
  BY FilesInvariance, <1>1, PTL
=============================================================================
