--------------------------- MODULE PySessionProofs ---------------------------
(***************************************************************************)
(* That a connector is used once (UsedOnce) and leaves its object only for *)
(* a transfer or with a RuntimeError (ConnectorsKept), for any number of   *)
(* transfers, connectors, rows and files and any depth of nested calls.    *)
(***************************************************************************)
EXTENDS PySession, SequenceTheorems, TLAPS

Objects == Iterables \cup {FileObject, Stranger}
Steps == {"next", "body", "coerced", "resolve", "files"}
Call == [op : {"new", "run"}, t : Transfers, step : Steps]

Typing ==
    /\ calls \in Seq(Call)
    /\ source \in [Transfers -> Objects \cup {None}]
    /\ destination \in [Transfers -> Destinations \cup {Stranger, None}]
    /\ DOMAIN outcome = Transfers
    /\ waiting \cup ran \subseteq Transfers

\* A transfer that is being made has its arguments, is made by one call only
\* and is not there yet.
Making ==
    /\ \A t \in waiting \cup ran : source[t] # None
    /\ \A i \in DOMAIN calls :
          /\ source[calls[i].t] # None
          /\ calls[i].op = "new" => calls[i].t \notin waiting \cup ran
    /\ \A i, j \in DOMAIN calls :
          i # j /\ calls[i].op = "new" /\ calls[j].op = "new" => calls[i].t # calls[j].t

IInv == Typing /\ Making /\ UsedOnce

-----------------------------------------------------------------------------
\* A call that pauses in its generator's body keeps its place in the stack.
LEMMA PausingKeeps ==
    ASSUME calls \in Seq(Call)
    PROVE  /\ Pausing \in Seq(Call)
           /\ Len(Pausing) = Len(calls)
           /\ \A i \in 1..Len(calls) : Pausing[i].op = calls[i].op /\ Pausing[i].t = calls[i].t
<1>1. CASE calls = <<>>
  BY <1>1 DEF Pausing
<1>2. CASE calls # <<>>
  <2>1. Len(calls) \in DOMAIN calls /\ calls[Len(calls)] \in Call
    BY <1>2
  <2>2. [calls[Len(calls)] EXCEPT !.step = "body"] \in Call
    <3>1. \A s \in Steps : [calls[Len(calls)] EXCEPT !.step = s] \in Call
      BY <2>1 DEF Call
    <3>2. "body" \in Steps
      BY DEF Steps
    <3> QED
      BY <3>1, <3>2
  <2>3. Pausing = [calls EXCEPT ![Len(calls)].step = "body"]
    BY <1>2 DEF Pausing
  <2>4. Pausing \in Seq(Call) /\ Len(Pausing) = Len(calls)
    BY <2>1, <2>2, <2>3
  <2>5. ASSUME NEW i \in 1..Len(calls)
        PROVE  Pausing[i].op = calls[i].op /\ Pausing[i].t = calls[i].t
    <3>1. calls[i] \in Call
      OBVIOUS
    <3>2. Pausing[i] = IF i = Len(calls) THEN [calls[i] EXCEPT !.step = "body"] ELSE calls[i]
      BY <2>1, <2>3
    <3> QED
      BY <3>1, <3>2 DEF Call
  <2> QED
    BY <2>4, <2>5
<1> QED
  BY <1>1, <1>2

\* The stack without its last call.
LEMMA FrontCalls ==
    ASSUME calls \in Seq(Call), calls # <<>>
    PROVE  /\ Front(calls) \in Seq(Call)
           /\ Len(Front(calls)) = Len(calls) - 1
           /\ DOMAIN Front(calls) = DOMAIN calls \ {Len(calls)}
           /\ \A i \in DOMAIN Front(calls) : Front(calls)[i] = calls[i]
<1> DEFINE n == Len(calls) - 1
<1>1. n \in Nat /\ Len(calls) = n + 1 /\ n \in Int /\ 1 \in Int
  OBVIOUS
<1>2. \A i \in 1..n : calls[i] \in Call
  BY <1>1
<1>3. Front(calls) = SubSeq(calls, 1, n)
  BY DEF Front
<1>4. DOMAIN calls = 1..(n + 1)
  BY <1>1
<1> HIDE DEF n
<1>5. /\ SubSeq(calls, 1, n) \in Seq(Call)
      /\ Len(SubSeq(calls, 1, n)) = IF 1 <= n THEN n - 1 + 1 ELSE 0
      /\ \A i \in 1..(n - 1 + 1) : SubSeq(calls, 1, n)[i] = calls[1 + i - 1]
  BY <1>1, <1>2, SubSeqProperties
<1>6. n - 1 + 1 = n /\ (1 <= n \/ n = 0)
  BY <1>1
<1>7. Len(Front(calls)) = n /\ Front(calls) \in Seq(Call)
  BY <1>3, <1>5, <1>6
<1>8. DOMAIN Front(calls) = 1..n
  BY <1>7
<1>9. ASSUME NEW i \in 1..n PROVE Front(calls)[i] = calls[i]
  <2>1. 1 + i - 1 = i
    BY <1>1
  <2> QED
    BY <1>3, <1>5, <1>6, <2>1
<1> QED
  <2>1. 1..n = (1..(n + 1)) \ {n + 1}
    BY <1>1
  <2> QED
    BY <1>1, <1>4, <1>7, <1>8, <1>9, <2>1 DEF n

\* What a step may do to the stack short of a new call: nothing, change how far
\* the last call is, pause it, or end it.
Keeps ==
    \/ calls' = calls
    \/ calls # <<>> /\ \E s \in Steps : calls' = [calls EXCEPT ![Len(calls)].step = s]
    \/ calls # <<>> /\ calls' = Front(calls)
    \/ calls' = Pausing

\* The calls that are left are the same calls.
LEMMA KeepsCalls ==
    ASSUME calls \in Seq(Call), Keeps
    PROVE  /\ calls' \in Seq(Call)
           /\ Len(calls') <= Len(calls)
           /\ \A i \in DOMAIN calls' :
                 /\ i \in DOMAIN calls
                 /\ calls'[i].op = calls[i].op
                 /\ calls'[i].t = calls[i].t
<1>1. CASE calls' = calls
  BY <1>1
<1>2. ASSUME calls # <<>>, NEW s \in Steps, calls' = [calls EXCEPT ![Len(calls)].step = s]
      PROVE  /\ calls' \in Seq(Call)
             /\ Len(calls') <= Len(calls)
             /\ \A i \in DOMAIN calls' :
                   i \in DOMAIN calls /\ calls'[i].op = calls[i].op /\ calls'[i].t = calls[i].t
  <2>1. Len(calls) \in DOMAIN calls /\ calls[Len(calls)] \in Call
    BY <1>2
  <2>2. [calls[Len(calls)] EXCEPT !.step = s] \in Call
    BY <2>1 DEF Call
  <2>3. calls' \in Seq(Call) /\ Len(calls') = Len(calls) /\ DOMAIN calls' = DOMAIN calls
    BY <1>2, <2>1, <2>2
  <2>4. ASSUME NEW i \in DOMAIN calls
        PROVE  calls'[i].op = calls[i].op /\ calls'[i].t = calls[i].t
    <3>1. calls[i] \in Call
      OBVIOUS
    <3>2. calls'[i] = IF i = Len(calls) THEN [calls[i] EXCEPT !.step = s] ELSE calls[i]
      BY <1>2, <2>1
    <3> QED
      BY <3>1, <3>2 DEF Call
  <2> QED
    BY <2>3, <2>4
<1>3. CASE calls # <<>> /\ calls' = Front(calls)
  BY <1>3, FrontCalls
<1>4. CASE calls' = Pausing
  BY <1>4, PausingKeeps
<1> QED
  BY <1>1, <1>2, <1>3, <1>4 DEF Keeps

\* A new call is put on top of the same calls.
LEMMA EnterCalls ==
    ASSUME calls \in Seq(Call), NEW op \in {"new", "run"}, NEW t \in Transfers,
           NEW step \in Steps, Enter(op, t, step)
    PROVE  /\ calls' \in Seq(Call)
           /\ Len(calls') = Len(calls) + 1
           /\ calls'[Len(calls) + 1].op = op /\ calls'[Len(calls) + 1].t = t
           /\ \A i \in 1..Len(calls) : calls'[i].op = calls[i].op /\ calls'[i].t = calls[i].t
<1> DEFINE top == [op |-> op, t |-> t, step |-> step]
<1>1. top \in Call
  BY DEF Call
<1>2. calls' = Append(Pausing, top)
  BY DEF Enter
<1>3. /\ Pausing \in Seq(Call)
      /\ Len(Pausing) = Len(calls)
      /\ \A i \in 1..Len(calls) : Pausing[i].op = calls[i].op /\ Pausing[i].t = calls[i].t
  BY PausingKeeps
<1> QED
  BY <1>1, <1>2, <1>3

-----------------------------------------------------------------------------
\* A step that takes no connector and begins no call.
LEMMA QuietStep ==
    ASSUME IInv, Keeps, UNCHANGED <<source, destination, held, waiting, ran>>,
           DOMAIN outcome' = Transfers
    PROVE  IInv'
<1>1. /\ calls' \in Seq(Call)
      /\ \A i \in DOMAIN calls' :
            i \in DOMAIN calls /\ calls'[i].op = calls[i].op /\ calls'[i].t = calls[i].t
  BY KeepsCalls DEF IInv, Typing
<1>2. Typing'
  BY <1>1 DEF IInv, Typing
<1>3. Making'
  BY <1>1 DEF IInv, Making
<1>4. UsedOnce'
  BY DEF IInv, UsedOnce, Connectors
<1> QED
  BY <1>2, <1>3, <1>4 DEF IInv

\* The last call is the one an action is about.
LEMMA TopCall ==
    ASSUME calls \in Seq(Call), NEW op, NEW t, NEW step, At(op, t, step)
    PROVE  /\ Len(calls) \in DOMAIN calls
           /\ calls[Len(calls)].op = op /\ calls[Len(calls)].t = t
BY DEF At, Top, Last

\* Transfer.__new__ begins with a transfer that nothing has named before.
LEMMA NewTransferStep ==
    ASSUME IInv, NEW t \in Transfers, NEW s \in Objects, NEW d \in Destinations \cup {Stranger},
           NewTransfer(t, s, d)
    PROVE  IInv'
<1>0. s # None
  BY SessionAssumption DEF SessionAssumption, Objects
<1>1. /\ source[t] = None
      /\ source' = [source EXCEPT ![t] = s]
      /\ destination' = [destination EXCEPT ![t] = d]
      /\ UNCHANGED <<held, waiting, ran>>
  BY DEF NewTransfer, connectors
<1>2. DOMAIN outcome' = Transfers
  BY DEF NewTransfer, IInv, Typing
<1>3. \A u \in Transfers : u # t => source'[u] = source[u] /\ destination'[u] = destination[u]
  BY <1>1 DEF IInv, Typing
<1>4. t \notin waiting \cup ran /\ \A i \in DOMAIN calls : calls[i].t # t
  BY <1>1 DEF IInv, Making
<1>5. source'[t] = s
  BY <1>1 DEF IInv, Typing
<1>6. \A i \in DOMAIN calls : calls[i].t \in Transfers
  <2>1. \A i \in DOMAIN calls : calls[i] \in Call
    BY DEF IInv, Typing
  <2> QED
    BY <2>1 DEF Call
<1>7. UsedOnce'
  <2>1. \A u \in waiting \cup ran : u \in Transfers /\ u # t
    BY <1>4 DEF IInv, Typing
  <2>2. \A u \in waiting \cup ran : Connectors(u)' = Connectors(u)
    BY <1>3, <2>1 DEF Connectors
  <2> QED
    BY <1>1, <2>2 DEF IInv, UsedOnce
<1>8. CASE s = Stranger
  <2>1. calls' = Pausing
    BY <1>8 DEF NewTransfer
  <2>2. /\ calls' \in Seq(Call)
        /\ \A i \in DOMAIN calls' :
              i \in DOMAIN calls /\ calls'[i].op = calls[i].op /\ calls'[i].t = calls[i].t
    BY <2>1, KeepsCalls DEF Keeps, IInv, Typing
  <2>3. Typing'
    BY <1>1, <1>2, <2>2 DEF IInv, Typing
  <2>4. Making'
    BY <1>1, <1>3, <1>4, <1>6, <2>2 DEF IInv, Making, Typing
  <2> QED
    BY <2>3, <2>4, <1>7 DEF IInv
<1>9. CASE s # Stranger
  <2>1. PICK step \in Steps : Enter("new", t, step)
    BY <1>9 DEF NewTransfer, Steps
  <2>2. /\ calls' \in Seq(Call)
        /\ Len(calls') = Len(calls) + 1
        /\ calls'[Len(calls) + 1].op = "new" /\ calls'[Len(calls) + 1].t = t
        /\ \A i \in 1..Len(calls) : calls'[i].op = calls[i].op /\ calls'[i].t = calls[i].t
    BY <2>1, EnterCalls DEF IInv, Typing
  <2>3. Typing'
    BY <1>1, <1>2, <2>2 DEF IInv, Typing
  <2>4. DOMAIN calls = 1..Len(calls) /\ DOMAIN calls' = 1..(Len(calls) + 1) /\ Len(calls) \in Nat
    BY <2>2 DEF IInv, Typing
  <2>5. Making'
    <3>1. \A u \in waiting' \cup ran' : source'[u] # None
      BY <1>1, <1>3, <1>4 DEF IInv, Making, Typing
    <3>2. ASSUME NEW i \in DOMAIN calls'
          PROVE  /\ source'[calls'[i].t] # None
                 /\ calls'[i].op = "new" => calls'[i].t \notin waiting' \cup ran'
      <4>1. CASE i = Len(calls) + 1
        BY <4>1, <2>2, <1>0, <1>1, <1>4, <1>5
      <4>2. CASE i # Len(calls) + 1
        <5>1. i \in DOMAIN calls
          BY <4>2, <2>4
        <5> QED
          BY <5>1, <2>2, <2>4, <1>1, <1>3, <1>4, <1>6 DEF IInv, Making
      <4> QED
        BY <4>1, <4>2
    <3>3. ASSUME NEW i \in DOMAIN calls', NEW j \in DOMAIN calls', i # j,
                 calls'[i].op = "new", calls'[j].op = "new"
          PROVE  calls'[i].t # calls'[j].t
      <4>1. CASE i = Len(calls) + 1
        BY <4>1, <3>3, <2>2, <2>4, <1>4
      <4>2. CASE j = Len(calls) + 1
        BY <4>2, <3>3, <2>2, <2>4, <1>4
      <4>3. CASE i # Len(calls) + 1 /\ j # Len(calls) + 1
        BY <4>3, <3>3, <2>2, <2>4 DEF IInv, Making
      <4> QED
        BY <4>1, <4>2, <4>3
    <3> QED
      BY <3>1, <3>2, <3>3 DEF Making
  <2> QED
    BY <2>3, <2>5, <1>7 DEF IInv
<1> QED
  BY <1>8, <1>9

\* A refused constructor may take connectors; no transfer has them then.
LEMMA RefuseConsumedStep ==
    ASSUME IInv, NEW t \in Transfers, RefuseConsumed(t)
    PROVE  IInv'
<1>1. /\ calls # <<>> /\ calls' = Front(calls)
      /\ held' = held \ Connectors(t)
      /\ UNCHANGED <<source, destination, waiting, ran>>
      /\ DOMAIN outcome' = Transfers
  BY DEF RefuseConsumed, NewRaises, At, args, IInv, Typing
<1>2. /\ calls' \in Seq(Call)
      /\ \A i \in DOMAIN calls' :
            i \in DOMAIN calls /\ calls'[i].op = calls[i].op /\ calls'[i].t = calls[i].t
  BY <1>1, KeepsCalls DEF Keeps, IInv, Typing
<1>3. Typing'
  BY <1>1, <1>2 DEF IInv, Typing
<1>4. Making'
  BY <1>1, <1>2 DEF IInv, Making
<1>5. UsedOnce'
  BY <1>1 DEF IInv, UsedOnce, Connectors
<1> QED
  BY <1>3, <1>4, <1>5 DEF IInv

\* The transfer that is made gets connectors that were still in their objects,
\* which no other transfer has.
LEMMA MakeTransferStep ==
    ASSUME IInv, NEW t \in Transfers, MakeTransfer(t)
    PROVE  IInv'
<1>1. /\ At("new", t, "coerced")
      /\ Connectors(t) \subseteq held
      /\ held' = held \ Connectors(t)
      /\ waiting' = waiting \cup {t}
      /\ calls # <<>> /\ calls' = Front(calls)
      /\ UNCHANGED <<source, destination, ran>>
      /\ DOMAIN outcome' = Transfers
  BY DEF MakeTransfer, Make, At, args, IInv, Typing
<1>2. /\ Len(calls) \in DOMAIN calls
      /\ calls[Len(calls)].op = "new" /\ calls[Len(calls)].t = t
  BY <1>1, TopCall DEF IInv, Typing
<1>3. /\ calls' \in Seq(Call)
      /\ \A i \in DOMAIN calls' :
            i \in DOMAIN calls /\ calls'[i].op = calls[i].op /\ calls'[i].t = calls[i].t
  BY <1>1, KeepsCalls DEF Keeps, IInv, Typing
<1>4. \A i \in DOMAIN calls' : i # Len(calls)
  BY <1>1, FrontCalls DEF IInv, Typing
<1>5. t \notin waiting \cup ran /\ source[t] # None
  BY <1>2 DEF IInv, Making
<1>6. Typing'
  BY <1>1, <1>3 DEF IInv, Typing
<1>7. Making'
  <2>1. \A i \in DOMAIN calls' : calls'[i].op = "new" => calls'[i].t # t
    BY <1>2, <1>3, <1>4 DEF IInv, Making
  <2> QED
    BY <1>1, <1>3, <1>5, <2>1 DEF IInv, Making
<1>8. UsedOnce'
  <2>1. \A u \in Transfers : Connectors(u)' = Connectors(u)
    BY <1>1 DEF Connectors
  <2>2. \A u \in waiting \cup ran : u \in Transfers /\ Connectors(u) \cap Connectors(t) = {}
    BY <1>1 DEF IInv, UsedOnce, Typing
  <2> QED
    BY <1>1, <1>5, <2>1, <2>2 DEF IInv, UsedOnce
<1> QED
  BY <1>6, <1>7, <1>8 DEF IInv

\* A run takes what its transfer held, whether it begins or panics.
LEMMA RunStep ==
    ASSUME IInv, NEW t \in Transfers, Run(t) \/ RunPanics(t)
    PROVE  IInv'
<1>1. /\ t \in waiting /\ waiting' = waiting \ {t} /\ ran' = ran \cup {t}
      /\ UNCHANGED <<source, destination, held>>
      /\ DOMAIN outcome' = Transfers
  BY DEF Run, RunPanics, args, results, IInv, Typing
<1>2. waiting' \cup ran' = waiting \cup ran
  BY <1>1
<1>3. UsedOnce'
  <2>1. \A u \in Transfers : Connectors(u)' = Connectors(u)
    BY <1>1 DEF Connectors
  <2>2. waiting' \cap ran' = {}
    BY <1>1 DEF IInv, UsedOnce
  <2> QED
    BY <1>1, <1>2, <2>1, <2>2 DEF IInv, UsedOnce, Typing
<1>4. CASE RunPanics(t)
  <2>1. calls' = Pausing
    BY <1>4 DEF RunPanics
  <2>2. /\ calls' \in Seq(Call)
        /\ \A i \in DOMAIN calls' :
              i \in DOMAIN calls /\ calls'[i].op = calls[i].op /\ calls'[i].t = calls[i].t
    BY <2>1, KeepsCalls DEF Keeps, IInv, Typing
  <2>3. Typing' /\ Making'
    BY <1>1, <1>2, <2>2 DEF IInv, Typing, Making
  <2> QED
    BY <2>3, <1>3 DEF IInv
<1>5. CASE Run(t)
  <2>1. PICK step \in Steps : Enter("run", t, step)
    BY <1>5 DEF Run, Steps
  <2>2. /\ calls' \in Seq(Call)
        /\ Len(calls') = Len(calls) + 1
        /\ calls'[Len(calls) + 1].op = "run" /\ calls'[Len(calls) + 1].t = t
        /\ \A i \in 1..Len(calls) : calls'[i].op = calls[i].op /\ calls'[i].t = calls[i].t
    BY <2>1, EnterCalls DEF IInv, Typing
  <2>3. Typing'
    BY <1>1, <2>2 DEF IInv, Typing
  <2>4. DOMAIN calls = 1..Len(calls) /\ DOMAIN calls' = 1..(Len(calls) + 1) /\ Len(calls) \in Nat
    BY <2>2 DEF IInv, Typing
  <2>5. \A i \in DOMAIN calls' :
            \/ i = Len(calls) + 1
            \/ i \in DOMAIN calls /\ calls'[i].op = calls[i].op /\ calls'[i].t = calls[i].t
    BY <2>2, <2>4
  <2>6. \A i \in DOMAIN calls' : calls'[i].op = "new" =>
            i \in DOMAIN calls /\ calls'[i].op = calls[i].op /\ calls'[i].t = calls[i].t
    BY <2>2, <2>5
  <2>7. source[t] # None
    BY <1>1 DEF IInv, Making
  <2>8. Making'
    BY <1>1, <1>2, <2>2, <2>5, <2>6, <2>7 DEF IInv, Making
  <2> QED
    BY <2>3, <2>8, <1>3 DEF IInv
<1> QED
  BY <1>4, <1>5

\* What all other steps of a call have in common.
Quiet ==
    /\ Keeps
    /\ UNCHANGED <<source, destination, held, waiting, ran>>
    /\ DOMAIN outcome' = Transfers

\* Taking rows, delivering, reading files, returning and raising: none of it
\* touches a connector's place or begins a call.
LEMMA QuietActions ==
    ASSUME DOMAIN outcome = Transfers, NEW t \in Transfers,
           \/ TakeRow(t) \/ EndRows(t) \/ BodyRaises(t) \/ GeneratorBusy(t)
           \/ RefuseRows(t) \/ RefuseDestination(t) \/ Deliver(t) \/ ChunkFails(t)
           \/ Resolve(t) \/ ResolveFails(t) \/ ReadFiles(t) \/ BatchRefused(t)
           \/ OpenFails(t) \/ DecodeFails(t)
           \/ Finish(t) \/ DestinationFails(t) \/ RunAgain(t)
    PROVE  Quiet
<1> USE DEF Quiet, Keeps, args, connectors, results
<1>1. CASE TakeRow(t)
  BY <1>1 DEF TakeRow, Take, Goto, Asking, Steps
<1>2. CASE EndRows(t)
  BY <1>2 DEF EndRows, Goto, Asking, Steps
<1>3. CASE BodyRaises(t)
  BY <1>3 DEF BodyRaises, InBody, Asking, RowFails, NewRaises, RunReturns
<1>4. CASE GeneratorBusy(t)
  BY <1>4 DEF GeneratorBusy, RowFails, NewRaises, RunReturns
<1>5. CASE RefuseRows(t)
  BY <1>5 DEF RefuseRows, NewRaises, At
<1>6. CASE RefuseDestination(t)
  BY <1>6 DEF RefuseDestination, NewRaises, At
<1>7. CASE Deliver(t)
  BY <1>7 DEF Deliver, DeliverAs, Goto, At, Steps
<1>8. CASE ChunkFails(t)
  BY <1>8 DEF ChunkFails, RunReturns, At
<1>9. CASE Resolve(t)
  BY <1>9 DEF Resolve, Goto, At, Steps
<1>10. CASE ResolveFails(t)
  BY <1>10 DEF ResolveFails, RunReturns, At
<1>11. CASE ReadFiles(t)
  BY <1>11 DEF ReadFiles, sessionVars
<1>12. CASE OpenFails(t)
  BY <1>12 DEF OpenFails, RunReturns, At
<1>13. CASE DecodeFails(t)
  BY <1>13 DEF DecodeFails, RunReturns, At
<1>14. CASE Finish(t)
  BY <1>14 DEF Finish, RunReturns, SourceEnded, At
<1>15. CASE DestinationFails(t)
  BY <1>15 DEF DestinationFails, RunReturns
<1>16. CASE RunAgain(t)
  BY <1>16 DEF RunAgain
<1>17. CASE BatchRefused(t)
  BY <1>17 DEF BatchRefused, RunReturns, At
<1> QED
  BY <1>1, <1>2, <1>3, <1>4, <1>5, <1>6, <1>7, <1>8, <1>9, <1>10, <1>11, <1>12, <1>13, <1>14,
     <1>15, <1>16, <1>17

\* IInv is inductive.
LEMMA InvStep ==
    ASSUME IInv, [Next]_vars
    PROVE  IInv'
<1>1. ASSUME NEW t \in Transfers, NEW s \in Iterables \cup {FileObject, Stranger},
             NEW d \in Destinations \cup {Stranger}, NewTransfer(t, s, d)
      PROVE  IInv'
  BY <1>1, NewTransferStep DEF Objects
<1>2. ASSUME NEW t \in Transfers, Run(t) \/ RunPanics(t)
      PROVE  IInv'
  BY <1>2, RunStep
<1>3. ASSUME NEW t \in Transfers, RunAgain(t) \/ Proceed(t) \/ DestinationFails(t)
      PROVE  IInv'
  <2>1. CASE RefuseConsumed(t)
    BY <2>1, RefuseConsumedStep
  <2>2. CASE MakeTransfer(t)
    BY <2>2, MakeTransferStep
  <2>3. CASE ~RefuseConsumed(t) /\ ~MakeTransfer(t)
    <3>1. Quiet
      BY <1>3, <2>3, QuietActions DEF Proceed, IInv, Typing
    <3> QED
      BY <3>1, QuietStep DEF Quiet
  <2> QED
    BY <2>1, <2>2, <2>3
<1>4. CASE Replace \/ UNCHANGED vars
  <2>1. UNCHANGED <<args, connectors, calls, outcome>>
    BY <1>4 DEF Replace, vars, sessionVars, results
  <2>2. Quiet
    BY <2>1 DEF Quiet, Keeps, args, connectors, IInv, Typing
  <2> QED
    BY <2>2, QuietStep DEF Quiet
<1> QED
  BY <1>1, <1>2, <1>3, <1>4 DEF Next

\* It holds at first: every connector is in its object, no transfer is made.
LEMMA InvInit == Init => IInv
<1> SUFFICES ASSUME Init PROVE IInv
  OBVIOUS
<1>1. Typing
  BY DEF Init, Typing, Objects
<1>2. Making
  BY DEF Init, Making
<1>3. UsedOnce
  BY DEF Init, UsedOnce
<1> QED
  BY <1>1, <1>2, <1>3 DEF IInv

\* A connector is in its object or with one transfer, and no transfer runs
\* twice, whatever the program, its generators and the nesting of its calls.
THEOREM EachIsUsedOnce == Spec => []UsedOnce
<1>1. IInv => UsedOnce
  BY DEF IInv
<1> QED
  BY InvInit, InvStep, <1>1, PTL DEF Spec

\* A connector leaves its object for the transfer it is in, or with a RuntimeError.
LEMMA KeptStep ==
    ASSUME IInv, [Next]_vars, NEW c \in held \ held'
    PROVE  \E t \in Transfers :
              /\ c \in Connectors(t)
              /\ t \in waiting' \/ outcome'[t] = "RuntimeError"
<1>1. ASSUME NEW t \in Transfers, RefuseConsumed(t)
      PROVE  c \in Connectors(t) /\ outcome'[t] = "RuntimeError"
  <2>1. held' = held \ Connectors(t)
    BY <1>1 DEF RefuseConsumed
  <2>2. outcome' = [outcome EXCEPT ![t] = "RuntimeError"]
    BY <1>1 DEF RefuseConsumed, NewRaises
  <2> QED
    BY <2>1, <2>2 DEF IInv, Typing
<1>2. ASSUME NEW t \in Transfers, MakeTransfer(t)
      PROVE  c \in Connectors(t) /\ t \in waiting'
  BY <1>2 DEF MakeTransfer, Make
<1>3. ASSUME held' = held PROVE FALSE
  BY <1>3
<1>4. ASSUME NEW t \in Transfers, ~RefuseConsumed(t), ~MakeTransfer(t),
             RunAgain(t) \/ Proceed(t) \/ DestinationFails(t)
      PROVE  held' = held
  BY <1>4, QuietActions DEF Proceed, Quiet, IInv, Typing
<1>5. ASSUME NEW t \in Transfers, Run(t) \/ RunPanics(t)
      PROVE  held' = held
  BY <1>5 DEF Run, RunPanics
<1>6. ASSUME NEW t \in Transfers, NEW s, NEW d, NewTransfer(t, s, d)
      PROVE  held' = held
  BY <1>6 DEF NewTransfer, connectors
<1>7. CASE Replace \/ UNCHANGED vars
  BY <1>7, <1>3 DEF Replace, vars, sessionVars, connectors
<1> QED
  BY <1>1, <1>2, <1>3, <1>4, <1>5, <1>6, <1>7 DEF Next

\* A constructor that refuses its rows or its destination for what they are
\* takes no connector, for every program.
THEOREM RefusalsTakeNothing == Spec => ConnectorsKept
<1>1. IInv /\ [Next]_vars =>
          [\A c \in held \ held' :
              \E t \in Transfers :
                  /\ c \in Connectors(t)
                  /\ t \in waiting' \/ outcome'[t] = "RuntimeError"]_vars
  BY KeptStep
<1> QED
  BY InvInit, InvStep, <1>1, PTL DEF Spec, ConnectorsKept
=============================================================================
