------------------------- MODULE PgDestinationProofs -------------------------
(***************************************************************************)
(* Proofs about PgDestination, for every set of runs, every source and     *)
(* every choice of the sources that read the target.                       *)
(***************************************************************************)
EXTENDS PgDestination, TLAPS

-----------------------------------------------------------------------------
(* Type correctness.                                                       *)

LEMMA RowsType ==
    ASSUME NEW r \in Runs, NEW n \in 0..MaxBatches
    PROVE  Rows(r, n) \in SUBSET (Runs \X (1..MaxBatches))
BY BoundAssumption DEF Rows

LEMMA TypeStep ==
    ASSUME TypeOK, [Next]_vars
    PROVE  TypeOK'
<1> USE RunsAssumption, BoundAssumption
<1> USE DEF TypeOK, Tables, Goto, Active, Loading, Swapping, Ended
<1>1. ASSUME NEW r \in Runs, Start(r) PROVE TypeOK'
  BY <1>1 DEF Start
<1>2. ASSUME NEW r \in Runs, Refuse(r) PROVE TypeOK'
  BY <1>2 DEF Refuse
<1>3. ASSUME NEW r \in Runs, FirstBatch(r) PROVE TypeOK'
  BY <1>3 DEF FirstBatch
<1>4. ASSUME NEW r \in Runs, CreateStaging(r) PROVE TypeOK'
  BY <1>4 DEF CreateStaging
<1>5. ASSUME NEW r \in Runs, CopyOpen(r) PROVE TypeOK'
  BY <1>5 DEF CopyOpen
<1>6. ASSUME NEW r \in Runs, WriteBatch(r) PROVE TypeOK'
  BY <1>6 DEF WriteBatch
<1>7. ASSUME NEW r \in Runs, Finish(r) PROVE TypeOK'
  <2>1. Rows(r, sent[r]) \in SUBSET (Runs \X (1..MaxBatches))
    BY RowsType
  <2> QED BY <1>7, <2>1 DEF Finish
<1>8. ASSUME NEW r \in Runs, SwapDrop(r) PROVE TypeOK'
  BY <1>8 DEF SwapDrop
<1>9. ASSUME NEW r \in Runs, SwapRename(r) PROVE TypeOK'
  BY <1>9 DEF SwapRename
<1>10. ASSUME NEW r \in Runs, Commit(r) PROVE TypeOK'
  BY <1>10 DEF Commit
<1>11. ASSUME NEW r \in Runs, Return(r) PROVE TypeOK'
  BY <1>11 DEF Return
<1>12. ASSUME NEW r \in Runs, Fail(r) PROVE TypeOK'
  BY <1>12 DEF Fail
<1>13. ASSUME NEW r \in Runs, DropStaging(r) PROVE TypeOK'
  BY <1>13 DEF DropStaging
<1>14. ASSUME NEW r \in Runs, DropStagingFails(r) PROVE TypeOK'
  BY <1>14 DEF DropStagingFails
<1>15. ASSUME NEW r \in Runs, Sever(r) PROVE TypeOK'
  BY <1>15 DEF Sever
<1>16. ASSUME NEW r \in Runs, ServerAborts(r) PROVE TypeOK'
  BY <1>16 DEF ServerAborts
<1>17. CASE Done \/ UNCHANGED vars
  BY <1>17 DEF Done, vars
<1> QED
  BY <1>1, <1>2, <1>3, <1>4, <1>5, <1>6, <1>7, <1>8, <1>9, <1>10, <1>11, <1>12,
     <1>13, <1>14, <1>15, <1>16, <1>17 DEF Next, Advance

\* Every variable keeps its type: no run takes more batches than its source holds, and
\* the names resolve to tables.
THEOREM Typing == Spec => []TypeOK
<1>1. Init => TypeOK
  BY RunsAssumption, BoundAssumption DEF Init, TypeOK, Tables
<1>2. TypeOK /\ [Next]_vars => TypeOK'
  BY TypeStep
<1> QED
  BY <1>1, <1>2, PTL DEF Spec

-----------------------------------------------------------------------------
(* What the locks guarantee, whether or not runs overlap.                  *)

\* A session has a COPY or a transaction open only where its run left one open.
Sessions ==
    \A r \in Runs :
        /\ into[r] # None => phase[r] \in {"copy", "lost"}
        /\ dropped[r] # None => phase[r] \in {"rename", "commit", "lost"}
        /\ renamed[r] # None => phase[r] \in {"commit", "lost"}

\* Nobody has seen the table of a run that has not created it.
Unborn(r) ==
    /\ target # r
    /\ staging # r
    /\ content[r] = {}
    /\ \A q \in Runs : into[q] # r /\ renamed[q] # r

Births == \A r \in Runs : phase[r] \in {"idle", "load", "create_staging"} => Unborn(r)

\* A table has one name, and no COPY runs into the one that has the target's.
Naming ==
    /\ staging # None => staging # target
    /\ \A r \in Runs : into[r] # None => into[r] # target

\* A transaction that has renamed its staging table commits what it saw: the names still
\* resolve to the tables it dropped and renamed, and nobody loads into the renamed one.
SwapStable ==
    \A r \in Runs : renamed[r] # None =>
        /\ staging = renamed[r]
        /\ target = dropped[r]
        /\ \A q \in Runs : into[q] # renamed[r]

\* One transaction at a time has renamed the staging table.
OneSwap == \A q, r \in Runs : renamed[q] # None /\ renamed[r] # None => q = r

\* The committed or failed run's own table no longer has the staging name.
Gone == \A r \in Runs : phase[r] \in {"acked", "ok", "failed"} => staging # r

LockInv ==
    /\ TypeOK
    /\ Sessions
    /\ Births
    /\ Naming
    /\ SwapStable
    /\ OneSwap
    /\ Gone

LEMMA LockInit == Init => LockInv
<1> SUFFICES ASSUME Init PROVE LockInv
  OBVIOUS
<1> USE RunsAssumption, BoundAssumption DEF Init
<1>1. TypeOK
  BY DEF TypeOK, Tables
<1>2. Sessions /\ Naming /\ SwapStable /\ OneSwap /\ Gone
  BY DEF Sessions, Naming, SwapStable, OneSwap, Gone
<1>3. Births
  BY DEF Births, Unborn, Tables
<1> QED
  BY <1>1, <1>2, <1>3 DEF LockInv

LEMMA LockStep ==
    ASSUME LockInv, [Next]_vars
    PROVE  LockInv'
<1>1. TypeOK'
  BY TypeStep DEF LockInv
<1> USE RunsAssumption DEF LockInv, TypeOK, Tables, Goto, Active, Loading, Swapping, Ended,
        Sessions, Births, Unborn, Naming, SwapStable, OneSwap, Gone
<1>2. ASSUME NEW r \in Runs, Start(r) PROVE LockInv'
  BY <1>1, <1>2 DEF Start
<1>3. ASSUME NEW r \in Runs, Refuse(r) PROVE LockInv'
  BY <1>1, <1>3 DEF Refuse
<1>4. ASSUME NEW r \in Runs, FirstBatch(r) PROVE LockInv'
  BY <1>1, <1>4 DEF FirstBatch
<1>5. ASSUME NEW r \in Runs, CreateStaging(r) PROVE LockInv'
  BY <1>1, <1>5 DEF CreateStaging, CanAlter, Held, ExclusivelyHeld
<1>6. ASSUME NEW r \in Runs, CopyOpen(r) PROVE LockInv'
  BY <1>1, <1>6 DEF CopyOpen, CanCopy, ExclusivelyHeld
<1>7. ASSUME NEW r \in Runs, WriteBatch(r) PROVE LockInv'
  BY <1>1, <1>7 DEF WriteBatch
<1>8. ASSUME NEW r \in Runs, Finish(r) PROVE LockInv'
  BY <1>1, <1>8 DEF Finish
<1>9. ASSUME NEW r \in Runs, SwapDrop(r) PROVE LockInv'
  BY <1>1, <1>9 DEF SwapDrop
<1>10. ASSUME NEW r \in Runs, SwapRename(r) PROVE LockInv'
  BY <1>1, <1>10 DEF SwapRename, CanAlter, Held, ExclusivelyHeld
<1>11. ASSUME NEW r \in Runs, Commit(r) PROVE LockInv'
  BY <1>1, <1>11 DEF Commit
<1>12. ASSUME NEW r \in Runs, Return(r) PROVE LockInv'
  BY <1>1, <1>12 DEF Return
<1>13. ASSUME NEW r \in Runs, Fail(r) PROVE LockInv'
  BY <1>1, <1>13 DEF Fail
<1>14. ASSUME NEW r \in Runs, DropStaging(r) PROVE LockInv'
  BY <1>1, <1>14 DEF DropStaging, CanAlter, Held, ExclusivelyHeld
<1>15. ASSUME NEW r \in Runs, DropStagingFails(r) PROVE LockInv'
  BY <1>1, <1>15 DEF DropStagingFails
<1>16. ASSUME NEW r \in Runs, Sever(r) PROVE LockInv'
  BY <1>1, <1>16 DEF Sever
<1>17. ASSUME NEW r \in Runs, ServerAborts(r) PROVE LockInv'
  BY <1>1, <1>17 DEF ServerAborts
<1>18. CASE Done \/ UNCHANGED vars
  BY <1>1, <1>18 DEF Done, vars
<1> QED
  BY <1>2, <1>3, <1>4, <1>5, <1>6, <1>7, <1>8, <1>9, <1>10, <1>11, <1>12, <1>13,
     <1>14, <1>15, <1>16, <1>17, <1>18 DEF Next, Advance

LEMMA LockInvariance == Spec => []LockInv
<1>1. LockInv /\ [Next]_vars => LockInv'
  BY LockStep
<1> QED
  BY LockInit, <1>1, PTL DEF Spec

\* However runs overlap, a swap commits what its statements saw, and nobody loads into the
\* table it publishes: the lock the rename takes on the staging table holds to the commit.
THEOREM SwapsAreStable == Spec => []SwapStable
<1>1. LockInv => SwapStable
  BY DEF LockInv
<1> QED
  BY <1>1, LockInvariance, PTL

\* However runs overlap, a run that returned leaves no staging table of its own behind.
THEOREM StagingIsGone == Spec => []StagingGone
<1>1. LockInv => StagingGone
  BY DEF LockInv, Gone, StagingGone
<1> QED
  BY <1>1, LockInvariance, PTL

\* However runs overlap, the target stays readable until a swap puts another in its place.
THEOREM TargetStaysReadable == Spec => TargetReadable
<1>1. ASSUME LockInv, [Next]_vars
      PROVE  [target # None => /\ target' # None
                               /\ content'[target] = content[target]]_vars
  <2> SUFFICES ASSUME target # None
               PROVE  target' # None /\ content'[target] = content[target]
    OBVIOUS
  <2>1. ASSUME NEW r \in Runs, Finish(r)
        PROVE  target' # None /\ content'[target] = content[target]
    BY <1>1, <2>1 DEF LockInv, Naming, TypeOK, Finish, Tables
  <2>2. ASSUME NEW r \in Runs, Commit(r)
        PROVE  target' # None /\ content'[target] = content[target]
    BY <2>2 DEF Commit
  <2> QED
    BY <1>1, <2>1, <2>2
    DEF Next, Advance, Done, vars, Start, Refuse, FirstBatch, CreateStaging, CopyOpen, WriteBatch,
        SwapDrop, SwapRename, Return, Fail, DropStaging, DropStagingFails, Sever, ServerAborts
<1> QED
  BY <1>1, LockInvariance, PTL DEF Spec, TargetReadable

-----------------------------------------------------------------------------
(* Runs that do not overlap.                                               *)

\* One run at a time is under way; those before it have ended.
Alone == \A q, r \in Runs : phase[q] \in Active /\ phase[r] \in Active => q = r

\* A session loads and publishes the table its run created, and publishes it whole.
OwnTable ==
    \A r \in Runs :
        /\ into[r] \in {r, None}
        /\ phase[r] = "copy" => into[r] = r
        /\ renamed[r] \in {r, None}
        /\ renamed[r] # None => Whole(r)

\* The rows of a run appear in its table when its COPY ends, all of them at once.
AllAtOnce ==
    \A r \in Runs :
        /\ phase[r] \in {"copy_open", "copy"} => content[r] = {}
        /\ phase[r] \in Swapping => Whole(r)

AloneInv ==
    /\ LockInv
    /\ Alone
    /\ StagingIsOwn
    /\ OwnTable
    /\ AllAtOnce
    /\ TargetWhole

LEMMA AloneInit == Init => AloneInv
<1> SUFFICES ASSUME Init PROVE AloneInv
  OBVIOUS
<1>1. Alone /\ StagingIsOwn /\ OwnTable /\ AllAtOnce
  BY DEF Init, Alone, StagingIsOwn, OwnTable, AllAtOnce, Active, Loading, Swapping
<1>2. TargetWhole
  BY RunsAssumption DEF Init, TargetWhole, Whole
<1> QED
  BY <1>1, <1>2, LockInit DEF AloneInv

LEMMA AloneStep ==
    ASSUME ~Overlapping, AloneInv, [Next]_vars
    PROVE  AloneInv'
<1>1. LockInv'
  BY LockStep DEF AloneInv
<1> USE RunsAssumption DEF AloneInv, LockInv, TypeOK, Tables, Goto, Active, Loading, Swapping,
        Ended, Sessions, Births, Unborn, Naming, SwapStable, OneSwap, Alone, StagingIsOwn, OwnTable,
        AllAtOnce, TargetWhole, Whole
<1>2. ASSUME NEW r \in Runs, Start(r) PROVE AloneInv'
  BY <1>1, <1>2 DEF Start
<1>3. ASSUME NEW r \in Runs, Refuse(r) PROVE AloneInv'
  BY <1>1, <1>3 DEF Refuse
<1>4. ASSUME NEW r \in Runs, FirstBatch(r) PROVE AloneInv'
  BY <1>1, <1>4 DEF FirstBatch
<1>5. ASSUME NEW r \in Runs, CreateStaging(r) PROVE AloneInv'
  BY <1>1, <1>5 DEF CreateStaging, CanAlter, Held, ExclusivelyHeld
<1>6. ASSUME NEW r \in Runs, CopyOpen(r) PROVE AloneInv'
  BY <1>1, <1>6 DEF CopyOpen, CanCopy, ExclusivelyHeld
<1>7. ASSUME NEW r \in Runs, WriteBatch(r) PROVE AloneInv'
  BY <1>1, <1>7 DEF WriteBatch
<1>8. ASSUME NEW r \in Runs, Finish(r) PROVE AloneInv'
  BY <1>1, <1>8 DEF Finish
<1>9. ASSUME NEW r \in Runs, SwapDrop(r) PROVE AloneInv'
  BY <1>1, <1>9 DEF SwapDrop
<1>10. ASSUME NEW r \in Runs, SwapRename(r) PROVE AloneInv'
  BY <1>1, <1>10 DEF SwapRename, CanAlter, Held, ExclusivelyHeld
<1>11. ASSUME NEW r \in Runs, Commit(r) PROVE AloneInv'
  BY <1>1, <1>11 DEF Commit
<1>12. ASSUME NEW r \in Runs, Return(r) PROVE AloneInv'
  BY <1>1, <1>12 DEF Return
<1>13. ASSUME NEW r \in Runs, Fail(r) PROVE AloneInv'
  BY <1>1, <1>13 DEF Fail
<1>14. ASSUME NEW r \in Runs, DropStaging(r) PROVE AloneInv'
  BY <1>1, <1>14 DEF DropStaging, CanAlter, Held, ExclusivelyHeld
<1>15. ASSUME NEW r \in Runs, DropStagingFails(r) PROVE AloneInv'
  BY <1>1, <1>15 DEF DropStagingFails
<1>16. ASSUME NEW r \in Runs, Sever(r) PROVE AloneInv'
  BY <1>1, <1>16 DEF Sever
<1>17. ASSUME NEW r \in Runs, ServerAborts(r) PROVE AloneInv'
  BY <1>1, <1>17 DEF ServerAborts
<1>18. CASE Done \/ UNCHANGED vars
  BY <1>1, <1>18 DEF Done, vars
<1> QED
  BY <1>2, <1>3, <1>4, <1>5, <1>6, <1>7, <1>8, <1>9, <1>10, <1>11, <1>12, <1>13,
     <1>14, <1>15, <1>16, <1>17, <1>18 DEF Next, Advance

LEMMA AloneInvariance ==
    ASSUME ~Overlapping
    PROVE  Spec => []AloneInv
<1>1. AloneInv /\ [Next]_vars => AloneInv'
  BY AloneStep
<1> QED
  BY AloneInit, <1>1, PTL DEF Spec

\* Runs one at a time have the staging name to themselves from create_staging to the commit,
\* whatever the runs before left running in the server.
THEOREM StagingIsItsOwn ==
    ASSUME ~Overlapping
    PROVE  Spec => []StagingIsOwn
<1>1. AloneInv => StagingIsOwn
  BY DEF AloneInv
<1> QED
  BY <1>1, AloneInvariance, PTL

\* Runs one at a time never leave the target half-written, whatever fails or is cut off.
THEOREM TargetIsWhole ==
    ASSUME ~Overlapping
    PROVE  Spec => []TargetWhole
<1>1. AloneInv => TargetWhole
  BY DEF AloneInv
<1> QED
  BY <1>1, AloneInvariance, PTL

-----------------------------------------------------------------------------
(* Runs one at a time implement AtomicReplace.                             *)

LEMMA PublishedIsTarget == AloneInv => Published = target
BY DEF AloneInv, TargetWhole, Published

LEMMA RefinesInit == Init => Atomic!Init
<1> SUFFICES ASSUME Init PROVE Atomic!Init
  OBVIOUS
<1>1. Published \in {Original, None}
  BY RunsAssumption DEF Init, Published, Whole
<1>2. \A r \in Runs : Outcome(r) = "running"
  BY DEF Init, Outcome
<1> QED
  BY <1>1, <1>2 DEF Atomic!Init

\* A step of one run leaves the outcomes of the others as they are.
LEMMA OthersKeepOutcome ==
    ASSUME NEW r \in Runs,
           \A q \in Runs \ {r} : phase'[q] = phase[q] /\ renamed'[q] = renamed[q]
    PROVE  [q \in Runs |-> Outcome(q)]'
              = [[q \in Runs |-> Outcome(q)] EXCEPT ![r] = Outcome(r)']
<1>1. \A q \in Runs \ {r} : Outcome(q)' = Outcome(q)
  BY DEF Outcome
<1> QED
  BY <1>1 DEF Outcome

LEMMA RefinesStep ==
    ASSUME ~Overlapping, AloneInv, [Next]_vars
    PROVE  [Atomic!Next]_(Atomic!vars)
<1> DEFINE out == [q \in Runs |-> Outcome(q)]
<1>1. Published = target /\ Published' = target'
  <2>1. AloneInv'
    BY AloneStep
  <2>2. Published' = target'
    BY <2>1 DEF AloneInv, TargetWhole, Published
  <2> QED
    BY <2>2, PublishedIsTarget
<1>2. ASSUME NEW r \in Runs,
             \A q \in Runs \ {r} : phase'[q] = phase[q] /\ renamed'[q] = renamed[q]
      PROVE  out' = [out EXCEPT ![r] = Outcome(r)'] /\ out[r] = Outcome(r)
  BY <1>2, OthersKeepOutcome
<1>3. ASSUME NEW r \in Runs, Outcome(r)' = Outcome(r), target' = target,
             \A q \in Runs \ {r} : phase'[q] = phase[q] /\ renamed'[q] = renamed[q]
      PROVE  UNCHANGED Atomic!vars
  BY <1>1, <1>2, <1>3 DEF Atomic!vars
<1> USE DEF AloneInv, LockInv, TypeOK, Sessions, Goto, Active, Loading, Swapping, Ended
<1>4. ASSUME NEW r \in Runs,
             \/ Start(r) \/ FirstBatch(r) \/ CreateStaging(r) \/ CopyOpen(r) \/ WriteBatch(r)
             \/ Finish(r) \/ SwapDrop(r) \/ SwapRename(r) \/ Fail(r)
      PROVE  UNCHANGED Atomic!vars
  <2>1. Outcome(r) = "running" /\ Outcome(r)' = "running" /\ target' = target
    BY <1>4 DEF Outcome, Start, FirstBatch, CreateStaging, CopyOpen, WriteBatch, Finish,
                SwapDrop, SwapRename, Fail
  <2>2. \A q \in Runs \ {r} : phase'[q] = phase[q] /\ renamed'[q] = renamed[q]
    BY <1>4 DEF Start, FirstBatch, CreateStaging, CopyOpen, WriteBatch, Finish,
                SwapDrop, SwapRename, Fail
  <2> QED
    BY <1>3, <2>1, <2>2
<1>5. ASSUME NEW r \in Runs, Refuse(r) \/ DropStaging(r) \/ DropStagingFails(r)
      PROVE  Atomic!Fail(r)
  <2>1. Outcome(r) = "running" /\ Outcome(r)' = "failed" /\ target' = target
    BY <1>5 DEF Outcome, Refuse, DropStaging, DropStagingFails
  <2>2. \A q \in Runs \ {r} : phase'[q] = phase[q] /\ renamed'[q] = renamed[q]
    BY <1>5 DEF Refuse, DropStaging, DropStagingFails
  <2> QED
    BY <1>1, <1>2, <2>1, <2>2 DEF Atomic!Fail
<1>6. ASSUME NEW r \in Runs, Commit(r)
      PROVE  Atomic!Publish(r)
  <2>1. target' = r
    BY <1>6 DEF Commit, OwnTable
  <2>2. \/ Outcome(r) = "running" /\ Outcome(r)' = "published"
        \/ Outcome(r) = "unsure" /\ Outcome(r)' = "lost"
    BY <1>6, RunsAssumption DEF Outcome, Commit
  <2>3. \A q \in Runs \ {r} : phase'[q] = phase[q] /\ renamed'[q] = renamed[q]
    BY <1>6 DEF Commit
  <2> QED
    BY <1>1, <1>2, <2>1, <2>2, <2>3 DEF Atomic!Publish
<1>7. ASSUME NEW r \in Runs, Return(r)
      PROVE  Atomic!Succeed(r)
  <2>1. Outcome(r) = "published" /\ Outcome(r)' = "ok" /\ target' = target
    BY <1>7 DEF Outcome, Return
  <2>2. \A q \in Runs \ {r} : phase'[q] = phase[q] /\ renamed'[q] = renamed[q]
    BY <1>7 DEF Return
  <2> QED
    BY <1>1, <1>2, <2>1, <2>2 DEF Atomic!Succeed
<1>8. ASSUME NEW r \in Runs, Sever(r)
      PROVE  Atomic!Lose(r)
  <2>1. /\ target' = target
        /\ \/ Outcome(r) = "running" /\ Outcome(r)' \in {"unsure", "lost"}
           \/ Outcome(r) = "published" /\ Outcome(r)' = "lost"
    BY <1>8 DEF Outcome, Sever
  <2>2. \A q \in Runs \ {r} : phase'[q] = phase[q] /\ renamed'[q] = renamed[q]
    BY <1>8 DEF Sever
  <2> QED
    BY <1>1, <1>2, <2>1, <2>2 DEF Atomic!Lose
<1>9. ASSUME NEW r \in Runs, ServerAborts(r)
      PROVE  Atomic!Lose(r) \/ UNCHANGED Atomic!vars
  <2>1. /\ target' = target
        /\ Outcome(r)' = "lost"
        /\ Outcome(r) \in {"unsure", "lost"}
    BY <1>9 DEF Outcome, ServerAborts
  <2>2. \A q \in Runs \ {r} : phase'[q] = phase[q] /\ renamed'[q] = renamed[q]
    BY <1>9 DEF ServerAborts
  <2>3. CASE Outcome(r) = "unsure"
    BY <1>1, <1>2, <2>1, <2>2, <2>3 DEF Atomic!Lose
  <2>4. CASE Outcome(r) = "lost"
    BY <1>3, <2>1, <2>2, <2>4
  <2> QED
    BY <2>1, <2>3, <2>4
<1>10. CASE Done \/ UNCHANGED vars
  <2>1. \A q \in Runs : Outcome(q)' = Outcome(q)
    BY <1>10 DEF Done, vars, Outcome
  <2>2. target' = target
    BY <1>10 DEF Done, vars
  <2> QED
    BY <1>1, <2>1, <2>2 DEF Atomic!vars
<1> QED
  BY <1>4, <1>5, <1>6, <1>7, <1>8, <1>9, <1>10 DEF Next, Advance, Atomic!Next

\* Runs one at a time replace the target as AtomicReplace says: in one step, by the whole
\* output of one run, reporting success only after it and failure only without it.
THEOREM RefinesAtomicReplace ==
    ASSUME ~Overlapping
    PROVE  Spec => ReplacesAtomically
<1>1. AloneInv /\ [Next]_vars => [Atomic!Next]_(Atomic!vars)
  BY RefinesStep
<1> QED
  BY <1>1, RefinesInit, AloneInvariance, PTL DEF Spec, Atomic!Spec, ReplacesAtomically
==============================================================================
