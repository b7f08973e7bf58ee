---------------------------- MODULE PgDestination ----------------------------
(***************************************************************************)
(* The Postgres destination: crates/transferred-postgres/src/destination.rs*)
(* and its COPY, destination/copy_in.rs.  Every run loads into a staging   *)
(* table under a name derived from the target's, then swaps it in with one *)
(* transaction; on any error it drops the table of that name.              *)
(*                                                                         *)
(* A table is identified by the run that created it, so that two tables    *)
(* that carried one name at different times stay apart.  The catalog maps  *)
(* the two names to tables.  The server's part is what the code relies on: *)
(* COPY and DDL take locks on the table a name resolves to, and a          *)
(* transaction's DDL shows to other sessions when it commits.              *)
(***************************************************************************)
EXTENDS Naturals

CONSTANTS
    Runs,         \* transfers into this one target table
    MaxBatches,   \* bound: batches a source holds
    SelfSourced,  \* the runs whose source reads the target table itself
    Overlapping,  \* may one run start while another is under way?
    Original,     \* the target table that was there before any run
    None          \* no table

ASSUME RunsAssumption ==
    /\ SelfSourced \subseteq Runs
    /\ Original \notin Runs
    /\ None \notin Runs \cup {Original}
ASSUME BoundAssumption == MaxBatches \in Nat
ASSUME OverlapAssumption == Overlapping \in BOOLEAN

VARIABLES
    phase,    \* where each run stands in write_partitions
    size,     \* how many batches the run's source holds, all partitions together
    sent,     \* how many of them the run took so far
    reads,    \* server: the table the source's COPY OUT is reading
    into,     \* server: the table the session's COPY is loading
    dropped,  \* server: the table the session's open transaction has dropped
    renamed,  \* server: the table it has renamed to the target's name
    target,   \* server: the table that has the target's name in the committed catalog
    staging,  \* server: the table that has the staging name in it
    content   \* server: the committed rows of each table, one per batch

vars == <<phase, size, sent, reads, into, dropped, renamed, target, staging, content>>

Tables == Runs \cup {Original}

Loading == {"load", "create_staging", "copy_open", "copy"}
Swapping == {"swap", "rename", "commit"}
Active == Loading \cup Swapping \cup {"acked", "drop_staging"}
Ended == {"ok", "failed", "leaked", "lost"}

\* The rows of a source's first n batches.
Rows(r, n) == {<<r, i>> : i \in 1..n}

\* The table that is the whole output of the run that created it.
Whole(t) == t \in Runs => content[t] = Rows(t, size[t])

TypeOK ==
    /\ phase \in [Runs -> {"idle"} \cup Active \cup Ended]
    /\ size \in [Runs -> 0..MaxBatches]
    /\ sent \in [Runs -> 0..MaxBatches]
    /\ reads \in [Runs -> Tables \cup {None}]
    /\ into \in [Runs -> Tables \cup {None}]
    /\ dropped \in [Runs -> Tables \cup {None}]
    /\ renamed \in [Runs -> Tables \cup {None}]
    /\ target \in Tables \cup {None}
    /\ staging \in Tables \cup {None}
    /\ content \in [Tables -> SUBSET (Runs \X (1..MaxBatches))]

-----------------------------------------------------------------------------
(* The server's locks.                                                     *)

\* DDL of another session holds t exclusively until its transaction ends.
ExclusivelyHeld(t, r) ==
    \E q \in Runs \ {r} : t \in {dropped[q], renamed[q]}

\* Another session holds t in any way.
Held(t, r) ==
    \/ ExclusivelyHeld(t, r)
    \/ \E q \in Runs \ {r} : into[q] = t
    \/ \E q \in Runs : reads[q] = t

\* DDL on a name waits for every holder of the table t it resolves to, if to any.
CanAlter(t, r) == t = None \/ ~Held(t, r)

\* A COPY only waits for DDL.
CanCopy(t, r) == t = None \/ ~ExclusivelyHeld(t, r)

-----------------------------------------------------------------------------
Init ==
    /\ phase = [r \in Runs |-> "idle"]
    /\ size \in [Runs -> 0..MaxBatches]
    /\ sent = [r \in Runs |-> 0]
    /\ reads = [r \in Runs |-> None]
    /\ into = [r \in Runs |-> None]
    /\ dropped = [r \in Runs |-> None]
    /\ renamed = [r \in Runs |-> None]
    /\ target \in {Original, None}
    /\ staging = None
    /\ content = [t \in Tables |-> {}]

Goto(r, p) == phase' = [phase EXCEPT ![r] = p]

\* Transfer::run opens the source, write_partitions connects and Loader::new names the
\* tables. A source on the target opens its COPY OUT here and waits for DDL to do so.
Start(r) ==
    /\ phase[r] = "idle"
    /\ Overlapping \/ \A q \in Runs : phase[q] \notin Active
    /\ \/ r \notin SelfSourced /\ UNCHANGED reads
       \/ /\ r \in SelfSourced
          /\ target # None /\ CanCopy(target, r)
          /\ reads' = [reads EXCEPT ![r] = target]
    /\ Goto(r, "load")
    /\ UNCHANGED <<size, sent, into, dropped, renamed, target, staging, content>>

\* The source, connect, parse_ident or staging_name fails: no cleanup, nothing was done.
Refuse(r) ==
    /\ phase[r] = "idle"
    /\ Overlapping \/ \A q \in Runs : phase[q] \notin Active
    /\ Goto(r, "failed")
    /\ UNCHANGED <<size, sent, reads, into, dropped, renamed, target, staging, content>>

\* load: the first batch of the flattened partitions gives Encoder::new its schema.
FirstBatch(r) ==
    /\ phase[r] = "load"
    /\ sent[r] < size[r]
    /\ sent' = [sent EXCEPT ![r] = @ + 1]
    /\ Goto(r, "create_staging")
    /\ UNCHANGED <<size, reads, into, dropped, renamed, target, staging, content>>

\* Bug: "create table if not exists", without the drop.
CreateStagingKeepsLeftover(r) ==
    /\ phase[r] = "create_staging"
    /\ CanAlter(staging, r)
    /\ staging' = IF staging = None THEN r ELSE staging
    /\ Goto(r, "copy_open")
    /\ UNCHANGED <<size, sent, reads, into, dropped, renamed, target, content>>

\* create_staging: drop if exists and create, one implicit transaction.
CreateStaging(r) ==
    /\ phase[r] = "create_staging"
    /\ CanAlter(staging, r)
    /\ staging' = r
    /\ Goto(r, "copy_open")
    /\ UNCHANGED <<size, sent, reads, into, dropped, renamed, target, content>>

\* CopyIn::open: COPY resolves the staging name again.
CopyOpen(r) ==
    /\ phase[r] = "copy_open"
    /\ staging # None /\ CanCopy(staging, r)
    /\ into' = [into EXCEPT ![r] = staging]
    /\ Goto(r, "copy")
    /\ UNCHANGED <<size, sent, reads, dropped, renamed, target, staging, content>>

\* Bug: the stream is taken from once more after its end.
WriteBatchPastEnd(r) ==
    /\ phase[r] = "copy"
    /\ sent[r] <= size[r]
    /\ sent' = [sent EXCEPT ![r] = @ + 1]
    /\ UNCHANGED <<phase, size, reads, into, dropped, renamed, target, staging, content>>

\* copy: one more batch of the stream goes to CopyIn::write_batch.
WriteBatch(r) ==
    /\ phase[r] = "copy"
    /\ sent[r] < size[r]
    /\ sent' = [sent EXCEPT ![r] = @ + 1]
    /\ UNCHANGED <<phase, size, reads, into, dropped, renamed, target, staging, content>>

\* Bug: the source's stream, and with it its COPY OUT, is kept open over the swap.
FinishKeepsReading(r) ==
    /\ phase[r] = "copy"
    /\ sent[r] = size[r]
    /\ content' = [content EXCEPT ![into[r]] = @ \cup Rows(r, sent[r])]
    /\ into' = [into EXCEPT ![r] = None]
    /\ Goto(r, "swap")
    /\ UNCHANGED <<size, sent, reads, dropped, renamed, target, staging>>

\* The stream ended, its COPY OUT is done; CopyIn::finish commits all rows at once.
Finish(r) ==
    /\ phase[r] = "copy"
    /\ sent[r] = size[r]
    /\ content' = [content EXCEPT ![into[r]] = @ \cup Rows(r, sent[r])]
    /\ into' = [into EXCEPT ![r] = None]
    /\ reads' = [reads EXCEPT ![r] = None]
    /\ Goto(r, "swap")
    /\ UNCHANGED <<size, sent, dropped, renamed, target, staging>>

\* Bug: the swap's statements run one by one, without the transaction.
SwapDropAutocommits(r) ==
    /\ phase[r] = "swap"
    /\ CanAlter(target, r)
    /\ target' = None
    /\ Goto(r, "rename")
    /\ UNCHANGED <<size, sent, reads, into, dropped, renamed, staging, content>>

\* swap: begin, then swap_sql's "drop table if exists target".
SwapDrop(r) ==
    /\ phase[r] = "swap"
    /\ CanAlter(target, r)
    /\ dropped' = [dropped EXCEPT ![r] = target]
    /\ Goto(r, "rename")
    /\ UNCHANGED <<size, sent, reads, into, renamed, target, staging, content>>

\* swap_sql's "alter table staging rename to target_name".
SwapRename(r) ==
    /\ phase[r] = "rename"
    /\ staging # None /\ CanAlter(staging, r)
    /\ target = dropped[r]
    /\ renamed' = [renamed EXCEPT ![r] = staging]
    /\ Goto(r, "commit")
    /\ UNCHANGED <<size, sent, reads, into, dropped, target, staging, content>>

\* The server commits: both names change at once. A client that is gone by now had
\* sent its COMMIT, or the server aborts instead.
Commit(r) ==
    /\ phase[r] \in {"commit", "lost"}
    /\ renamed[r] # None
    /\ target' = renamed[r]
    /\ staging' = None
    /\ dropped' = [dropped EXCEPT ![r] = None]
    /\ renamed' = [renamed EXCEPT ![r] = None]
    /\ Goto(r, IF phase[r] = "commit" THEN "acked" ELSE "lost")
    /\ UNCHANGED <<size, sent, reads, into, content>>

\* Bug: the rows are counted in the target after the commit, and the count may fail.
ReturnRecounts(r) ==
    /\ phase[r] = "acked"
    /\ Goto(r, "ok") \/ Goto(r, "failed")
    /\ UNCHANGED <<size, sent, reads, into, dropped, renamed, target, staging, content>>

\* The commit's answer arrives and write_partitions reports the rows COPY took.
Return(r) ==
    /\ phase[r] = "acked"
    /\ Goto(r, "ok")
    /\ UNCHANGED <<size, sent, reads, into, dropped, renamed, target, staging, content>>

\* The statement a run stands at waits for a lock.
Blocked(r) ==
    \/ phase[r] \in {"create_staging", "rename", "drop_staging"} /\ ~CanAlter(staging, r)
    \/ phase[r] = "copy_open" /\ ~CanCopy(staging, r)
    \/ phase[r] = "swap" /\ ~CanAlter(target, r)

\* Bug: the error returns before drop_staging.
FailKeepsStaging(r) ==
    /\ phase[r] \in Loading \cup Swapping
    /\ ~Blocked(r)
    /\ into' = [into EXCEPT ![r] = None]
    /\ dropped' = [dropped EXCEPT ![r] = None]
    /\ renamed' = [renamed EXCEPT ![r] = None]
    /\ reads' = [reads EXCEPT ![r] = None]
    /\ Goto(r, "failed")
    /\ UNCHANGED <<size, sent, target, staging, content>>

\* Bug: begin and commit sent as SQL, so that nothing rolls a failed swap back.
FailStrandsSession(r) ==
    /\ phase[r] \in Loading \cup Swapping
    /\ ~Blocked(r)
    /\ into' = [into EXCEPT ![r] = None]
    /\ reads' = [reads EXCEPT ![r] = None]
    /\ Goto(r, "drop_staging")
    /\ UNCHANGED <<size, sent, dropped, renamed, target, staging, content>>

\* Any error while connected: EmptySource, the source's, Encoder::new's or check's, a
\* statement the server refuses. Dropping the CopyInSink and the Transaction ends the COPY
\* and rolls back before replace goes on to drop_staging.
Fail(r) ==
    /\ phase[r] \in Loading \cup Swapping
    /\ ~Blocked(r)
    /\ into' = [into EXCEPT ![r] = None]
    /\ dropped' = [dropped EXCEPT ![r] = None]
    /\ renamed' = [renamed EXCEPT ![r] = None]
    /\ reads' = [reads EXCEPT ![r] = None]
    /\ Goto(r, "drop_staging")
    /\ UNCHANGED <<size, sent, target, staging, content>>

\* Bug: the cleanup is spawned, and runs some time after its run has returned.
DropStagingLate(r) ==
    /\ \/ phase[r] = "drop_staging"
       \/ phase[r] = "failed" /\ sent[r] > 0
    /\ CanAlter(staging, r)
    /\ staging' = None
    /\ Goto(r, "failed")
    /\ UNCHANGED <<size, sent, reads, into, dropped, renamed, target, content>>

\* drop_staging: whichever table has the name now, whether or not this run created it.
DropStaging(r) ==
    /\ phase[r] = "drop_staging"
    /\ CanAlter(staging, r)
    /\ staging' = None
    /\ Goto(r, "failed")
    /\ UNCHANGED <<size, sent, reads, into, dropped, renamed, target, content>>

\* The server refuses the drop: logged, and the run's own error is returned.
DropStagingFails(r) ==
    /\ phase[r] = "drop_staging"
    /\ ~Blocked(r)
    /\ Goto(r, "leaked")
    /\ UNCHANGED <<size, sent, reads, into, dropped, renamed, target, staging, content>>

\* The process dies or its connection does, drop_staging included. The server's side of
\* the session stays until the server notices.
Sever(r) ==
    /\ phase[r] \in Active
    /\ reads' = [reads EXCEPT ![r] = None]
    /\ Goto(r, "lost")
    /\ UNCHANGED <<size, sent, into, dropped, renamed, target, staging, content>>

\* The server notices and rolls the session back.
ServerAborts(r) ==
    /\ phase[r] = "lost"
    /\ into[r] # None \/ dropped[r] # None \/ renamed[r] # None
    /\ into' = [into EXCEPT ![r] = None]
    /\ dropped' = [dropped EXCEPT ![r] = None]
    /\ renamed' = [renamed EXCEPT ![r] = None]
    /\ UNCHANGED <<phase, size, sent, reads, target, staging, content>>

\* Nothing is left to do: every run ended and the server has closed every session.
Done ==
    /\ \A r \in Runs : phase[r] \in Ended /\ into[r] = None /\ dropped[r] = None /\ renamed[r] = None
    /\ UNCHANGED vars

Advance(r) ==
    \/ FirstBatch(r) \/ CreateStaging(r) \/ CopyOpen(r) \/ WriteBatch(r) \/ Finish(r)
    \/ SwapDrop(r) \/ SwapRename(r) \/ Commit(r) \/ Return(r)
    \/ Fail(r) \/ DropStaging(r) \/ DropStagingFails(r)

Next ==
    \/ \E r \in Runs : Start(r) \/ Refuse(r) \/ Advance(r) \/ Sever(r) \/ ServerAborts(r)
    \/ Done

Spec == Init /\ [][Next]_vars

\* A run that has started is polled until it returns, and the server answers a statement
\* that waits for nothing and closes the sessions of clients that are gone. Nobody owes
\* a start, nor the loss of a connection.
Fairness == \A r \in Runs : WF_vars(Advance(r)) /\ WF_vars(ServerAborts(r))

FairSpec == Spec /\ Fairness

-----------------------------------------------------------------------------
(* Properties of every schedule, overlapping runs included.                *)

\* "the target stays readable until the swap": once there is a target there is one
\* in every committed state, and no COPY or DDL changes the rows a reader finds in it.
TargetReadable ==
    [][target # None =>
          /\ target' # None
          /\ content'[target] = content[target]]_vars

\* "a leftover one is safe to drop", "always cleaned up": the staging table of a run that
\* returned, with or without an error, is gone; only a failed drop or a lost connection leaves it.
StagingGone == \A r \in Runs : phase[r] \in {"ok", "failed"} => staging # r

\* Every run that started returns, whatever the other runs do: no cycle of locks, also
\* when a source reads the very table its run replaces.
RunsEnd == \A r \in Runs : phase[r] \in Active ~> phase[r] \in Ended

(* Properties of runs that do not overlap.                                 *)

\* copy and swap find the staging table by its name alone: from a run's create_staging to its
\* commit that is the table it created, whatever runs before it left to be done: a COMMIT on
\* its way from a client that is gone, a session not closed yet, a table nobody dropped.
StagingIsOwn == \A r \in Runs : phase[r] \in {"copy_open", "copy"} \cup Swapping => staging = r

\* "never left half-written": the target is what it was, or the whole output of one run.
TargetWhole == target # None => Whole(target)

\* Runs one at a time implement AtomicReplace, crashes and lost connections included.
Published ==
    IF target = None \/ Whole(target) THEN target ELSE "torn"

Outcome(r) ==
    IF phase[r] = "acked" THEN "published"
    ELSE IF phase[r] = "ok" THEN "ok"
    ELSE IF phase[r] \in {"failed", "leaked"} THEN "failed"
    ELSE IF phase[r] # "lost" THEN "running"
    ELSE IF renamed[r] # None THEN "unsure" ELSE "lost"

Atomic == INSTANCE AtomicReplace
    WITH Before <- {Original, None},
         published <- Published,
         outcome <- [r \in Runs |-> Outcome(r)]

ReplacesAtomically == Atomic!Spec
==============================================================================
