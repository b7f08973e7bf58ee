---------------------------- MODULE AtomicReplace ----------------------------
(***************************************************************************)
(* What a destination promises (crates/transferred-core/src/transfer.rs,   *)
(* trait Destination: "Writes batch partitions atomically and reports      *)
(* stats").  A target is replaced as a whole by the complete output of one *)
(* run, in one step; a run that reports success has published, a run that  *)
(* reports failure has not.  Only a run that lost contact with what it was *)
(* writing to may leave the question open, and then for one publication at *)
(* most; a loss after the publication undoes nothing.                      *)
(***************************************************************************)

CONSTANTS
    Runs,       \* the transfers that write to this target
    Before      \* what the target may hold before any of them

VARIABLES
    published,  \* whose complete output the target holds
    outcome     \* what each run has come to

vars == <<published, outcome>>

Outcomes == {"running", "published", "ok", "failed", "unsure", "lost"}

Init ==
    /\ published \in Before
    /\ outcome = [r \in Runs |-> "running"]

\* The one step that changes the target: to the whole output of r.
Publish(r) ==
    /\ \/ outcome[r] = "running" /\ outcome' = [outcome EXCEPT ![r] = "published"]
       \/ outcome[r] = "unsure"  /\ outcome' = [outcome EXCEPT ![r] = "lost"]
    /\ published' = r

Succeed(r) ==
    /\ outcome[r] = "published"
    /\ outcome' = [outcome EXCEPT ![r] = "ok"]
    /\ UNCHANGED published

Fail(r) ==
    /\ outcome[r] = "running"
    /\ outcome' = [outcome EXCEPT ![r] = "failed"]
    /\ UNCHANGED published

\* Contact lost: "unsure" while a publication may still be on its way.
Lose(r) ==
    /\ \/ outcome[r] = "running" /\ outcome' \in {[outcome EXCEPT ![r] = o] : o \in {"unsure", "lost"}}
       \/ outcome[r] \in {"published", "unsure"} /\ outcome' = [outcome EXCEPT ![r] = "lost"]
    /\ UNCHANGED published

Next == \E r \in Runs : Publish(r) \/ Succeed(r) \/ Fail(r) \/ Lose(r)

Spec == Init /\ [][Next]_vars
==============================================================================
