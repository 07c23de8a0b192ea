----------------------------- MODULE ImportJob ------------------------------
(***************************************************************************)
(* What bulk imports promise the clients that poll them (the rows of       *)
(* src/src/db/imports.rs): a job runs, its total becomes known at most     *)
(* once and before any progress, its progress only grows, and once it has  *)
(* ended nothing of it changes.  Several jobs may move in one step, as     *)
(* they do when the server restarts.                                       *)
(***************************************************************************)
EXTENDS Naturals

CONSTANT Jobs

VARIABLES
    status, \* of each job: "none" before it is created, "running", or how it ended
    total,  \* what there is to do
    done    \* what has been done of it

vars == <<status, total, done>>

Init == /\ status = [j \in Jobs |-> "none"]
        /\ total = [j \in Jobs |-> 0]
        /\ done = [j \in Jobs |-> 0]

Same(j, counter) == counter'[j] = counter[j]

Create(j) ==
    /\ status[j] = "none" /\ status'[j] = "running"
    /\ Same(j, total) /\ Same(j, done)

Plan(j) ==
    /\ status[j] = "running" /\ Same(j, status)
    /\ total[j] = 0 /\ done[j] = 0 /\ Same(j, done)

Advance(j) ==
    /\ status[j] = "running" /\ Same(j, status)
    /\ Same(j, total) /\ done'[j] = done[j] + 1

End(j) ==
    /\ status[j] = "running" /\ status'[j] \in {"completed", "failed"}
    /\ Same(j, total) /\ Same(j, done)

Stay(j) == Same(j, status) /\ Same(j, total) /\ Same(j, done)

Next == \A j \in Jobs : Create(j) \/ Plan(j) \/ Advance(j) \/ End(j) \/ Stay(j)

Spec == Init /\ [][Next]_vars
=============================================================================
