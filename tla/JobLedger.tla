------------------------------ MODULE JobLedger ------------------------------
(***************************************************************************)
(* What a worker pool promises, without queue or workers: a submitted job  *)
(* is either rejected for good or accepted and then run exactly once, at   *)
(* most MaxRunning at a time; after Close nothing is accepted; a caller    *)
(* that is told the pool is drained is told the truth.                     *)
(***************************************************************************)
EXTENDS Naturals, FiniteSets

CONSTANTS
    Jobs,        \* the submissions
    Callers,     \* those that ask for the pool to be drained
    MaxRunning   \* how many jobs run at a time

VARIABLES
    status,      \* where each job is in its life
    open,        \* are jobs still accepted?
    drained      \* the callers told that the pool is drained

vars == <<status, open, drained>>

Status == {"new", "accepted", "running", "done", "rejected"}

In(st) == {j \in Jobs : status[j] = st}

Init ==
    /\ status = [j \in Jobs |-> "new"]
    /\ open = TRUE
    /\ drained = {}

Move(j, from, to) ==
    /\ status[j] = from
    /\ status' = [status EXCEPT ![j] = to]
    /\ UNCHANGED <<open, drained>>

Accept(j) == open /\ Move(j, "new", "accepted")
Reject(j) == Move(j, "new", "rejected")
Start(j)  == Cardinality(In("running")) < MaxRunning /\ Move(j, "accepted", "running")
Finish(j) == Move(j, "running", "done")

Close ==
    /\ open' = FALSE
    /\ UNCHANGED <<status, drained>>

ReportDrained(c) ==
    /\ ~open
    /\ In("accepted") \cup In("running") = {}
    /\ drained' = drained \cup {c}
    /\ UNCHANGED <<status, open>>

Next ==
    \/ \E j \in Jobs : Accept(j) \/ Reject(j) \/ Start(j) \/ Finish(j)
    \/ Close
    \/ \E c \in Callers : ReportDrained(c)

Spec == Init /\ [][Next]_vars

\* An accepted job is eventually run to its end.
Liveness == \A j \in Jobs : status[j] = "accepted" ~> status[j] = "done"
=============================================================================
