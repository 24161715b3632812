----------------------------- MODULE WorkerPool -----------------------------
(***************************************************************************)
(* The bounded worker pool (internal/pkg/workerpool/pool.go): submitters   *)
(* that never block, workers that range over a closable buffered channel,  *)
(* and any number of Shutdown calls, each with a deadline of its own.      *)
(***************************************************************************)
EXTENDS Naturals, FiniteSets, Sequences

CONSTANTS
    Workers,     \* the goroutines started by New
    Jobs,        \* the submissions, each submitted at most once
    Callers,     \* the calls of Shutdown
    QueueSize,   \* the capacity of the jobs channel
    NoJob        \* what an idle worker holds

ASSUME PoolAssumption ==
    /\ IsFiniteSet(Workers) /\ Workers # {}
    /\ QueueSize \in Nat \ {0}
    /\ NoJob \notin Jobs

VARIABLES
    jobs,        \* the buffer of p.jobs, oldest first
    closed,      \* close(p.jobs) has been executed
    workerPc,    \* "receive" in the range, "received" a job, in "execute", "exited"
    workerJob,   \* the job a worker holds
    fate,        \* what became of each submission
    shutdownPc,  \* where each Shutdown call is, and what it returned
    waitDone,    \* the calls whose waitDone channel is closed
    expired,     \* the calls whose context is done
    accepted     \* history: jobs in the order they entered the channel

vars == <<jobs, closed, workerPc, workerJob, fate, shutdownPc, waitDone,
          expired, accepted>>

Fate == {"new", "queued", "received", "running", "done", "dropped", "panicked"}

Init ==
    /\ jobs = <<>>
    /\ closed = FALSE
    /\ workerPc = [w \in Workers |-> "receive"]
    /\ workerJob = [w \in Workers |-> NoJob]
    /\ fate = [j \in Jobs |-> "new"]
    /\ shutdownPc = [c \in Callers |-> "idle"]
    /\ waitDone = {}
    /\ expired = {}
    /\ accepted = <<>>

-----------------------------------------------------------------------------
(* Submit: one select, one of three outcomes. *)

\* Fault: a full channel gives up its oldest job.
SubmitOverwrite(j) ==
    /\ fate[j] = "new"
    /\ ~closed
    /\ jobs' = Append(IF Len(jobs) < QueueSize THEN jobs ELSE Tail(jobs), j)
    /\ accepted' = Append(accepted, j)
    /\ fate' = [fate EXCEPT ![j] = "queued"]
    /\ UNCHANGED <<closed, workerPc, workerJob, shutdownPc, waitDone, expired>>

\* Fault: Shutdown raises a flag that Submit does not look at.
SubmitAfterClose(j) ==
    /\ fate[j] = "new"
    /\ Len(jobs) < QueueSize
    /\ jobs' = Append(jobs, j)
    /\ accepted' = Append(accepted, j)
    /\ fate' = [fate EXCEPT ![j] = "queued"]
    /\ UNCHANGED <<closed, workerPc, workerJob, shutdownPc, waitDone, expired>>

\* case p.jobs <- job
SubmitAccept(j) ==
    /\ fate[j] = "new"
    /\ ~closed
    /\ Len(jobs) < QueueSize
    /\ jobs' = Append(jobs, j)
    /\ accepted' = Append(accepted, j)
    /\ fate' = [fate EXCEPT ![j] = "queued"]
    /\ UNCHANGED <<closed, workerPc, workerJob, shutdownPc, waitDone, expired>>

\* default
SubmitDrop(j) ==
    /\ fate[j] = "new"
    /\ ~closed
    /\ Len(jobs) >= QueueSize
    /\ fate' = [fate EXCEPT ![j] = "dropped"]
    /\ UNCHANGED <<jobs, closed, workerPc, workerJob, shutdownPc, waitDone,
                   expired, accepted>>

\* A select whose send case is on a closed channel panics, full or not.
SubmitPanic(j) ==
    /\ fate[j] = "new"
    /\ closed
    /\ fate' = [fate EXCEPT ![j] = "panicked"]
    /\ UNCHANGED <<jobs, closed, workerPc, workerJob, shutdownPc, waitDone,
                   expired, accepted>>

Submit(j) == SubmitAccept(j) \/ SubmitDrop(j) \/ SubmitPanic(j)

-----------------------------------------------------------------------------
(* worker: for job := range p.jobs { job.Execute } *)

\* The range hands a job out; the worker may be preempted with it.
Receive(w) ==
    /\ workerPc[w] = "receive"
    /\ jobs # <<>>
    /\ jobs' = Tail(jobs)
    /\ workerPc' = [workerPc EXCEPT ![w] = "received"]
    /\ workerJob' = [workerJob EXCEPT ![w] = Head(jobs)]
    /\ fate' = [fate EXCEPT ![Head(jobs)] = "received"]
    /\ UNCHANGED <<closed, shutdownPc, waitDone, expired, accepted>>

\* Execute is called.
Execute(w) ==
    /\ workerPc[w] = "received"
    /\ workerPc' = [workerPc EXCEPT ![w] = "execute"]
    /\ fate' = [fate EXCEPT ![workerJob[w]] = "running"]
    /\ UNCHANGED <<jobs, closed, workerJob, shutdownPc, waitDone, expired, accepted>>

\* Execute returns.
Finish(w) ==
    /\ workerPc[w] = "execute"
    /\ workerPc' = [workerPc EXCEPT ![w] = "receive"]
    /\ workerJob' = [workerJob EXCEPT ![w] = NoJob]
    /\ fate' = [fate EXCEPT ![workerJob[w]] = "done"]
    /\ UNCHANGED <<jobs, closed, shutdownPc, waitDone, expired, accepted>>

\* Fault: a worker leaves as soon as the channel is closed.
ExitOnClose(w) ==
    /\ workerPc[w] = "receive"
    /\ closed
    /\ workerPc' = [workerPc EXCEPT ![w] = "exited"]
    /\ UNCHANGED <<jobs, closed, workerJob, fate, shutdownPc, waitDone, expired,
                   accepted>>

\* The range ends on a closed, empty channel; the deferred wg.Done runs.
Exit(w) ==
    /\ workerPc[w] = "receive"
    /\ jobs = <<>>
    /\ closed
    /\ workerPc' = [workerPc EXCEPT ![w] = "exited"]
    /\ UNCHANGED <<jobs, closed, workerJob, fate, shutdownPc, waitDone, expired,
                   accepted>>

-----------------------------------------------------------------------------
(* Shutdown(ctx) *)

\* once.Do(close), and the goroutine that waits is started.
ShutdownBegin(c) ==
    /\ shutdownPc[c] = "idle"
    /\ closed' = TRUE
    /\ shutdownPc' = [shutdownPc EXCEPT ![c] = "waiting"]
    /\ UNCHANGED <<jobs, workerPc, workerJob, fate, waitDone, expired, accepted>>

\* Fault: wg.Add(1) once for all the workers.
WaitGroupOfOne(c) ==
    /\ shutdownPc[c] # "idle"
    /\ c \notin waitDone
    /\ \E w \in Workers : workerPc[w] = "exited"
    /\ waitDone' = waitDone \cup {c}
    /\ UNCHANGED <<jobs, closed, workerPc, workerJob, fate, shutdownPc, expired,
                   accepted>>

\* Fault: wg.Add(size + 1).
WaitGroupOneTooMany(c) ==
    /\ shutdownPc[c] # "idle"
    /\ c \notin waitDone
    /\ Cardinality({w \in Workers : workerPc[w] = "exited"}) > Cardinality(Workers)
    /\ waitDone' = waitDone \cup {c}
    /\ UNCHANGED <<jobs, closed, workerPc, workerJob, fate, shutdownPc, expired,
                   accepted>>

\* Fault: the goroutine sends on an unbuffered channel instead of closing it.
WaitGroupSends(c) ==
    /\ shutdownPc[c] = "waiting"
    /\ c \notin waitDone
    /\ \A w \in Workers : workerPc[w] = "exited"
    /\ waitDone' = waitDone \cup {c}
    /\ UNCHANGED <<jobs, closed, workerPc, workerJob, fate, shutdownPc, expired,
                   accepted>>

\* p.wg.Wait() returns in the goroutine of call c; it closes waitDone.
WaitGroupDone(c) ==
    /\ shutdownPc[c] # "idle"
    /\ c \notin waitDone
    /\ \A w \in Workers : workerPc[w] = "exited"
    /\ waitDone' = waitDone \cup {c}
    /\ UNCHANGED <<jobs, closed, workerPc, workerJob, fate, shutdownPc, expired,
                   accepted>>

\* The deadline passes, whatever the call is doing.
Expire(c) ==
    /\ c \notin expired
    /\ expired' = expired \cup {c}
    /\ UNCHANGED <<jobs, closed, workerPc, workerJob, fate, shutdownPc, waitDone,
                   accepted>>

Return(c, result) ==
    /\ shutdownPc[c] = "waiting"
    /\ shutdownPc' = [shutdownPc EXCEPT ![c] = result]
    /\ UNCHANGED <<jobs, closed, workerPc, workerJob, fate, waitDone, expired,
                   accepted>>

\* case <-waitDone.  When both cases are ready the select takes either.
ShutdownNil(c) == c \in waitDone /\ Return(c, "nil")

\* case <-ctx.Done()
ShutdownDeadline(c) == c \in expired /\ Return(c, "deadline")

-----------------------------------------------------------------------------

\* Every submission is decided, every goroutine has ended.
Terminated ==
    /\ \A j \in Jobs : fate[j] # "new"
    /\ \A w \in Workers : workerPc[w] = "exited"
    /\ \A c \in Callers : shutdownPc[c] \in {"nil", "deadline"}
    /\ UNCHANGED vars

WorkerStep(w) == Receive(w) \/ Execute(w) \/ Finish(w) \/ Exit(w)

ShutdownStep(c) == WaitGroupDone(c) \/ ShutdownNil(c) \/ ShutdownDeadline(c)

Next ==
    \/ \E j \in Jobs : Submit(j)
    \/ \E w \in Workers : WorkerStep(w)
    \/ \E c \in Callers : ShutdownBegin(c) \/ Expire(c) \/ ShutdownStep(c)
    \/ Terminated

Spec == Init /\ [][Next]_vars

\* Every goroutine of the pool is scheduled: a worker that can move does, and
\* so does a Shutdown that was entered.  Nothing forces a Submit, a Shutdown or
\* a deadline to come.
Fairness ==
    /\ \A w \in Workers : WF_vars(WorkerStep(w))
    /\ \A c \in Callers : WF_vars(WaitGroupDone(c)) /\ WF_vars(ShutdownNil(c) \/ ShutdownDeadline(c))

FairSpec == Spec /\ Fairness

-----------------------------------------------------------------------------

\* The type of the state.
TypeOK ==
    /\ jobs \in Seq(Jobs)
    /\ closed \in BOOLEAN
    /\ workerPc \in [Workers -> {"receive", "received", "execute", "exited"}]
    /\ workerJob \in [Workers -> Jobs \cup {NoJob}]
    /\ fate \in [Jobs -> Fate]
    /\ shutdownPc \in [Callers -> {"idle", "waiting", "nil", "deadline"}]
    /\ waitDone \in SUBSET Callers
    /\ expired \in SUBSET Callers
    /\ accepted \in Seq(Jobs)

\* The jobs that Execute has been called on.
Executed(j) == fate[j] \in {"running", "done"}

\* A job may be overtaken between Submit and Execute, by a worker that is faster
\* from the receive to the call (pool.go:56-57), but by few: when Execute is
\* called on a job, fewer jobs that were accepted before it still wait for their
\* call than there are workers.
BoundedOvertaking ==
    \A k \in 1..Len(accepted) : Executed(accepted[k]) =>
        Cardinality({l \in 1..(k - 1) : ~Executed(accepted[l])}) < Cardinality(Workers)

\* A job is in hand, or being executed, exactly when one worker holds it, and no
\* two do.
OneWorkerPerJob ==
    /\ \A w \in Workers : workerPc[w] = "received" =>
          workerJob[w] \in Jobs /\ fate[workerJob[w]] = "received"
    /\ \A w \in Workers : workerPc[w] = "execute" =>
          workerJob[w] \in Jobs /\ fate[workerJob[w]] = "running"
    /\ \A j \in Jobs : fate[j] = "received" =>
          \E w \in Workers : workerPc[w] = "received" /\ workerJob[w] = j
    /\ \A j \in Jobs : fate[j] = "running" =>
          \E w \in Workers : workerPc[w] = "execute" /\ workerJob[w] = j
    /\ \A v, w \in Workers :
          (/\ {workerPc[v], workerPc[w]} \subseteq {"received", "execute"}
           /\ workerJob[v] = workerJob[w]) => v = w

\* A Shutdown that returned nil (pool.go:86-88) left nothing behind: the channel
\* is closed and empty, every worker is gone, every accepted job was finished.
NilMeansDrained ==
    \A c \in Callers : shutdownPc[c] = "nil" =>
        /\ closed
        /\ \A w \in Workers : workerPc[w] = "exited"
        /\ \A j \in Jobs : fate[j] \notin {"queued", "received", "running"}

\* Once a worker has exited no job can be stranded in the channel, however
\* submissions race with the close.
NoJobStranded ==
    (\E w \in Workers : workerPc[w] = "exited") => jobs = <<>> /\ closed

\* The pool implements the ledger.
LedgerStatus ==
    [j \in Jobs |-> CASE fate[j] \in {"queued", "received"} -> "accepted"
                      [] fate[j] \in {"dropped", "panicked"} -> "rejected"
                      [] OTHER -> fate[j]]

Ledger == INSTANCE JobLedger WITH
    status <- LedgerStatus,
    open <- ~closed,
    drained <- {c \in Callers : shutdownPc[c] = "nil"},
    MaxRunning <- Cardinality(Workers)

\* Every step of the pool is a step the ledger allows (pool.go:12-92).
ImplementsLedger == Ledger!Spec

\* An accepted job is executed to its end, also when a Shutdown arrives.
AcceptedJobsFinish == Ledger!Liveness

\* A Shutdown that was entered returns, even if its deadline never passes.
ShutdownReturns ==
    \A c \in Callers : shutdownPc[c] = "waiting" ~> shutdownPc[c] \in {"nil", "deadline"}

\* After a Shutdown no goroutine of the pool leaks: neither the workers nor the
\* goroutine that waits for them on behalf of a call that timed out.
NoGoroutineLeak ==
    \A c \in Callers : shutdownPc[c] # "idle" ~>
        (c \in waitDone /\ \A w \in Workers : workerPc[w] = "exited")
=============================================================================
