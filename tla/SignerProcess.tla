---------------------------- MODULE SignerProcess ----------------------------
(***************************************************************************)
(* The process that main.run wires together: webhook handlers that submit  *)
(* to the worker pool, the reconciler's sweeps beside them, and main, which *)
(* on a signal shuts the HTTP server, the pool and the reconciler down in  *)
(* this order.  The process may be killed at any time and is restarted     *)
(* with an empty queue; the registry outlives it.                          *)
(*                                                                         *)
(* WorkerPool and Sweeper are the pool and what Reconciler implements.     *)
(***************************************************************************)
EXTENDS WebhookHandler, FiniteSets

CONSTANTS
    Workers, QueueSize, NoJob,   \* the pool's
    Requests,      \* the webhook calls, each with a job of its own
    Incoming,      \* what a call may send
    Nothing,       \* what a handler that reads no call has
    Main,          \* the goroutine of run
    Ticker, NoOne, \* the sweeper's
    PageSize,      \* the artifacts that a listing returns of a repository at most
    MaxRestarts    \* bound: how often the process ends and is started again

ASSUME ProcessAssumption ==
    /\ IsFiniteSet(Workers) /\ Workers # {}
    /\ QueueSize \in Nat \ {0}
    /\ NoJob \notin Requests
    /\ Ticker # NoOne
    /\ PageSize \in Nat \ {0}
    /\ MaxRestarts \in Nat

ASSUME IncomingSized == \A q \in Incoming : q.body.size \in Nat

VARIABLES
    jobs, closed, workerPc, workerJob, fate, shutdownPc, waitDone, expired,
    accepted,                              \* the pool, see WorkerPool
    holder, stop,                          \* the reconciler, see Sweeper
    handlerPc,   \* where the handler of each call is
    request,     \* what it reads
    answer,      \* what the caller got
    mainPc,      \* the phase main is in
    httpResult,  \* how mainServer.Shutdown ended
    processed,   \* history: the calls whose artifact was dealt with for good
    restarts     \* restarts so far

poolVars == <<jobs, closed, workerPc, workerJob, fate, shutdownPc, waitDone,
              expired, accepted>>
sweepVars == <<holder, stop>>
handlerVars == <<handlerPc, request, answer>>
mainVars == <<mainPc, httpResult, restarts>>
vars == <<poolVars, sweepVars, handlerVars, mainVars, processed>>

Pool == INSTANCE WorkerPool WITH Jobs <- Requests, Callers <- {Main}
Sweep == INSTANCE Sweeper WITH Callers <- {Ticker}

Phase == {"running", "flagged", "http", "pool", "reconciler", "rest", "exited", "killed"}

Alive == mainPc \notin {"exited", "killed"}
InFlight(r) == handlerPc[r] \in {"reading", "submitted"}

Init ==
    /\ Pool!Init
    /\ Sweep!Init
    /\ handlerPc = [r \in Requests |-> "away"]
    /\ request = [r \in Requests |-> Nothing]
    /\ answer = [r \in Requests |-> "none"]
    /\ mainPc = "running"
    /\ httpResult = "none"
    /\ processed = {}
    /\ restarts = 0

-----------------------------------------------------------------------------
(* The webhook's handlers *)

\* A call reaches the server as long as it listens.
Arrive(r) ==
    /\ mainPc \in {"running", "flagged"}
    /\ handlerPc[r] = "away"
    /\ handlerPc' = [handlerPc EXCEPT ![r] = "reading"]
    /\ \E q \in Incoming : request' = [request EXCEPT ![r] = q]
    /\ UNCHANGED <<poolVars, sweepVars, answer, mainVars, processed>>

\* The handler, done with the body, goes on.
HandlerMoves(r, to) ==
    /\ Alive
    /\ handlerPc[r] = "reading"
    /\ handlerPc' = [handlerPc EXCEPT ![r] = to]
    /\ request' = [request EXCEPT ![r] = Nothing]

\* An early return of HandleWebhook.
Refuse(r) ==
    /\ HandlerMoves(r, "answered")
    /\ Verdict(request[r]) \in Refusal
    /\ answer' = [answer EXCEPT ![r] = Verdict(request[r])]
    /\ UNCHANGED <<poolVars, sweepVars, mainVars, processed>>

\* Submit comes back, whether the pool took the job or dropped it.
SubmitJob(r) ==
    /\ HandlerMoves(r, "submitted")
    /\ Verdict(request[r]) = "submit"
    /\ Pool!SubmitAccept(r) \/ Pool!SubmitDrop(r)
    /\ UNCHANGED <<sweepVars, answer, mainVars, processed>>

\* Submit panics on the closed channel; gin.Recovery answers.
SubmitPanics(r) ==
    /\ HandlerMoves(r, "answered")
    /\ Verdict(request[r]) = "submit"
    /\ Pool!SubmitPanic(r)
    /\ answer' = [answer EXCEPT ![r] = "internal error"]
    /\ UNCHANGED <<sweepVars, mainVars, processed>>

AnswerAccepted(r) ==
    /\ Alive
    /\ handlerPc[r] = "submitted"
    /\ handlerPc' = [handlerPc EXCEPT ![r] = "answered"]
    /\ answer' = [answer EXCEPT ![r] = "accepted"]
    /\ UNCHANGED <<poolVars, sweepVars, request, mainVars, processed>>

-----------------------------------------------------------------------------
(* The pool's workers and the sweeps *)

WorkerMoves(w) ==
    /\ Alive
    /\ Pool!Receive(w) \/ Pool!Execute(w) \/ Pool!Exit(w)
    /\ UNCHANGED <<sweepVars, handlerVars, mainVars, processed>>

\* signingJob.Execute: an error of ProcessArtifact is only logged.
WorkerFinishes(w) ==
    /\ Alive
    /\ Pool!Finish(w)
    /\ processed' \in {processed, processed \cup {workerJob[w]}}
    /\ UNCHANGED <<sweepVars, handlerVars, mainVars>>

SweepBegins ==
    /\ Alive
    /\ Sweep!Begin(Ticker)
    /\ UNCHANGED <<poolVars, handlerVars, mainVars, processed>>

\* The listings a sweep may get of the one repository that the artifacts of all
\* calls are in: a first page, from which other artifacts, a scan that is not
\* (or no longer) successful, or an error may keep any of them.
FirstPages == {page \in SUBSET Requests : Cardinality(page) <= PageSize}

\* The sweep is over; it found these signed, or processed them without an error.
SweepEnds(found) ==
    /\ Alive
    /\ Sweep!End
    /\ processed' = processed \cup found
    /\ UNCHANGED <<poolVars, handlerVars, mainVars>>

\* The errors of single artifacts, and the deadline, leave out any of the page.
SweepReturns == \E page \in FirstPages : \E found \in SUBSET page : SweepEnds(found)

-----------------------------------------------------------------------------
(* main *)

Advance(from, to) ==
    /\ mainPc = from
    /\ mainPc' = to

MainMoves(from, to) ==
    /\ Advance(from, to)
    /\ UNCHANGED <<poolVars, sweepVars, handlerVars, httpResult, restarts, processed>>

\* SIGTERM arrives; healthHandler.SetShutdown.
Signal == restarts < MaxRestarts /\ MainMoves("running", "flagged")

\* Fault: the pool is drained before the server is shut down.
PoolBeforeServer == MainMoves("flagged", "pool")

\* mainServer.Shutdown closes the listener at once.
CloseListener == MainMoves("flagged", "http")

HttpReturns(how) ==
    /\ Advance("http", "pool")
    /\ httpResult' = how
    /\ UNCHANGED <<poolVars, sweepVars, handlerVars, restarts, processed>>

\* It returns nil when no handler is active,
HttpDrained == (\A r \in Requests : ~InFlight(r)) /\ HttpReturns("nil")

\* Fault: Shutdown with a context that has no deadline.
HttpWaits == (\A r \in Requests : ~InFlight(r)) /\ HttpReturns("deadline")

\* or an error after 5s; the handlers go on.
HttpDeadline == HttpReturns("deadline")

PoolStep(A) == A /\ UNCHANGED <<sweepVars, handlerVars, mainVars, processed>>

\* pool.Shutdown(drainCtx), the one call of it.
DrainBegins == mainPc = "pool" /\ PoolStep(Pool!ShutdownBegin(Main))

DrainWaits == Alive /\ PoolStep(Pool!WaitGroupDone(Main))

\* 30s have passed.
DrainExpires == Alive /\ shutdownPc[Main] # "idle" /\ PoolStep(Pool!Expire(Main))

\* Fault: go pool.Shutdown(drainCtx).
DrainNotAwaited ==
    /\ shutdownPc[Main] = "waiting"
    /\ Advance("pool", "reconciler")
    /\ UNCHANGED <<poolVars, sweepVars, handlerVars, httpResult, restarts, processed>>

DrainReturns ==
    /\ Advance("pool", "reconciler")
    /\ Pool!ShutdownNil(Main) \/ Pool!ShutdownDeadline(Main)
    /\ UNCHANGED <<sweepVars, handlerVars, httpResult, restarts, processed>>

\* reconciler.Stop: the request, and its confirmation, which has no deadline.
StopBegins ==
    /\ mainPc = "reconciler"
    /\ Sweep!Ask
    /\ UNCHANGED <<poolVars, handlerVars, mainVars, processed>>

\* Fault: Stop closes the channel and does not wait.
StopNotAwaited ==
    /\ stop = "asked"
    /\ MainMoves("reconciler", "rest")

StopReturns ==
    /\ Advance("reconciler", "rest")
    /\ Sweep!Confirm
    /\ UNCHANGED <<poolVars, handlerVars, httpResult, restarts, processed>>

\* The process is gone; connections break.
Die(from, to) ==
    /\ Advance(from, to)
    /\ answer' = [r \in Requests |-> IF InFlight(r) THEN "broken" ELSE answer[r]]
    /\ handlerPc' = [r \in Requests |-> IF InFlight(r) THEN "answered" ELSE handlerPc[r]]
    /\ request' = [r \in Requests |-> Nothing]
    /\ UNCHANGED <<poolVars, sweepVars, httpResult, restarts, processed>>

\* The metrics server and the tracer are shut down, within 5s each; run returns.
Exit == Die("rest", "exited")

\* SIGKILL, 30s after the signal or at any time.
Kill == Alive /\ restarts < MaxRestarts /\ Die(mainPc, "killed")

\* run is entered again, with nothing of what the process held.
Restart ==
    /\ ~Alive
    /\ mainPc' = "running"
    /\ restarts' = restarts + 1
    /\ httpResult' = "none"
    /\ jobs' = <<>> /\ closed' = FALSE /\ accepted' = <<>>
    /\ workerPc' = [w \in Workers |-> "receive"]
    /\ workerJob' = [w \in Workers |-> NoJob]
    /\ fate' = [r \in Requests |-> "new"]
    /\ shutdownPc' = [c \in {Main} |-> "idle"]
    /\ waitDone' = {} /\ expired' = {}
    /\ holder' = NoOne /\ stop' = "no"
    /\ UNCHANGED <<handlerVars, processed>>

-----------------------------------------------------------------------------

HandlerStep(r) == Refuse(r) \/ SubmitJob(r) \/ SubmitPanics(r) \/ AnswerAccepted(r)

MainStep ==
    \/ CloseListener \/ HttpDrained \/ HttpDeadline
    \/ DrainBegins \/ DrainReturns
    \/ StopBegins \/ StopReturns \/ Exit

Next ==
    \/ \E r \in Requests : Arrive(r) \/ HandlerStep(r)
    \/ \E w \in Workers : WorkerMoves(w) \/ WorkerFinishes(w)
    \/ SweepBegins \/ SweepReturns
    \/ DrainWaits \/ DrainExpires
    \/ Signal \/ MainStep \/ Kill \/ Restart

Spec == Init /\ [][Next]_vars

\* main is scheduled, its timers fire, and a sweep, whose every call has a
\* timeout, ends.  Strong fairness for Stop: at most one tick waits, and the
\* select that finds a tick and the closed channel takes either at random.
\* Nothing is assumed of handlers, which wait for their callers, nor of the
\* jobs, nor does anything make a restart happen.
Fairness ==
    /\ WF_vars(MainStep)
    /\ SF_vars(StopReturns)
    /\ WF_vars(DrainExpires)
    /\ WF_vars(SweepReturns)

FairSpec == Spec /\ Fairness

-----------------------------------------------------------------------------

\* The type of the state.
TypeOK ==
    /\ Pool!TypeOK
    /\ holder \in {Ticker, NoOne}
    /\ stop \in {"no", "asked", "confirmed"}
    /\ handlerPc \in [Requests -> {"away", "reading", "submitted", "answered"}]
    /\ request \in [Requests -> Incoming \cup {Nothing}]
    /\ answer \in [Requests -> Refusal \cup {"none", "accepted", "internal error", "broken"}]
    /\ mainPc \in Phase
    /\ httpResult \in {"none", "nil", "deadline"}
    /\ processed \subseteq Requests
    /\ restarts \in 0..MaxRestarts

\* No webhook ever meets the closed channel unless its handler outlived the
\* server's 5s: the order of main.go:191-203 keeps the others out.
PanicsOnlyOutliveServer ==
    (\E r \in Requests : fate[r] = "panicked") => httpResult = "deadline"

\* When main goes on behind a drain that was not given up and a server that was
\* shut down in time, every caller that was told "accepted" has had its job
\* executed or dropped, and no handler is left to submit one (main.go:194-205).
DrainedMeansDone ==
    (/\ mainPc \in {"reconciler", "rest", "exited"}
     /\ httpResult = "nil"
     /\ shutdownPc[Main] # "deadline")
        => \A r \in Requests : ~InFlight(r) /\ fate[r] \notin {"queued", "received", "running"}

\* A process that ends by itself leaves no sweep behind in the registry.
QuietExit == mainPc \in {"rest", "exited"} => holder = NoOne

\* A signal ends the process, although handlers may wait for their callers for
\* ever and jobs may never return: only a sweep is waited for without a limit.
SignalEndsProcess == mainPc = "flagged" ~> ~Alive

\* A sweep dealt with all that a first page can hold: a full one, or every
\* artifact that a webhook has been sent about.
SweepCompletes == \E page \in FirstPages :
    /\ \/ Cardinality(page) = PageSize
       \/ \A r \in Requests : handlerPc[r] # "away" => r \in page
    /\ SweepEnds(page)

\* The process lost the webhook: a drop, a panic or a connection that broke.
Missed(r) == fate[r] \in {"dropped", "panicked"} \/ answer[r] = "broken"

\* docs/index.md:15: the periodic sweep catches images missed by webhook delivery,
\* here even if again and again a sweep deals with all that its listing names.
SweepsCatchMissed ==
    ([]<><<SweepCompletes>>_vars) => \A r \in Requests : Missed(r) ~> r \in processed

\* docs/api/webhook.md: 200 accepted means that the signing job is enqueued.
AcceptedIsEnqueued ==
    \A r \in Requests : answer[r] = "accepted" => fate[r] # "dropped"
=============================================================================
