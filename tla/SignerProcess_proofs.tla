------------------------ MODULE SignerProcess_proofs ------------------------
(***************************************************************************)
(* The process, for every number of workers, webhooks and restarts and     *)
(* every size of the queue: its type, that the order of the shutdown keeps *)
(* handlers from the closed channel, and what a drain and an exit leave.   *)
(***************************************************************************)
EXTENDS SignerProcess, SequenceTheorems, TLAPS

\* A worker between the receive of a job and the end of its Execute.
Holds(w) == workerPc[w] \in {"received", "execute"}

\* Where the jobs are that are not decided, and who saw the end of the pool.
PoolInv ==
    /\ \A r \in Requests : fate[r] = "queued" => \E k \in 1..Len(jobs) : jobs[k] = r
    /\ \A r \in Requests : fate[r] \in {"received", "running"} =>
          \E w \in Workers : Holds(w) /\ workerJob[w] = r
    /\ \A w \in Workers : Holds(w) => workerJob[w] \in Requests
    /\ \A w \in Workers : workerPc[w] = "exited" => jobs = <<>> /\ closed
    /\ Main \in waitDone => \A w \in Workers : workerPc[w] = "exited"
    /\ shutdownPc[Main] = "nil" => Main \in waitDone

\* What main has behind it in each phase.
PhaseInv ==
    /\ mainPc \in {"running", "flagged", "http"} => httpResult = "none"
    /\ mainPc = "pool" => httpResult # "none"
    /\ httpResult = "none" => ~closed
    /\ httpResult = "nil" => \A r \in Requests : ~InFlight(r)
    /\ mainPc \in {"reconciler", "rest", "exited"} => shutdownPc[Main] \in {"nil", "deadline"}
    /\ mainPc \in {"rest", "exited"} => stop = "confirmed" /\ holder = NoOne
    /\ mainPc # "running" => restarts < MaxRestarts

ProcessInv ==
    /\ TypeOK
    /\ PoolInv
    /\ PhaseInv
    /\ PanicsOnlyOutliveServer

-----------------------------------------------------------------------------

LEMMA InitProcess == Init => ProcessInv
<1> SUFFICES ASSUME Init PROVE ProcessInv
  OBVIOUS
<1> USE DEF Init, Pool!Init, Sweep!Init
<1>1. TypeOK
  <2>1. jobs \in Seq(Requests) /\ accepted \in Seq(Requests)
    BY EmptySeq
  <2>2. Pool!TypeOK
    BY <2>1 DEF Pool!TypeOK, Pool!Fate
  <2>3. QED BY <2>2, ProcessAssumption DEF TypeOK, Phase
<1>2. PoolInv
  BY DEF PoolInv, Holds
<1>3. PhaseInv /\ PanicsOnlyOutliveServer
  BY DEF PhaseInv, PanicsOnlyOutliveServer
<1>4. QED BY <1>1, <1>2, <1>3 DEF ProcessInv

\* The steps of a handler on its own.
LEMMA HandlerKeeps ==
    ASSUME ProcessInv, NEW r \in Requests, Arrive(r) \/ Refuse(r) \/ AnswerAccepted(r)
    PROVE  ProcessInv'
<1> USE DEF ProcessInv
<1>1. UNCHANGED <<poolVars, sweepVars, mainVars, processed>>
  BY DEF Arrive, Refuse, AnswerAccepted
<1>2. TypeOK'
  <2>1. Pool!TypeOK'
    BY <1>1 DEF TypeOK, Pool!TypeOK, poolVars
  <2>2. handlerPc' \in [Requests -> {"away", "reading", "submitted", "answered"}]
    BY DEF Arrive, Refuse, AnswerAccepted, HandlerMoves, TypeOK
  <2>3. request' \in [Requests -> Incoming \cup {Nothing}]
    BY DEF Arrive, Refuse, AnswerAccepted, HandlerMoves, TypeOK
  <2>4. answer' \in [Requests -> Refusal \cup {"none", "accepted", "internal error", "broken"}]
    BY DEF Arrive, Refuse, AnswerAccepted, TypeOK
  <2>5. QED BY <1>1, <2>1, <2>2, <2>3, <2>4 DEF TypeOK, sweepVars, mainVars
<1>3. PoolInv' /\ PanicsOnlyOutliveServer'
  BY <1>1 DEF PoolInv, Holds, PanicsOnlyOutliveServer, poolVars, mainVars
<1>4. PhaseInv'
  <2>1. \A q \in Requests : q # r => (InFlight(q)' <=> InFlight(q))
    BY DEF Arrive, Refuse, AnswerAccepted, HandlerMoves, InFlight, TypeOK
  <2>2. InFlight(r) \/ httpResult = "none"
    BY DEF Arrive, Refuse, AnswerAccepted, HandlerMoves, InFlight, PhaseInv
  <2>3. QED BY <1>1, <2>1, <2>2 DEF PhaseInv, poolVars, sweepVars, mainVars
<1>5. QED BY <1>2, <1>3, <1>4

\* A handler that submits is in flight: the server has not been drained.
LEMMA SubmitKeeps ==
    ASSUME ProcessInv, NEW r \in Requests, SubmitJob(r) \/ SubmitPanics(r)
    PROVE  ProcessInv'
<1> USE DEF ProcessInv
<1>1. /\ InFlight(r)
      /\ UNCHANGED <<sweepVars, mainVars, processed>>
      /\ UNCHANGED <<closed, workerPc, workerJob, shutdownPc, waitDone, expired>>
  BY DEF SubmitJob, SubmitPanics, HandlerMoves, InFlight, Pool!SubmitAccept,
         Pool!SubmitDrop, Pool!SubmitPanic
<1>2. /\ fate[r] = "new"
      /\ \A q \in Requests : q # r => fate'[q] = fate[q]
      /\ \/ /\ ~closed
            /\ fate'[r] = "queued"
            /\ jobs' = Append(jobs, r)
            /\ accepted' = Append(accepted, r)
         \/ /\ fate'[r] = "dropped"
            /\ jobs' = jobs /\ accepted' = accepted
         \/ /\ closed
            /\ fate'[r] = "panicked"
            /\ jobs' = jobs /\ accepted' = accepted
      /\ fate' \in [Requests -> Pool!Fate]
  BY DEF SubmitJob, SubmitPanics, Pool!SubmitAccept, Pool!SubmitDrop, Pool!SubmitPanic,
         TypeOK, Pool!TypeOK, Pool!Fate
<1>3. /\ jobs' \in Seq(Requests) /\ accepted' \in Seq(Requests)
      /\ Len(jobs) \in Nat
      /\ \A k \in 1..Len(jobs) : k \in 1..Len(jobs') /\ jobs'[k] = jobs[k]
      /\ fate'[r] = "queued" => \E k \in 1..Len(jobs') : jobs'[k] = r
  <2>1. jobs \in Seq(Requests) /\ accepted \in Seq(Requests)
    BY DEF TypeOK, Pool!TypeOK
  <2>2. Len(jobs) \in Nat
    BY <2>1, LenProperties
  <2>3. CASE jobs' = jobs /\ accepted' = accepted
    BY <2>3, <1>2, <2>1, <2>2
  <2>4. CASE jobs' = Append(jobs, r) /\ accepted' = Append(accepted, r)
    <3>1. /\ jobs' \in Seq(Requests) /\ Len(jobs') = Len(jobs) + 1
          /\ \A k \in 1..Len(jobs) : jobs'[k] = jobs[k]
          /\ jobs'[Len(jobs) + 1] = r
      BY <2>1, <2>4, AppendProperties
    <3>2. accepted' \in Seq(Requests)
      BY <2>1, <2>4, AppendProperties
    <3>3. QED BY <2>2, <3>1, <3>2
  <2>5. QED BY <1>2, <2>3, <2>4
<1>4. TypeOK'
  <2>1. Pool!TypeOK'
    BY <1>1, <1>2, <1>3 DEF TypeOK, Pool!TypeOK
  <2>2. handlerPc' \in [Requests -> {"away", "reading", "submitted", "answered"}]
    BY DEF SubmitJob, SubmitPanics, HandlerMoves, TypeOK
  <2>3. request' \in [Requests -> Incoming \cup {Nothing}]
    BY DEF SubmitJob, SubmitPanics, HandlerMoves, TypeOK
  <2>4. answer' \in [Requests -> Refusal \cup {"none", "accepted", "internal error", "broken"}]
    BY DEF SubmitJob, SubmitPanics, TypeOK
  <2>5. QED BY <1>1, <2>1, <2>2, <2>3, <2>4 DEF TypeOK, sweepVars, mainVars
<1>5. PoolInv'
  <2>1. ASSUME NEW q \in Requests, fate'[q] = "queued"
        PROVE  \E k \in 1..Len(jobs') : jobs'[k] = q
    <3>1. CASE q = r
      BY <2>1, <3>1, <1>3
    <3>2. CASE q # r
      <4>1. PICK k \in 1..Len(jobs) : jobs[k] = q
        BY <2>1, <3>2, <1>2 DEF PoolInv, Holds
      <4>2. QED BY <4>1, <1>3
    <3>3. QED BY <3>1, <3>2
  <2>2. \A w \in Workers : workerPc[w] = "exited" => jobs' = <<>> /\ closed
    BY <1>2 DEF PoolInv, Holds
  <2>3. \A q \in Requests : fate'[q] \in {"received", "running"} => fate'[q] = fate[q]
    BY <1>2
  <2>4. QED BY <1>1, <2>1, <2>2, <2>3 DEF PoolInv, Holds
<1>6. PhaseInv' /\ PanicsOnlyOutliveServer'
  <2>1. httpResult # "nil" /\ httpResult' = httpResult
    BY <1>1 DEF PhaseInv, mainVars
  <2>2. closed => httpResult = "deadline"
    BY <2>1 DEF PhaseInv, TypeOK
  <2>3. PanicsOnlyOutliveServer'
    BY <1>2, <2>1, <2>2 DEF PanicsOnlyOutliveServer
  <2>4. QED BY <1>1, <2>1, <2>3 DEF PhaseInv, sweepVars, mainVars
<1>7. QED BY <1>4, <1>5, <1>6

LEMMA ReceiveKeeps ==
    ASSUME ProcessInv, NEW w \in Workers, Pool!Receive(w),
           UNCHANGED <<sweepVars, handlerVars, mainVars, processed>>
    PROVE  ProcessInv'
<1> USE DEF ProcessInv
<1> DEFINE h == Head(jobs)
<1>1. /\ h \in Requests /\ jobs' \in Seq(Requests) /\ jobs # <<>>
      /\ Len(jobs) \in Nat \ {0} /\ Len(jobs') = Len(jobs) - 1 /\ h = jobs[1]
      /\ \A k \in 1..Len(jobs') : jobs'[k] = jobs[k + 1]
  <2>1. jobs \in Seq(Requests) /\ jobs # <<>> /\ jobs' = Tail(jobs)
    BY DEF Pool!Receive, TypeOK, Pool!TypeOK
  <2>2. /\ h \in Requests /\ Tail(jobs) \in Seq(Requests) /\ Len(Tail(jobs)) = Len(jobs) - 1
        /\ \A k \in 1..Len(Tail(jobs)) : Tail(jobs)[k] = jobs[k + 1]
    BY <2>1, HeadTailProperties
  <2>3. Len(jobs) \in Nat \ {0} /\ h = jobs[1]
    BY <2>1, EmptySeq, LenProperties
  <2>4. QED BY <2>1, <2>2, <2>3
<1>2. /\ \A q \in Requests : fate'[q] = IF q = h THEN "received" ELSE fate[q]
      /\ \A v \in Workers : /\ workerPc'[v] = IF v = w THEN "received" ELSE workerPc[v]
                            /\ workerJob'[v] = IF v = w THEN h ELSE workerJob[v]
      /\ workerPc[w] = "receive"
  BY <1>1 DEF Pool!Receive, TypeOK, Pool!TypeOK
<1>3. TypeOK'
  <2>1. fate' \in [Requests -> Pool!Fate]
    BY <1>1 DEF Pool!Receive, TypeOK, Pool!TypeOK, Pool!Fate
  <2>2. workerJob' \in [Workers -> Requests \cup {NoJob}]
    BY <1>1 DEF Pool!Receive, TypeOK, Pool!TypeOK
  <2>3. Pool!TypeOK'
    BY <1>1, <2>1, <2>2 DEF Pool!Receive, TypeOK, Pool!TypeOK
  <2>4. QED BY <2>3 DEF TypeOK, sweepVars, handlerVars, mainVars
<1>4. PoolInv'
  <2>1. ASSUME NEW q \in Requests, fate'[q] = "queued"
        PROVE  \E k \in 1..Len(jobs') : jobs'[k] = q
    <3>1. q # h /\ fate[q] = "queued"
      BY <2>1, <1>2
    <3>2. PICK k \in 1..Len(jobs) : jobs[k] = q
      BY <3>1 DEF PoolInv, Holds
    <3>3. k - 1 \in 1..Len(jobs') /\ jobs'[k - 1] = q
      BY <3>1, <3>2, <1>1
    <3>4. QED BY <3>3
  <2>2. ASSUME NEW q \in Requests, fate'[q] \in {"received", "running"}
        PROVE  \E v \in Workers : Holds(v)' /\ workerJob'[v] = q
    BY <2>2, <1>2 DEF PoolInv, Holds
  <2>3. \A v \in Workers : Holds(v)' => workerJob'[v] \in Requests
    BY <1>1, <1>2 DEF PoolInv, Holds
  <2>4. \A v \in Workers : workerPc'[v] # "exited"
    BY <1>1, <1>2 DEF PoolInv, Holds
  <2>5. Main \notin waitDone
    BY <1>2 DEF PoolInv, Holds
  <2>6. QED BY <2>1, <2>2, <2>3, <2>4, <2>5 DEF PoolInv, Holds, Pool!Receive
<1>5. PhaseInv' /\ PanicsOnlyOutliveServer'
  BY <1>1, <1>2 DEF PhaseInv, InFlight, PanicsOnlyOutliveServer, Pool!Receive, sweepVars,
                    handlerVars, mainVars
<1>6. QED BY <1>3, <1>4, <1>5

\* The call of Execute moves a held job on, and nothing else.
LEMMA ExecuteKeeps ==
    ASSUME ProcessInv, NEW w \in Workers, Pool!Execute(w),
           UNCHANGED <<sweepVars, handlerVars, mainVars, processed>>
    PROVE  ProcessInv'
<1> USE DEF ProcessInv
<1> DEFINE d == workerJob[w]
<1>1. /\ workerPc[w] = "received" /\ d \in Requests
      /\ UNCHANGED <<jobs, closed, workerJob, shutdownPc, waitDone, expired, accepted>>
  BY DEF Pool!Execute, PoolInv, Holds
<1>2. /\ \A q \in Requests : fate'[q] = IF q = d THEN "running" ELSE fate[q]
      /\ \A v \in Workers : workerPc'[v] = IF v = w THEN "execute" ELSE workerPc[v]
  BY DEF Pool!Execute, TypeOK, Pool!TypeOK
<1>3. TypeOK'
  <2>1. fate' \in [Requests -> Pool!Fate]
    BY DEF Pool!Execute, TypeOK, Pool!TypeOK, Pool!Fate
  <2>2. Pool!TypeOK'
    BY <1>1, <2>1 DEF Pool!Execute, TypeOK, Pool!TypeOK
  <2>3. QED BY <2>2 DEF TypeOK, sweepVars, handlerVars, mainVars
<1>4. PoolInv'
  <2>1. \A v \in Workers : Holds(v)' <=> Holds(v)
    BY <1>1, <1>2 DEF Holds
  <2>2. ASSUME NEW q \in Requests, fate'[q] \in {"received", "running"}
        PROVE  \E v \in Workers : Holds(v)' /\ workerJob'[v] = q
    <3>1. CASE q = d
      BY <3>1, <1>1, <2>1 DEF Holds
    <3>2. CASE q # d
      BY <3>2, <2>2, <1>1, <1>2, <2>1 DEF PoolInv
    <3>3. QED BY <3>1, <3>2
  <2>3. \A q \in Requests : fate'[q] = "queued" => fate[q] = "queued"
    BY <1>2
  <2>4. \A v \in Workers : workerPc'[v] = "exited" <=> workerPc[v] = "exited"
    BY <1>1, <1>2
  <2>5. QED BY <1>1, <2>1, <2>2, <2>3, <2>4 DEF PoolInv
<1>5. PhaseInv' /\ PanicsOnlyOutliveServer'
  BY <1>1, <1>2 DEF PhaseInv, InFlight, PanicsOnlyOutliveServer, sweepVars, handlerVars, mainVars
<1>6. QED BY <1>3, <1>4, <1>5

LEMMA FinishKeeps ==
    ASSUME ProcessInv, NEW w \in Workers, WorkerFinishes(w)
    PROVE  ProcessInv'
<1> USE DEF ProcessInv
<1> DEFINE d == workerJob[w]
<1>1. /\ workerPc[w] = "execute" /\ d \in Requests
      /\ UNCHANGED <<sweepVars, handlerVars, mainVars>>
      /\ UNCHANGED <<jobs, closed, shutdownPc, waitDone, expired, accepted>>
  BY DEF WorkerFinishes, Pool!Finish, PoolInv, Holds
<1>2. /\ \A q \in Requests : fate'[q] = IF q = d THEN "done" ELSE fate[q]
      /\ \A v \in Workers : /\ workerPc'[v] = IF v = w THEN "receive" ELSE workerPc[v]
                            /\ v # w => workerJob'[v] = workerJob[v]
  BY DEF WorkerFinishes, Pool!Finish, TypeOK, Pool!TypeOK
<1>3. TypeOK'
  <2>1. fate' \in [Requests -> Pool!Fate]
    BY DEF WorkerFinishes, Pool!Finish, TypeOK, Pool!TypeOK, Pool!Fate
  <2>2. Pool!TypeOK'
    BY <1>1, <2>1 DEF WorkerFinishes, Pool!Finish, TypeOK, Pool!TypeOK
  <2>3. processed' \subseteq Requests
    BY <1>1 DEF WorkerFinishes, TypeOK
  <2>4. QED BY <1>1, <2>2, <2>3 DEF TypeOK, sweepVars, handlerVars, mainVars
<1>4. PoolInv'
  <2>1. ASSUME NEW q \in Requests, fate'[q] \in {"received", "running"}
        PROVE  \E v \in Workers : Holds(v)' /\ workerJob'[v] = q
    BY <2>1, <1>2 DEF PoolInv, Holds
  <2>2. \A q \in Requests : fate'[q] = "queued" => fate[q] = "queued"
    BY <1>2
  <2>3. \A v \in Workers : Holds(v)' => workerJob'[v] \in Requests
    BY <1>2 DEF PoolInv, Holds
  <2>4. \A v \in Workers : workerPc'[v] = "exited" <=> workerPc[v] = "exited"
    BY <1>1, <1>2
  <2>5. QED BY <1>1, <2>1, <2>2, <2>3, <2>4 DEF PoolInv, Holds
<1>5. PhaseInv' /\ PanicsOnlyOutliveServer'
  BY <1>1, <1>2 DEF PhaseInv, InFlight, PanicsOnlyOutliveServer, sweepVars, handlerVars, mainVars
<1>6. QED BY <1>3, <1>4, <1>5

LEMMA ExitKeeps ==
    ASSUME ProcessInv, NEW w \in Workers, Pool!Exit(w),
           UNCHANGED <<sweepVars, handlerVars, mainVars, processed>>
    PROVE  ProcessInv'
<1> USE DEF ProcessInv, Pool!Exit
<1>1. Pool!TypeOK'
  BY DEF TypeOK, Pool!TypeOK
<1>2. TypeOK'
  BY <1>1 DEF TypeOK, sweepVars, handlerVars, mainVars
<1>3. \A v \in Workers : workerPc'[v] = IF v = w THEN "exited" ELSE workerPc[v]
  BY DEF TypeOK, Pool!TypeOK
<1>4. PoolInv'
  BY <1>3 DEF PoolInv, Holds
<1>5. PhaseInv' /\ PanicsOnlyOutliveServer'
  BY DEF PhaseInv, InFlight, PanicsOnlyOutliveServer, sweepVars, handlerVars, mainVars
<1>6. QED BY <1>2, <1>4, <1>5

\* A sweep begins only for a ticker goroutine that Stop has not seen the end of.
LEMMA SweepKeeps ==
    ASSUME ProcessInv, SweepBegins \/ SweepReturns
    PROVE  ProcessInv'
<1> USE DEF ProcessInv
<1>1. /\ UNCHANGED <<poolVars, handlerVars, mainVars>>
      /\ holder' \in {Ticker, NoOne} /\ stop' = stop
      /\ stop = "confirmed" => holder' = NoOne
      /\ processed' \subseteq Requests
  <2>1. CASE SweepBegins
    BY <2>1 DEF SweepBegins, Sweep!Begin, TypeOK
  <2>2. CASE SweepReturns
    <3>1. PICK found \in SUBSET Requests : SweepEnds(found)
      BY <2>2 DEF SweepReturns, FirstPages
    <3>2. QED BY <3>1 DEF SweepEnds, Sweep!End, TypeOK
  <2>3. QED BY <2>1, <2>2
<1>2. TypeOK'
  BY <1>1 DEF TypeOK, Pool!TypeOK, poolVars, handlerVars, mainVars
<1>3. PoolInv' /\ PanicsOnlyOutliveServer'
  BY <1>1 DEF PoolInv, Holds, PanicsOnlyOutliveServer, poolVars, mainVars
<1>4. PhaseInv'
  BY <1>1 DEF PhaseInv, InFlight, poolVars, handlerVars, mainVars
<1>5. QED BY <1>2, <1>3, <1>4

\* main goes from one phase to the next and nothing else moves.
LEMMA MainMovesKeeps ==
    ASSUME ProcessInv, Signal \/ CloseListener
    PROVE  ProcessInv'
<1> USE DEF ProcessInv
<1>1. /\ UNCHANGED <<poolVars, sweepVars, handlerVars, httpResult, restarts, processed>>
      /\ \/ mainPc = "running" /\ mainPc' = "flagged" /\ restarts < MaxRestarts
         \/ mainPc = "flagged" /\ mainPc' = "http"
  BY DEF Signal, CloseListener, MainMoves, Advance
<1>2. TypeOK'
  BY <1>1 DEF TypeOK, Pool!TypeOK, Phase, poolVars, sweepVars, handlerVars
<1>3. PoolInv' /\ PanicsOnlyOutliveServer'
  BY <1>1 DEF PoolInv, Holds, PanicsOnlyOutliveServer, poolVars
<1>4. PhaseInv'
  BY <1>1 DEF PhaseInv, InFlight, poolVars, sweepVars, handlerVars
<1>5. QED BY <1>2, <1>3, <1>4

\* The server returns nil only behind its last handler.
LEMMA HttpKeeps ==
    ASSUME ProcessInv, HttpDrained \/ HttpDeadline
    PROVE  ProcessInv'
<1> USE DEF ProcessInv
<1>1. /\ UNCHANGED <<poolVars, sweepVars, handlerVars, restarts, processed>>
      /\ mainPc = "http" /\ mainPc' = "pool"
      /\ httpResult' \in {"nil", "deadline"}
      /\ httpResult' = "nil" => \A r \in Requests : ~InFlight(r)
  BY DEF HttpDrained, HttpDeadline, HttpReturns, Advance
<1>2. httpResult = "none"
  BY <1>1 DEF PhaseInv
<1>3. TypeOK'
  BY <1>1 DEF TypeOK, Pool!TypeOK, Phase, poolVars, sweepVars, handlerVars
<1>4. PoolInv'
  BY <1>1 DEF PoolInv, Holds, poolVars
<1>5. PanicsOnlyOutliveServer'
  BY <1>1, <1>2 DEF PanicsOnlyOutliveServer, poolVars
<1>6. PhaseInv'
  BY <1>1, <1>2 DEF PhaseInv, InFlight, poolVars, sweepVars, handlerVars
<1>7. QED BY <1>3, <1>4, <1>5, <1>6

\* The drain touches neither the jobs nor the workers.
LEMMA DrainKeeps ==
    ASSUME ProcessInv, DrainBegins \/ DrainWaits \/ DrainExpires \/ DrainReturns
    PROVE  ProcessInv'
<1> USE DEF ProcessInv
<1>1. /\ UNCHANGED <<sweepVars, handlerVars, httpResult, restarts, processed>>
      /\ UNCHANGED <<jobs, workerPc, workerJob, fate, accepted>>
  BY DEF DrainBegins, DrainWaits, DrainExpires, DrainReturns, PoolStep, mainVars,
         Pool!ShutdownBegin, Pool!WaitGroupDone, Pool!Expire, Pool!ShutdownNil,
         Pool!ShutdownDeadline, Pool!Return
<1>2. Pool!TypeOK'
  BY DEF DrainBegins, DrainWaits, DrainExpires, DrainReturns, PoolStep,
         Pool!ShutdownBegin, Pool!WaitGroupDone, Pool!Expire, Pool!ShutdownNil,
         Pool!ShutdownDeadline, Pool!Return, TypeOK, Pool!TypeOK
<1>3. mainPc' = mainPc \/ (mainPc = "pool" /\ mainPc' = "reconciler")
  BY DEF DrainBegins, DrainWaits, DrainExpires, DrainReturns, PoolStep, Advance, mainVars
<1>4. TypeOK'
  BY <1>1, <1>2, <1>3 DEF TypeOK, Phase, sweepVars, handlerVars
<1>5. PoolInv' /\ PhaseInv'
  <2>1. CASE DrainBegins
    <3>1. /\ mainPc = "pool" /\ mainPc' = mainPc /\ closed' = TRUE
          /\ shutdownPc'[Main] = "waiting" /\ waitDone' = waitDone
      BY <2>1 DEF DrainBegins, PoolStep, Pool!ShutdownBegin, mainVars, TypeOK, Pool!TypeOK
    <3>2. QED BY <1>1, <3>1 DEF PoolInv, Holds, PhaseInv, InFlight, sweepVars, handlerVars
  <2>2. CASE DrainWaits \/ DrainExpires
    <3>1. /\ mainPc' = mainPc /\ closed' = closed /\ shutdownPc' = shutdownPc
          /\ waitDone \subseteq waitDone'
          /\ Main \in waitDone' => Main \in waitDone \/ \A w \in Workers : workerPc[w] = "exited"
      BY <2>2 DEF DrainWaits, DrainExpires, PoolStep, Pool!WaitGroupDone, Pool!Expire, mainVars
    <3>2. QED BY <1>1, <3>1 DEF PoolInv, Holds, PhaseInv, InFlight, sweepVars, handlerVars
  <2>3. CASE DrainReturns
    <3>1. /\ mainPc = "pool" /\ mainPc' = "reconciler" /\ closed' = closed
          /\ waitDone' = waitDone
          /\ \/ shutdownPc'[Main] = "nil" /\ Main \in waitDone
             \/ shutdownPc'[Main] = "deadline"
      BY <2>3 DEF DrainReturns, Advance, Pool!ShutdownNil, Pool!ShutdownDeadline,
                  Pool!Return, TypeOK, Pool!TypeOK
    <3>2. QED BY <1>1, <3>1 DEF PoolInv, Holds, PhaseInv, InFlight, sweepVars, handlerVars
  <2>4. QED BY <2>1, <2>2, <2>3
<1>6. PanicsOnlyOutliveServer'
  BY <1>1 DEF PanicsOnlyOutliveServer
<1>7. QED BY <1>4, <1>5, <1>6

LEMMA StopKeeps ==
    ASSUME ProcessInv, StopBegins \/ StopReturns
    PROVE  ProcessInv'
<1> USE DEF ProcessInv
<1>1. /\ UNCHANGED <<poolVars, holder, handlerVars, httpResult, restarts, processed>>
      /\ mainPc = "reconciler"
      /\ \/ mainPc' = "reconciler" /\ stop' = "asked"
         \/ mainPc' = "rest" /\ stop' = "confirmed" /\ holder = NoOne
  BY DEF StopBegins, StopReturns, Advance, Sweep!Ask, Sweep!Confirm, mainVars, TypeOK
<1>2. TypeOK'
  BY <1>1 DEF TypeOK, Pool!TypeOK, Phase, poolVars, handlerVars
<1>3. PoolInv' /\ PanicsOnlyOutliveServer'
  BY <1>1 DEF PoolInv, Holds, PanicsOnlyOutliveServer, poolVars
<1>4. PhaseInv'
  BY <1>1 DEF PhaseInv, InFlight, poolVars, handlerVars
<1>5. QED BY <1>2, <1>3, <1>4

LEMMA DieKeeps ==
    ASSUME ProcessInv, Exit \/ Kill
    PROVE  ProcessInv'
<1> USE DEF ProcessInv
<1>1. /\ UNCHANGED <<poolVars, sweepVars, httpResult, restarts, processed>>
      /\ \/ mainPc = "rest" /\ mainPc' = "exited"
         \/ mainPc' = "killed" /\ restarts < MaxRestarts
      /\ request' = [r \in Requests |-> Nothing]
      /\ answer' = [r \in Requests |-> IF InFlight(r) THEN "broken" ELSE answer[r]]
      /\ handlerPc' = [r \in Requests |-> IF InFlight(r) THEN "answered" ELSE handlerPc[r]]
  BY DEF Exit, Kill, Die, Advance
<1>2. TypeOK'
  BY <1>1 DEF TypeOK, Pool!TypeOK, Phase, poolVars, sweepVars
<1>3. PoolInv' /\ PanicsOnlyOutliveServer'
  BY <1>1 DEF PoolInv, Holds, PanicsOnlyOutliveServer, poolVars
<1>4. PhaseInv'
  <2>1. \A r \in Requests : ~InFlight(r)'
    BY <1>1 DEF InFlight
  <2>2. QED BY <1>1, <2>1 DEF PhaseInv, poolVars, sweepVars
<1>5. QED BY <1>2, <1>3, <1>4

LEMMA RestartKeeps ==
    ASSUME ProcessInv, Restart
    PROVE  ProcessInv'
<1> USE DEF ProcessInv, Restart, Alive
<1>1. TypeOK'
  <2>1. jobs' \in Seq(Requests) /\ accepted' \in Seq(Requests)
    BY EmptySeq
  <2>2. Pool!TypeOK'
    BY <2>1 DEF Pool!TypeOK, Pool!Fate
  <2>3. restarts' \in 0..MaxRestarts
    <3>1. restarts \in 0..MaxRestarts /\ restarts < MaxRestarts /\ restarts' = restarts + 1
      BY DEF TypeOK, PhaseInv
    <3>2. QED BY <3>1, ProcessAssumption
  <2>4. QED BY <2>2, <2>3 DEF TypeOK, Phase, handlerVars
<1>2. PoolInv'
  BY DEF PoolInv, Holds
<1>3. PhaseInv' /\ PanicsOnlyOutliveServer'
  BY DEF PhaseInv, PanicsOnlyOutliveServer
<1>4. QED BY <1>1, <1>2, <1>3

LEMMA ProcessInvariant == Spec => []ProcessInv
<1>1. ProcessInv /\ [Next]_vars => ProcessInv'
  <2> SUFFICES ASSUME ProcessInv, [Next]_vars PROVE ProcessInv'
    OBVIOUS
  <2>1. ASSUME NEW r \in Requests, Arrive(r) \/ HandlerStep(r) PROVE ProcessInv'
    BY <2>1, HandlerKeeps, SubmitKeeps DEF HandlerStep
  <2>2. ASSUME NEW w \in Workers, WorkerMoves(w) \/ WorkerFinishes(w) PROVE ProcessInv'
    BY <2>2, ReceiveKeeps, ExecuteKeeps, ExitKeeps, FinishKeeps DEF WorkerMoves
  <2>3. CASE SweepBegins \/ SweepReturns
    BY <2>3, SweepKeeps
  <2>4. CASE Signal \/ MainStep \/ DrainWaits \/ DrainExpires
    BY <2>4, MainMovesKeeps, HttpKeeps, DrainKeeps, StopKeeps, DieKeeps DEF MainStep
  <2>5. CASE Kill \/ Restart
    BY <2>5, DieKeeps, RestartKeeps
  <2>6. CASE UNCHANGED vars
    <3> USE <2>6 DEF vars, poolVars, sweepVars, handlerVars, mainVars, ProcessInv
    <3>1. TypeOK'
      BY DEF TypeOK, Pool!TypeOK
    <3>2. PoolInv' /\ PanicsOnlyOutliveServer'
      BY DEF PoolInv, Holds, PanicsOnlyOutliveServer
    <3>3. PhaseInv'
      BY DEF PhaseInv, InFlight
    <3>4. QED BY <3>1, <3>2, <3>3
  <2>7. QED BY <2>1, <2>2, <2>3, <2>4, <2>5, <2>6 DEF Next
<1>2. QED BY InitProcess, <1>1, PTL DEF Spec

-----------------------------------------------------------------------------

\* The state of the process is well-typed, through every end and restart.
THEOREM TypeCorrect == Spec => []TypeOK
<1>1. ProcessInv => TypeOK BY DEF ProcessInv
<1>2. QED BY <1>1, ProcessInvariant, PTL

\* Only a handler that outlived the server meets the closed channel
\* (main.go:191-203).
THEOREM ServerKeepsHandlersOut == Spec => []PanicsOnlyOutliveServer
<1>1. ProcessInv => PanicsOnlyOutliveServer BY DEF ProcessInv
<1>2. QED BY <1>1, ProcessInvariant, PTL

\* A process that was drained in time owes no caller a job (main.go:194-205).
THEOREM NothingOwed == Spec => []DrainedMeansDone
<1>1. ProcessInv => DrainedMeansDone
  <2> SUFFICES ASSUME ProcessInv, mainPc \in {"reconciler", "rest", "exited"},
                      httpResult = "nil", shutdownPc[Main] # "deadline", NEW r \in Requests
               PROVE  ~InFlight(r) /\ fate[r] \notin {"queued", "received", "running"}
    BY DEF DrainedMeansDone
  <2>1. ~InFlight(r) /\ shutdownPc[Main] = "nil"
    BY DEF ProcessInv, PhaseInv
  <2>2. \A w \in Workers : workerPc[w] = "exited"
    BY <2>1 DEF ProcessInv, PoolInv
  <2>3. jobs = <<>> /\ Len(jobs) = 0
    BY <2>2, ProcessAssumption, EmptySeq DEF ProcessInv, PoolInv
  <2>4. fate[r] # "queued"
    BY <2>3 DEF ProcessInv, PoolInv
  <2>5. fate[r] \notin {"received", "running"}
    BY <2>2 DEF ProcessInv, PoolInv, Holds
  <2>6. QED BY <2>1, <2>4, <2>5
<1>2. QED BY <1>1, ProcessInvariant, PTL

\* No sweep is under way when the process ends by itself (main.go:207-226).
THEOREM NoSweepAtExit == Spec => []QuietExit
<1>1. ProcessInv => QuietExit BY DEF ProcessInv, PhaseInv, QuietExit
<1>2. QED BY <1>1, ProcessInvariant, PTL

-----------------------------------------------------------------------------
(* The process as a composition: the pool and the sweeper inside it. *)

\* Between two restarts the process does with the pool's state what WorkerPool
\* allows, and with the sweeper's what Sweeper allows; a restart puts both back
\* to their initial states.
ComponentSteps ==
    /\ [Pool!Next]_poolVars \/ Restart
    /\ [Sweep!Next]_<<holder, stop>> \/ Restart
    /\ Restart => Pool!Init' /\ Sweep!Init'

LEMMA PoolActions ==
    ASSUME Next PROVE [Pool!Next]_poolVars \/ Restart
<1> USE DEF Pool!Next
<1>1. ASSUME NEW r \in Requests, Arrive(r) \/ HandlerStep(r) PROVE [Pool!Next]_poolVars
  <2>1. Pool!Submit(r) \/ UNCHANGED poolVars
    BY <1>1 DEF Arrive, HandlerStep, Refuse, SubmitJob, SubmitPanics, AnswerAccepted, Pool!Submit
  <2>2. QED BY <2>1
<1>2. ASSUME NEW w \in Workers, WorkerMoves(w) \/ WorkerFinishes(w) PROVE [Pool!Next]_poolVars
  <2>1. Pool!WorkerStep(w)
    BY <1>2 DEF WorkerMoves, WorkerFinishes, Pool!WorkerStep
  <2>2. QED BY <2>1
<1>3. CASE SweepBegins \/ SweepReturns
  BY <1>3 DEF SweepBegins, SweepReturns, SweepEnds
<1>4. CASE DrainWaits \/ DrainExpires
  <2>1. \E c \in {Main} : Pool!Expire(c) \/ Pool!ShutdownStep(c)
    BY <1>4 DEF DrainWaits, DrainExpires, PoolStep, Pool!ShutdownStep
  <2>2. QED BY <2>1
<1>5. CASE Signal \/ Kill
  BY <1>5 DEF Signal, Kill, Die, MainMoves
<1>6. CASE MainStep
  <2>1. CASE CloseListener \/ HttpDrained \/ HttpDeadline \/ StopBegins \/ StopReturns \/ Exit
    BY <2>1 DEF CloseListener, MainMoves, HttpDrained, HttpDeadline, HttpReturns, StopBegins,
                StopReturns, Exit, Die
  <2>2. CASE DrainBegins \/ DrainReturns
    <3>1. \E c \in {Main} : Pool!ShutdownBegin(c) \/ Pool!ShutdownStep(c)
      BY <2>2 DEF DrainBegins, DrainReturns, PoolStep, Pool!ShutdownStep
    <3>2. QED BY <3>1
  <2>3. QED BY <1>6, <2>1, <2>2 DEF MainStep
<1>7. QED BY <1>1, <1>2, <1>3, <1>4, <1>5, <1>6 DEF Next

LEMMA SweeperActions ==
    ASSUME Next PROVE [Sweep!Next]_<<holder, stop>> \/ Restart
<1> USE DEF Sweep!Next, sweepVars
<1>1. ASSUME NEW r \in Requests, Arrive(r) \/ HandlerStep(r) PROVE UNCHANGED <<holder, stop>>
  BY <1>1 DEF Arrive, HandlerStep, Refuse, SubmitJob, SubmitPanics, AnswerAccepted
<1>2. ASSUME NEW w \in Workers, WorkerMoves(w) \/ WorkerFinishes(w)
      PROVE  UNCHANGED <<holder, stop>>
  BY <1>2 DEF WorkerMoves, WorkerFinishes
<1>3. CASE SweepBegins
  BY <1>3 DEF SweepBegins
<1>4. CASE SweepReturns
  BY <1>4 DEF SweepReturns, SweepEnds
<1>5. CASE DrainWaits \/ DrainExpires \/ Signal \/ Kill
  BY <1>5 DEF DrainWaits, DrainExpires, PoolStep, Signal, Kill, Die, MainMoves
<1>6. CASE MainStep
  BY <1>6 DEF MainStep, CloseListener, MainMoves, HttpDrained, HttpDeadline, HttpReturns,
              DrainBegins, DrainReturns, PoolStep, StopBegins, StopReturns, Exit, Die
<1>7. QED BY <1>1, <1>2, <1>3, <1>4, <1>5, <1>6 DEF Next

\* main, the handlers and the ticker use the pool and the reconciler as WorkerPool
\* and Sweeper say, whatever the phase, a kill and a restart included
\* (main.go:96-226): what is proved of those two holds of the process between two
\* restarts.
THEOREM ProcessRunsItsParts == Spec => Pool!Init /\ Sweep!Init /\ [][ComponentSteps]_vars
<1>1. Init => Pool!Init /\ Sweep!Init
  BY DEF Init
<1>2. Restart => Pool!Init' /\ Sweep!Init'
  BY DEF Restart, Pool!Init, Sweep!Init
<1>3. [Next]_vars => [ComponentSteps]_vars
  BY <1>2, PoolActions, SweeperActions DEF ComponentSteps
<1>4. QED BY <1>1, <1>3, PTL DEF Spec

-----------------------------------------------------------------------------
(* The body limit. *)

\* Below the largest int64 exactly the bodies above MaxPayloadSize are too large,
\* and one that is not is read to its end, whatever breaks behind it
\* (webhook/handler.go:61-69).
THEOREM LimitIsExact ==
    ASSUME MaxPayloadSize < MaxInt64, NEW body, body.size \in Nat
    PROVE  /\ TooLarge(body) <=> body.size > MaxPayloadSize
           /\ ~TooLarge(body) => BytesRead(body) = body.size
<1>1. /\ MaxPayloadSize \in Nat /\ MaxPayloadSize > 0
      /\ ReadLimit = MaxPayloadSize + 1
  BY WebhookAssumption DEF ReadLimit
<1>2. BytesRead(body) = IF body.size < MaxPayloadSize + 1 THEN body.size ELSE MaxPayloadSize + 1
  BY <1>1 DEF BytesRead
<1>3. QED BY <1>1, <1>2 DEF TooLarge

\* At the largest int64 the limit of the reader wraps around: nothing is read, no
\* body is too large, and every call with a body is refused (webhook/handler.go:61).
THEOREM LargestLimitRefuses ==
    ASSUME MaxPayloadSize = MaxInt64, NEW q, q.body.size \in Nat \ {0}
    PROVE  /\ ~TooLarge(q.body)
           /\ Verdict(q) \in {"unauthorized", "bad request"}
<1>1. /\ MaxPayloadSize \in Nat /\ ReadLimit <= 0
  BY WebhookAssumption DEF ReadLimit
<1>2. BytesRead(q.body) = 0
  BY <1>1 DEF BytesRead
<1>3. ~TooLarge(q.body) /\ ~Parses(q.body)
  BY <1>1, <1>2 DEF TooLarge, Parses
<1>4. QED BY <1>3 DEF Verdict

\* A handler that reads has a call in front of it.
ReadingInv == \A r \in Requests : handlerPc[r] = "reading" => request[r] \in Incoming

LEMMA ReadingInvariant == Spec => []ReadingInv
<1>1. Init => ReadingInv
  BY DEF Init, ReadingInv
<1>2. TypeOK /\ ReadingInv /\ [Next]_vars => ReadingInv'
  <2> SUFFICES ASSUME TypeOK, ReadingInv, [Next]_vars PROVE ReadingInv'
    OBVIOUS
  <2>0. /\ handlerPc \in [Requests -> {"away", "reading", "submitted", "answered"}]
        /\ request \in [Requests -> Incoming \cup {Nothing}]
    BY DEF TypeOK
  <2>1. ASSUME UNCHANGED handlerVars PROVE ReadingInv'
    BY <2>1 DEF handlerVars, ReadingInv
  <2>2. ASSUME NEW r \in Requests, Arrive(r) PROVE ReadingInv'
    BY <2>0, <2>2 DEF Arrive, ReadingInv
  <2>3. ASSUME NEW r \in Requests, HandlerStep(r) PROVE ReadingInv'
    <3>1. \/ HandlerMoves(r, "answered") \/ HandlerMoves(r, "submitted")
          \/ handlerPc' = [handlerPc EXCEPT ![r] = "answered"] /\ request' = request
      BY <2>3 DEF HandlerStep, Refuse, SubmitJob, SubmitPanics, AnswerAccepted
    <3>2. QED BY <2>0, <3>1 DEF HandlerMoves, ReadingInv
  <2>4. CASE Kill \/ Exit
    BY <2>0, <2>4 DEF Kill, Exit, Die, InFlight, ReadingInv
  <2>5. ASSUME NEW w \in Workers, WorkerMoves(w) \/ WorkerFinishes(w) PROVE ReadingInv'
    BY <2>1, <2>5 DEF WorkerMoves, WorkerFinishes
  <2>6. CASE SweepBegins \/ SweepReturns
    BY <2>1, <2>6 DEF SweepBegins, SweepReturns, SweepEnds
  <2>7. CASE DrainWaits \/ DrainExpires \/ Signal \/ Restart
    BY <2>1, <2>7 DEF DrainWaits, DrainExpires, PoolStep, Signal, MainMoves, Restart
  <2>8. CASE CloseListener \/ HttpDrained \/ HttpDeadline \/ DrainBegins \/ DrainReturns
             \/ StopBegins \/ StopReturns
    BY <2>1, <2>8 DEF CloseListener, MainMoves, HttpDrained, HttpDeadline, HttpReturns,
                      DrainBegins, DrainReturns, PoolStep, StopBegins, StopReturns
  <2>9. CASE UNCHANGED vars
    BY <2>1, <2>9 DEF vars
  <2>10. QED
    BY <2>2, <2>3, <2>4, <2>5, <2>6, <2>7, <2>8, <2>9 DEF Next, MainStep
<1>3. QED BY <1>1, <1>2, TypeCorrect, PTL DEF Spec

\* A call that may have a job: it knows the secret, and its body is within the
\* limit, whole and complete.
Admitted(q) ==
    /\ WebhookSecret # "" /\ q.secret = WebhookSecret
    /\ q.body.size <= MaxPayloadSize /\ BytesRead(q.body) = q.body.size
    /\ q.body.payload.type = "SCANNING_COMPLETED" /\ Extractable(q.body.payload)

LEMMA SubmittedIsAdmitted ==
    ASSUME NEW q \in Incoming, Verdict(q) = "submit"
    PROVE  Admitted(q)
<1>1. /\ validateSecret(q.secret, WebhookSecret)
      /\ ~TooLarge(q.body) /\ Parses(q.body)
      /\ q.body.payload.type = "SCANNING_COMPLETED" /\ Extractable(q.body.payload)
  BY DEF Verdict
<1>2. /\ WebhookSecret # "" /\ q.secret = WebhookSecret
      /\ BytesRead(q.body) = q.body.size
  BY <1>1 DEF validateSecret, Parses
<1>3. q.body.size <= MaxPayloadSize
  <2>1. q.body.size \in Nat /\ MaxPayloadSize \in Nat
    BY IncomingSized, WebhookAssumption
  <2>2. ~(q.body.size > MaxPayloadSize)
    BY <1>1, <1>2, Zenon DEF TooLarge
  <2>3. QED BY <2>1, <2>2
<1>4. QED BY <1>1, <1>2, <1>3 DEF Admitted

\* What waits in the queue or runs has been decided about.
QueueInv ==
    /\ \A k \in 1..Len(jobs) : fate[jobs[k]] # "new"
    /\ \A w \in Workers : Holds(w) => fate[workerJob[w]] # "new"

LEMMA QueueInvariant == Spec => []QueueInv
<1>1. Init => QueueInv
  <2> SUFFICES ASSUME Init PROVE QueueInv
    OBVIOUS
  <2>1. jobs = <<>>
    BY DEF Init, Pool!Init
  <2>2. Len(jobs) = 0
    BY <2>1, EmptySeq
  <2>3. \A w \in Workers : ~Holds(w)
    BY DEF Init, Pool!Init, Holds
  <2>4. QED BY <2>2, <2>3 DEF QueueInv
<1>2. ProcessInv /\ QueueInv /\ [Next]_vars => QueueInv'
  <2> SUFFICES ASSUME ProcessInv, QueueInv, [Next]_vars PROVE QueueInv'
    OBVIOUS
  <2>0. /\ jobs \in Seq(Requests) /\ Len(jobs) \in Nat
        /\ fate \in [Requests -> Pool!Fate]
        /\ workerPc \in [Workers -> {"receive", "received", "execute", "exited"}]
        /\ workerJob \in [Workers -> Requests \cup {NoJob}]
        /\ \A k \in 1..Len(jobs) : jobs[k] \in Requests
        /\ \A w \in Workers : Holds(w) => workerJob[w] \in Requests
    <3>1. jobs \in Seq(Requests) /\ fate \in [Requests -> Pool!Fate]
      BY DEF ProcessInv, TypeOK, Pool!TypeOK
    <3>2. /\ workerPc \in [Workers -> {"receive", "received", "execute", "exited"}]
          /\ workerJob \in [Workers -> Requests \cup {NoJob}]
          /\ \A w \in Workers : Holds(w) => workerJob[w] \in Requests
      BY DEF ProcessInv, PoolInv, TypeOK, Pool!TypeOK
    <3>3. QED BY <3>1, <3>2, LenProperties, ElementOfSeq
  <2>1. ASSUME jobs' = jobs, \A q \in Requests : fate[q] # "new" => fate'[q] # "new",
               \A w \in Workers : Holds(w)' => Holds(w) /\ workerJob'[w] = workerJob[w]
        PROVE  QueueInv'
    BY <2>0, <2>1 DEF QueueInv
  <2>2. ASSUME NEW r \in Requests, Arrive(r) \/ HandlerStep(r) PROVE QueueInv'
    <3>1. CASE UNCHANGED poolVars
      BY <2>1, <3>1 DEF poolVars, Holds
    <3>2. CASE Pool!SubmitDrop(r) \/ Pool!SubmitPanic(r)
      BY <2>0, <2>1, <3>2 DEF Pool!SubmitDrop, Pool!SubmitPanic, Holds
    <3>3. CASE Pool!SubmitAccept(r)
      <4>1. /\ Len(jobs') = Len(jobs) + 1 /\ jobs'[Len(jobs) + 1] = r
            /\ \A k \in 1..Len(jobs) : jobs'[k] = jobs[k]
        BY <2>0, <3>3, AppendProperties DEF Pool!SubmitAccept
      <4>2. \A q \in Requests : fate'[q] = IF q = r THEN "queued" ELSE fate[q]
        BY <2>0, <3>3 DEF Pool!SubmitAccept
      <4>3. ASSUME NEW k \in 1..Len(jobs') PROVE fate'[jobs'[k]] # "new"
        <5>1. CASE k = Len(jobs) + 1
          BY <4>1, <4>2, <5>1
        <5>2. CASE k \in 1..Len(jobs)
          BY <2>0, <4>1, <4>2, <5>2 DEF QueueInv
        <5>3. QED BY <2>0, <4>1, <5>1, <5>2
      <4>4. \A w \in Workers : Holds(w)' => fate'[workerJob'[w]] # "new"
        BY <2>0, <3>3, <4>2 DEF Pool!SubmitAccept, QueueInv, Holds
      <4>5. QED BY <4>3, <4>4 DEF QueueInv
    <3>4. QED
      BY <2>2, <3>1, <3>2, <3>3
         DEF Arrive, HandlerStep, Refuse, SubmitJob, SubmitPanics, AnswerAccepted
  <2>3. ASSUME NEW w \in Workers, Pool!Receive(w) PROVE QueueInv'
    <3>1. jobs # <<>> /\ jobs' = Tail(jobs)
      BY <2>3 DEF Pool!Receive
    <3>2. /\ Len(jobs') = Len(jobs) - 1
          /\ \A k \in 1..Len(jobs') : jobs'[k] = jobs[k + 1]
      BY <2>0, <3>1, HeadTailProperties
    <3>3. \A q \in Requests : fate[q] # "new" => fate'[q] # "new"
      BY <2>0, <2>3 DEF Pool!Receive
    <3>4. ASSUME NEW k \in 1..Len(jobs') PROVE fate'[jobs'[k]] # "new"
      <4>1. k + 1 \in 1..Len(jobs)
        BY <2>0, <3>2
      <4>2. QED BY <2>0, <3>2, <3>3, <4>1 DEF QueueInv
    <3>5. ASSUME NEW v \in Workers, Holds(v)'
          PROVE  fate'[workerJob'[v]] # "new"
      <4>1. Head(jobs) \in Requests
        BY <2>0, <3>1, HeadTailProperties
      <4>2. CASE v = w
        BY <2>0, <2>3, <4>1, <4>2 DEF Pool!Receive
      <4>3. CASE v # w
        BY <2>0, <2>3, <3>3, <3>5, <4>3 DEF Pool!Receive, QueueInv, Holds
      <4>4. QED BY <4>2, <4>3
    <3>6. QED BY <3>4, <3>5 DEF QueueInv
  <2>4. ASSUME NEW w \in Workers, Pool!Execute(w) \/ Pool!Exit(w) \/ WorkerFinishes(w)
        PROVE  QueueInv'
    <3>1. jobs' = jobs /\ \A q \in Requests : fate[q] # "new" => fate'[q] # "new"
      BY <2>0, <2>4 DEF Pool!Execute, Pool!Exit, WorkerFinishes, Pool!Finish
    <3>2. \A v \in Workers : Holds(v)' => Holds(v) /\ workerJob'[v] = workerJob[v]
      BY <2>0, <2>4 DEF Pool!Execute, Pool!Exit, WorkerFinishes, Pool!Finish, Holds
    <3>3. QED BY <2>1, <3>1, <3>2
  <2>5. CASE SweepBegins \/ SweepReturns
    BY <2>1, <2>5 DEF SweepBegins, SweepReturns, SweepEnds, poolVars, Holds
  <2>6. CASE DrainWaits \/ DrainExpires \/ DrainBegins \/ DrainReturns
    BY <2>1, <2>6 DEF DrainWaits, DrainExpires, DrainBegins, DrainReturns, PoolStep,
                      Pool!WaitGroupDone, Pool!Expire, Pool!ShutdownBegin, Pool!ShutdownNil,
                      Pool!ShutdownDeadline, Pool!Return, Holds
  <2>7. CASE Signal \/ Kill \/ CloseListener \/ HttpDrained \/ HttpDeadline
             \/ StopBegins \/ StopReturns \/ Exit
    BY <2>1, <2>7 DEF Signal, Kill, Die, MainMoves, CloseListener, HttpDrained, HttpDeadline,
                      HttpReturns, StopBegins, StopReturns, Exit, poolVars, Holds
  <2>8. CASE Restart
    <3>1. jobs' = <<>>
      BY <2>8 DEF Restart
    <3>2. Len(jobs') = 0
      BY <3>1, EmptySeq
    <3>3. \A w \in Workers : ~Holds(w)'
      BY <2>8 DEF Restart, Holds
    <3>4. QED BY <3>2, <3>3 DEF QueueInv
  <2>9. CASE UNCHANGED vars
    BY <2>1, <2>9 DEF vars, poolVars, Holds
  <2>10. QED
    BY <2>2, <2>3, <2>4, <2>5, <2>6, <2>7, <2>8, <2>9 DEF Next, MainStep, WorkerMoves
<1>3. QED BY <1>1, <1>2, ProcessInvariant, PTL DEF Spec

\* The pool decides about a job only for a call that the handler admitted, in
\* whatever phase the process is and at whatever limit (webhook/handler.go:47-113).
JobsOfAdmittedCalls ==
    \A r \in Requests : fate[r] = "new" /\ fate'[r] # "new" => Admitted(request[r])

THEOREM OnlyAdmittedCallsGetJobs == Spec => [][JobsOfAdmittedCalls]_vars
<1>1. ProcessInv /\ ReadingInv /\ QueueInv /\ [Next]_vars => [JobsOfAdmittedCalls]_vars
  <2> SUFFICES ASSUME ProcessInv, ReadingInv, QueueInv, Next, NEW r \in Requests,
                      fate[r] = "new", fate'[r] # "new"
               PROVE  Admitted(request[r])
    BY DEF JobsOfAdmittedCalls
  <2>0. fate \in [Requests -> Pool!Fate]
    BY DEF ProcessInv, TypeOK, Pool!TypeOK
  <2>1. \E q \in Requests : SubmitJob(q) \/ SubmitPanics(q)
    <3>1. ASSUME NEW w \in Workers, WorkerFinishes(w) PROVE FALSE
      <4>1. workerJob[w] # r
        BY <3>1 DEF WorkerFinishes, Pool!Finish, QueueInv, Holds
      <4>2. fate'[r] = fate[r]
        BY <2>0, <3>1, <4>1 DEF WorkerFinishes, Pool!Finish
      <4>3. QED BY <4>2
    <3>2. ASSUME NEW w \in Workers, Pool!Receive(w) PROVE FALSE
      <4>1. jobs \in Seq(Requests) /\ jobs # <<>>
        BY <3>2 DEF Pool!Receive, ProcessInv, TypeOK, Pool!TypeOK
      <4>2. Head(jobs) = jobs[1] /\ 1 \in 1..Len(jobs)
        BY <4>1, EmptySeq, LenProperties
      <4>3. fate[Head(jobs)] # "new"
        BY <4>2 DEF QueueInv
      <4>4. fate'[r] = fate[r]
        BY <2>0, <3>2, <4>3 DEF Pool!Receive
      <4>5. QED BY <4>4
    <3>10. ASSUME NEW w \in Workers, Pool!Execute(w) PROVE FALSE
      <4>1. workerJob[w] # r
        BY <3>10 DEF Pool!Execute, QueueInv, Holds
      <4>2. fate'[r] = fate[r]
        BY <2>0, <3>10, <4>1 DEF Pool!Execute
      <4>3. QED BY <4>2
    <3>3. fate' # fate
      OBVIOUS
    <3>4. ~Restart
      BY DEF Restart
    <3>5. /\ ~SweepBegins /\ ~SweepReturns
          /\ ~Signal /\ ~Kill /\ ~CloseListener /\ ~HttpDrained /\ ~HttpDeadline
          /\ ~StopBegins /\ ~StopReturns /\ ~Exit
      BY <3>3 DEF SweepBegins, SweepReturns, SweepEnds, Signal, Kill, Die,
                  MainMoves, CloseListener, HttpDrained, HttpDeadline, HttpReturns,
                  StopBegins, StopReturns, Exit, poolVars
    <3>6. ~DrainWaits /\ ~DrainExpires /\ ~DrainBegins /\ ~DrainReturns
      BY <3>3 DEF DrainWaits, DrainExpires, DrainBegins, DrainReturns, PoolStep,
                  Pool!WaitGroupDone, Pool!Expire, Pool!ShutdownBegin, Pool!ShutdownNil,
                  Pool!ShutdownDeadline, Pool!Return
    <3>7. \A w \in Workers : ~Pool!Exit(w)
      BY <3>3 DEF Pool!Exit
    <3>8. \A q \in Requests : ~Arrive(q) /\ ~Refuse(q) /\ ~AnswerAccepted(q)
      BY <3>3 DEF Arrive, Refuse, AnswerAccepted, poolVars
    <3>9. QED
      BY <3>1, <3>2, <3>10, <3>4, <3>5, <3>6, <3>7, <3>8 DEF Next, HandlerStep, MainStep, WorkerMoves
  <2>3. PICK q \in Requests : SubmitJob(q) \/ SubmitPanics(q)
    BY <2>1
  <2>4. q = r /\ handlerPc[r] = "reading" /\ Verdict(request[r]) = "submit"
    BY <2>0, <2>3 DEF SubmitJob, SubmitPanics, HandlerMoves, Pool!SubmitAccept, Pool!SubmitDrop,
                      Pool!SubmitPanic
  <2>5. QED BY <2>4, SubmittedIsAdmitted DEF ReadingInv
<1>2. QED BY <1>1, ProcessInvariant, ReadingInvariant, QueueInvariant, PTL DEF Spec
=============================================================================
