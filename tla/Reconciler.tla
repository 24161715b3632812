----------------------------- MODULE Reconciler -----------------------------
(***************************************************************************)
(* The reconciliation sweep (internal/service/reconciliation): the ticker  *)
(* goroutine and direct callers of RunSweep, one of which holds the mutex  *)
(* and walks the projects under a deadline, while images are signed by     *)
(* others and Stop may be called.                                          *)
(***************************************************************************)
EXTENDS Naturals, Sequences, FiniteSets

CONSTANTS
    Ticker,      \* the ticker goroutine
    Direct,      \* other calls of RunSweep
    NoOne,       \* who holds a free mutex
    Projects,    \* config.Projects
    Artifacts,
    Listing,     \* the artifacts of each project, as ListArtifacts orders them
    MaxTicks     \* bound: how often the ticker fires

Callers == {Ticker} \cup Direct

ASSUME ReconcilerAssumption ==
    /\ Ticker \notin Direct
    /\ NoOne \notin Callers
    /\ \A k \in DOMAIN Projects : Listing[Projects[k]] \in Seq(Artifacts)
    /\ Projects \in Seq(DOMAIN Listing)
    /\ MaxTicks \in Nat

VARIABLES
    pc,                     \* where each caller of RunSweep is
    running,                \* the holder of the mutex
    project,                \* the index of the project a sweep is at
    todo,                   \* the artifacts of that project still to come
    expired,                \* the sweeps whose deadline has passed
    result,                 \* how a caller's last sweep ended
    handled,                \* history: what a sweep did with which artifact, while it
                            \* runs and, when it completed, until the caller's next one
    signedBefore,           \* history, as long: the artifacts signed when it began
    signed,                 \* registry: the artifacts that carry a signature
    reconciliationSigned,   \* reconciliation_signed_total
    reconciliationErrors,   \* reconciliation_errors_total
    ticks,                  \* ticks so far
    tick,                   \* is a tick waiting in ticker.C?
    stopPc                  \* where the call of Stop is

sweepVars == <<pc, running, project, todo, expired, result, handled, signedBefore,
               reconciliationSigned, reconciliationErrors>>
tickerVars == <<ticks, tick, stopPc>>
vars == <<sweepVars, signed, tickerVars>>

InSweep == {"project", "artifact", "process"}
Result == {"none", "skipped", "timeout", "error", "completed"}
Outcome == {"signed", "checkFailed", "issued", "gateFailed", "alreadySigned", "failed"}
Processed == {"issued", "gateFailed", "alreadySigned", "failed"}

Init ==
    /\ pc = [c \in Callers |-> IF c = Ticker THEN "select" ELSE "idle"]
    /\ running = NoOne
    /\ project = [c \in Callers |-> 1]
    /\ todo = [c \in Callers |-> <<>>]
    /\ expired = {}
    /\ result = [c \in Callers |-> "none"]
    /\ handled = [c \in Callers |-> {}]
    /\ signedBefore = [c \in Callers |-> {}]
    /\ signed \in SUBSET Artifacts
    /\ reconciliationSigned = 0
    /\ reconciliationErrors = 0
    /\ ticks = 0
    /\ tick = FALSE
    /\ stopPc = "idle"

-----------------------------------------------------------------------------
(* RunSweep *)

\* RunSweep returns: the ticker goroutine goes back to its select.
Return(c, how) ==
    /\ pc' = [pc EXCEPT ![c] = IF c = Ticker THEN "select" ELSE "returned"]
    /\ result' = [result EXCEPT ![c] = how]

\* The same, through the deferred Unlock; the sweep's locals are gone.
Leave(c, how) ==
    /\ Return(c, how)
    /\ running' = NoOne
    /\ project' = [project EXCEPT ![c] = 1]
    /\ todo' = [todo EXCEPT ![c] = <<>>]
    /\ expired' = expired \ {c}
    /\ handled' = IF how = "completed" THEN handled ELSE [handled EXCEPT ![c] = {}]
    /\ signedBefore' = IF how = "completed" THEN signedBefore ELSE [signedBefore EXCEPT ![c] = {}]
    /\ UNCHANGED <<reconciliationSigned, signed, tickerVars>>

\* A direct call.
Call(c) ==
    /\ c # Ticker
    /\ pc[c] = "idle"
    /\ pc' = [pc EXCEPT ![c] = "lock"]
    /\ UNCHANGED <<running, project, todo, expired, result, handled, signedBefore,
                   reconciliationSigned, reconciliationErrors, signed, tickerVars>>

\* Fault: the Unlock is deferred before TryLock has succeeded.
SkipUnlocks(c) ==
    /\ pc[c] = "lock"
    /\ running # NoOne
    /\ Return(c, "skipped")
    /\ running' = NoOne
    /\ UNCHANGED <<project, todo, expired, handled, signedBefore,
                   reconciliationSigned, reconciliationErrors, signed, tickerVars>>

\* TryLock fails.
Skip(c) ==
    /\ pc[c] = "lock"
    /\ running # NoOne
    /\ Return(c, "skipped")
    /\ UNCHANGED <<running, project, todo, expired, handled, signedBefore,
                   reconciliationSigned, reconciliationErrors, signed, tickerVars>>

\* TryLock succeeds; the sweep's context starts.
Lock(c) ==
    /\ pc[c] = "lock"
    /\ running = NoOne
    /\ running' = c
    /\ pc' = [pc EXCEPT ![c] = "project"]
    /\ project' = [project EXCEPT ![c] = 1]
    /\ result' = [result EXCEPT ![c] = "none"]
    /\ handled' = [handled EXCEPT ![c] = {}]
    /\ signedBefore' = [signedBefore EXCEPT ![c] = signed]
    /\ UNCHANGED <<todo, expired, reconciliationSigned, reconciliationErrors, signed,
                   tickerVars>>

AtProject(c) == pc[c] = "project" /\ project[c] <= Len(Projects)

ListArtifacts(c) ==
    /\ AtProject(c)
    /\ c \notin expired
    /\ todo' = [todo EXCEPT ![c] = Listing[Projects[project[c]]]]
    /\ pc' = [pc EXCEPT ![c] = "artifact"]
    /\ UNCHANGED <<running, project, expired, result, handled, signedBefore,
                   reconciliationSigned, reconciliationErrors, signed, tickerVars>>

\* The whole sweep is aborted.
ListError(c) ==
    /\ AtProject(c)
    /\ c \notin expired
    /\ reconciliationErrors' = reconciliationErrors + 1
    /\ Leave(c, "error")

\* The loop over the projects goes on by n.
AdvanceBy(c, n) ==
    /\ pc[c] = "artifact"
    /\ todo[c] = <<>>
    /\ project' = [project EXCEPT ![c] = @ + n]
    /\ pc' = [pc EXCEPT ![c] = "project"]
    /\ UNCHANGED <<running, todo, expired, result, handled, signedBefore,
                   reconciliationSigned, reconciliationErrors, signed, tickerVars>>

\* Fault: the index is not advanced.
NextProjectStays(c) == AdvanceBy(c, 0)

NextProject(c) == AdvanceBy(c, 1)

AtArtifact(c) == pc[c] = "artifact" /\ todo[c] # <<>>

\* The sweep is done with the artifact at the head.
Handle(c, how) ==
    /\ handled' = [handled EXCEPT ![c] = @ \cup {<<Head(todo[c]), how>>}]
    /\ todo' = [todo EXCEPT ![c] = Tail(@)]
    /\ pc' = [pc EXCEPT ![c] = "artifact"]
    /\ UNCHANGED <<running, project, expired, result, signedBefore,
                   reconciliationErrors, signed, tickerVars>>

\* HasSignature says true.
FoundSigned(c) ==
    /\ AtArtifact(c)
    /\ c \notin expired
    /\ Head(todo[c]) \in signed
    /\ Handle(c, "signed")
    /\ UNCHANGED reconciliationSigned

\* Fault: break for continue.
CheckFailedBreaks(c) ==
    /\ AtArtifact(c)
    /\ c \notin expired
    /\ handled' = [handled EXCEPT ![c] = @ \cup {<<Head(todo[c]), "checkFailed">>}]
    /\ todo' = [todo EXCEPT ![c] = <<>>]
    /\ UNCHANGED <<pc, running, project, expired, result, signedBefore,
                   reconciliationSigned, reconciliationErrors, signed, tickerVars>>

\* HasSignature fails: the artifact is passed over.
CheckFailed(c) ==
    /\ AtArtifact(c)
    /\ c \notin expired
    /\ Handle(c, "checkFailed")
    /\ UNCHANGED reconciliationSigned

\* Fault: the answer of HasSignature is not looked at.
OfferAny(c) ==
    /\ AtArtifact(c)
    /\ c \notin expired
    /\ pc' = [pc EXCEPT ![c] = "process"]
    /\ UNCHANGED <<running, project, todo, expired, result, handled, signedBefore,
                   reconciliationSigned, reconciliationErrors, signed, tickerVars>>

\* HasSignature says false: ProcessArtifact is called.
Offer(c) ==
    /\ AtArtifact(c)
    /\ c \notin expired
    /\ Head(todo[c]) \notin signed
    /\ pc' = [pc EXCEPT ![c] = "process"]
    /\ UNCHANGED <<running, project, todo, expired, result, handled, signedBefore,
                   reconciliationSigned, reconciliationErrors, signed, tickerVars>>

\* ProcessArtifact returns nil: it issued a signature, the gate failed, or it
\* found the artifact signed after all.
ProcessNil(c) ==
    /\ pc[c] = "process"
    /\ \/ Handle(c, "issued")
       \/ Handle(c, "gateFailed")
       \/ Head(todo[c]) \in signed /\ Handle(c, "alreadySigned")
    /\ reconciliationSigned' = reconciliationSigned + 1

ProcessError(c) ==
    /\ pc[c] = "process"
    /\ Handle(c, "failed")
    /\ UNCHANGED reconciliationSigned

\* The deadline was seen, before a project or before an artifact.
TimedOut(c) ==
    /\ AtProject(c) \/ AtArtifact(c)
    /\ c \in expired
    /\ UNCHANGED reconciliationErrors
    /\ Leave(c, "timeout")

\* After the last project.
Finish(c) ==
    /\ pc[c] = "project"
    /\ project[c] > Len(Projects)
    /\ UNCHANGED reconciliationErrors
    /\ Leave(c, IF c \in expired THEN "timeout" ELSE "completed")

SweepStep(c) ==
    \/ Skip(c) \/ Lock(c)
    \/ ListArtifacts(c) \/ ListError(c) \/ NextProject(c)
    \/ FoundSigned(c) \/ CheckFailed(c) \/ Offer(c)
    \/ ProcessNil(c) \/ ProcessError(c)
    \/ TimedOut(c) \/ Finish(c)

\* The deadline of a sweep passes.
Expire(c) ==
    /\ pc[c] \in InSweep
    /\ c \notin expired
    /\ expired' = expired \cup {c}
    /\ UNCHANGED <<pc, running, project, todo, result, handled, signedBefore,
                   reconciliationSigned, reconciliationErrors, signed, tickerVars>>

-----------------------------------------------------------------------------
(* run and Stop *)

\* ticker.C holds one tick; further ones are lost.
Tick ==
    /\ ticks < MaxTicks
    /\ pc[Ticker] # "stopped"
    /\ ticks' = ticks + 1
    /\ tick' = TRUE
    /\ UNCHANGED <<sweepVars, signed, stopPc>>

\* case <-ticker.C.  Also taken, at random, when stopCh is closed as well.
TakeTick ==
    /\ pc[Ticker] = "select"
    /\ tick
    /\ tick' = FALSE
    /\ pc' = [pc EXCEPT ![Ticker] = "lock"]
    /\ UNCHANGED <<running, project, todo, expired, result, handled, signedBefore,
                   reconciliationSigned, reconciliationErrors, signed, ticks, stopPc>>

\* Fault: a break that leaves the select and not the loop.
TakeStopBreaks ==
    /\ pc[Ticker] = "select"
    /\ stopPc # "idle"
    /\ UNCHANGED vars

\* case <-stopCh; the deferred close of done.
TakeStop ==
    /\ pc[Ticker] = "select"
    /\ stopPc # "idle"
    /\ pc' = [pc EXCEPT ![Ticker] = "stopped"]
    /\ UNCHANGED <<running, project, todo, expired, result, handled, signedBefore,
                   reconciliationSigned, reconciliationErrors, signed, tickerVars>>

\* Stop closes stopCh and waits for done.
StopCall ==
    /\ stopPc = "idle"
    /\ stopPc' = "waiting"
    /\ UNCHANGED <<sweepVars, signed, ticks, tick>>

\* Fault: Stop does not wait.
StopReturnEarly ==
    /\ stopPc = "waiting"
    /\ stopPc' = "returned"
    /\ UNCHANGED <<sweepVars, signed, ticks, tick>>

StopReturn ==
    /\ stopPc = "waiting"
    /\ pc[Ticker] = "stopped"
    /\ stopPc' = "returned"
    /\ UNCHANGED <<sweepVars, signed, ticks, tick>>

\* Someone else signs an artifact.
ExternalSign(a) ==
    /\ a \notin signed
    /\ signed' = signed \cup {a}
    /\ UNCHANGED <<sweepVars, tickerVars>>

Terminated ==
    /\ stopPc = "returned"
    /\ \A c \in Direct : pc[c] = "returned"
    /\ UNCHANGED vars

RunStep == TakeTick \/ TakeStop \/ SweepStep(Ticker)

Next ==
    \/ \E c \in Callers : Call(c) \/ SweepStep(c) \/ Expire(c)
    \/ Tick \/ TakeTick \/ TakeStop \/ StopCall \/ StopReturn
    \/ \E a \in Artifacts : ExternalSign(a)
    \/ Terminated

Spec == Init /\ [][Next]_vars

\* Goroutines are scheduled; every call a sweep makes returns; select chooses at
\* random, so it does not prefer a tick for ever.  Nothing makes a tick, a
\* deadline, a direct call or Stop happen.
Fairness ==
    /\ WF_vars(RunStep)
    /\ SF_vars(TakeStop)
    /\ \A c \in Direct : WF_vars(SweepStep(c))
    /\ WF_vars(StopReturn)

FairSpec == Spec /\ Fairness

-----------------------------------------------------------------------------

\* The type of the state.
TypeOK ==
    /\ pc \in [Callers -> {"select", "idle", "lock", "returned", "stopped"} \cup InSweep]
    /\ running \in Callers \cup {NoOne}
    /\ project \in [Callers -> 1..Len(Projects) + 1]
    /\ todo \in [Callers -> Seq(Artifacts)]
    /\ expired \subseteq Callers
    /\ result \in [Callers -> Result]
    /\ handled \in [Callers -> SUBSET (Artifacts \X Outcome)]
    /\ signedBefore \in [Callers -> SUBSET Artifacts]
    /\ signed \subseteq Artifacts
    /\ reconciliationSigned \in Nat
    /\ reconciliationErrors \in Nat
    /\ ticks \in 0..MaxTicks
    /\ tick \in BOOLEAN
    /\ stopPc \in {"idle", "waiting", "returned"}

\* However calls and ticks meet, only the holder of the mutex is in a sweep, and
\* the mutex is held by no caller that is not (reconciler.go:110-114).
OneSweep == \A c \in Callers : pc[c] \in InSweep <=> running = c

\* A sweep that ends as completed has dealt with every artifact of every
\* project, also those behind one whose check or signing failed.
CompletedSweepMissesNothing ==
    \A c \in Callers : result[c] = "completed" =>
        \A k \in DOMAIN Projects : \A i \in DOMAIN Listing[Projects[k]] :
            \E how \in Outcome : <<Listing[Projects[k]][i], how>> \in handled[c]

\* docs/development/testing.md:41: an artifact signed before the sweep began is
\* not processed by it (reconciler.go:162-177).
SignedNotProcessed ==
    \A c \in Callers, a \in Artifacts, how \in Processed :
        <<a, how>> \in handled[c] => a \notin signedBefore[c]

\* When Stop has returned, the ticker goroutine is in no sweep and never will be
\* (reconciler.go:75-78).
StoppedIsStopped ==
    stopPc = "returned" => running # Ticker /\ pc[Ticker] = "stopped"

\* Every sweep ends, whichever way its calls go.
SweepEnds ==
    \A c \in Callers : pc[c] = "lock" ~> pc[c] \in {"select", "returned", "stopped"}

\* Stop returns, although nothing cancels the sweep it waits for and the select
\* may prefer a waiting tick.
StopReturns == stopPc = "waiting" ~> stopPc = "returned"

\* What the process sees of the reconciler: who sweeps, and how far Stop is.
StopStatus == CASE stopPc = "idle" -> "no"
                [] stopPc = "waiting" -> "asked"
                [] OTHER -> "confirmed"

Abstract == INSTANCE Sweeper WITH holder <- running, stop <- StopStatus

\* Every step of the reconciler is one that the sweeper allows: sweeps exclude
\* each other, and after Stop has returned (reconciler.go:75-78) the ticker
\* goroutine, tick waiting or not, starts none.
ImplementsSweeper == Abstract!Spec
=============================================================================
