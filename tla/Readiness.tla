------------------------------ MODULE Readiness ------------------------------
(***************************************************************************)
(* GET /ready (internal/handler/health): probes that ask one dependency    *)
(* after the other under a deadline they share, while dependencies go up   *)
(* and down, callers hang up and the process is told to shut down.  Time   *)
(* is counted in seconds of waiting per probe.                             *)
(***************************************************************************)
EXTENDS Naturals, Sequences

CONSTANTS
    Probes,          \* the requests
    Checkers,        \* h.checkers, in their order
    Critical,        \* those whose Critical() is true
    Budget,          \* the deadline of a probe, 5s
    ClientTimeout,   \* the timeout of a checker's client, 3s
    Conditions       \* what may be found at a dependency: [ok, takes]

ASSUME ReadinessAssumption ==
    /\ Checkers \in Seq(STRING)
    /\ \A i, j \in 1..Len(Checkers) : Checkers[i] = Checkers[j] => i = j
    /\ ClientTimeout \in Nat \ {0}
    /\ Budget \in Nat
    /\ ClientTimeout <= Budget
    /\ Conditions \subseteq [ok : BOOLEAN, takes : Nat]
    /\ Conditions # {}

VARIABLES
    shutdownFlag,   \* h.shutdownFlag
    condition,      \* of each dependency: the status it answers, and after how long
    pc,             \* of each probe: "away", "checking", "answered"
    next,           \* the position of the checker it runs next
    elapsed,        \* how much of its budget is gone
    gone,           \* the probes whose caller has hung up
    failed,         \* the critical dependencies that it found down
    answer,         \* "none", "ready", "unavailable", "shutting_down"
    seen            \* history: the conditions it met, in the order of its checks

probeVars == <<pc, next, elapsed, gone, failed, answer, seen>>
vars == <<shutdownFlag, condition, probeVars>>

Dependencies == {Checkers[i] : i \in 1..Len(Checkers)}

Init ==
    /\ shutdownFlag = FALSE
    /\ condition \in [Dependencies -> Conditions]
    /\ pc = [p \in Probes |-> "away"]
    /\ next = [p \in Probes |-> 1]
    /\ elapsed = [p \in Probes |-> 0]
    /\ gone = {}
    /\ failed = [p \in Probes |-> {}]
    /\ answer = [p \in Probes |-> "none"]
    /\ seen = [p \in Probes |-> <<>>]

-----------------------------------------------------------------------------
(* HandleReady *)

\* The flag is looked at once.
ShuttingDown(p) ==
    /\ pc[p] = "away"
    /\ shutdownFlag
    /\ pc' = [pc EXCEPT ![p] = "answered"]
    /\ answer' = [answer EXCEPT ![p] = "shutting_down"]
    /\ UNCHANGED <<shutdownFlag, condition, next, elapsed, gone, failed, seen>>

Begin(p) ==
    /\ pc[p] = "away"
    /\ ~shutdownFlag
    /\ pc' = [pc EXCEPT ![p] = "checking"]
    /\ UNCHANGED <<shutdownFlag, condition, next, elapsed, gone, failed, answer, seen>>

\* What the probe's deadline and the client's leave for one request: nothing once
\* the caller has hung up, for its context is the parent of the deadline.
Left(p) == IF p \in gone THEN 0 ELSE Budget - elapsed[p]
Granted(p) == IF Left(p) < ClientTimeout THEN Left(p) ELSE ClientTimeout

\* An answer and a timer at the same instant: either may win.
AnswersInTime(p, d) == Granted(p) > 0 /\ condition[d].takes <= Granted(p)
TimesOut(p, d) == condition[d].takes >= Granted(p)

Dependency(p) == Checkers[next[p]]

\* The probe goes on to the next checker after some seconds.
Checked(p, after) ==
    /\ next' = [next EXCEPT ![p] = @ + 1]
    /\ elapsed' = [elapsed EXCEPT ![p] = @ + after]
    /\ seen' = [seen EXCEPT ![p] = Append(@, condition[Dependency(p)])]
    /\ UNCHANGED <<shutdownFlag, condition, pc, gone, answer>>

AtChecker(p) == pc[p] = "checking" /\ next[p] <= Len(Checkers)

\* A status below 500.
CheckOk(p) ==
    /\ AtChecker(p)
    /\ AnswersInTime(p, Dependency(p))
    /\ condition[Dependency(p)].ok
    /\ Checked(p, condition[Dependency(p)].takes)
    /\ UNCHANGED failed

Fails(p) ==
    failed' = [failed EXCEPT ![p] =
        IF Dependency(p) \in Critical THEN @ \cup {Dependency(p)} ELSE @]

\* A status of 500 and above, or no connection.
CheckBad(p) ==
    /\ AtChecker(p)
    /\ AnswersInTime(p, Dependency(p))
    /\ ~condition[Dependency(p)].ok
    /\ Checked(p, condition[Dependency(p)].takes)
    /\ Fails(p)

\* Fault: the error of a deadline is no failure of the dependency.
TimeoutForgiven(p) ==
    /\ AtChecker(p)
    /\ TimesOut(p, Dependency(p))
    /\ Checked(p, Granted(p))
    /\ UNCHANGED failed

\* Fault: a timeout ends the loop, and what was not reached is named as well.
TimeoutEndsLoop(p) ==
    /\ AtChecker(p)
    /\ TimesOut(p, Dependency(p))
    /\ next' = [next EXCEPT ![p] = Len(Checkers) + 1]
    /\ elapsed' = [elapsed EXCEPT ![p] = @ + Granted(p)]
    /\ seen' = [seen EXCEPT ![p] = Append(@, condition[Dependency(p)])]
    /\ failed' = [failed EXCEPT ![p] =
          @ \cup (Critical \cap {Checkers[i] : i \in next[p]..Len(Checkers)})]
    /\ UNCHANGED <<shutdownFlag, condition, pc, gone, answer>>

\* Fault: a checker that timed out is run again.
TimeoutRetried(p) ==
    /\ AtChecker(p)
    /\ TimesOut(p, Dependency(p))
    /\ elapsed' = [elapsed EXCEPT ![p] = @ + Granted(p)]
    /\ UNCHANGED <<shutdownFlag, condition, pc, next, gone, failed, answer, seen>>

CheckTimesOut(p) ==
    /\ AtChecker(p)
    /\ TimesOut(p, Dependency(p))
    /\ Checked(p, Granted(p))
    /\ Fails(p)

Answer(p) ==
    /\ pc[p] = "checking"
    /\ next[p] > Len(Checkers)
    /\ pc' = [pc EXCEPT ![p] = "answered"]
    /\ answer' = [answer EXCEPT ![p] = IF failed[p] = {} THEN "ready" ELSE "unavailable"]
    /\ UNCHANGED <<shutdownFlag, condition, next, elapsed, gone, failed, seen>>

-----------------------------------------------------------------------------
(* Around it *)

SetShutdown ==
    /\ ~shutdownFlag
    /\ shutdownFlag' = TRUE
    /\ UNCHANGED <<condition, probeVars>>

DependencyChanges(d) ==
    /\ \E c \in Conditions \ {condition[d]} : condition' = [condition EXCEPT ![d] = c]
    /\ UNCHANGED <<shutdownFlag, probeVars>>

HangUp(p) ==
    /\ pc[p] = "checking"
    /\ p \notin gone
    /\ gone' = gone \cup {p}
    /\ UNCHANGED <<shutdownFlag, condition, pc, next, elapsed, failed, answer, seen>>

ProbeStep(p) == CheckOk(p) \/ CheckBad(p) \/ CheckTimesOut(p) \/ Answer(p)

Next ==
    \/ \E p \in Probes : ShuttingDown(p) \/ Begin(p) \/ ProbeStep(p) \/ HangUp(p)
    \/ \E d \in Dependencies : DependencyChanges(d)
    \/ SetShutdown

Spec == Init /\ [][Next]_vars

\* A handler is scheduled, and each of its requests is answered or times out.
FairSpec == Spec /\ \A p \in Probes : WF_vars(ProbeStep(p))

-----------------------------------------------------------------------------

\* The type of the state.
TypeOK ==
    /\ shutdownFlag \in BOOLEAN
    /\ condition \in [Dependencies -> Conditions]
    /\ pc \in [Probes -> {"away", "checking", "answered"}]
    /\ next \in [Probes -> 1..(Len(Checkers) + 1)]
    /\ elapsed \in [Probes -> 0..Budget]
    /\ gone \subseteq Probes
    /\ failed \in [Probes -> SUBSET Critical]
    /\ answer \in [Probes -> {"none", "ready", "unavailable", "shutting_down"}]
    /\ seen \in [Probes -> Seq(Conditions)]

\* "ready" is said by a probe that met every critical dependency answering well in
\* the time of its client, each at its own moment (handler.go:66-83): whatever the
\* others cost of the budget, a check that did not take place is no success.
ReadyIsEarned ==
    \A p \in Probes : answer[p] = "ready" =>
        \A i \in 1..Len(Checkers) : Checkers[i] \in Critical =>
            i <= Len(seen[p]) /\ seen[p][i].ok /\ seen[p][i].takes <= ClientTimeout

\* A dependency that is named answered badly or too late when it was checked, or
\* the caller was gone, or the checks before it used up the budget: the price of
\* one deadline for all of them (handler.go:62-73).
BlameNeedsReason ==
    \A p \in Probes : \A i \in 1..Len(Checkers) : Checkers[i] \in failed[p] =>
        /\ i <= Len(seen[p])
        /\ \/ ~seen[p][i].ok
           \/ seen[p][i].takes >= ClientTimeout
           \/ p \in gone
           \/ i > 1 /\ elapsed[p] = Budget

\* A probe that was begun is answered, however many dependencies hang.
ProbeIsAnswered == \A p \in Probes : pc[p] = "checking" ~> pc[p] = "answered"
=============================================================================
