--------------------------- MODULE SigningService ---------------------------
(***************************************************************************)
(* SigningService.ProcessArtifact (internal/service/signing/service.go):   *)
(* concurrent invocations, from the webhook's workers and from the         *)
(* reconciler, each checking the registry for a signature, fetching        *)
(* Harbor's scan report, evaluating the gate and calling Signer's Sign.    *)
(* Around them the registry changes: images are signed by others, and      *)
(* rescanned.                                                              *)
(***************************************************************************)
EXTENDS Signer, Gate

CONSTANTS
    Artifacts,    \* the artifacts invocations are about
    ArtifactOf,   \* the artifact of each invocation
    SourceOf,     \* what triggered it
    Threshold,    \* the configured severity threshold
    ScanReports   \* the reports a scan may end with

Source == {"webhook", "reconciliation"}

ASSUME ServiceAssumption ==
    /\ ArtifactOf \in [Calls -> Artifacts]
    /\ SourceOf \in [Calls -> Source]
    /\ Cancellable = {c \in Calls : SourceOf[c] = "reconciliation"}
    /\ Threshold \in Severity
    /\ \A r \in ScanReports : ~r.nil
    /\ ScanReports # {}

VARIABLES
    pc,             \* where each invocation is
    outcome,        \* how a finished invocation ended
    checkFailed,    \* the invocations whose signature check failed
    report,         \* the report each invocation fetched
    signed,         \* registry: the artifacts that carry a cosign signature
    scan,           \* registry: the reports of each artifact, one per scanner
    signedAtBegin,  \* history: invocations begun on an already signed artifact
    inFlight,       \* the in-flight signing operations gauge
    skipped,        \* artifacts_skipped_already_signed_total
    issued          \* signatures_issued_total by source

serviceVars == <<pc, outcome, checkFailed, report, signedAtBegin, inFlight, skipped, issued>>
registry == <<signed, scan>>
vars == <<signVars, serviceVars, registry>>

\* All of Sign's state except the counter the service also increments.
signVarsButGate == <<signPc, attempt, signErr, ctxDone, certified, sent, rekorLog,
                     fulcioErrors, rekorErrors>>

Init ==
    /\ SignInit
    /\ pc = [c \in Calls |-> "idle"]
    /\ outcome = [c \in Calls |-> "none"]
    /\ checkFailed = {}
    /\ report = [c \in Calls |-> NilReport]
    /\ signed \in SUBSET Artifacts
    /\ scan \in [Artifacts -> SUBSET ScanReports]
    /\ signedAtBegin = {}
    /\ inFlight = 0
    /\ skipped = 0
    /\ issued = [s \in Source |-> 0]

-----------------------------------------------------------------------------

Step(c, from, to) ==
    /\ pc[c] = from
    /\ pc' = [pc EXCEPT ![c] = to]

\* ProcessArtifact returns; the deferred decrement of the gauge runs.
Finish(c, from, how) ==
    /\ Step(c, from, "done")
    /\ outcome' = [outcome EXCEPT ![c] = how]
    /\ inFlight' = inFlight - 1

IncrementGateFailures(reason) ==
    gateFailures' = [gateFailures EXCEPT ![reason] = @ + 1]

Begin(c) ==
    /\ Step(c, "idle", "check")
    /\ inFlight' = inFlight + 1
    /\ signedAtBegin' = IF ArtifactOf[c] \in signed
                        THEN signedAtBegin \cup {c}
                        ELSE signedAtBegin
    /\ UNCHANGED <<signVars, outcome, checkFailed, report, skipped, issued, registry>>

(* Step 1: checkExistingSignature.  No request succeeds on a done context. *)

\* Fault: this return misses the decrement of the gauge.
AlreadySignedLeaks(c) ==
    /\ c \notin ctxDone
    /\ ArtifactOf[c] \in signed
    /\ Step(c, "check", "done")
    /\ outcome' = [outcome EXCEPT ![c] = "skipped"]
    /\ skipped' = skipped + 1
    /\ UNCHANGED <<signVars, checkFailed, report, signedAtBegin, inFlight, issued, registry>>

AlreadySigned(c) ==
    /\ c \notin ctxDone
    /\ ArtifactOf[c] \in signed
    /\ Finish(c, "check", "skipped")
    /\ skipped' = skipped + 1
    /\ UNCHANGED <<signVars, checkFailed, report, signedAtBegin, issued, registry>>

\* Fault: the answer of the check is not looked at.
CheckIgnored(c) ==
    /\ c \notin ctxDone
    /\ Step(c, "check", "fetch")
    /\ UNCHANGED <<signVars, outcome, checkFailed, report, signedAtBegin, inFlight,
                   skipped, issued, registry>>

NotSigned(c) ==
    /\ c \notin ctxDone
    /\ ArtifactOf[c] \notin signed
    /\ Step(c, "check", "fetch")
    /\ UNCHANGED <<signVars, outcome, checkFailed, report, signedAtBegin, inFlight,
                   skipped, issued, registry>>

\* The error is logged and the artifact taken for unsigned.
CheckError(c) ==
    /\ Step(c, "check", "fetch")
    /\ checkFailed' = checkFailed \cup {c}
    /\ UNCHANGED <<signVars, outcome, report, signedAtBegin, inFlight, skipped,
                   issued, registry>>

(* Step 2: fetchScanReport.  Harbor answers with a report per scanner; the    *)
(* client takes whichever its map yields first, and fails when there is none. *)

FetchReport(c) ==
    /\ c \notin ctxDone
    /\ Step(c, "fetch", "evaluate")
    /\ \E r \in scan[ArtifactOf[c]] : report' = [report EXCEPT ![c] = r]
    /\ UNCHANGED <<signVars, outcome, checkFailed, signedAtBegin, inFlight, skipped,
                   issued, registry>>

FetchError(c) ==
    /\ Finish(c, "fetch", "fetchError")
    /\ IncrementGateFailures("scan_fetch_error")
    /\ UNCHANGED <<signVarsButGate, checkFailed, report, signedAtBegin, skipped,
                   issued, registry>>

(* Steps 3 and 4: the gate. *)

DecisionFor(c) == Evaluate(Threshold, report[c])

GateFail(c) ==
    /\ ~DecisionFor(c).pass
    /\ Finish(c, "evaluate", "gateFailed")
    /\ IncrementGateFailures(DecisionFor(c).reason)
    /\ UNCHANGED <<signVarsButGate, checkFailed, report, signedAtBegin, skipped,
                   issued, registry>>

\* Fault: the failed gate is logged, then signed all the same.
GateFallsThrough(c) ==
    /\ Step(c, "evaluate", "signing")
    /\ SignCall(c)
    /\ UNCHANGED <<outcome, checkFailed, report, signedAtBegin, inFlight, skipped,
                   issued, registry>>

\* Step 5: signArtifact enters Sign and waits for it.
GatePass(c) ==
    /\ DecisionFor(c).pass
    /\ Step(c, "evaluate", "signing")
    /\ SignCall(c)
    /\ UNCHANGED <<outcome, checkFailed, report, signedAtBegin, inFlight, skipped,
                   issued, registry>>

SignError(c) ==
    /\ signPc[c] = "failed"
    /\ Finish(c, "signing", "signError")
    /\ IncrementGateFailures("signing_error")
    /\ UNCHANGED <<signVarsButGate, checkFailed, report, signedAtBegin, skipped,
                   issued, registry>>

\* Fault: Sign's error is not looked at.
IssueAnyway(c) ==
    /\ Returned(c)
    /\ Finish(c, "signing", "issued")
    /\ issued' = [issued EXCEPT ![SourceOf[c]] = @ + 1]
    /\ UNCHANGED <<signVars, checkFailed, report, signedAtBegin, skipped, registry>>

\* Nothing is written to the registry: the signature exists in Rekor only.
Issue(c) ==
    /\ signPc[c] = "ok"
    /\ Finish(c, "signing", "issued")
    /\ issued' = [issued EXCEPT ![SourceOf[c]] = @ + 1]
    /\ UNCHANGED <<signVars, checkFailed, report, signedAtBegin, skipped, registry>>

ProcessStep(c) ==
    \/ AlreadySigned(c) \/ NotSigned(c) \/ CheckError(c)
    \/ FetchReport(c) \/ FetchError(c)
    \/ GateFail(c) \/ GatePass(c)
    \/ SignError(c) \/ Issue(c)

Signing(c) == SignStep(c) /\ UNCHANGED <<serviceVars, registry>>
Around(c)  == Environment(c) /\ UNCHANGED <<serviceVars, registry>>

\* A pipeline outside this service pushes a cosign signature.
ExternalSign(a) ==
    /\ a \notin signed
    /\ signed' = signed \cup {a}
    /\ UNCHANGED <<signVars, serviceVars, scan>>

\* A new scan replaces the reports of an artifact.
Rescan(a) ==
    /\ \E rs \in SUBSET ScanReports \ {scan[a]} : scan' = [scan EXCEPT ![a] = rs]
    /\ UNCHANGED <<signVars, serviceVars, signed>>

AllDone == \A c \in Calls : pc[c] = "done"
ServiceTerminated == AllDone /\ UNCHANGED vars

Next ==
    \/ \E c \in Calls : Begin(c) \/ ProcessStep(c) \/ Signing(c) \/ Around(c)
    \/ \E a \in Artifacts : ExternalSign(a) \/ Rescan(a)
    \/ ServiceTerminated

Spec == Init /\ [][Next]_vars

-----------------------------------------------------------------------------

\* The type of the state.
TypeOK ==
    /\ SignTypeOK
    /\ pc \in [Calls -> {"idle", "check", "fetch", "evaluate", "signing", "done"}]
    /\ outcome \in [Calls -> {"none", "skipped", "fetchError", "gateFailed", "signError", "issued"}]
    /\ checkFailed \subseteq Calls
    /\ report \in [Calls -> ScanReports \cup {NilReport}]
    /\ signed \subseteq Artifacts
    /\ scan \in [Artifacts -> SUBSET ScanReports]
    /\ signedAtBegin \subseteq Calls
    /\ inFlight \in Nat
    /\ skipped \in Nat
    /\ issued \in [Source -> Nat]

\* Nothing is sent to the transparency log for an invocation whose own fetched
\* report is not clean, whatever Harbor's report is by then: no interleaving,
\* retry or late answer gets around the gate (service.go:147-161).
OnlyCleanReachesRekor ==
    \A c \in Calls, n \in Attempt :
        <<c, n>> \in sent => Clean(Threshold, report[c])

\* An artifact that carried a signature before the invocation began goes to
\* Rekor again only if the signature check itself failed (service.go:108-129).
ResignOnlyOnCheckError ==
    \A c \in signedAtBegin :
        (\E n \in Attempt : <<c, n>> \in sent) => c \in checkFailed

\* The gauge is the number of invocations under way, on every path out of
\* ProcessArtifact (service.go:104-106).
InFlightIsExact ==
    inFlight = Cardinality({c \in Calls : pc[c] \notin {"idle", "done"}})

\* A success that is counted is a success that is logged: per trigger, the
\* counter is the number of invocations whose entry Rekor holds and whose
\* outcome is issued (service.go:189-208).
IssuedIsLogged ==
    \A s \in Source :
        issued[s] = Cardinality({c \in Calls :
            /\ SourceOf[c] = s
            /\ outcome[c] = "issued"
            /\ \E n \in Attempt : <<c, n>> \in rekorLog})

\* The gate's own two reasons are counted once per invocation that ended there.
GateFailuresCounted ==
    /\ gateFailures["vulnerability_exceeded"] =
          Cardinality({c \in Calls : outcome[c] = "gateFailed"})
    /\ gateFailures["scan_fetch_error"] =
          Cardinality({c \in Calls : outcome[c] = "fetchError"})

\* index.md:16: invocations for the same artifact, one after the other and with
\* no failing check, produce one signature.
NoAdditionalSignature ==
    \A c, d \in Calls :
        (/\ c # d
         /\ ArtifactOf[c] = ArtifactOf[d]
         /\ checkFailed = {}
         /\ outcome[c] = "issued")
            => outcome[d] # "issued"
=============================================================================
