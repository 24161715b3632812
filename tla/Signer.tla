------------------------------- MODULE Signer -------------------------------
(***************************************************************************)
(* DefaultSigner.Sign (internal/pkg/sigstore/signer.go): any number of     *)
(* concurrent calls, each reading the token once, asking Fulcio for a      *)
(* certificate with retries, signing, and recording the signature in Rekor *)
(* with retries.  The network is not reliable: an attempt may fail whether *)
(* or not the request arrived, and Rekor may record a request after the    *)
(* caller has given up on it.                                              *)
(***************************************************************************)
EXTENDS Naturals, FiniteSets

CONSTANTS
    Calls,         \* the calls of Sign
    Cancellable,   \* those whose context has a deadline (the sweep's)
    MaxAttempts    \* retryConfig.MaxAttempts, cfg.MaxRetries in production

ASSUME SignerAssumption ==
    /\ IsFiniteSet(Calls)
    /\ Cancellable \subseteq Calls
    /\ MaxAttempts \in Nat

Attempt == 1..MaxAttempts
GateReason == {"scan_fetch_error", "vulnerability_exceeded", "signing_error"}

VARIABLES
    signPc,        \* where each call is
    attempt,       \* failed attempts of the retry loop the call is in
    signErr,       \* which step made a failed call fail
    ctxDone,       \* the calls whose context is done
    certified,     \* the calls that obtained a certificate
    sent,          \* <<c, n>>: attempt n of call c reached Rekor
    rekorLog,      \* those of them that Rekor has recorded
    fulcioErrors,  \* fulcio_errors_total
    rekorErrors,   \* rekor_errors_total
    gateFailures   \* gate_failures_total by reason

counters == <<fulcioErrors, rekorErrors, gateFailures>>
signVars == <<signPc, attempt, signErr, ctxDone, certified, sent, rekorLog,
              fulcioErrors, rekorErrors, gateFailures>>

SignInit ==
    /\ signPc = [c \in Calls |-> "idle"]
    /\ attempt = [c \in Calls |-> 0]
    /\ signErr = [c \in Calls |-> "none"]
    /\ ctxDone = {}
    /\ certified = {}
    /\ sent = {}
    /\ rekorLog = {}
    /\ fulcioErrors = 0
    /\ rekorErrors = 0
    /\ gateFailures = [r \in GateReason |-> 0]

-----------------------------------------------------------------------------

Goto(c, label) == signPc' = [signPc EXCEPT ![c] = label]

\* Sign returns an error; step names the call that failed.
Fail(c, step) ==
    /\ Goto(c, "failed")
    /\ signErr' = [signErr EXCEPT ![c] = step]

\* metrics.IncrementSigningFailures, a gate failure with reason signing_error.
IncrementSigningFailures ==
    gateFailures' = [gateFailures EXCEPT !["signing_error"] = @ + 1]

\* Sign is entered.
SignCall(c) ==
    /\ signPc[c] = "idle"
    /\ Goto(c, "token")
    /\ UNCHANGED <<attempt, signErr, ctxDone, certified, sent, rekorLog, counters>>

(* Step 1: ReadToken and ValidateToken. *)

\* The file cannot be read, or the token is malformed or past its expiry: no
\* retry, no metric.
TokenRejected(c) ==
    /\ signPc[c] = "token"
    /\ Fail(c, "token")
    /\ UNCHANGED <<attempt, ctxDone, certified, sent, rekorLog, counters>>

TokenAccepted(c) ==
    /\ signPc[c] = "token"
    /\ Goto(c, "fulcio")
    /\ UNCHANGED <<attempt, signErr, ctxDone, certified, sent, rekorLog, counters>>

(* Step 2: requestCertificateWithRetry, always with the token of step 1. *)

\* Fault: Rekor's loop starts with the count of Fulcio's.
FulcioOkKeepsCount(c) ==
    /\ signPc[c] = "fulcio"
    /\ attempt[c] < MaxAttempts
    /\ c \notin ctxDone
    /\ Goto(c, "cosign")
    /\ certified' = certified \cup {c}
    /\ UNCHANGED <<attempt, signErr, ctxDone, sent, rekorLog, counters>>

\* GetCertificate succeeds.
FulcioOk(c) ==
    /\ signPc[c] = "fulcio"
    /\ attempt[c] < MaxAttempts
    /\ c \notin ctxDone
    /\ Goto(c, "cosign")
    /\ attempt' = [attempt EXCEPT ![c] = 0]
    /\ certified' = certified \cup {c}
    /\ UNCHANGED <<signErr, ctxDone, sent, rekorLog, counters>>

\* GetCertificate fails; the loop goes on to its backoff or to its end.
FulcioAttemptFails(c) ==
    /\ signPc[c] = "fulcio"
    /\ attempt[c] < MaxAttempts
    /\ attempt' = [attempt EXCEPT ![c] = @ + 1]
    /\ Goto(c, IF attempt[c] + 1 < MaxAttempts THEN "fulcioBackoff" ELSE "fulcio")
    /\ fulcioErrors' = fulcioErrors + 1
    /\ UNCHANGED <<signErr, ctxDone, certified, sent, rekorLog, rekorErrors, gateFailures>>

\* Fault: the loop falls out with a nil error.
FulcioExhaustedSilently(c) ==
    /\ signPc[c] = "fulcio"
    /\ attempt[c] >= MaxAttempts
    /\ Goto(c, "cosign")
    /\ attempt' = [attempt EXCEPT ![c] = 0]
    /\ UNCHANGED <<signErr, ctxDone, certified, sent, rekorLog, counters>>

\* The loop is over without a certificate (at once when MaxAttempts is 0).
FulcioExhausted(c) ==
    /\ signPc[c] = "fulcio"
    /\ attempt[c] >= MaxAttempts
    /\ Fail(c, "fulcio")
    /\ IncrementSigningFailures
    /\ UNCHANGED <<attempt, ctxDone, certified, sent, rekorLog, fulcioErrors, rekorErrors>>

(* Step 3: SignImage, local. *)

CosignOk(c) ==
    /\ signPc[c] = "cosign"
    /\ Goto(c, "rekor")
    /\ UNCHANGED <<attempt, signErr, ctxDone, certified, sent, rekorLog, counters>>

CosignFails(c) ==
    /\ signPc[c] = "cosign"
    /\ Fail(c, "cosign")
    /\ IncrementSigningFailures
    /\ UNCHANGED <<attempt, ctxDone, certified, sent, rekorLog, fulcioErrors, rekorErrors>>

(* Step 4: uploadToRekorWithRetry. *)

\* Upload: the POST of the next attempt leaves, and Upload waits for the answer.
RekorSend(c) ==
    /\ signPc[c] = "rekor"
    /\ attempt[c] < MaxAttempts
    /\ c \notin ctxDone
    /\ sent' = sent \cup {<<c, attempt[c] + 1>>}
    /\ Goto(c, "rekorAnswer")
    /\ UNCHANGED <<attempt, signErr, ctxDone, certified, rekorLog, counters>>

\* Rekor records a request that reached it, early or late.
RekorRecords(c, n) ==
    /\ <<c, n>> \in sent \ rekorLog
    /\ rekorLog' = rekorLog \cup {<<c, n>>}
    /\ UNCHANGED <<signPc, attempt, signErr, ctxDone, certified, sent, counters>>

\* Upload returns the entry that this attempt created.
RekorOk(c) ==
    /\ signPc[c] = "rekorAnswer"
    /\ <<c, attempt[c] + 1>> \in rekorLog
    /\ c \notin ctxDone
    /\ Goto(c, "ok")
    /\ UNCHANGED <<attempt, signErr, ctxDone, certified, sent, rekorLog, counters>>

\* Fault: an attempt that was sent and got no answer is not counted.
RekorTimeoutUncounted(c) ==
    /\ signPc[c] \in {"rekor", "rekorAnswer"}
    /\ attempt[c] < MaxAttempts
    /\ attempt' = [attempt EXCEPT ![c] = @ + 1]
    /\ Goto(c, IF attempt[c] + 1 < MaxAttempts THEN "rekorBackoff" ELSE "rekor")
    /\ rekorErrors' = IF signPc[c] = "rekor" THEN rekorErrors + 1 ELSE rekorErrors
    /\ UNCHANGED <<signErr, ctxDone, certified, sent, rekorLog, fulcioErrors, gateFailures>>

\* Upload fails before the request leaves, or while it waits: a timeout, a
\* status that is not 200 or 201, an answer that cannot be parsed.
RekorAttemptFails(c) ==
    /\ signPc[c] \in {"rekor", "rekorAnswer"}
    /\ attempt[c] < MaxAttempts
    /\ attempt' = [attempt EXCEPT ![c] = @ + 1]
    /\ Goto(c, IF attempt[c] + 1 < MaxAttempts THEN "rekorBackoff" ELSE "rekor")
    /\ rekorErrors' = rekorErrors + 1
    /\ UNCHANGED <<signErr, ctxDone, certified, sent, rekorLog, fulcioErrors, gateFailures>>

RekorExhausted(c) ==
    /\ signPc[c] = "rekor"
    /\ attempt[c] >= MaxAttempts
    /\ Fail(c, "rekor")
    /\ IncrementSigningFailures
    /\ UNCHANGED <<attempt, ctxDone, certified, sent, rekorLog, fulcioErrors, rekorErrors>>

(* The select between two attempts. *)

BackoffOf == [fulcioBackoff |-> "fulcio", rekorBackoff |-> "rekor"]

\* Fault: the select polls, with the timer case left out.
BackoffPolls(c) ==
    /\ signPc[c] \in DOMAIN BackoffOf
    /\ UNCHANGED signVars

\* case <-time.After(delay)
BackoffElapses(c) ==
    /\ signPc[c] \in DOMAIN BackoffOf
    /\ Goto(c, BackoffOf[signPc[c]])
    /\ UNCHANGED <<attempt, signErr, ctxDone, certified, sent, rekorLog, counters>>

\* Fault: this way out does not count the failure.
BackoffCancelledUncounted(c) ==
    /\ signPc[c] \in DOMAIN BackoffOf
    /\ c \in ctxDone
    /\ Fail(c, BackoffOf[signPc[c]])
    /\ UNCHANGED <<attempt, ctxDone, certified, sent, rekorLog, counters>>

\* case <-ctx.Done()
BackoffCancelled(c) ==
    /\ signPc[c] \in DOMAIN BackoffOf
    /\ c \in ctxDone
    /\ Fail(c, BackoffOf[signPc[c]])
    /\ IncrementSigningFailures
    /\ UNCHANGED <<attempt, ctxDone, certified, sent, rekorLog, fulcioErrors, rekorErrors>>

(* Time. *)

\* The deadline of the call's context passes.
ContextDone(c) ==
    /\ c \in Cancellable \ ctxDone
    /\ ctxDone' = ctxDone \cup {c}
    /\ UNCHANGED <<signPc, attempt, signErr, certified, sent, rekorLog, counters>>

-----------------------------------------------------------------------------

\* What the goroutine of call c does once Sign is entered.
SignStep(c) ==
    \/ TokenRejected(c) \/ TokenAccepted(c)
    \/ FulcioOk(c) \/ FulcioAttemptFails(c) \/ FulcioExhausted(c)
    \/ CosignOk(c) \/ CosignFails(c)
    \/ RekorSend(c) \/ RekorOk(c) \/ RekorAttemptFails(c) \/ RekorExhausted(c)
    \/ BackoffElapses(c) \/ BackoffCancelled(c)

\* What happens around it.
Environment(c) ==
    \/ ContextDone(c)
    \/ \E n \in Attempt : RekorRecords(c, n)

Returned(c) == signPc[c] \in {"ok", "failed"}

Terminated == (\A c \in Calls : Returned(c)) /\ UNCHANGED signVars

SignNext ==
    \/ \E c \in Calls : SignCall(c) \/ SignStep(c) \/ Environment(c)
    \/ Terminated

SignSpec == SignInit /\ [][SignNext]_signVars

\* The goroutine of a call is scheduled.  Every wait in Sign is bounded: the
\* HTTP clients time out after 30s and a backoff is a timer.
SignFairness == \A c \in Calls : WF_signVars(SignStep(c))

FairSignSpec == SignSpec /\ SignFairness

-----------------------------------------------------------------------------

SignLabel == {"idle", "token", "fulcio", "fulcioBackoff", "cosign", "rekor",
              "rekorAnswer", "rekorBackoff", "ok", "failed"}

\* The type of the state.
SignTypeOK ==
    /\ signPc \in [Calls -> SignLabel]
    /\ attempt \in [Calls -> 0..MaxAttempts]
    /\ signErr \in [Calls -> {"none", "token", "fulcio", "cosign", "rekor"}]
    /\ ctxDone \subseteq Cancellable
    /\ certified \subseteq Calls
    /\ sent \subseteq Calls \X Attempt
    /\ rekorLog \subseteq sent
    /\ fulcioErrors \in Nat
    /\ rekorErrors \in Nat
    /\ gateFailures \in [GateReason -> Nat]

\* Nothing reaches the transparency log on behalf of a call that Fulcio has not
\* certified, also after the call is over.
LogNeedsCertificate ==
    \A c \in Calls, n \in Attempt : <<c, n>> \in rekorLog =>
        c \in certified /\ signErr[c] \notin {"token", "fulcio", "cosign"}

\* Of gate_failures_total{signing_error}, Sign itself counts, once each, exactly
\* the calls that failed after their token was accepted (signer.go:219-257); the
\* service counts again what Sign returns.
SigningFailuresCounted ==
    gateFailures["signing_error"] =
        Cardinality({c \in Calls : signPc[c] = "failed" /\ signErr[c] # "token"})

\* The attempts of an upload that have failed.
FailedUploads ==
    {p \in Calls \X Attempt :
        /\ \/ signPc[p[1]] \in {"rekor", "rekorAnswer", "rekorBackoff", "ok"}
           \/ signErr[p[1]] = "rekor"
        /\ p[2] <= attempt[p[1]]}

\* A retry loop gives up only when it has used every attempt or its context is
\* done, and Rekor's loop has attempts of its own: what Fulcio used up before a
\* late certificate is not taken from them, so that each failed upload, and
\* nothing else, is in rekor_errors_total (signer.go:267-322).
GivesUpOnlyAfterRetries ==
    /\ \A c \in Calls : signErr[c] \in {"fulcio", "rekor"} =>
          attempt[c] = MaxAttempts \/ c \in ctxDone
    /\ rekorErrors = Cardinality(FailedUploads)

\* The log never grows behind the metrics: an entry is that of a call that
\* succeeded or waits for its answer, or of an upload that Sign took for failed
\* and counted, however late Rekor records it (rekor_client.go:101,
\* signer.go:299-319).
LogIsAccountedFor ==
    Cardinality(rekorLog) <=
        rekorErrors + Cardinality({c \in Calls : signPc[c] \in {"rekorAnswer", "ok"}})

\* Sign returns.
SignReturns == \A c \in Calls : signPc[c] = "token" ~> Returned(c)
=============================================================================
