# Verification of the e-cloud signer service

TLA+ models of the signer service, TLC runs of them on small instances, and
TLAPS proofs for every instance. Paths below are relative to the repository.

## The system

The service signs container images of a Harbor registry whose vulnerability
scan is below a severity threshold. A webhook from Harbor, or a periodic
reconciliation sweep, names an artifact; the service checks that it carries no
signature, fetches its scan report, evaluates the gate, obtains a Fulcio
certificate with its projected service-account token, signs, and records the
signature in Rekor.

```
 Harbor --POST--> webhook handler --Submit--> worker pool --Execute--+
                                                                     v
 ticker ---> reconciler (sweep) ----------------------> SigningService.ProcessArtifact
                |                                        |         |          |
                +--- ListArtifacts, HasSignature --+     |     Evaluator   Signer.Sign
                                                   v     v                  |  |  |
                                               Harbor client          Fulcio cosign Rekor
 main: wiring and shutdown (readiness -> HTTP server -> pool -> reconciler -> metrics)
```

| component | source | state | operations | hard behaviour | what makes it correct |
|---|---|---|---|---|---|
| severity gate | `internal/service/gate` | the threshold; counts and violations of one call | `Evaluate`, `ParseSeverity`, `String` | early return on a malformed word, boundary of the threshold | a pass means every finding is known and below the threshold; a fail explains itself |
| worker pool | `internal/pkg/workerpool` | closable buffered channel, `once`, `WaitGroup` | `New`, `Submit`, worker loop, `Shutdown` | submit vs. close, drain vs. deadline, several shutdowns | jobs run once and nearly in order, nil means drained, nothing leaks |
| signer | `internal/pkg/sigstore/signer.go` | attempt counts, the token it read, counters | `Sign`, two retry loops | lost and late answers, two loops in sequence, deadline | nothing logged uncertified; every entry has a success or a counted failure behind it; failures counted once |
| signing service | `internal/service/signing` | position of each invocation, gauge, counters | `ProcessArtifact` | concurrent invocations, registry changing between check, fetch and sign | only clean reports reach Rekor; signed artifacts are skipped; gauge exact |
| Fulcio / Rekor / cosign clients | `internal/pkg/sigstore/*_client.go`, `cosign_signer.go` | none | one request each, local signing | timeouts, partial answers | part of the signer's correctness |
| token parser | `internal/pkg/sigstore/jwt.go` | none | `extractExpFromJSON` | first `"exp"` of the text is taken | the claim it returns is the token's own |
| Harbor client | `internal/pkg/harbor` | none; a retry loop per request | `HasSignature`, `GetScanReport`, `ListArtifacts` | retries, several scanners, first pages, a registry that changes between the requests of one list | each call is one look at the registry or one error |
| reconciler | `internal/service/reconciliation` | mutex, stop and done channels | `Start`, `Stop`, `RunSweep` | overlapping sweeps, deadline, stop during a sweep | one sweep at a time; unsigned clean images get signed; stop returns |
| webhook handler | `internal/handler/webhook` | none | `HandleWebhook` | answer vs. what the pool did with the job, body limit | accepted means enqueued, or caught by a sweep |
| health | `internal/handler/health` | shutdown flag | `/health`, `/ready` | checks one after the other under one deadline, dependencies that change meanwhile | ready is earned by every critical dependency, blame has a reason |
| wiring | `cmd/main.go` | shutdown phase, goroutines started | `run` | order of the shutdown steps and their deadlines, kills, ports | every phase ends; drained means done; no sweep outlives it |
| configuration | `internal/config` | none | `Load`, `Validate` | malformed values fall back to defaults; checked again elsewhere | what it lets through starts, and bounds every delay |
| metrics, tracing, logging | `internal/pkg/observability`, `internal/pkg/logger` | counters | increments | two layers moving one counter | counters mean what the documents say |

The hazards, each at its line and with the properties that cover it, are listed
in `PROJECT.json`.

## Modules

| module | what it is |
|---|---|
| `Gate` | severities, labels, reports and decisions; `Evaluate` as one expression |
| `GateLoop` | `DefaultEvaluator.Evaluate` as the loop it is, one action per turn and per return |
| `JobLedger` | abstract: a submission is rejected for good, or accepted and run once |
| `WorkerPool` | the pool; refines `JobLedger` |
| `Signer` | `DefaultSigner.Sign`, any number of concurrent calls, the network and the clock |
| `SigningService` | `ProcessArtifact` over `Signer` and `Gate` (it EXTENDS both), and the registry around it |
| `Sweeper` | abstract: one sweep at a time, none of the ticker's once `Stop` is confirmed |
| `Reconciler` | the ticker goroutine, `RunSweep` by any number of callers, its deadline, `Stop`; refines `Sweeper` |
| `HarborReads` | abstract: a call is one look at a changing registry, or one error |
| `HarborClient` | the calls as requests with retry loops and first pages; refines `HarborReads` |
| `WebhookHandler` | what `HandleWebhook` decides about a request, as one expression |
| `SignerProcess` | handlers, `WorkerPool` and `Sweeper` (INSTANCEs) and `main`'s shutdown, with kills and restarts |
| `Readiness` | `/ready`: probes, checkers, their deadlines, the shutdown flag |
| `Backoff` | the delays of the client and of the signer |
| `Configuration` | `Load` and `Validate` |
| `Startup` | `main` up to the signal, over `Configuration` and `Backoff` |
| `*_proofs` | the theorems about the module they are named after |
| `MC*` | constants for TLC |

Definitions whose comment begins with *Fault* are deliberate errors. No
specification uses them; each shows that some property would notice the error.

### Gate and GateLoop

A severity string is a record of a word and its casing: `strings.ToLower`
forgets the casing, `String` writes the title case, and `"other"` is every word
that is not a level. A report is `NilReport` or a sequence of findings.
The violations of `Evaluate` are in the report's order: the n-th is at the position
(`Nth`) that has n violating ones up to it. `GateLoop` has the loop index, the map and the slice under construction as its
state; `ReturnNil`, `ReturnMalformed`, `CountOne`, `ReturnFail`, `ReturnPass`
are the five exits and turns of `evaluator.go:24-84`. `SigningService` uses
`Gate!Evaluate`, which the run `gate_loop` and the theorem `LoopIsReference` show
to be what the loop returns.

### WorkerPool and JobLedger

`jobs` is the channel's buffer and `closed` the effect of `close`. `Submit` is a
`select` with a default: it accepts, drops on a full buffer, or panics once the
channel is closed (a send on a closed channel is chosen before the default).
A worker receives, calls `Execute`, and exits when the channel is closed *and* empty.
The receive and the call are two actions (`Receive`, `Execute`), so a worker may be
preempted between them and a faster one pass it: jobs are received in order and
executed nearly so, and `BoundedOvertaking` says how nearly.
Every call of `Shutdown` has its own waiting goroutine, `waitDone` channel and
deadline; when both are ready, its `select` may take either, so a deadline error
may be returned for a pool that is drained. `accepted` is history.
A worker's receive from a channel is one action whether or not a sender waits:
senders never wait here.

`JobLedger` has no queue and no workers. Refinement mapping: `queued` and `received` are
accepted, `dropped` and `panicked` are rejected, `open` is `~closed`, and the
callers that got nil are the ones told that the pool is drained.

### Signer

One action per outcome of each call that `Sign` makes. A request to Rekor is
two actions, `RekorSend` and the answer, because Rekor may record it at any
time after it was sent (`RekorRecords`), also when the caller has timed out, is
on its next attempt, or has returned; `sent` and `rekorLog` hold attempts, so a
retry that creates a second entry is visible. `attempt` counts failed attempts
of the loop the call is in. `ContextDone` happens only to calls with a deadline (the
sweep's: workers pass `context.Background()`). A token that expires between two
attempts is sent all the same, and Fulcio's refusal is one more `FulcioAttemptFails`.
That an answer of 200 or 201 means that Rekor has the entry is an assumption about Rekor
(the guard of `RekorOk`). Abstracted: contents of tokens,
certificates, signatures and annotations, the length of a backoff. Whether a
token is accepted is a free choice.

### SigningService

`pc` is the step of `ProcessArtifact` an invocation is about to take. `Begin`
increments the gauge, `Finish` is any return with its deferred decrement. The
signature check and the report fetch are one answer or one error each: the
Harbor client's own retries end in one or the other, and on a done context in
the error. `scan` is the set of reports Harbor holds for an artifact, one per
scanner; `GetScanReport` returns the first of a Go map, hence any. `ExternalSign`
and `Rescan` change the registry at any time. Nothing in the code writes to it:
`cosign_signer.go` signs locally and the signature goes to Rekor.
`gateFailures` is shared with `Signer`, since both layers increment it.

### Reconciler

`pc` is where each caller of `RunSweep` is: in `run`'s select, at `TryLock`, at a
project, at an artifact, or in `ProcessArtifact`. The range over the projects is
`project`, the range over one listing is `todo`. Each call out is one action per
answer: `ListArtifacts` or `ListError`; `FoundSigned`, `CheckFailed` or `Offer`
for `HasSignature`; `ProcessNil` or `ProcessError`. The check of the context
before a project or an artifact is part of the action behind it, so the
deadline may still pass during the call, which then answers or fails. A listing
does not change during a sweep, because one sweep reads it once. `ProcessNil`
leaves the registry alone, as `SigningService` shows it does, and
others sign at any time (`ExternalSign`). `handled`, `signedBefore` and `result`
are history. `ProcessArtifact` is one step here; its inside is
`SigningService`'s. Histograms and the counts that are only logged are left out.
`Sweeper` keeps the holder of the mutex and how far `Stop` is (`StopStatus`), which
is what the process sees: it may not go on before the ticker goroutine is done.

### HarborClient and HarborReads

`request` is the endpoint of the retry loop in progress and `attempt` its counter;
the four loops of `client.go` differ in the endpoint and in what they make of a
200. An attempt ends as `Retry` or `Exhausted` (a network error, a timeout, a body
that breaks off, a 5xx), as `Refused` (a 4xx, a body that is no JSON, a report map
without a report), or with the action of its endpoint. A 404 is a `Refused` of
something that is gone, so a repository deleted between the listings fails the whole
list. Behind a context that is done no request leaves, but the loop goes on
until its select takes the other branch: a backoff whose timer is ready too
may elapse. `Pages(S)` is the first page of a listing, whichever one Harbor returns.
`RegistryChanges` between any two steps: artifacts are rescanned and signed,
repositories deleted and created.

`HarborReads` has no requests. A report or a signature is what the registry holds at the moment of the
answer. A list is no single look; `steady` holds the artifacts that have been
scanned ever since the call began and `ever` those that were at some time, and a
list lies between the two, unless a listing was longer than a page (`whole`).
Only one call is in progress, since calls share nothing. `SigningService` and
`Reconciler` use just this: one answer or one error.

### WebhookHandler and SignerProcess

A request is the secret, and a body of some size that may break off and encodes
a payload. `Verdict` is the handler down to `Submit`, in its order. `ReadLimit`
wraps as `MaxPayloadSize+1` does; a body that is cut by the limit is no JSON.

`SignerProcess` takes the pool's actions from `WorkerPool` and the reconciler
from `Sweeper`. A handler is `reading`, then refused or `submitted`, then answered; a
panic of `Submit` is answered by `gin.Recovery`. `mainPc` is the phase of
`main.go:181-226`: `Signal` (with `SetShutdown`), `CloseListener`, the server's
`Shutdown` by drain or deadline, the pool's, `Stop`, the rest. Handlers go on in all of
them: nothing cancels a handler that outlives the server, and there is no read
timeout. `Kill` may come at any time and `Restart` begins with an empty queue and new
goroutines, while `processed` (what the registry and Rekor know of an artifact)
stays. All requests are about artifacts of one repository. A listing of it (`FirstPages`)
is any set of them up to `PageSize`: other artifacts, an unsuccessful scan or an error keep
any of them out, and the code asks for one page only. A sweep (`SweepReturns`) leaves out
any of its page, since it goes on behind an artifact whose check or signing failed, and may
time out.

### Readiness

Time is counted per probe in seconds of waiting: `elapsed` of the 5 s that all
checkers share, and 3 s for each client. A dependency's `condition` is its status and how long it takes;
`takes` 9 hangs. At the very instant of a deadline either side wins. `HangUp`
ends the context of the request, which is the parent of the deadline.

### Configuration, Backoff and Startup

An environment maps each variable to `Unset`, `NotANumber` or its parsed value.
`Load` substitutes defaults (also for what does not parse, and for a list that is blank once
trimmed: `Trimmed` keeps the n-th named project at place n), and `Validate` is a conjunction. `Startup` is `run`
with the second opinions behind it: `parseLevel`, `ParseSeverity`, `NewTicker`,
`NewClient`. The three goroutines arrive in any order; a port is bound by the first
server that asks for it, and any server may fail to bind, for whatever reason
(`BindError`): that is logged, and `run` goes on. `Backoff` gives the sets of delays that jitter allows.

## Runs

| run | instance | distinct states | shows |
|---|---|---|---|
| `gate_loop` | every threshold, 0..3 findings of 7 labels | 8,240 | the loop returns the reference decision |
| `worker_pool` | 4 jobs, 2 workers, capacity 2, 2 shutdowns | 281,968 | safety, refinement of the ledger, accepted jobs finish, Shutdown returns, no leak |
| `signer` | 2 calls, one with a deadline, 2 attempts | 12,235 | safety of Sign, the log against the counters, and that it returns |
| `signing_service` | webhook and sweep on one artifact, 2 attempts, 2 scanners | 1,314,064 | safety of ProcessArtifact |
| `reconciler` | a tick and a direct call, 2 projects, 2 artifacts | 279,840 | safety of the sweeps, refinement of `Sweeper`, sweeps end, Stop returns |
| `harbor_client` | 2 repositories and a third that may appear, 2 artifacts, pages of 2, 2 retries, 3 changes | 66,468 | refinement of `HarborReads`, retries of transient errors only, calls return |
| `signer_process` | 2 webhooks of 6 kinds, 1 worker, capacity 1, one restart | 96,452 | shutdown order, drain, end of the process |
| `readiness` | 1 probe, 3 dependencies of 4 conditions, 1 not critical | 73,792 | what ready and a blame mean, a probe is answered |
| `startup` | every environment at most two variables away from a good one | 29,007 | what `Load` lets through, delays |
| `duplicates`, `accepted_enqueued`, `missed_by_sweeps` | two webhooks, the process, the process with a page of 1 | | where code and documents disagree |

Why the bounds are enough for the interesting cases. Gate: three findings give a
malformed one before, between and after violations, and the same level twice.
Pool: more jobs than the channel and the workers hold together overflow it while
others queue behind each other; two shutdowns share one `close`. Signer: two
attempts are one retry, enough for a lost answer, a late entry of the first
attempt after the second, and a first attempt of Rekor's behind a second of Fulcio's; two
calls share only the counters. A maximum of zero is left to the theorems. Service: two invocations for one artifact are what a duplicate webhook
or a sweep meeting a webhook is, each with a retry during which the other overtakes it. Reconciler: an artifact behind a
failing one in its project, and an (empty) project behind another; a tick and a
direct call are what overlap needs, and a tick that waits behind the direct call
while `Stop` is called is what `Stop` may meet; `MaxTicks` bounds the ticks.
Harbor client: two repositories are two listings with changes in between, the third
makes the list of repositories longer than a page; two retries have a first and a last attempt;
`MaxChanges` allows a change before, between and after the listings. Process: one worker
and a channel of one hold both jobs or, with the worker behind, drop one; `MaxRestarts = 1` lets
one process be stopped or killed and its successor run on for ever, which is when sweeps are
to catch what was missed; signals and kills are bounded with it. `PageSize = 1` against two
artifacts stands for 100 against more than 100. Readiness: probes share
only the flag and the dependencies, which change freely, so that one is enough; three checkers of up to 3 s
exceed the budget of 5 s. Startup: each check involves one variable or
two; the two delays are a pair, which two deviations cover.
Deadlock checking is on in every run.

Fairness. Pool: weak fairness of each worker's step and of each Shutdown
goroutine, i.e. goroutines are scheduled and `Execute` returns; `Execute` is
`ProcessArtifact`, all of whose waits are bounded. No fairness of
`Submit`, of a deadline or of a Shutdown's beginning. Signer: weak
fairness of each call's own steps; both HTTP clients have a 30 s timeout, Harbor's requests have
one of 5 or 30 s, a backoff is a timer. No fairness of Rekor's recording, of the
registry or of the clock.
Reconciler: weak fairness of the goroutines' steps, since every call of a sweep has
a timeout, and strong fairness of the select's stop branch, since Go chooses among
ready branches at random; no fairness of a tick, of the deadline or of `Stop`.
Harbor client: weak fairness of the attempts (each has a timeout) and of the backoff
(a timer); none of changes, deadlines or calls. Process: weak fairness of `main`'s steps, of
the drain's timer and of the end of a sweep (`SweepReturns`, whichever artifacts it leaves out), and strong fairness of `Stop`'s return for the
reason above, as the ticker may begin another sweep before it sees the closed channel; none of
handlers, which wait for their callers, of jobs, signals, kills or restarts.
`SweepsCatchMissed` grants in its own formula that sweeps keep dealing with all that their
listings name, and still fails. Readiness: weak
fairness of each probe, whose checks time out.

## What disagrees

Each is a run that TLC ends with a counterexample.

* `duplicates`: the only guard is the registry, where no code puts the signature
  (`signing-pipeline.md:58` says it is pushed); a second webhook signs again, against
  `index.md:16`.
* `accepted_enqueued`: the handler answers 200 accepted for a job that the full pool
  dropped, against `webhook.md:49`.
* `missed_by_sweeps`: a kill breaks the call of a webhook, and no sweep ever finds its
  artifact, because each lists the first page of the repository only
  (`client.go:231`, `client.go:289`), against `index.md:15` and `overview.md:57`.

Met while modelling and not made a run, mostly since the model's action is all there is
to see:

* Counters. A failed signing moves `gate_failures_total{signing_error}` twice
  (`metrics.go:249`, `service.go:174`; `monitoring.md:32` has it once).
  `fulcio_errors_total` moves on every failed attempt, while `metrics.go:28` says after
  all retries. `reconciliation_signed_total` also counts artifacts that the gate refused
  or that were signed after all (`reconciler.go:197`, against `metrics.go:40`).
* Retries. `MAX_RETRIES=0` is valid: the Harbor client makes 3 attempts of it, the signer
  none, so that nothing is ever signed. `RETRY_BASE_DELAY` may exceed `RETRY_MAX_DELAY`.
  The signer's delay exceeds the maximum by up to a quarter, against its name and
  `configuration.md:31`.
* Sweeps. One passes over an artifact whose check failed, while the comment at `reconciler.go:164` says "as if
  unsigned"; the comment at `reconciler.go:128` says the sweep notices `Stop`, and
  it does not. A repository deleted between
  the listings fails the whole list. A webhook names a repository as
  `library/nginx`, a sweep strips the project (`client.go:270-274`).
* Shutdown. 5 s and 30 s of the server and the pool alone exceed the pod's grace period of 30 s
  (`values.yaml:92`), and `Stop` waits for a sweep of up to `RECONCILE_TIMEOUT` plus the Signer's last
  step. The listener closes right after `SetShutdown`, so the balancer hardly sees
  the 503 that is meant for it. A server that cannot bind its port (both may be given the same, or another process
  has it) is only logged.
* Requests. `MAX_PAYLOAD_SIZE` of the largest int64 makes the limit negative and every webhook a 400. The
  comment at `health/handler.go:62` gives each dependency 5 s; they share them.
* A malformed number in the environment silently becomes the default.

## Proofs

Assumptions: those named in the modules (finite sets of workers and calls, at
least one worker, a capacity of at least 1 as `config.go` validates, reports that
are not nil, checkers with different names, and a client's timeout of at least 1 within the
probe's deadline; bodies have a size, and `EnvironmentsTyped`: a variable is unset or has
a value of its kind). All leaves are checked; nothing is assumed about sizes.

* `GateLoop_proofs`: the invariant says what the map and the slice hold after
  `i - 1` turns: no malformed word among them, each count the number of findings of its
  level, and the slice the details of the violations in their order, which the ranks of the
  violating positions give without recursion. `LoopIsReference` follows at the
  returns, and from it `PassIsClean` and `FailureIsExplained`. `EveryFindingIsCounted` adds up the
  five counts of a decision; `ThresholdOrdersGates` compares thresholds.
* `WorkerPool_proofs`: `NilMeansDrained` is not inductive. It needs that an exited
  worker implies a closed, empty channel, that a closed `waitDone` implies that all have
  exited, and that a running job has its worker (and a queued one its place in the buffer).
  `OvertakingIsBounded` needs that the buffer is the end of the list of accepted jobs, in its
  order (`OrderInv`): what waits behind an executed job is in a worker's hands, one
  in each, and one worker has moved on.
  `Refinement` adds that running jobs are at most as many as the workers: the
  workers that execute are mapped onto them.
* `SigningService_proofs`, on `Sign` alone: the invariant relates the position of a call to what it holds
  (a certificate from `cosign` on, a sent attempt only from `rekor` on, no
  late entry without one) and bounds the attempts. `FailuresAreCounted` needs the
  finite set of failed calls to grow by exactly the one that fails. `NoEarlyGiveUp` needs the
  same of the failed uploads, and that a call reaches Rekor's loop with no failed attempt
  (`RetryInv`). `EntriesAreAccountedFor`: an entry is of a failed upload, or of the last attempt
  of a call that succeeded or waits. `DuplicatesNeedRetries`
  needs that a call has sent its attempts up to the current one and no later: so a second
  entry of one call is the late entry of an attempt that Sign took for failed.
* `SigningService_proofs`, on the service: extends the signer's invariant: `Sign` was entered only
  behind a clean report, an invocation begun on a signed artifact passes the check only
  through its error, and the gauge is the size of the set of active invocations. An
  invocation that ends adds itself to the set of its outcome and to no other
  (`GateFailuresCounted`), and one that issued has the success of its `Sign` behind it,
  hence an entry in Rekor (`IssuedIsLogged`). The same sets give
  `FailedSigningsCountedTwice`: the counter of failed signings is the failures inside
  `Sign` plus the invocations that ended with its error.
* `Reconciler_proofs`: `OneSweep` is inductive by itself, and with it
  `StoppedIsStopped`. `SignedNotProcessed` needs that what is in `ProcessArtifact`
  was unsigned when the sweep began. `CompletedSweepMissesNothing` needs
  `Progress`: all earlier projects are dealt with, and of the current listing every
  artifact is dealt with or still to come. A step of one caller leaves the
  others' progress alone (`ElsewhereUnchanged`), so each action is looked at for
  the caller that takes it. `Refinement` follows from `OneSweep` and `StoppedIsStopped`.
* `HarborClient_proofs`: the invariant ties the loop to its call (`AsksForCall`), `steady` and
  `ever` to the registry (`KnowsRegistry`), and the list so far to both (`ListProgress`: of
  what was scanned all the while each artifact is found, or its repository is the one asked for or
  still to come, unless a page cut it off). `Refinement` follows per action, since a change of the
  registry is the same action on both levels. `OnlyTransientRetried` needs that a loop in
  progress has met only transient errors, as many as its counter says (`AnswersKept`).
* `Readiness_proofs`: a probe has run exactly the checkers before its next one, and one that
  it ran is blamed or was found well in time; so "ready" needs all of them well. A request
  is granted less than the client's timeout only if the caller is gone or the budget ends
  with it (`GrantedBounds`), which is why blame has a reason.
* `SignerProcess_proofs`: the phase of the process says how far the shutdown is. The jobs
  channel is closed only after the server's `Shutdown` returned; it returned nil only
  without a handler in flight, so a handler meets the closed channel only if the server gave
  up. `NothingOwed` takes the part of the pool's invariant it needs through every restart;
  that part is proved anew here, as the prover cannot discharge the assumption of an
  instantiated module. `ProcessRunsItsParts` is the composition: every step is one of
  `WorkerPool` and one of `Sweeper`, or leaves their state alone, or is a restart, which
  puts both back to their initial states. `OnlyAdmittedCallsGetJobs` needs that a handler that
  reads has a call, and that what is in the channel or at a worker was decided about
  before (`QueueInv`), or a worker could be the first to touch a job.
  `LimitIsExact` and `LargestLimitRefuses` are about `ReadLimit` on both sides of its wrap-around.
* `Startup_proofs`: the invariant says that behind `Load` the configuration is the validated one of the
  environment, that the evaluator's level is the one of its label, and that a server's goroutine
  exists only once it was spawned and is in one place: to come, listening or silent. What `Validate` accepts is bounded key by key
  (`ValidatedIsSound`); `NoDelayTooLong` follows from the capped exponential and the range of the
  jitter, for every base, maximum and number of retries.

Only model-checked: liveness and fairness, which are outside the prover's reach
(`AcceptedJobsFinish`, `ShutdownReturns`, `NoGoroutineLeak`, `SignReturns`, `SweepEnds`, `StopReturns`,
`CallReturns`, `SignalEndsProcess`, `ProbeIsAnswered`), and what the three violated
runs find. Every invariant of a passing run, `RetriesOnlyTransient` and the three refinements
are proved.

Only proved: the type invariants of all modules but `Startup`, and `FailureExplained`,
`OneWorkerPerJob`, `StoppedIsStopped`, `GateFailuresCounted`, and the theorems above whose
properties no run lists. Each holds for every instance, and mostly is a part of an
inductive invariant, so the runs spend their time on other questions.

## Not modelled

The token parser (`jwt.go`): it scans one text without any state, and whether a token is
accepted is a free choice in `Signer`, which covers each of its verdicts. Encodings, HTTP and
cryptography; tracing, logging and the metrics server (input and output without state of
their own); histograms. Annotations, tags and names are data no step looks at.

## Plan

Done, in this order: `Gate`, `GateLoop`, `WorkerPool` with `JobLedger`, `Signer`,
`SigningService`, `Reconciler` with `Sweeper`, `WebhookHandler`, `SignerProcess`,
`HarborClient` with `HarborReads`, `Readiness`, `Configuration`, `Backoff`, `Startup`,
and the proofs named above. Left: a reference for the token parser over bounded texts, and
`ProcessArtifact` over `HarborReads` in place of its single answers.
