------------------------------- MODULE Startup -------------------------------
(***************************************************************************)
(* The first half of main.run: the configuration is loaded and checked,    *)
(* the parts are built from it, and three goroutines are started, of which *)
(* two bind a port and one makes a ticker, while run goes on to wait for a *)
(* signal.                                                                 *)
(***************************************************************************)
EXTENDS Configuration, Backoff

CONSTANTS
    Environments,   \* the environments the process may be started in
    NoConfig        \* before there is a configuration

\* A number that was parsed is a number, and a list is split at its commas.
ASSUME EnvironmentsTyped ==
    \A e \in Environments :
        /\ DOMAIN e = Key
        /\ \A key \in Number : e[key] \in Int \cup {Unset, NotANumber}
        /\ e["HARBOR_PROJECTS"] \in Seq(STRING) \cup {Unset}

VARIABLES
    env,         \* what os.Getenv sees
    cfg,         \* *config.Config
    pc,          \* the step of run
    threshold,   \* the evaluator's
    pending,     \* goroutines started that have not reached their loop
    listening,   \* servers that have bound their port
    silent       \* servers whose ListenAndServe has failed and was logged

vars == <<env, cfg, pc, threshold, pending, listening, silent>>

Server == {"metrics", "main"}

Init ==
    /\ env \in Environments
    /\ cfg = NoConfig
    /\ pc = "load"
    /\ threshold = SeverityNone
    /\ pending = {} /\ listening = {} /\ silent = {}

-----------------------------------------------------------------------------
(* run *)

LoadOk ==
    /\ pc = "load"
    /\ Validate(Load(env))
    /\ pc' = "logger"
    /\ cfg' = Load(env)
    /\ UNCHANGED <<env, threshold, pending, listening, silent>>

LoadError ==
    /\ pc = "load"
    /\ ~Validate(Load(env))
    /\ pc' = "fatal"
    /\ UNCHANGED <<env, cfg, threshold, pending, listening, silent>>

\* What zapcore.Level.UnmarshalText knows.
ZapLevel == LogLevel \cup {"dpanic", "panic", "fatal"}

NewLogger ==
    /\ pc = "logger"
    /\ pc' = IF cfg["LOG_LEVEL"] \in ZapLevel THEN "threshold" ELSE "fatal"
    /\ UNCHANGED <<env, cfg, threshold, pending, listening, silent>>

NewEvaluator ==
    /\ pc = "threshold"
    /\ LET parsed == ParseSeverity(cfg["SEVERITY_THRESHOLD"])
       IN  /\ pc' = IF parsed.err THEN "fatal" ELSE "wire"
           /\ threshold' = parsed.sev
    /\ UNCHANGED <<env, cfg, pending, listening, silent>>

\* The parts are built and the goroutines started, the main server's last.
Spawn(from, goroutine, to) ==
    /\ pc = from
    /\ pc' = to
    /\ pending' = pending \cup {goroutine}
    /\ UNCHANGED <<env, cfg, threshold, listening, silent>>

StartMetricsServer == Spawn("wire", "metrics", "reconciler")
StartReconciler == Spawn("reconciler", "ticker", "server")
StartMainServer == Spawn("server", "main", "serving")

-----------------------------------------------------------------------------
(* The goroutines, in any order. *)

Arrives(goroutine) ==
    /\ goroutine \in pending
    /\ pending' = pending \ {goroutine}
    /\ UNCHANGED <<env, cfg, threshold>>

\* time.NewTicker panics on an interval that is not positive, and the process
\* with it.
NewTicker ==
    /\ Arrives("ticker")
    /\ pc' = IF cfg["RECONCILE_INTERVAL"] > 0 THEN pc ELSE "fatal"
    /\ UNCHANGED <<listening, silent>>

PortOf(s) == IF s = "main" THEN cfg["SERVER_PORT"] ELSE cfg["METRICS_PORT"]

Bound(s) == \E t \in listening : PortOf(t) = PortOf(s)

BindOk(s) ==
    /\ Arrives(s)
    /\ ~Bound(s)
    /\ listening' = listening \cup {s}
    /\ UNCHANGED <<pc, silent>>

\* ListenAndServe fails: the other server has the port, or another process, or the
\* port needs a right the process has not.  The error is logged; run does not learn
\* of it.
BindError(s) ==
    /\ Arrives(s)
    /\ silent' = silent \cup {s}
    /\ UNCHANGED <<pc, listening>>

-----------------------------------------------------------------------------

\* run waits for its signal, or has returned its error.
Settled ==
    /\ pc = "fatal" \/ (pc = "serving" /\ pending = {})
    /\ UNCHANGED vars

RunStep ==
    \/ LoadOk \/ LoadError \/ NewLogger \/ NewEvaluator
    \/ StartMetricsServer \/ StartReconciler \/ StartMainServer

Next ==
    \/ RunStep
    \/ NewTicker
    \/ \E s \in Server : BindOk(s) \/ BindError(s)
    \/ Settled

Spec == Init /\ [][Next]_vars

-----------------------------------------------------------------------------

\* The type of the state.
TypeOK ==
    /\ DOMAIN env = Key
    /\ cfg # NoConfig =>
          /\ DOMAIN cfg = Key
          /\ \A key \in Number : cfg[key] \in Int
          /\ \A i \in DOMAIN cfg["HARBOR_PROJECTS"] : cfg["HARBOR_PROJECTS"][i] # ""
          /\ cfg["HARBOR_PROJECTS"] # <<>>
    /\ pc \in {"load", "logger", "threshold", "wire", "reconciler", "server", "serving", "fatal"}
    /\ threshold \in Severity
    /\ pending \subseteq Server \cup {"ticker"}
    /\ listening \subseteq Server /\ silent \subseteq Server

\* What Load lets through never ends the process later: parseLevel, ParseSeverity
\* and NewTicker, each with a check of its own in another package, accept it.
OnlyLoadFails == pc = "fatal" => cfg = NoConfig

\* No delay of the client exceeds its maximum, and none of the signer exceeds the
\* configured one by more than a quarter, whatever base and maximum are and
\* however they relate (Validate does not ask that base be below the maximum).
DelaysAreBounded ==
    pc = "serving" =>
        LET base == cfg["RETRY_BASE_DELAY"]
            max == cfg["RETRY_MAX_DELAY"]
            client == NewClient(cfg["MAX_RETRIES"], base, max)
        IN  /\ \A attempt \in 1..(client.maxRetries - 1) :
                  ClientDelays(client, attempt) \subseteq 0..client.max
            /\ \A attempt \in 1..(cfg["MAX_RETRIES"] - 1) :
                  SignerDelays(base, max, attempt) \subseteq 0..((5 * max) \div 4)
=============================================================================
