---------------------------- MODULE Configuration ----------------------------
(***************************************************************************)
(* config.Load (internal/config): environment variables, their defaults,   *)
(* and Validate.  A variable is Unset (or empty, which is the same to the  *)
(* code), NotANumber where one is wanted, or has its parsed value.         *)
(* Durations are in seconds, a severity is a label of Gate.  Variables of  *)
(* which any text is right are left out.                                   *)
(***************************************************************************)
EXTENDS Gate, Integers

CONSTANTS
    Unset,
    NotANumber

Required == {"HARBOR_URL", "HARBOR_ROBOT_USER", "HARBOR_ROBOT_PASSWORD",
             "FULCIO_URL", "REKOR_URL", "WEBHOOK_SECRET"}
Port == {"SERVER_PORT", "METRICS_PORT"}
Positive == {"MAX_PAYLOAD_SIZE", "WORKER_COUNT", "QUEUE_SIZE",
             "RECONCILE_INTERVAL", "RECONCILE_TIMEOUT"}
NonNegative == {"MAX_RETRIES", "RETRY_BASE_DELAY", "RETRY_MAX_DELAY"}
Number == Port \cup Positive \cup NonNegative
Key == Required \cup Number \cup {"SEVERITY_THRESHOLD", "LOG_LEVEL", "HARBOR_PROJECTS"}

LogLevel == {"debug", "info", "warn", "error"}

NumberDefault ==
    [SERVER_PORT |-> 8080, METRICS_PORT |-> 9090, MAX_PAYLOAD_SIZE |-> 1048576,
     WORKER_COUNT |-> 5, QUEUE_SIZE |-> 100,
     RECONCILE_INTERVAL |-> 900, RECONCILE_TIMEOUT |-> 600,
     MAX_RETRIES |-> 3, RETRY_BASE_DELAY |-> 1, RETRY_MAX_DELAY |-> 10]

ProjectsDefault == <<"chainguard", "charts", "platform", "applications", "library">>

Default(key) ==
    CASE key \in Required           -> ""
      [] key \in Number             -> NumberDefault[key]
      [] key = "SEVERITY_THRESHOLD" -> SeverityString(SeverityHigh)
      [] key = "LOG_LEVEL"          -> "info"

\* getEnv, getEnvAsInt, getEnvAsInt64, getEnvAsDuration
getEnv(key, raw) == IF raw \in {Unset, NotANumber} THEN Default(key) ELSE raw

\* The entries of a list that are not blank, in their order.
Trimmed(raw) ==
    LET named == {i \in DOMAIN raw : raw[i] # ""}
    IN  [n \in 1..Cardinality(named) |-> raw[Nth(named, n)]]

\* Fault: a list whose entries are all blank is an empty list.
getEnvAsSliceOrEmpty(raw) ==
    IF raw = Unset THEN ProjectsDefault ELSE Trimmed(raw)

\* A list whose entries are all blank counts as none.
getEnvAsStringSlice(raw) ==
    IF raw = Unset \/ Trimmed(raw) = <<>> THEN ProjectsDefault ELSE Trimmed(raw)

Load(env) ==
    [key \in Key |->
        IF key = "HARBOR_PROJECTS" THEN getEnvAsStringSlice(env[key]) ELSE getEnv(key, env[key])]

RequiredGiven(cfg) == \A key \in Required : cfg[key] # ""

RangesKept(cfg) ==
    /\ \A key \in Port : cfg[key] >= 1 /\ cfg[key] <= 65535
    /\ \A key \in Positive : cfg[key] >= 1
    /\ \A key \in NonNegative : cfg[key] >= 0

\* Fault: SEVERITY_THRESHOLD is left to ParseSeverity.
ValidateNoSeverity(cfg) ==
    RequiredGiven(cfg) /\ RangesKept(cfg) /\ cfg["LOG_LEVEL"] \in LogLevel

Validate(cfg) ==
    /\ RequiredGiven(cfg)
    /\ cfg["SEVERITY_THRESHOLD"] \in CanonicalLabel
    /\ RangesKept(cfg)
    /\ cfg["LOG_LEVEL"] \in LogLevel
=============================================================================
