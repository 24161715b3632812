---------------------------- MODULE Startup_proofs ----------------------------
(***************************************************************************)
(* Startup, for every environment: what Load lets through ends the process *)
(* nowhere later, the evaluator gates at the configured level, and no      *)
(* delay exceeds its maximum.                                              *)
(***************************************************************************)
EXTENDS Startup, FiniteSetTheorems, SequenceTheorems, TLAPS

-----------------------------------------------------------------------------
(* What Load returns. *)

LEMMA NumberDefaults == \A key \in Number : NumberDefault[key] \in Int
  BY DEF Number, Port, Positive, NonNegative, NumberDefault

LEMMA DefaultOfNumber == ASSUME NEW key \in Number PROVE Default(key) \in Int
<1>1. key \notin Required /\ key # "SEVERITY_THRESHOLD" /\ key # "LOG_LEVEL"
  BY DEF Number, Port, Positive, NonNegative, Required
<1>2. Default(key) = NumberDefault[key]
  BY <1>1, Zenon DEF Default
<1>3. QED BY <1>2, NumberDefaults

\* The numbers of a finite set take the ranks from one up to their number, each
\* once: whatever n of them is asked for, there is one.
LEMMA EveryRankIsTaken ==
    ASSUME NEW S, S \subseteq Nat, IsFiniteSet(S), NEW n \in 1..Cardinality(S)
    PROVE  Nth(S, n) \in S /\ Rank(S, Nth(S, n)) = n
<1> DEFINE below(k) == {j \in S : j <= k}
           rank == [k \in S |-> Rank(S, k)]
<1>1. ASSUME NEW k \in S
      PROVE  IsFiniteSet(below(k)) /\ Rank(S, k) \in 1..Cardinality(S)
  <2>1. below(k) \subseteq S /\ k \in below(k)
    OBVIOUS
  <2>2. IsFiniteSet(below(k)) /\ Cardinality(below(k)) <= Cardinality(S)
    BY <2>1, FS_Subset
  <2>3. Cardinality(below(k)) \in Nat /\ Cardinality(below(k)) # 0
    BY <2>1, <2>2, FS_CardinalityType, FS_EmptySet
  <2>4. Cardinality(S) \in Nat
    BY FS_CardinalityType
  <2>5. QED BY <2>2, <2>3, <2>4 DEF Rank
<1>2. ASSUME NEW k \in S, NEW l \in S, k < l
      PROVE  Rank(S, k) # Rank(S, l)
  <2>1. k \in Nat /\ l \in Nat
    OBVIOUS
  <2>2. l \in below(l) /\ l \notin below(k)
    BY <1>2, <2>1
  <2>3. ASSUME NEW j \in below(k) PROVE j \in below(l)
    <3>1. j \in S /\ j \in Nat /\ j <= k
      OBVIOUS
    <3>2. QED BY <3>1, <2>1, <1>2
  <2>4. below(k) \subseteq below(l) /\ below(k) # below(l)
    BY <2>2, <2>3
  <2>5. QED BY <2>4, <1>1, FS_Subset DEF Rank
<1>3. rank \in Injection(S, 1..Cardinality(S))
  <2>1. rank \in [S -> 1..Cardinality(S)]
    BY <1>1
  <2>2. ASSUME NEW k \in S, NEW l \in S, rank[k] = rank[l] PROVE k = l
    <3>1. k \in Nat /\ l \in Nat /\ (k = l \/ k < l \/ l < k)
      OBVIOUS
    <3>2. QED BY <3>1, <2>2, <1>2
  <2>3. QED BY <2>1, <2>2 DEF Injection, IsInjective
<1>4. /\ IsFiniteSet(1..Cardinality(S))
      /\ Cardinality(1..Cardinality(S)) = Cardinality(S)
  <2>1. Cardinality(S) \in Nat
    BY FS_CardinalityType
  <2>2. QED BY <2>1, FS_Interval
<1>5. rank \in Surjection(S, 1..Cardinality(S))
  BY <1>3, <1>4, FS_Injection
<1>6. \E k \in S : Rank(S, k) = n
  BY <1>5 DEF Surjection
<1>7. QED BY <1>6 DEF Nth

\* What is left of a list has no blank entry.
LEMMA TrimmedHasNoBlank ==
    ASSUME NEW D, NEW raw \in Seq(D)
    PROVE  \A i \in DOMAIN Trimmed(raw) : Trimmed(raw)[i] # ""
<1> DEFINE named == {i \in DOMAIN raw : raw[i] # ""}
<1>1. DOMAIN raw = 1..Len(raw) /\ Len(raw) \in Nat
  BY LenProperties
<1>2. IsFiniteSet(DOMAIN raw) /\ DOMAIN raw \subseteq Nat
  BY <1>1, FS_Interval
<1>3. IsFiniteSet(named) /\ Cardinality(named) \in Nat /\ named \subseteq Nat
  <2>1. named \subseteq DOMAIN raw
    OBVIOUS
  <2>2. QED BY <2>1, <1>2, FS_Subset, FS_CardinalityType
<1>4. Trimmed(raw) = [n \in 1..Cardinality(named) |-> raw[Nth(named, n)]]
  BY DEF Trimmed
<1>5. ASSUME NEW n \in 1..Cardinality(named)
      PROVE  raw[Nth(named, n)] # ""
  <2>1. Nth(named, n) \in named
    BY <1>3, EveryRankIsTaken
  <2>2. QED BY <2>1
<1> HIDE DEF named
<1>6. QED BY <1>3, <1>4, <1>5

LEMMA DefaultProjectsNamed ==
    /\ ProjectsDefault # <<>>
    /\ \A i \in DOMAIN ProjectsDefault : ProjectsDefault[i] # ""
<1>1. DOMAIN ProjectsDefault = 1..5 /\ Len(ProjectsDefault) = 5
  BY DEF ProjectsDefault
<1>2. ProjectsDefault # <<>>
  BY <1>1
<1>3. ASSUME NEW i \in 1..5 PROVE ProjectsDefault[i] # ""
  <2>1. i = 1 \/ i = 2 \/ i = 3 \/ i = 4 \/ i = 5
    OBVIOUS
  <2>2. /\ ProjectsDefault[1] = "chainguard" /\ ProjectsDefault[2] = "charts"
        /\ ProjectsDefault[3] = "platform" /\ ProjectsDefault[4] = "applications"
        /\ ProjectsDefault[5] = "library"
    BY DEF ProjectsDefault
  <2>3. QED BY <2>1, <2>2
<1>4. QED BY <1>1, <1>2, <1>3

LEMMA ProjectsAreNamed ==
    ASSUME NEW raw \in Seq(STRING) \cup {Unset}
    PROVE  /\ getEnvAsStringSlice(raw) # <<>>
           /\ \A i \in DOMAIN getEnvAsStringSlice(raw) : getEnvAsStringSlice(raw)[i] # ""
<1>1. CASE raw = Unset \/ Trimmed(raw) = <<>>
  <2>1. getEnvAsStringSlice(raw) = ProjectsDefault
    BY <1>1 DEF getEnvAsStringSlice
  <2>2. QED BY <2>1, DefaultProjectsNamed
<1>2. CASE raw # Unset /\ Trimmed(raw) # <<>>
  <2>1. getEnvAsStringSlice(raw) = Trimmed(raw) /\ raw \in Seq(STRING)
    BY <1>2 DEF getEnvAsStringSlice
  <2>2. QED BY <2>1, <1>2, TrimmedHasNoBlank
<1>3. QED BY <1>1, <1>2

\* Load returns a value of each key, whatever the environment holds.
LEMMA LoadType ==
    ASSUME NEW e \in Environments
    PROVE  /\ DOMAIN Load(e) = Key
           /\ \A key \in Number : Load(e)[key] \in Int
           /\ Load(e)["HARBOR_PROJECTS"] # <<>>
           /\ \A i \in DOMAIN Load(e)["HARBOR_PROJECTS"] : Load(e)["HARBOR_PROJECTS"][i] # ""
<1>1. DOMAIN Load(e) = Key
  BY DEF Load
<1>2. ASSUME NEW key \in Number PROVE Load(e)[key] \in Int
  <2>1. key \in Key /\ key # "HARBOR_PROJECTS"
    BY DEF Key, Number, Port, Positive, NonNegative
  <2>2. Load(e)[key] = getEnv(key, e[key])
    BY <2>1 DEF Load
  <2>3. e[key] \in Int \cup {Unset, NotANumber}
    BY EnvironmentsTyped
  <2>4. CASE e[key] \in {Unset, NotANumber}
    BY <2>2, <2>4, DefaultOfNumber DEF getEnv
  <2>5. CASE e[key] \notin {Unset, NotANumber}
    BY <2>2, <2>3, <2>5 DEF getEnv
  <2>6. QED BY <2>4, <2>5
<1>3. Load(e)["HARBOR_PROJECTS"] = getEnvAsStringSlice(e["HARBOR_PROJECTS"])
  BY DEF Load, Key
<1>4. e["HARBOR_PROJECTS"] \in Seq(STRING) \cup {Unset}
  BY EnvironmentsTyped
<1>5. QED BY <1>1, <1>2, <1>3, <1>4, ProjectsAreNamed

-----------------------------------------------------------------------------
(* The checks that other packages make again. *)

\* Validate and ParseSeverity know the same five levels: the label of a level is
\* read back as that level.
LEMMA LabelsAreParsed ==
    ASSUME NEW s \in Severity
    PROVE  ParseSeverity(SeverityString(s)) = [sev |-> s, err |-> FALSE]
<1> USE DEF SeverityNone, SeverityLow, SeverityMedium, SeverityHigh, SeverityCritical
<1> DEFINE Title(w) == [word |-> w, casing |-> "title"]
<1>1. \A w, v : LowerWord(w) = LowerWord(v) => w = v
  BY DEF LowerWord
<1>2. \A w : ToLower(Title(w)) = LowerWord(w)
  BY DEF ToLower, LowerWord
<1> HIDE DEF Title
<1>3. CASE s = 0
  <2>1. SeverityString(s) = Title("none")
    BY <1>3 DEF SeverityString, Title
  <2>2. QED BY <1>1, <1>2, <1>3, <2>1 DEF ParseSeverity
<1>4. CASE s = 1
  <2>1. SeverityString(s) = Title("low")
    BY <1>4 DEF SeverityString, Title
  <2>2. QED BY <1>1, <1>2, <1>4, <2>1 DEF ParseSeverity
<1>5. CASE s = 2
  <2>1. SeverityString(s) = Title("medium")
    BY <1>5 DEF SeverityString, Title
  <2>2. QED BY <1>1, <1>2, <1>5, <2>1 DEF ParseSeverity
<1>6. CASE s = 3
  <2>1. SeverityString(s) = Title("high")
    BY <1>6 DEF SeverityString, Title
  <2>2. QED BY <1>1, <1>2, <1>6, <2>1 DEF ParseSeverity
<1>7. CASE s = 4
  <2>1. SeverityString(s) = Title("critical")
    BY <1>7 DEF SeverityString, Title
  <2>2. QED BY <1>1, <1>2, <1>7, <2>1 DEF ParseSeverity
<1>8. QED BY <1>3, <1>4, <1>5, <1>6, <1>7 DEF Severity

LEMMA ParsedSeverity == \A label : ParseSeverity(label).sev \in Severity
  BY DEF ParseSeverity, Severity, SeverityNone, SeverityLow, SeverityMedium, SeverityHigh,
         SeverityCritical

-----------------------------------------------------------------------------
(* The delays. *)

LEMMA PowerOfTwo == ASSUME NEW n \in Nat PROVE 2^n \in Nat
<1>1. IsFiniteSet(1..n) /\ Cardinality(1..n) = n
  BY FS_Interval
<1>2. IsFiniteSet(SUBSET (1..n)) /\ Cardinality(SUBSET (1..n)) = 2^n
  BY <1>1, FS_SUBSET
<1>3. QED BY <1>2, FS_CardinalityType

LEMMA Capped ==
    ASSUME NEW base \in Nat, NEW max \in Nat, NEW attempt \in Nat \ {0}
    PROVE  Exponential(base, max, attempt) \in 0..max
<1> DEFINE factor == 2^(attempt - 1)
<1>1. factor \in Nat
  BY PowerOfTwo
<1> HIDE DEF factor
<1>2. base * factor \in Nat
  BY <1>1
<1>3. Exponential(base, max, attempt) = IF base * factor > max THEN max ELSE base * factor
  BY DEF Exponential, factor
<1>4. QED BY <1>2, <1>3

\* The signer's jitter takes a delay at most a quarter beyond the maximum, and
\* never below zero.
LEMMA Jittered ==
    ASSUME NEW max \in Nat, NEW delay \in 0..max
    PROVE  ((3 * delay) \div 4) .. ((5 * delay) \div 4) \subseteq 0 .. ((5 * max) \div 4)
<1>1. 0 <= (3 * delay) \div 4
  OBVIOUS
<1>2. (5 * delay) \div 4 <= (5 * max) \div 4
  OBVIOUS
<1>3. (3 * delay) \div 4 \in Int /\ (5 * delay) \div 4 \in Int /\ (5 * max) \div 4 \in Int
  OBVIOUS
<1>4. QED BY <1>1, <1>2, <1>3

LEMMA DelaysBounded ==
    ASSUME NEW retries \in Nat, NEW base \in Nat, NEW max \in Nat,
           NEW attempt \in Nat \ {0}
    PROVE  /\ ClientDelays(NewClient(retries, base, max), attempt)
                 \subseteq 0..NewClient(retries, base, max).max
           /\ SignerDelays(base, max, attempt) \subseteq 0..((5 * max) \div 4)
<1> DEFINE client == NewClient(retries, base, max)
<1>1. client.base \in Nat /\ client.max \in Nat
  BY DEF NewClient
<1> HIDE DEF client
<1>2. Exponential(client.base, client.max, attempt) \in 0..client.max
  BY <1>1, Capped
<1>3. ClientDelays(client, attempt) \subseteq 0..client.max
  BY <1>1, <1>2 DEF ClientDelays
<1>4. SignerDelays(base, max, attempt) \subseteq 0..((5 * max) \div 4)
  BY Capped, Jittered DEF SignerDelays
<1>5. QED BY <1>3, <1>4 DEF client

-----------------------------------------------------------------------------
(* The invariant. *)

ShapeInv ==
    /\ env \in Environments
    /\ pc \in {"load", "logger", "threshold", "wire", "reconciler", "server", "serving", "fatal"}
    /\ threshold \in Severity
    /\ pending \subseteq Server \cup {"ticker"}
    /\ listening \subseteq Server /\ silent \subseteq Server

\* Past Load there is its configuration, and Validate has passed it; a fatal error
\* was Load's.
ConfigInv ==
    IF pc \in {"load", "fatal"} THEN cfg = NoConfig ELSE cfg = Load(env) /\ Validate(cfg)

ThresholdInv ==
    pc \in {"wire", "reconciler", "server", "serving"} =>
        SeverityString(threshold) = cfg["SEVERITY_THRESHOLD"]

\* A goroutine exists only after the step of run that starts it, and a server is
\* in one place at a time.
GoroutineInv ==
    /\ "metrics" \in pending \cup listening \cup silent => pc \in {"reconciler", "server", "serving"}
    /\ "ticker" \in pending => pc \in {"server", "serving"}
    /\ "main" \in pending \cup listening \cup silent => pc = "serving"
    /\ pending \cap listening = {} /\ pending \cap silent = {} /\ listening \cap silent = {}

StartupInv == ShapeInv /\ ConfigInv /\ ThresholdInv /\ GoroutineInv

\* What Validate has passed satisfies what is built from it.
LEMMA ValidatedIsSound ==
    ASSUME NEW c, Validate(c)
    PROVE  /\ c["RECONCILE_INTERVAL"] >= 1
           /\ c["MAX_RETRIES"] >= 0 /\ c["RETRY_BASE_DELAY"] >= 0 /\ c["RETRY_MAX_DELAY"] >= 0
           /\ c["LOG_LEVEL"] \in ZapLevel
           /\ c["SEVERITY_THRESHOLD"] \in CanonicalLabel
<1>1. /\ \A key \in Positive : c[key] >= 1
      /\ \A key \in NonNegative : c[key] >= 0
      /\ c["LOG_LEVEL"] \in LogLevel
      /\ c["SEVERITY_THRESHOLD"] \in CanonicalLabel
  <2>1. /\ RangesKept(c)
        /\ c["LOG_LEVEL"] \in LogLevel
        /\ c["SEVERITY_THRESHOLD"] \in CanonicalLabel
    BY DEF Validate
  <2>2. (\A key \in Positive : c[key] >= 1) /\ (\A key \in NonNegative : c[key] >= 0)
    BY <2>1 DEF RangesKept
  <2>3. QED BY <2>1, <2>2, Zenon
<1>2. /\ "RECONCILE_INTERVAL" \in Positive
      /\ "MAX_RETRIES" \in NonNegative /\ "RETRY_BASE_DELAY" \in NonNegative
      /\ "RETRY_MAX_DELAY" \in NonNegative
  BY DEF Positive, NonNegative
<1>3. LogLevel \subseteq ZapLevel
  BY DEF ZapLevel
<1>4. QED BY <1>1, <1>2, <1>3, Zenon

LEMMA StartupInit == Init => StartupInv
<1> SUFFICES ASSUME Init PROVE StartupInv
  OBVIOUS
<1>1. ShapeInv
  BY DEF Init, ShapeInv, Severity, SeverityNone, SeverityCritical
<1>2. ConfigInv /\ ThresholdInv /\ GoroutineInv
  BY DEF Init, ConfigInv, ThresholdInv, GoroutineInv
<1>3. QED BY <1>1, <1>2 DEF StartupInv

LEMMA LoadSteps ==
    ASSUME StartupInv, LoadOk \/ LoadError
    PROVE  StartupInv'
<1>1. ShapeInv' /\ ThresholdInv' /\ GoroutineInv'
  BY DEF StartupInv, ShapeInv, ThresholdInv, GoroutineInv, LoadOk, LoadError
<1>2. ConfigInv'
  BY DEF StartupInv, ConfigInv, LoadOk, LoadError
<1>3. QED BY <1>1, <1>2 DEF StartupInv

\* The checks of the logger and of the evaluator pass whatever Validate passed.
LEMMA LoggerStep ==
    ASSUME StartupInv, NewLogger
    PROVE  StartupInv'
<1>1. cfg = Load(env) /\ Validate(cfg)
  BY DEF StartupInv, ConfigInv, NewLogger
<1>2. pc' = "threshold"
  BY <1>1, ValidatedIsSound DEF NewLogger
<1>3. ShapeInv' /\ ThresholdInv' /\ GoroutineInv'
  BY <1>2 DEF StartupInv, ShapeInv, ThresholdInv, GoroutineInv, NewLogger
<1>4. ConfigInv'
  BY <1>1, <1>2 DEF ConfigInv, NewLogger
<1>5. QED BY <1>3, <1>4 DEF StartupInv

LEMMA EvaluatorStep ==
    ASSUME StartupInv, NewEvaluator
    PROVE  StartupInv'
<1>1. cfg = Load(env) /\ Validate(cfg)
  BY DEF StartupInv, ConfigInv, NewEvaluator
<1>2. PICK s \in Severity : cfg["SEVERITY_THRESHOLD"] = SeverityString(s)
  BY <1>1, ValidatedIsSound DEF CanonicalLabel
<1>3. ParseSeverity(cfg["SEVERITY_THRESHOLD"]) = [sev |-> s, err |-> FALSE]
  BY <1>2, LabelsAreParsed
<1>4. pc' = "wire" /\ threshold' = s /\ UNCHANGED <<env, cfg, pending, listening, silent>>
  BY <1>3 DEF NewEvaluator
<1>5. ShapeInv' /\ GoroutineInv'
  BY <1>4 DEF StartupInv, ShapeInv, GoroutineInv, NewEvaluator
<1>6. ConfigInv' /\ ThresholdInv'
  BY <1>1, <1>2, <1>4 DEF ConfigInv, ThresholdInv
<1>7. QED BY <1>5, <1>6 DEF StartupInv

LEMMA SpawnSteps ==
    ASSUME StartupInv, StartMetricsServer \/ StartReconciler \/ StartMainServer
    PROVE  StartupInv'
<1>1. ShapeInv'
  BY DEF StartupInv, ShapeInv, StartMetricsServer, StartReconciler, StartMainServer, Spawn, Server
<1>2. ConfigInv' /\ ThresholdInv'
  BY DEF StartupInv, ConfigInv, ThresholdInv, StartMetricsServer, StartReconciler,
         StartMainServer, Spawn
<1>3. GoroutineInv'
  BY DEF StartupInv, ShapeInv, GoroutineInv, StartMetricsServer, StartReconciler,
         StartMainServer, Spawn, Server
<1>4. QED BY <1>1, <1>2, <1>3 DEF StartupInv

\* The interval of the ticker is positive: NewTicker does not panic.
LEMMA TickerStep ==
    ASSUME StartupInv, NewTicker
    PROVE  StartupInv'
<1>1. pc \in {"server", "serving"} /\ Validate(cfg) /\ cfg = Load(env) /\ env \in Environments
  BY DEF StartupInv, ShapeInv, GoroutineInv, ConfigInv, NewTicker, Arrives
<1>2. cfg["RECONCILE_INTERVAL"] >= 1 /\ cfg["RECONCILE_INTERVAL"] \in Int
  BY <1>1, ValidatedIsSound, LoadType DEF Number, Positive
<1>3. /\ pending' = pending \ {"ticker"}
      /\ pc' = pc /\ UNCHANGED <<env, cfg, threshold, listening, silent>>
  BY <1>2 DEF NewTicker, Arrives
<1>4. ShapeInv' /\ GoroutineInv'
  BY <1>3 DEF StartupInv, ShapeInv, GoroutineInv
<1>5. ConfigInv' /\ ThresholdInv'
  BY <1>3 DEF StartupInv, ConfigInv, ThresholdInv
<1>6. QED BY <1>4, <1>5 DEF StartupInv

\* A server listens or is silent, whichever; run goes on.
LEMMA BindSteps ==
    ASSUME StartupInv, NEW s \in Server, BindOk(s) \/ BindError(s)
    PROVE  StartupInv'
<1>1. /\ s \in pending /\ pending' = pending \ {s} /\ pc' = pc
      /\ UNCHANGED <<env, cfg, threshold>>
      /\ listening' \cup silent' = listening \cup silent \cup {s}
      /\ \/ listening' = listening \cup {s} /\ silent' = silent
         \/ silent' = silent \cup {s} /\ listening' = listening
  BY DEF BindOk, BindError, Arrives
<1>2. ShapeInv' /\ ConfigInv' /\ ThresholdInv'
  BY <1>1 DEF StartupInv, ShapeInv, ConfigInv, ThresholdInv
<1>3. GoroutineInv'
  BY <1>1 DEF StartupInv, GoroutineInv
<1>4. QED BY <1>2, <1>3 DEF StartupInv

LEMMA StartupStutter == StartupInv /\ UNCHANGED vars => StartupInv'
<1> SUFFICES ASSUME StartupInv, UNCHANGED vars PROVE StartupInv'
  OBVIOUS
<1>1. ShapeInv' /\ ConfigInv' /\ ThresholdInv' /\ GoroutineInv'
  BY DEF StartupInv, ShapeInv, ConfigInv, ThresholdInv, GoroutineInv, vars
<1>2. QED BY <1>1 DEF StartupInv

LEMMA StartupInvariant == Spec => []StartupInv
<1>1. StartupInv /\ [Next]_vars => StartupInv'
  <2> SUFFICES ASSUME StartupInv, [Next]_vars PROVE StartupInv'
    OBVIOUS
  <2>1. CASE RunStep
    BY <2>1, LoadSteps, LoggerStep, EvaluatorStep, SpawnSteps DEF RunStep
  <2>2. CASE NewTicker
    BY <2>2, TickerStep
  <2>3. CASE \E s \in Server : BindOk(s) \/ BindError(s)
    BY <2>3, BindSteps
  <2>4. CASE Settled
    BY <2>4, StartupStutter DEF Settled
  <2>5. CASE UNCHANGED vars
    BY <2>5, StartupStutter
  <2>6. QED BY <2>1, <2>2, <2>3, <2>4, <2>5 DEF Next
<1>2. QED BY <1>1, StartupInit, PTL DEF Spec

-----------------------------------------------------------------------------
(* The theorems. *)

\* The state is well-typed: a configuration has a value of every key, numbers where
\* numbers are read, and at least one project, none of them blank.
THEOREM StartupTypeCorrect == Spec => []TypeOK
<1>1. StartupInv => TypeOK
  <2> SUFFICES ASSUME StartupInv PROVE TypeOK
    OBVIOUS
  <2>1. DOMAIN env = Key
    BY EnvironmentsTyped DEF StartupInv, ShapeInv
  <2>2. cfg # NoConfig => cfg = Load(env)
    BY DEF StartupInv, ConfigInv
  <2>3. env \in Environments
    BY DEF StartupInv, ShapeInv
  <2>4. QED BY <2>1, <2>2, <2>3, LoadType DEF StartupInv, ShapeInv, TypeOK
<1>2. QED BY <1>1, StartupInvariant, PTL

\* run ends with an error only in Load: what Validate passes, the logger, the
\* evaluator and the ticker, which check it again, pass too (main.go:43-77,
\* reconciler.go:84).
THEOREM LoadIsTheLastCheck == Spec => []OnlyLoadFails
<1>1. StartupInv => OnlyLoadFails
  BY DEF StartupInv, ConfigInv, OnlyLoadFails
<1>2. QED BY <1>1, StartupInvariant, PTL

\* The evaluator gates at the configured level: the label that Validate checks and
\* the level that ParseSeverity makes of it are the same (main.go:73-77).
THEOREM ThresholdIsConfigured == Spec => []ThresholdInv
<1>1. StartupInv => ThresholdInv
  BY DEF StartupInv
<1>2. QED BY <1>1, StartupInvariant, PTL

\* No delay of the client exceeds its maximum and none of the signer exceeds the
\* configured one by more than a quarter, for every base, maximum and number of
\* retries that Validate passes.
THEOREM NoDelayTooLong == Spec => []DelaysAreBounded
<1>1. StartupInv => DelaysAreBounded
  <2> SUFFICES ASSUME StartupInv, pc = "serving" PROVE DelaysAreBounded
    BY DEF DelaysAreBounded
  <2> DEFINE retries == cfg["MAX_RETRIES"]
             base == cfg["RETRY_BASE_DELAY"]
             max == cfg["RETRY_MAX_DELAY"]
  <2>1. cfg = Load(env) /\ Validate(cfg) /\ env \in Environments
    BY DEF StartupInv, ConfigInv, ShapeInv
  <2>2. retries \in Int /\ base \in Int /\ max \in Int
    BY <2>1, LoadType DEF Number, NonNegative
  <2>3. retries >= 0 /\ base >= 0 /\ max >= 0
    BY <2>1, ValidatedIsSound, Zenon
  <2> HIDE DEF retries, base, max
  <2>4. retries \in Nat /\ base \in Nat /\ max \in Nat
    BY <2>2, <2>3
  <2>5. NewClient(retries, base, max).maxRetries \in Nat
    BY <2>4 DEF NewClient
  <2>6. \A attempt \in 1..(NewClient(retries, base, max).maxRetries - 1) :
            ClientDelays(NewClient(retries, base, max), attempt)
                \subseteq 0..NewClient(retries, base, max).max
    BY <2>4, <2>5, DelaysBounded
  <2>7. \A attempt \in 1..(retries - 1) :
            SignerDelays(base, max, attempt) \subseteq 0..((5 * max) \div 4)
    BY <2>4, DelaysBounded
  <2>8. QED BY <2>6, <2>7 DEF DelaysAreBounded, retries, base, max
<1>2. QED BY <1>1, StartupInvariant, PTL
===============================================================================
