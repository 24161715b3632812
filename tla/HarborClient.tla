---------------------------- MODULE HarborClient ----------------------------
(***************************************************************************)
(* A call of the Harbor client (internal/pkg/harbor/client.go) as the      *)
(* requests it is made of: every request has a retry loop of its own, and  *)
(* a list is one request for the repositories and one for each of them,    *)
(* while others change the registry.  Calls share no state, so one at a    *)
(* time is enough.                                                         *)
(***************************************************************************)
EXTENDS Integers, Sequences, FiniteSets

CONSTANTS
    Artifacts, Repos, Home, Reports, Pending, InitialRepos, InitialScan,   \* see HarborReads
    MaxRetries,   \* cfg.MaxRetries
    PageSize,     \* page_size of the listings
    MaxChanges    \* bound: changes of the registry

ASSUME RegistryAssumption ==
    /\ Home \in [Artifacts -> Repos]
    /\ Pending \notin Reports
    /\ InitialRepos \subseteq Repos
    /\ InitialScan \in [Artifacts -> SUBSET (Reports \cup {Pending})]

ASSUME ClientAssumption ==
    /\ MaxRetries \in Int
    /\ PageSize \in Nat
    /\ MaxChanges \in Nat

VARIABLES
    repos, scan, signed, steady, ever, whole, call, outcome,   \* see HarborReads
    request,     \* the endpoint of the retry loop in progress, [what, of]
    pc,          \* "idle", "request", "backoff"
    attempt,     \* of that loop, from 0
    todo,        \* repositories of the list still to be asked for
    found,       \* its artifacts so far
    ctxDone,     \* the caller's context is done
    answers,     \* history: what the attempts of the loop met
    changes      \* changes of the registry so far

registry == <<repos, scan, signed>>
known == <<steady, ever>>
loop == <<request, pc, attempt, answers>>
list == <<todo, found>>
vars == <<registry, known, whole, call, outcome, loop, list, ctxDone, changes>>

Reads == INSTANCE HarborReads

\* NewClient
maxRetries == IF MaxRetries <= 0 THEN 3 ELSE MaxRetries

Ask(what, of) == [what |-> what, of |-> of]

Init ==
    /\ Reads!Init
    /\ request = Ask("none", "none")
    /\ pc = "idle"
    /\ attempt = 0
    /\ answers = <<>>
    /\ todo = {} /\ found = {}
    /\ ctxDone = FALSE
    /\ changes = 0

-----------------------------------------------------------------------------
(* The beginning and the end of a retry loop. *)

StartLoop(ask) ==
    /\ pc' = "request"
    /\ request' = ask
    /\ attempt' = 0
    /\ answers' = <<>>

\* What a call asks for first.
FirstAsk == [report |-> "vulnerabilities", signature |-> "accessories", list |-> "repositories"]

Begin(c) ==
    /\ Reads!Begin(c)
    /\ StartLoop(Ask(FirstAsk[c.op], c.of))
    /\ todo' = {} /\ found' = {}
    /\ ctxDone' = FALSE
    /\ UNCHANGED changes

Met(answer) == answers' = Append(answers, answer)

\* The call returns; an error of any of its requests is the error of the call.
Return(result) ==
    /\ Reads!Return(result)
    /\ pc' = "idle"
    /\ UNCHANGED <<request, attempt, list, ctxDone, changes>>

\* Attempts behind a context that is done fail before they are sent.
Requesting == pc = "request"
Answered == Requesting /\ ~ctxDone

-----------------------------------------------------------------------------
(* The ways an attempt fails. *)

\* A network error, a timeout, a body that breaks off, or a 5xx.
Retry ==
    /\ Requesting
    /\ attempt + 1 < maxRetries
    /\ Met("transient")
    /\ pc' = "backoff"
    /\ attempt' = attempt + 1
    /\ UNCHANGED <<registry, known, whole, call, outcome, request, list, ctxDone, changes>>

\* Fault: the answer of a signature check that failed is false, nil.
ExhaustedMeansUnsigned ==
    /\ Requesting
    /\ attempt + 1 >= maxRetries
    /\ Met("transient")
    /\ Return(IF request.what = "accessories" THEN Reads!Value("signature", FALSE) ELSE Reads!Error)
    /\ UNCHANGED whole

Exhausted ==
    /\ Requesting
    /\ attempt + 1 >= maxRetries
    /\ Met("transient")
    /\ Return(Reads!Error)
    /\ UNCHANGED whole

\* What is asked about is in the registry.
Exists ==
    CASE request.what = "repositories" -> TRUE
      [] request.what = "artifacts" -> request.of \in repos
      [] OTHER -> Reads!Holds(request.of)

\* Fault: a 4xx is retried like a 5xx.
ClientErrorRetried ==
    /\ Answered
    /\ attempt + 1 < maxRetries
    /\ Met("final")
    /\ pc' = "backoff"
    /\ attempt' = attempt + 1
    /\ UNCHANGED <<registry, known, whole, call, outcome, request, list, ctxDone, changes>>

\* A 4xx, as for what is not there; a body that is no JSON; a report map
\* without a report.
Refused ==
    /\ Answered
    /\ Met("final")
    /\ Return(Reads!Error)
    /\ UNCHANGED whole

\* Fault: the channel of a timer that was never started.
BackoffStays == pc = "backoff" /\ UNCHANGED vars

\* case <-time.After(delay): also on a context that is done, if both are ready.
BackoffElapses ==
    /\ pc = "backoff"
    /\ pc' = "request"
    /\ UNCHANGED <<registry, known, whole, call, outcome, request, attempt, answers, list,
                   ctxDone, changes>>

\* case <-ctx.Done()
BackoffCancelled ==
    /\ pc = "backoff"
    /\ ctxDone
    /\ Return(Reads!Error)
    /\ UNCHANGED <<whole, answers>>

-----------------------------------------------------------------------------
(* The ways it succeeds. *)

\* The first report of a Go map that is not nil: any.
ReportOk ==
    /\ Answered
    /\ request.what = "vulnerabilities"
    /\ Exists
    /\ Met("ok")
    /\ \E report \in scan[request.of] \cap Reports : Return(Reads!Value("report", report))
    /\ UNCHANGED whole

SignatureOk ==
    /\ Answered
    /\ request.what = "accessories"
    /\ Exists
    /\ Met("ok")
    /\ Return(Reads!Value("signature", request.of \in signed))
    /\ UNCHANGED whole

\* A listing is Harbor's first page; which one that is, is Harbor's affair.
Pages(S) ==
    {page \in SUBSET S :
        IF Cardinality(S) <= PageSize THEN page = S ELSE Cardinality(page) = PageSize}

\* No page is asked for behind the first.
FirstPageOnly(S) == whole' = (whole /\ Cardinality(S) <= PageSize)

\* The list goes on with any of the repositories left, or is done.
GoOn(left, listed) ==
    \/ /\ left = {}
       /\ Met("ok")
       /\ Return(Reads!Value("list", listed))
    \/ /\ \E r \in left :
             /\ StartLoop(Ask("artifacts", r))
             /\ todo' = left \ {r}
       /\ found' = listed
       /\ UNCHANGED <<registry, known, call, outcome, ctxDone, changes>>

\* listRepositories
RepositoriesOk ==
    /\ Answered
    /\ request.what = "repositories"
    /\ FirstPageOnly(repos)
    /\ \E page \in Pages(repos) : GoOn(page, {})

\* listArtifactsForRepo, and the append of its result in ListArtifacts.
ArtifactsOk ==
    /\ Answered
    /\ request.what = "artifacts"
    /\ Exists
    /\ LET held == {a \in Artifacts : Home[a] = request.of}
       IN  /\ FirstPageOnly(held)
           /\ \E page \in Pages(held) :
                 GoOn(todo, found \cup {a \in page : Reads!hasScanSuccess(scan[a])})

-----------------------------------------------------------------------------

\* The sweep's deadline; a webhook's context has none.
ContextDone ==
    /\ pc # "idle"
    /\ ~ctxDone
    /\ ctxDone' = TRUE
    /\ UNCHANGED <<registry, known, whole, call, outcome, loop, list, changes>>

RegistryChanges ==
    /\ pc # "idle"
    /\ changes < MaxChanges
    /\ Reads!Change
    /\ changes' = changes + 1
    /\ UNCHANGED <<loop, list, ctxDone>>

Attempt ==
    \/ Retry \/ Exhausted \/ Refused
    \/ ReportOk \/ SignatureOk \/ RepositoriesOk \/ ArtifactsOk

Backoff == BackoffElapses \/ BackoffCancelled

Next == (\E c \in Reads!Call : Begin(c)) \/ Attempt \/ Backoff \/ ContextDone \/ RegistryChanges

Spec == Init /\ [][Next]_vars

\* An attempt has a timeout of 5s or 30s, and a delay is a timer.
Fairness == WF_vars(Attempt) /\ WF_vars(Backoff)

FairSpec == Spec /\ Fairness

-----------------------------------------------------------------------------

\* The type of the state.
TypeOK ==
    /\ repos \subseteq Repos
    /\ scan \in [Artifacts -> SUBSET (Reports \cup {Pending})]
    /\ signed \subseteq Artifacts
    /\ steady \subseteq Artifacts /\ ever \subseteq Artifacts
    /\ whole \in BOOLEAN
    /\ call \in Reads!Call \cup {Reads!NoCall}
    /\ pc \in {"idle", "request", "backoff"}
    /\ pc = "idle" <=> call = Reads!NoCall
    /\ attempt \in 0..(maxRetries - 1)
    /\ todo \subseteq Repos /\ found \subseteq Artifacts
    /\ ctxDone \in BOOLEAN
    /\ changes \in 0..MaxChanges

\* A call gives up on a definite answer at once, on anything else only when
\* maxRetries requests have failed or its context is done (client.go:76-126): no
\* request is ever repeated that was refused, nor given up too early.
RetriesOnlyTransient ==
    /\ \A k \in 1..Len(answers) : answers[k] # "transient" => k = Len(answers) /\ pc # "backoff"
    /\ (outcome = Reads!Error /\ ~ctxDone /\ answers[Len(answers)] = "transient")
           => Len(answers) = maxRetries

\* A call is one look at the registry or one error, although it is many requests
\* between changes of it: what SigningService and Reconciler take it for.
ImplementsReads == Reads!Spec

\* Every call returns.
CallReturns == pc # "idle" ~> pc = "idle"
=============================================================================
