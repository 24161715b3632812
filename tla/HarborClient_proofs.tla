------------------------- MODULE HarborClient_proofs -------------------------
(***************************************************************************)
(* The Harbor client, for any registry, number of retries and page size:   *)
(* its type, and that a call is one look at the registry or one error.     *)
(***************************************************************************)
EXTENDS HarborClient, TLAPS

\* The loop in progress asks for what its call is about.
AsksForCall ==
    pc # "idle" =>
        /\ call.op = "report" => request = Ask("vulnerabilities", call.of)
        /\ call.op = "signature" => request = Ask("accessories", call.of)
        /\ call.op = "list" =>
              \/ request.what = "repositories"
              \/ request.what = "artifacts" /\ request.of \in Repos

\* What the call knows is kept up with the registry.
KnowsRegistry == pc # "idle" => steady \subseteq Reads!Scanned /\ Reads!Scanned \subseteq ever

\* Of what was scanned all the while, each artifact is found or still to come,
\* unless a listing was cut; what was found was scanned at some time.
ListProgress ==
    pc # "idle" /\ call.op = "list" =>
        /\ found \subseteq ever
        /\ (request.what = "artifacts" /\ whole) =>
              \A a \in steady : a \in found \/ Home[a] = request.of \/ Home[a] \in todo

ClientInv == TypeOK /\ AsksForCall /\ KnowsRegistry /\ ListProgress

-----------------------------------------------------------------------------

\* NewClient makes at least one attempt.
LEMMA SomeAttempt == maxRetries \in Nat \ {0}
BY ClientAssumption DEF maxRetries

LEMMA InitClient == Init => ClientInv
<1> SUFFICES ASSUME Init PROVE ClientInv
  OBVIOUS
<1> USE DEF Init, Reads!Init
<1>1. attempt \in 0..(maxRetries - 1) /\ changes \in 0..MaxChanges
  BY SomeAttempt, ClientAssumption
<1>2. /\ repos \subseteq Repos /\ scan \in [Artifacts -> SUBSET (Reports \cup {Pending})]
      /\ signed \subseteq Artifacts
  BY RegistryAssumption
<1>3. /\ whole \in BOOLEAN /\ ctxDone \in BOOLEAN
      /\ call \in Reads!Call \cup {Reads!NoCall} /\ (pc = "idle" <=> call = Reads!NoCall)
  OBVIOUS
<1>4. TypeOK
  BY <1>1, <1>2, <1>3 DEF TypeOK
<1>5. QED
  BY <1>4 DEF ClientInv, AsksForCall, KnowsRegistry, ListProgress

\* A page of a listing that fits is the listing.
LEMMA WholePage ==
    ASSUME NEW S, NEW page \in Pages(S)
    PROVE  page \subseteq S /\ (Cardinality(S) <= PageSize => page = S)
BY DEF Pages

LEMMA ScannedIsThere == Reads!Scanned \subseteq {a \in Artifacts : Home[a] \in repos}
BY DEF Reads!Scanned, Reads!Holds

-----------------------------------------------------------------------------
(* Every step keeps the invariant. *)

LEMMA BeginKeeps ==
    ASSUME ClientInv, NEW c \in Reads!Call, Begin(c)
    PROVE  ClientInv'
<1> USE DEF ClientInv, Begin, Reads!Begin, StartLoop, Ask, FirstAsk, Reads!registry
<1>0. c # Reads!NoCall /\ Reads!Scanned \subseteq Artifacts /\ UNCHANGED Reads!Scanned
  BY DEF Reads!Call, Reads!NoCall, Reads!Scanned, Reads!Holds, Reads!hasScanSuccess
<1>1. TypeOK'
  <2>1. 0 \in 0..(maxRetries - 1)
    BY SomeAttempt
  <2>2. QED BY <1>0, <2>1 DEF TypeOK
<1>2. AsksForCall'
  BY DEF AsksForCall, Reads!Call
<1>3. KnowsRegistry'
  BY <1>0 DEF KnowsRegistry
<1>4. ListProgress'
  BY DEF ListProgress, Reads!Call
<1>5. QED BY <1>1, <1>2, <1>3, <1>4

\* Any return of the call.
LEMMA ReturnKeeps ==
    ASSUME ClientInv, NEW result, Return(result), whole' \in BOOLEAN
    PROVE  ClientInv'
<1> USE DEF ClientInv, Return, Reads!Return, Reads!registry, list
<1>1. TypeOK'
  BY DEF TypeOK
<1>2. QED BY <1>1 DEF AsksForCall, KnowsRegistry, ListProgress

\* A failed attempt, its backoff, and the deadline.
LEMMA LoopKeeps ==
    ASSUME ClientInv, Retry \/ BackoffElapses \/ ContextDone
    PROVE  ClientInv'
<1> USE DEF ClientInv, registry, known, loop, list
<1>0. pc # "idle" /\ pc' # "idle" /\ UNCHANGED <<registry, known, whole, call, request, list>>
  BY DEF Retry, BackoffElapses, ContextDone, Requesting
<1>1. TypeOK'
  <2>1. CASE Retry
    BY <1>0, <2>1, SomeAttempt DEF Retry, TypeOK
  <2>2. CASE BackoffElapses \/ ContextDone
    BY <1>0, <2>2 DEF BackoffElapses, ContextDone, TypeOK
  <2>3. QED BY <2>1, <2>2
<1>2. UNCHANGED Reads!Scanned
  BY <1>0 DEF Reads!Scanned, Reads!Holds
<1>3. QED BY <1>0, <1>1, <1>2 DEF AsksForCall, KnowsRegistry, ListProgress

\* An answered listing, with what is listed and what is left to ask for.
LEMMA GoOnKeeps ==
    ASSUME ClientInv, NEW left \in SUBSET Repos, NEW listed \in SUBSET Artifacts,
           pc # "idle", call.op = "list", whole' \in BOOLEAN,
           listed \subseteq ever,
           whole' => \A a \in steady : a \in listed \/ Home[a] \in left,
           GoOn(left, listed)
    PROVE  ClientInv'
<1>1. CASE left = {} /\ Met("ok") /\ Return(Reads!Value("list", listed))
  BY <1>1, ReturnKeeps
<1>2. ASSUME NEW r \in left, StartLoop(Ask("artifacts", r)), todo' = left \ {r},
             found' = listed, UNCHANGED <<registry, known, call, outcome, ctxDone, changes>>
      PROVE  ClientInv'
  <2> USE <1>2 DEF ClientInv, StartLoop, Ask, registry, known
  <2>1. TypeOK'
    BY SomeAttempt DEF TypeOK
  <2>2. UNCHANGED Reads!Scanned
    BY DEF Reads!Scanned, Reads!Holds
  <2>3. AsksForCall' /\ KnowsRegistry'
    BY <2>2 DEF AsksForCall, KnowsRegistry
  <2>4. ListProgress'
    BY DEF ListProgress
  <2>5. QED BY <2>1, <2>3, <2>4
<1>3. QED BY <1>1, <1>2 DEF GoOn

\* What RepositoriesOk and ArtifactsOk hand to GoOn.
LEMMA RepositoriesListed ==
    ASSUME ClientInv, RepositoriesOk
    PROVE  \E page \in SUBSET Repos :
              /\ GoOn(page, {})
              /\ whole' \in BOOLEAN /\ pc # "idle" /\ call.op = "list"
              /\ whole' => whole /\ \A a \in steady : Home[a] \in page
<1> USE DEF ClientInv, RepositoriesOk, Answered, Requesting, FirstPageOnly
<1>1. PICK page \in Pages(repos) : GoOn(page, {})
  OBVIOUS
<1>2. page \in SUBSET Repos /\ (Cardinality(repos) <= PageSize => page = repos)
  BY <1>1, WholePage DEF TypeOK
<1>3. pc # "idle" /\ call.op = "list"
  BY DEF AsksForCall, TypeOK, Reads!Call, Reads!NoCall, Ask
<1>4. \A a \in steady : Home[a] \in repos
  BY <1>3, ScannedIsThere DEF KnowsRegistry
<1>5. whole' = (whole /\ Cardinality(repos) <= PageSize)
  OBVIOUS
<1>6. whole' \in BOOLEAN /\ (whole' => whole /\ page = repos)
  BY <1>2, <1>5 DEF TypeOK
<1>7. QED BY <1>1, <1>2, <1>3, <1>4, <1>6

LEMMA ArtifactsListed ==
    ASSUME ClientInv, ArtifactsOk
    PROVE  \E listed \in SUBSET Artifacts :
              /\ GoOn(todo, listed)
              /\ whole' \in BOOLEAN /\ pc # "idle" /\ call.op = "list"
              /\ listed \subseteq ever
              /\ whole' => whole /\ \A a \in steady : a \in listed \/ Home[a] \in todo
<1> USE DEF ClientInv, ArtifactsOk, Answered, Requesting, FirstPageOnly
<1> DEFINE held == {a \in Artifacts : Home[a] = request.of}
           got(page) == {a \in page : Reads!hasScanSuccess(scan[a])}
<1>1. PICK page \in Pages(held) : GoOn(todo, found \cup got(page))
  OBVIOUS
<1>2. page \subseteq held /\ (Cardinality(held) <= PageSize => page = held)
  BY <1>1, WholePage
<1>3. pc # "idle" /\ call.op = "list"
  BY DEF AsksForCall, TypeOK, Reads!Call, Reads!NoCall, Ask
<1>4. got(page) \subseteq Reads!Scanned
  BY <1>2 DEF Exists, Reads!Scanned, Reads!Holds
<1>5. whole' = (whole /\ Cardinality(held) <= PageSize)
  OBVIOUS
<1>6. whole' \in BOOLEAN /\ (whole' => whole /\ page = held)
  BY <1>2, <1>5 DEF TypeOK
<1>7. found \cup got(page) \subseteq ever /\ found \cup got(page) \in SUBSET Artifacts
  BY <1>3, <1>4 DEF ListProgress, KnowsRegistry, TypeOK
<1>8. ASSUME whole', NEW a \in steady PROVE a \in found \cup got(page) \/ Home[a] \in todo
  <2>1. CASE Home[a] = request.of
    BY <1>3, <1>6, <1>8, <2>1 DEF KnowsRegistry, Reads!Scanned
  <2>2. CASE Home[a] # request.of
    BY <1>3, <1>6, <1>8, <2>2 DEF ListProgress
  <2>3. QED BY <2>1, <2>2
<1>9. QED BY <1>1, <1>3, <1>6, <1>7, <1>8

\* The registry changes, and steady and ever with it.
LEMMA ChangeKeeps ==
    ASSUME ClientInv, RegistryChanges
    PROVE  ClientInv'
<1> USE DEF ClientInv, RegistryChanges, Reads!Observe, loop, list
<1>1. repos' \subseteq Repos /\ scan' \in [Artifacts -> SUBSET (Reports \cup {Pending})]
      /\ signed' \subseteq Artifacts
  BY DEF TypeOK, Reads!Change, Reads!Rescan, Reads!ExternalSign, Reads!DeleteRepo,
         Reads!CreateRepo
<1>2. Reads!Observe
  BY DEF Reads!Change, Reads!Rescan, Reads!ExternalSign, Reads!DeleteRepo, Reads!CreateRepo
<1>3. (Reads!Scanned)' \subseteq Artifacts
  BY DEF Reads!Scanned
<1>4. TypeOK'
  BY <1>1, <1>2, <1>3, ClientAssumption DEF TypeOK
<1>5. AsksForCall' /\ KnowsRegistry'
  BY <1>2 DEF AsksForCall, KnowsRegistry
<1>6. ListProgress'
  BY <1>2 DEF ListProgress
<1>7. QED BY <1>4, <1>5, <1>6

\* An attempt that ends the call without a listing.
EndsCall == Exhausted \/ Refused \/ ReportOk \/ SignatureOk \/ BackoffCancelled

LEMMA EndKeeps ==
    ASSUME ClientInv, EndsCall
    PROVE  ClientInv'
<1>1. whole' \in BOOLEAN /\ \E result : Return(result)
  BY DEF EndsCall, Exhausted, Refused, ReportOk, SignatureOk, BackoffCancelled, ClientInv, TypeOK
<1>2. QED BY <1>1, ReturnKeeps

LEMMA StepClient == ClientInv /\ [Next]_vars => ClientInv'
<1> SUFFICES ASSUME ClientInv, [Next]_vars PROVE ClientInv'
  OBVIOUS
<1>1. CASE RepositoriesOk
  <2>1. PICK page \in SUBSET Repos :
            /\ GoOn(page, {})
            /\ whole' \in BOOLEAN /\ pc # "idle" /\ call.op = "list"
            /\ whole' => whole /\ \A a \in steady : Home[a] \in page
    BY <1>1, RepositoriesListed
  <2>2. QED BY <2>1, GoOnKeeps
<1>2. CASE ArtifactsOk
  <2>1. PICK listed \in SUBSET Artifacts :
            /\ GoOn(todo, listed)
            /\ whole' \in BOOLEAN /\ pc # "idle" /\ call.op = "list"
            /\ listed \subseteq ever
            /\ whole' => whole /\ \A a \in steady : a \in listed \/ Home[a] \in todo
    BY <1>2, ArtifactsListed
  <2>2. todo \in SUBSET Repos
    BY DEF ClientInv, TypeOK
  <2>3. QED BY <2>1, <2>2, GoOnKeeps
<1>3. CASE UNCHANGED vars
  <2>1. UNCHANGED Reads!Scanned
    BY <1>3 DEF vars, registry, Reads!Scanned, Reads!Holds
  <2>2. QED
    BY <1>3, <2>1 DEF vars, registry, known, loop, list, ClientInv, TypeOK, AsksForCall,
                      KnowsRegistry, ListProgress
<1>4. QED
  BY <1>1, <1>2, <1>3, BeginKeeps, LoopKeeps, EndKeeps, ChangeKeeps
     DEF Next, Attempt, Backoff, EndsCall

LEMMA ClientInvariant == Spec => []ClientInv
BY InitClient, StepClient, PTL DEF Spec

-----------------------------------------------------------------------------

\* The client's state is well-typed: no loop makes more attempts than maxRetries,
\* and none is in progress without a call (client.go:76-126).
THEOREM TypeCorrect == Spec => []TypeOK
BY ClientInvariant, PTL DEF ClientInv

-----------------------------------------------------------------------------
(* What the attempts of a loop met. *)

\* A loop in progress has met nothing but transient errors, one per attempt.
AnswersKept ==
    /\ answers \in Seq({"transient", "final", "ok"})
    /\ pc # "idle" =>
          /\ outcome = Reads!Waiting
          /\ Len(answers) = attempt
          /\ \A k \in 1..Len(answers) : answers[k] = "transient"
    /\ RetriesOnlyTransient

LEMMA WaitingIsNoError == Reads!Waiting # Reads!Error
BY DEF Reads!Waiting, Reads!Error

\* A loop that starts has met nothing.
LEMMA LoopStarts ==
    ASSUME NEW ask, StartLoop(ask), outcome' = Reads!Waiting
    PROVE  AnswersKept'
BY WaitingIsNoError DEF StartLoop, AnswersKept, RetriesOnlyTransient

\* The attempt that ends a call: the answers are those of attempt + 1 requests.
LEMMA LastAnswer ==
    ASSUME AnswersKept, pc # "idle", NEW answer \in {"transient", "final", "ok"}, Met(answer),
           NEW result, Return(result),
           (result = Reads!Error /\ answer = "transient") => attempt + 1 = maxRetries
    PROVE  AnswersKept'
<1>1. /\ answers' \in Seq({"transient", "final", "ok"})
      /\ Len(answers') = Len(answers) + 1
      /\ answers'[Len(answers')] = answer
      /\ \A k \in 1..Len(answers) : answers'[k] = "transient"
  BY DEF Met, AnswersKept
<1>2. pc' = "idle" /\ outcome' = result
  BY DEF Return, Reads!Return
<1>3. RetriesOnlyTransient'
  <2>1. \A k \in 1..Len(answers') : answers'[k] # "transient" => k = Len(answers')
    BY <1>1 DEF AnswersKept
  <2>2. (outcome' = Reads!Error /\ answers'[Len(answers')] = "transient")
            => Len(answers') = maxRetries
    BY <1>1, <1>2 DEF AnswersKept
  <2>3. QED BY <1>2, <2>1, <2>2 DEF RetriesOnlyTransient
<1>4. QED BY <1>1, <1>2, <1>3 DEF AnswersKept

LEMMA InitAnswers == Init => AnswersKept
BY WaitingIsNoError DEF Init, Reads!Init, AnswersKept, RetriesOnlyTransient

LEMMA StepAnswers == ClientInv /\ AnswersKept /\ [Next]_vars => AnswersKept'
<1> SUFFICES ASSUME ClientInv, AnswersKept, [Next]_vars PROVE AnswersKept'
  OBVIOUS
<1>1. ASSUME NEW c \in Reads!Call, Begin(c) PROVE AnswersKept'
  BY <1>1, LoopStarts DEF Begin, Reads!Begin
<1>2. CASE Retry
  <2>1. /\ pc = "request" /\ pc' = "backoff" /\ outcome' = outcome
        /\ answers' = Append(answers, "transient") /\ attempt' = attempt + 1
    BY <1>2 DEF Retry, Requesting, Met
  <2>2. /\ answers' \in Seq({"transient", "final", "ok"}) /\ Len(answers') = Len(answers) + 1
        /\ \A k \in 1..Len(answers') : answers'[k] = "transient"
    BY <2>1 DEF AnswersKept
  <2>3. RetriesOnlyTransient'
    BY <2>1, <2>2, WaitingIsNoError DEF AnswersKept, RetriesOnlyTransient
  <2>4. QED BY <2>1, <2>2, <2>3 DEF AnswersKept
<1>3. CASE Exhausted
  <2>1. attempt + 1 = maxRetries
    BY <1>3, SomeAttempt DEF Exhausted, ClientInv, TypeOK
  <2>2. QED BY <1>3, <2>1, LastAnswer DEF Exhausted, Requesting
<1>4. CASE Refused
  BY <1>4, LastAnswer DEF Refused, Answered, Requesting
<1>5. CASE ReportOk
  BY <1>5, LastAnswer DEF ReportOk, Answered, Requesting
<1>6. CASE SignatureOk
  BY <1>6, LastAnswer DEF SignatureOk, Answered, Requesting
<1>7. ASSUME NEW left, NEW listed, pc = "request", GoOn(left, listed) PROVE AnswersKept'
  <2>1. CASE Met("ok") /\ Return(Reads!Value("list", listed))
    BY <1>7, <2>1, LastAnswer
  <2>2. ASSUME NEW r \in left, StartLoop(Ask("artifacts", r)), outcome' = outcome
        PROVE  AnswersKept'
    BY <1>7, <2>2, LoopStarts DEF AnswersKept
  <2>3. QED BY <1>7, <2>1, <2>2 DEF GoOn
<1>8. CASE RepositoriesOk \/ ArtifactsOk
  BY <1>7, <1>8 DEF RepositoriesOk, ArtifactsOk, Answered, Requesting
<1>9. CASE BackoffElapses \/ ContextDone \/ RegistryChanges \/ UNCHANGED vars
  <2>1. UNCHANGED <<outcome, attempt, answers>> /\ (pc' = "idle" <=> pc = "idle")
        /\ (pc = "idle" => UNCHANGED <<pc, ctxDone>>)
    BY <1>9 DEF BackoffElapses, ContextDone, RegistryChanges, vars, loop, known, registry,
                Reads!Change, Reads!Rescan, Reads!ExternalSign, Reads!DeleteRepo,
                Reads!CreateRepo, Reads!Observe
  <2>2. QED BY <2>1, WaitingIsNoError DEF AnswersKept, RetriesOnlyTransient
<1>10. CASE BackoffCancelled
  <2>1. UNCHANGED <<answers, ctxDone>> /\ ctxDone /\ pc # "idle" /\ pc' = "idle"
    BY <1>10 DEF BackoffCancelled, Return
  <2>2. QED BY <2>1 DEF AnswersKept, RetriesOnlyTransient
<1>11. QED
  BY <1>1, <1>2, <1>3, <1>4, <1>5, <1>6, <1>8, <1>9, <1>10 DEF Next, Attempt, Backoff

\* A call repeats only requests that met a transient error, and gives up on one
\* only when maxRetries of them have failed or its context is done
\* (client.go:76-126), however many retries there are.
THEOREM OnlyTransientRetried == Spec => []RetriesOnlyTransient
<1>1. ClientInv /\ AnswersKept /\ [Next]_vars => (ClientInv /\ AnswersKept)'
  BY StepClient, StepAnswers
<1>2. QED BY InitClient, InitAnswers, <1>1, PTL DEF Spec, AnswersKept

-----------------------------------------------------------------------------

\* No step of the client is more than a step of the registry's reader.
LEMMA ReadsStep ==
    ASSUME ClientInv, [Next]_vars
    PROVE  [Reads!Next]_(Reads!vars)
<1> USE DEF Reads!vars, Reads!registry
<1>1. ASSUME NEW c \in Reads!Call, Begin(c) PROVE Reads!Next
  BY <1>1 DEF Begin, Reads!Next
<1>2. ASSUME Exhausted \/ Refused \/ BackoffCancelled PROVE Reads!Fail
  <2>1. pc # "idle" /\ Return(Reads!Error) /\ UNCHANGED whole
    BY <1>2 DEF Exhausted, Refused, BackoffCancelled, Requesting, Answered
  <2>2. QED BY <2>1 DEF Return, Reads!Fail, ClientInv, TypeOK
<1>3. ASSUME ReportOk PROVE Reads!AnswerReport
  <2>1. call.op = "report" /\ request.of = call.of
    BY <1>3 DEF ReportOk, Answered, Requesting, ClientInv, AsksForCall, TypeOK, Ask,
                Reads!Call, Reads!NoCall
  <2>2. QED BY <1>3, <2>1 DEF ReportOk, Return, Reads!AnswerReport
<1>4. ASSUME SignatureOk PROVE Reads!AnswerSignature
  <2>1. call.op = "signature" /\ request.of = call.of
    BY <1>4 DEF SignatureOk, Answered, Requesting, ClientInv, AsksForCall, TypeOK, Ask,
                Reads!Call, Reads!NoCall
  <2>2. QED BY <1>4, <2>1 DEF SignatureOk, Exists, Return, Reads!AnswerSignature
<1>5. ASSUME NEW left \in SUBSET Repos, NEW listed \in SUBSET ever, GoOn(left, listed),
             whole' \in BOOLEAN, call.op = "list",
             whole' => whole /\ \A a \in steady : a \in listed \/ Home[a] \in left
      PROVE  [Reads!Next]_(Reads!vars)
  <2>1. CASE left = {} /\ Return(Reads!Value("list", listed))
    <3>1. Reads!AnswerList
      BY <1>5, <2>1 DEF Return, Reads!AnswerList, ClientInv, TypeOK
    <3>2. QED BY <3>1 DEF Reads!Next
  <2>2. CASE UNCHANGED <<registry, known, call, outcome>>
    <3>1. whole' = whole \/ Reads!Cut
      BY <1>5, <2>2 DEF Reads!Cut, registry, known, ClientInv, TypeOK
    <3>2. QED BY <2>2, <3>1 DEF Reads!Next, registry, known
  <2>3. QED BY <1>5, <2>1, <2>2 DEF GoOn
<1>6. CASE RepositoriesOk
  <2>1. PICK page \in SUBSET Repos :
            /\ GoOn(page, {})
            /\ whole' \in BOOLEAN /\ pc # "idle" /\ call.op = "list"
            /\ whole' => whole /\ \A a \in steady : Home[a] \in page
    BY <1>6, RepositoriesListed
  <2>2. QED BY <1>5, <2>1
<1>7. CASE ArtifactsOk
  <2>1. PICK listed \in SUBSET Artifacts :
            /\ GoOn(todo, listed)
            /\ whole' \in BOOLEAN /\ pc # "idle" /\ call.op = "list"
            /\ listed \subseteq ever
            /\ whole' => whole /\ \A a \in steady : a \in listed \/ Home[a] \in todo
    BY <1>7, ArtifactsListed
  <2>2. todo \in SUBSET Repos
    BY DEF ClientInv, TypeOK
  <2>3. QED BY <1>5, <2>1, <2>2
<1>8. ASSUME RegistryChanges PROVE Reads!Next
  BY <1>8 DEF RegistryChanges, Reads!Next
<1>9. ASSUME Retry \/ BackoffElapses \/ ContextDone \/ UNCHANGED vars PROVE UNCHANGED Reads!vars
  BY <1>9 DEF Retry, BackoffElapses, ContextDone, vars, registry, known
<1>10. QED
  BY <1>1, <1>2, <1>3, <1>4, <1>6, <1>7, <1>8, <1>9 DEF Next, Attempt, Backoff, Reads!Next

\* A call of the client is one look at the registry or one error, and a list has
\* every artifact that was scanned all the while as far as the pages reach
\* (client.go:72-344).
THEOREM Refinement == Spec => ImplementsReads
<1>1. Init => Reads!Init
  BY DEF Init
<1>2. QED BY ClientInvariant, <1>1, ReadsStep, PTL DEF Spec, ImplementsReads, Reads!Spec
=============================================================================
