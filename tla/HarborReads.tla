----------------------------- MODULE HarborReads -----------------------------
(***************************************************************************)
(* What the service and the reconciler take a call of the Harbor client    *)
(* for: one look at a registry that others change, or one error.  A list   *)
(* of a project is no single look; it has every artifact that was scanned  *)
(* all the while and none that never was, as far as the pages reach.       *)
(***************************************************************************)
EXTENDS Naturals

CONSTANTS
    Artifacts,   \* those of one project
    Repos,
    Home,        \* the repository of each artifact
    Reports,     \* the reports a scanner may have for an artifact
    Pending,     \* what a scanner has before it is done
    InitialRepos, InitialScan   \* the registry at first

VARIABLES
    repos,       \* the repositories in the registry
    scan,        \* what the scanners have for each artifact
    signed,      \* the artifacts with a cosign signature
    steady,      \* those scanned ever since the call began
    ever,        \* those scanned at some time since then
    whole,       \* no listing of the call was longer than a page
    call,        \* the call in progress
    outcome      \* what the last call returned

registry == <<repos, scan, signed>>
vars == <<registry, steady, ever, whole, call, outcome>>

\* A call is about an artifact or about the project.
Call == [op : {"report", "signature"}, of : Artifacts] \cup {[op |-> "list", of |-> "project"]}
NoCall == [op |-> "none", of |-> "project"]

\* An outcome is an error or one of three kinds of value.
Waiting == [kind |-> "none"]
Error == [kind |-> "error"]
Value(kind, v) == [kind |-> kind, value |-> v]

\* The listed status of a scanner is Success when it has a report.
hasScanSuccess(overview) == overview \cap Reports # {}

Holds(a) == Home[a] \in repos
Scanned == {a \in Artifacts : Holds(a) /\ hasScanSuccess(scan[a])}

Init ==
    /\ repos = InitialRepos
    /\ scan = InitialScan
    /\ signed = {}
    /\ steady = {} /\ ever = {} /\ whole = TRUE
    /\ call = NoCall
    /\ outcome = Waiting

-----------------------------------------------------------------------------
(* Others change the registry. *)

\* What the call knows is kept up with the change.
Observe ==
    /\ steady' = steady \cap Scanned'
    /\ ever' = ever \cup Scanned'
    /\ UNCHANGED <<whole, call, outcome>>

Rescan(a) ==
    /\ Holds(a)
    /\ \E results \in SUBSET (Reports \cup {Pending}) : scan' = [scan EXCEPT ![a] = results]
    /\ UNCHANGED <<repos, signed>>
    /\ Observe

ExternalSign(a) ==
    /\ Holds(a)
    /\ signed' = signed \cup {a}
    /\ UNCHANGED <<repos, scan>>
    /\ Observe

DeleteRepo(r) ==
    /\ r \in repos
    /\ repos' = repos \ {r}
    /\ scan' = [a \in Artifacts |-> IF Home[a] = r THEN {} ELSE scan[a]]
    /\ signed' = {a \in signed : Home[a] # r}
    /\ Observe

CreateRepo(r) ==
    /\ r \notin repos
    /\ repos' = repos \cup {r}
    /\ UNCHANGED <<scan, signed>>
    /\ Observe

Change ==
    \/ \E a \in Artifacts : Rescan(a) \/ ExternalSign(a)
    \/ \E r \in Repos : DeleteRepo(r) \/ CreateRepo(r)

-----------------------------------------------------------------------------
(* The calls. *)

Begin(c) ==
    /\ call = NoCall
    /\ call' = c
    /\ outcome' = Waiting
    /\ steady' = Scanned /\ ever' = Scanned /\ whole' = TRUE
    /\ UNCHANGED registry

Return(result) ==
    /\ call' = NoCall
    /\ outcome' = result
    /\ UNCHANGED <<registry, steady, ever>>

Fail ==
    /\ call # NoCall
    /\ Return(Error)
    /\ UNCHANGED whole

AnswerReport ==
    /\ call.op = "report"
    /\ \E report \in scan[call.of] \cap Reports : Return(Value("report", report))
    /\ UNCHANGED whole

AnswerSignature ==
    /\ call.op = "signature"
    /\ Holds(call.of)
    /\ Return(Value("signature", call.of \in signed))
    /\ UNCHANGED whole

AnswerList ==
    /\ call.op = "list"
    /\ whole' \in {whole, FALSE}
    /\ \E listed \in SUBSET ever :
          /\ whole' => steady \subseteq listed
          /\ Return(Value("list", listed))

\* The listings of a call turn out longer than a page.
Cut ==
    /\ call.op = "list"
    /\ whole' = FALSE
    /\ UNCHANGED <<registry, steady, ever, call, outcome>>

Next ==
    \/ Change
    \/ \E c \in Call : Begin(c)
    \/ Fail \/ AnswerReport \/ AnswerSignature \/ AnswerList \/ Cut

Spec == Init /\ [][Next]_vars
=============================================================================
