-------------------------- MODULE Readiness_proofs --------------------------
(***************************************************************************)
(* The readiness probe, for every list of checkers, every deadline that    *)
(* leaves a client its own timeout, and any number of probes: its type,    *)
(* that "ready" is earned and that blame has a reason.                     *)
(***************************************************************************)
EXTENDS Readiness, SequenceTheorems, TLAPS

\* A probe has run the checkers before the next one, and no other; until the
\* first has been run nothing of the budget is gone.
ProgressInv ==
    \A p \in Probes :
        /\ Len(seen[p]) = next[p] - 1
        /\ next[p] = 1 => elapsed[p] = 0

\* A critical checker that was run is either blamed or was found well.
VerdictInv ==
    \A p \in Probes : \A i \in 1..Len(Checkers) :
        (i < next[p] /\ Checkers[i] \in Critical /\ Checkers[i] \notin failed[p])
            => seen[p][i].ok /\ seen[p][i].takes <= ClientTimeout

\* "ready" is the last word of a probe that ran every checker and blames none.
AnswerInv ==
    \A p \in Probes : answer[p] = "ready" =>
        pc[p] = "answered" /\ failed[p] = {} /\ next[p] > Len(Checkers)

ReadinessInv ==
    /\ TypeOK
    /\ ProgressInv
    /\ VerdictInv
    /\ AnswerInv
    /\ BlameNeedsReason

-----------------------------------------------------------------------------

LEMMA CheckersLength == Len(Checkers) \in Nat
BY ReadinessAssumption, LenProperties

LEMMA Times ==
    /\ ClientTimeout \in Nat \ {0}
    /\ Budget \in Nat
    /\ ClientTimeout <= Budget
BY ReadinessAssumption

\* What a request is granted is within the budget and the client's timeout; it is
\* less than the latter only for a probe whose caller is gone, or whose budget the
\* request will use up.
LEMMA GrantedBounds ==
    ASSUME TypeOK, NEW p \in Probes
    PROVE  /\ Granted(p) \in Nat
           /\ Granted(p) <= ClientTimeout
           /\ elapsed[p] + Granted(p) \in 0..Budget
           /\ Granted(p) < ClientTimeout => p \in gone \/ elapsed[p] + Granted(p) = Budget
BY Times DEF TypeOK, Granted, Left

LEMMA InitReadiness == Init => ReadinessInv
<1> SUFFICES ASSUME Init PROVE ReadinessInv
  OBVIOUS
<1>1. \A p \in Probes : seen[p] = <<>> /\ Len(seen[p]) = 0 /\ seen[p] \in Seq(Conditions)
  BY EmptySeq DEF Init
<1>2. TypeOK
  <2>1. next \in [Probes -> 1..(Len(Checkers) + 1)] /\ elapsed \in [Probes -> 0..Budget]
    BY CheckersLength, ReadinessAssumption DEF Init
  <2>2. seen \in [Probes -> Seq(Conditions)]
    BY <1>1 DEF Init
  <2>3. QED BY <2>1, <2>2 DEF Init, TypeOK
<1>3. ProgressInv /\ VerdictInv /\ AnswerInv /\ BlameNeedsReason
  BY <1>1, CheckersLength DEF Init, ProgressInv, VerdictInv, AnswerInv, BlameNeedsReason
<1>4. QED BY <1>2, <1>3 DEF ReadinessInv

\* The steps that run no checker.
LEMMA OtherKeeps ==
    ASSUME ReadinessInv, NEW p \in Probes,
           ShuttingDown(p) \/ Begin(p) \/ HangUp(p) \/ Answer(p)
    PROVE  ReadinessInv'
<1> USE DEF ReadinessInv, ShuttingDown, Begin, HangUp, Answer
<1>1. TypeOK'
  BY DEF TypeOK
<1>2. ProgressInv' /\ VerdictInv'
  BY DEF ProgressInv, VerdictInv
<1>3. AnswerInv'
  BY DEF AnswerInv, TypeOK
<1>4. BlameNeedsReason'
  BY DEF BlameNeedsReason
<1>5. QED BY <1>1, <1>2, <1>3, <1>4

LEMMA SurroundingsKeep ==
    ASSUME ReadinessInv,
           SetShutdown \/ (\E d \in Dependencies : DependencyChanges(d)) \/ UNCHANGED vars
    PROVE  ReadinessInv'
<1> USE DEF ReadinessInv, SetShutdown, DependencyChanges, vars, probeVars
<1>1. TypeOK'
  BY DEF TypeOK
<1>2. ProgressInv' /\ VerdictInv' /\ AnswerInv' /\ BlameNeedsReason'
  BY DEF ProgressInv, VerdictInv, AnswerInv, BlameNeedsReason
<1>3. QED BY <1>1, <1>2

\* A checker is run: it answers well in time, or it is blamed if it is critical.
LEMMA CheckKeeps ==
    ASSUME ReadinessInv, NEW p \in Probes, CheckOk(p) \/ CheckBad(p) \/ CheckTimesOut(p)
    PROVE  ReadinessInv'
<1> DEFINE d == Dependency(p)
           met == condition[d]
           n == next[p]
<1> USE DEF ReadinessInv
<1>0. /\ n \in 1..Len(Checkers) /\ d = Checkers[n]
      /\ met \in [ok : BOOLEAN, takes : Nat] /\ met \in Conditions
  <2>1. n \in 1..Len(Checkers)
    BY CheckersLength DEF TypeOK, CheckOk, CheckBad, CheckTimesOut, AtChecker
  <2>2. d \in Dependencies
    BY <2>1 DEF Dependency, Dependencies
  <2>3. QED BY <2>1, <2>2, ReadinessAssumption DEF TypeOK, Dependency
<1>1. PICK after \in Nat :
          /\ Checked(p, after)
          /\ after <= Granted(p)
          /\ \/ met.ok /\ met.takes <= ClientTimeout /\ UNCHANGED failed
             \/ Fails(p) /\ ~met.ok
             \/ Fails(p) /\ met.takes >= Granted(p) /\ after = Granted(p)
  <2>0. Granted(p) \in Nat /\ Granted(p) <= ClientTimeout /\ met.takes \in Nat
    BY <1>0, GrantedBounds
  <2>1. CASE CheckOk(p)
    <3>1. Checked(p, met.takes) /\ met.takes <= Granted(p) /\ met.ok /\ UNCHANGED failed
      BY <2>1 DEF CheckOk, AnswersInTime
    <3>2. met.takes <= ClientTimeout
      BY <2>0, <3>1, Times
    <3>3. QED BY <2>0, <3>1, <3>2
  <2>2. CASE CheckBad(p)
    <3>1. Checked(p, met.takes) /\ met.takes <= Granted(p) /\ ~met.ok /\ Fails(p)
      BY <2>2 DEF CheckBad, AnswersInTime
    <3>2. QED BY <2>0, <3>1
  <2>3. CASE CheckTimesOut(p)
    <3>1. Checked(p, Granted(p)) /\ met.takes >= Granted(p) /\ Fails(p)
      BY <2>3 DEF CheckTimesOut, TimesOut
    <3>2. QED BY <2>0, <3>1
  <2>4. QED BY <2>1, <2>2, <2>3
<1>2. /\ pc' = pc /\ gone' = gone /\ answer' = answer /\ pc[p] = "checking"
      /\ \A q \in Probes : /\ next'[q] = IF q = p THEN n + 1 ELSE next[q]
                           /\ elapsed'[q] = IF q = p THEN elapsed[p] + after ELSE elapsed[q]
                           /\ seen'[q] = IF q = p THEN Append(seen[p], met) ELSE seen[q]
  BY <1>1 DEF Checked, TypeOK, CheckOk, CheckBad, CheckTimesOut, AtChecker
<1>3. /\ \A q \in Probes : q # p => failed'[q] = failed[q]
      /\ failed[p] \subseteq failed'[p]
      /\ failed'[p] \subseteq Critical
      /\ \A c \in failed'[p] : c \in failed[p] \/ c = d
      /\ UNCHANGED failed \/ (d \in Critical => d \in failed'[p])
  BY <1>1 DEF Fails, TypeOK
<1>4. /\ Len(seen[p]) = n - 1 /\ Len(seen'[p]) = n /\ seen'[p] \in Seq(Conditions)
      /\ seen'[p][n] = met
      /\ \A i \in 1..(n - 1) : seen'[p][i] = seen[p][i]
  <2>1. seen[p] \in Seq(Conditions) /\ Len(seen[p]) = n - 1 /\ n \in Nat
    BY <1>0 DEF TypeOK, ProgressInv
  <2>2. seen'[p] = Append(seen[p], met)
    BY <1>2
  <2>3. /\ Append(seen[p], met) \in Seq(Conditions)
        /\ Len(Append(seen[p], met)) = Len(seen[p]) + 1
        /\ Append(seen[p], met)[Len(seen[p]) + 1] = met
        /\ \A i \in 1..Len(seen[p]) : Append(seen[p], met)[i] = seen[p][i]
    BY <1>0, <2>1, AppendProperties
  <2>4. QED BY <2>1, <2>2, <2>3
<1>5. elapsed[p] + after \in 0..Budget
  BY <1>1, GrantedBounds, Times DEF TypeOK
<1>6. TypeOK'
  <2>1. condition' = condition /\ shutdownFlag' = shutdownFlag
    BY <1>1 DEF Checked
  <2>2. next' \in [Probes -> 1..(Len(Checkers) + 1)]
    BY <1>0, <1>1, CheckersLength DEF Checked, TypeOK
  <2>3. elapsed' \in [Probes -> 0..Budget]
    BY <1>1, <1>5 DEF Checked, TypeOK
  <2>4. failed' \in [Probes -> SUBSET Critical]
    BY <1>1 DEF Fails, TypeOK
  <2>5. seen' \in [Probes -> Seq(Conditions)]
    BY <1>1, <1>2, <1>4 DEF Checked, TypeOK
  <2>6. QED BY <1>2, <2>1, <2>2, <2>3, <2>4, <2>5 DEF TypeOK
<1>7. ProgressInv'
  <2>1. ASSUME NEW q \in Probes, q # p
        PROVE  Len(seen'[q]) = next'[q] - 1 /\ (next'[q] = 1 => elapsed'[q] = 0)
    BY <2>1, <1>2 DEF ProgressInv
  <2>2. Len(seen'[p]) = next'[p] - 1 /\ next'[p] # 1
    BY <1>0, <1>2, <1>4
  <2>3. QED BY <2>1, <2>2 DEF ProgressInv
<1>8. VerdictInv'
  <2> SUFFICES ASSUME NEW q \in Probes, NEW i \in 1..Len(Checkers), i < next'[q],
                      Checkers[i] \in Critical, Checkers[i] \notin failed'[q]
               PROVE  seen'[q][i].ok /\ seen'[q][i].takes <= ClientTimeout
    BY DEF VerdictInv
  <2>1. CASE q # p
    BY <2>1, <1>2, <1>3 DEF VerdictInv
  <2>2. CASE q = p /\ i < n
    <3>1. i \in 1..(n - 1) /\ seen'[p][i] = seen[p][i]
      BY <2>2, <1>0, <1>4, CheckersLength
    <3>2. seen[p][i].ok /\ seen[p][i].takes <= ClientTimeout
      BY <2>2, <1>3 DEF VerdictInv
    <3>3. QED BY <2>2, <3>1, <3>2
  <2>3. CASE q = p /\ i = n
    BY <2>3, <1>0, <1>1, <1>3, <1>4 DEF Fails, TypeOK
  <2>4. QED BY <1>0, <1>2, <2>1, <2>2, <2>3
<1>9. AnswerInv'
  BY <1>2, <1>3 DEF AnswerInv
<1>10. BlameNeedsReason'
  <2> SUFFICES ASSUME NEW q \in Probes, NEW i \in 1..Len(Checkers), Checkers[i] \in failed'[q]
               PROVE  /\ i <= Len(seen'[q])
                      /\ \/ ~seen'[q][i].ok
                         \/ seen'[q][i].takes >= ClientTimeout
                         \/ q \in gone'
                         \/ i > 1 /\ elapsed'[q] = Budget
    BY DEF BlameNeedsReason
  <2>1. CASE q # p
    BY <2>1, <1>2, <1>3 DEF BlameNeedsReason
  <2>2. CASE q = p /\ Checkers[i] \in failed[p]
    <3>1. i \in 1..(n - 1)
      BY <2>2, <1>0, <1>4 DEF BlameNeedsReason
    <3>2. elapsed[p] = Budget => elapsed'[p] = Budget
      <4>1. elapsed'[p] = elapsed[p] + after /\ after \in Nat
        BY <1>1, <1>2
      <4>2. elapsed[p] \in 0..Budget
        BY DEF TypeOK
      <4>3. QED BY <4>1, <4>2, <1>5, Times
    <3>3. seen'[p][i] = seen[p][i] /\ i <= Len(seen'[p])
      BY <3>1, <1>0, <1>4
    <3>4. \/ ~seen[p][i].ok
          \/ seen[p][i].takes >= ClientTimeout
          \/ p \in gone
          \/ i > 1 /\ elapsed[p] = Budget
      BY <2>2, Zenon DEF BlameNeedsReason
    <3>5. QED BY <2>2, <3>2, <3>3, <3>4, <1>2
  <2>3. CASE q = p /\ Checkers[i] \notin failed[p]
    <3>1. i = n
      BY <2>3, <1>0, <1>3, ReadinessAssumption
    <3>2. ~met.ok \/ (met.takes >= Granted(p) /\ after = Granted(p))
      BY <2>3, <1>1
    <3>3. CASE ~met.ok \/ met.takes >= ClientTimeout
      BY <2>3, <3>1, <3>3, <1>0, <1>4
    <3>4. CASE met.takes >= Granted(p) /\ after = Granted(p) /\ Granted(p) < ClientTimeout
      <4>1. p \in gone \/ elapsed'[p] = Budget
        BY <3>4, <1>2, GrantedBounds
      <4>2. n = 1 => p \in gone
        BY <3>4, Times DEF ProgressInv, Granted, Left
      <4>3. QED BY <2>3, <3>1, <4>1, <4>2, <1>0, <1>2, <1>4
    <3>5. QED BY <3>2, <3>3, <3>4, <1>0, GrantedBounds, Times
  <2>4. QED BY <2>1, <2>2, <2>3
<1>11. QED BY <1>6, <1>7, <1>8, <1>9, <1>10

LEMMA ReadinessInvariant == Spec => []ReadinessInv
<1>1. ReadinessInv /\ [Next]_vars => ReadinessInv'
  BY OtherKeeps, SurroundingsKeep, CheckKeeps DEF Next, ProbeStep
<1>2. QED BY InitReadiness, <1>1, PTL DEF Spec

-----------------------------------------------------------------------------

\* The state of the probes is well-typed: none uses more than its budget.
THEOREM TypeCorrect == Spec => []TypeOK
<1>1. ReadinessInv => TypeOK BY DEF ReadinessInv
<1>2. QED BY <1>1, ReadinessInvariant, PTL

\* A probe that says "ready" has found every critical dependency well, in time
\* (handler.go:66-83).
THEOREM ReadyMeansChecked == Spec => []ReadyIsEarned
<1>1. ReadinessInv => ReadyIsEarned
  <2> SUFFICES ASSUME ReadinessInv, NEW p \in Probes, answer[p] = "ready",
                      NEW i \in 1..Len(Checkers), Checkers[i] \in Critical
               PROVE  i <= Len(seen[p]) /\ seen[p][i].ok /\ seen[p][i].takes <= ClientTimeout
    BY DEF ReadyIsEarned
  <2>1. failed[p] = {} /\ next[p] > Len(Checkers) /\ next[p] \in 1..(Len(Checkers) + 1)
    BY DEF ReadinessInv, AnswerInv, TypeOK
  <2>2. i < next[p] /\ i <= Len(seen[p])
    BY <2>1, CheckersLength DEF ReadinessInv, ProgressInv
  <2>3. QED BY <2>1, <2>2 DEF ReadinessInv, VerdictInv
<1>2. QED BY <1>1, ReadinessInvariant, PTL

\* A dependency is named for what it answered, for a caller that is gone, or
\* because those before it used up the deadline (handler.go:62-73).
THEOREM BlameIsExplained == Spec => []BlameNeedsReason
<1>1. ReadinessInv => BlameNeedsReason BY DEF ReadinessInv
<1>2. QED BY <1>1, ReadinessInvariant, PTL
=============================================================================
