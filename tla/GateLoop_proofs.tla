--------------------------- MODULE GateLoop_proofs ---------------------------
(***************************************************************************)
(* The gate's loop invariant and what follows from it for every set of     *)
(* reports, of any length: what the loop returns is the reference value,   *)
(* Evaluate passes exactly the clean reports, and no vulnerability is left *)
(* out of the counts.                                                      *)
(***************************************************************************)
EXTENDS GateLoop, FiniteSetTheorems, SequenceTheorems, TLAPS

\* The positions among the first n of the report whose label is l.
CountedAs(l, n) == {k \in 1..n : SeverityString(SeverityOf(vulns[k])) = l}

\* The positions among the first n that violate the threshold.
ViolatingUpTo(n) == {k \in 1..n : Violates(threshold, vulns[k])}

\* A slice that lists the violating positions of the first n, in their order:
\* each at its rank, and nothing else.
Lists(slice, n) ==
    /\ Len(slice) = Cardinality(ViolatingUpTo(n))
    /\ \A k \in ViolatingUpTo(n) :
          slice[Rank(ViolatingUpTo(n), k)] = ViolationDetail(vulns[k])
    /\ \A m \in 1..Len(slice) :
          \E k \in ViolatingUpTo(n) : Rank(ViolatingUpTo(n), k) = m

\* What the loop has established about the vulnerabilities it went past.
LoopInv ==
    /\ TypeOK
    /\ report.nil => i = 1
    /\ ~report.nil => i <= Len(vulns) + 1
    /\ \A k \in 1..(i-1) : ~Malformed(vulns[k])
    /\ violations = <<>> <=> \A k \in 1..(i-1) : ~Violates(threshold, vulns[k])
    /\ \A l \in CanonicalLabel : cveCounts[l] = Cardinality(CountedAs(l, i-1))
    /\ Lists(violations, i-1)

\* What a returned decision is worth.
ReturnInv ==
    returned =>
        /\ decision = Evaluate(threshold, report)
        /\ decision.pass <=> Clean(threshold, report)
        /\ decision.pass => /\ decision.cveCounts = cveCounts
                            /\ i = Len(vulns) + 1
        /\ ~decision.pass =>
              \/ decision.violations # <<>>
              \/ report.nil
              \/ \E k \in DOMAIN vulns :
                    Malformed(vulns[k]) /\ decision.cveCounts = ZeroCounts

IInv == LoopInv /\ ReturnInv

-----------------------------------------------------------------------------
\* ParseSeverity always yields a level, the canonical string of a level is one
\* of the five labels.
LEMMA SeverityOfType ==
    ASSUME NEW v \in Vulnerability
    PROVE  /\ SeverityOf(v) \in Severity
           /\ SeverityString(SeverityOf(v)) \in CanonicalLabel
           /\ Malformed(v) \in BOOLEAN
<1>1. SeverityOf(v) \in Severity
  BY DEF SeverityOf, ParseSeverity, Severity, SeverityNone, SeverityLow,
         SeverityMedium, SeverityHigh, SeverityCritical
<1>2. SeverityString(SeverityOf(v)) \in CanonicalLabel
  BY <1>1 DEF CanonicalLabel
<1>3. Malformed(v) \in BOOLEAN
  BY DEF Malformed, ParseSeverity
<1>4. QED BY <1>1, <1>2, <1>3

\* A report that is not nil holds a sequence of vulnerabilities.
LEMMA ReportType ==
    ASSUME report \in Reports
    PROVE  /\ vulns \in Seq(Vulnerability)
           /\ report.nil \in BOOLEAN
           /\ report.nil => vulns = <<>>
<1>1. report = NilReport \/ (report = ScanReport(vulns) /\ vulns \in Seq(Vulnerability))
  BY ReportsAssumption DEF vulns
<1>2. CASE report = NilReport
  BY <1>2 DEF NilReport, vulns
<1>3. CASE report = ScanReport(vulns) /\ vulns \in Seq(Vulnerability)
  BY <1>3 DEF ScanReport
<1>4. QED BY <1>1, <1>2, <1>3

\* Going past one more vulnerability adds its position to the set of its own
\* label and to no other.
LEMMA CountedAsStep ==
    ASSUME NEW n \in Nat, NEW l \in CanonicalLabel
    PROVE  /\ IsFiniteSet(CountedAs(l, n))
           /\ Cardinality(CountedAs(l, n)) \in Nat
           /\ Cardinality(CountedAs(l, n + 1)) =
                IF SeverityString(SeverityOf(vulns[n + 1])) = l
                THEN Cardinality(CountedAs(l, n)) + 1
                ELSE Cardinality(CountedAs(l, n))
<1>1. IsFiniteSet(CountedAs(l, n))
  <2>1. IsFiniteSet(1..n) BY FS_Interval
  <2>2. CountedAs(l, n) \subseteq 1..n BY DEF CountedAs
  <2>3. QED BY <2>1, <2>2, FS_Subset
<1>2. Cardinality(CountedAs(l, n)) \in Nat
  BY <1>1, FS_CardinalityType
<1>3. CASE SeverityString(SeverityOf(vulns[n + 1])) = l
  <2>1. CountedAs(l, n + 1) = CountedAs(l, n) \cup {n + 1}
    BY <1>3 DEF CountedAs
  <2>2. n + 1 \notin CountedAs(l, n) BY DEF CountedAs
  <2>3. QED BY <1>1, <1>2, <1>3, <2>1, <2>2, FS_AddElement
<1>4. CASE SeverityString(SeverityOf(vulns[n + 1])) # l
  <2>1. CountedAs(l, n + 1) = CountedAs(l, n)
    BY <1>4 DEF CountedAs
  <2>2. QED BY <1>1, <1>2, <1>4, <2>1
<1>5. QED BY <1>1, <1>2, <1>3, <1>4

\* Going past one more vulnerability adds its position, with the greatest rank,
\* if it violates the threshold; the ranks of the others stay.
LEMMA ViolatingStep ==
    ASSUME NEW n \in Nat
    PROVE  LET S == ViolatingUpTo(n)
               T == ViolatingUpTo(n + 1)
           IN  /\ IsFiniteSet(S) /\ Cardinality(S) \in Nat
               /\ ~Violates(threshold, vulns[n + 1]) => T = S
               /\ Violates(threshold, vulns[n + 1]) =>
                     /\ T = S \cup {n + 1}
                     /\ Cardinality(T) = Cardinality(S) + 1
                     /\ Rank(T, n + 1) = Cardinality(S) + 1
                     /\ \A k \in S : Rank(T, k) = Rank(S, k)
               /\ \A k \in S : Rank(S, k) \in 1..Cardinality(S)
<1> DEFINE S == ViolatingUpTo(n)
           T == ViolatingUpTo(n + 1)
<1>1. IsFiniteSet(S) /\ Cardinality(S) \in Nat
  <2>1. IsFiniteSet(1..n) BY FS_Interval
  <2>2. S \subseteq 1..n BY DEF ViolatingUpTo
  <2>3. IsFiniteSet(S) BY <2>1, <2>2, FS_Subset
  <2>4. QED BY <2>3, FS_CardinalityType
<1>2. ~Violates(threshold, vulns[n + 1]) => T = S
  BY DEF ViolatingUpTo
<1>3. ASSUME Violates(threshold, vulns[n + 1])
      PROVE  /\ T = S \cup {n + 1}
             /\ Cardinality(T) = Cardinality(S) + 1
             /\ Rank(T, n + 1) = Cardinality(S) + 1
             /\ \A k \in S : Rank(T, k) = Rank(S, k)
  <2>1. T = S \cup {n + 1} /\ n + 1 \notin S
    BY <1>3 DEF ViolatingUpTo
  <2>2. Cardinality(T) = Cardinality(S) + 1
    BY <1>1, <2>1, FS_AddElement
  <2>3. {j \in T : j <= n + 1} = T
    BY DEF ViolatingUpTo
  <2>4. ASSUME NEW k \in S PROVE Rank(T, k) = Rank(S, k)
    <3>1. {j \in T : j <= k} = {j \in S : j <= k}
      BY <2>1 DEF ViolatingUpTo
    <3>2. QED BY <3>1 DEF Rank
  <2>5. QED BY <2>1, <2>2, <2>3, <2>4 DEF Rank
<1>4. ASSUME NEW k \in S PROVE Rank(S, k) \in 1..Cardinality(S)
  <2> DEFINE U == {j \in S : j <= k}
  <2>1. U \subseteq S /\ k \in U
    BY DEF ViolatingUpTo
  <2>2. IsFiniteSet(U) /\ Cardinality(U) <= Cardinality(S)
    BY <1>1, <2>1, FS_Subset
  <2>3. Cardinality(U) \in Nat /\ Cardinality(U) # 0
    BY <2>1, <2>2, FS_CardinalityType, FS_EmptySet
  <2>4. QED BY <1>1, <2>2, <2>3 DEF Rank
<1>5. QED BY <1>1, <1>2, <1>3, <1>4

\* One more violation goes to the end of the slice.
LEMMA ListStep ==
    ASSUME NEW n \in Nat, NEW D, NEW slice \in Seq(D), NEW longer,
           Lists(slice, n), ViolationDetail(vulns[n + 1]) \in D,
           longer = IF Violates(threshold, vulns[n + 1])
                    THEN Append(slice, ViolationDetail(vulns[n + 1]))
                    ELSE slice
    PROVE  Lists(longer, n + 1)
<1> DEFINE S == ViolatingUpTo(n)
           T == ViolatingUpTo(n + 1)
           d == ViolationDetail(vulns[n + 1])
<1>1. CASE ~Violates(threshold, vulns[n + 1])
  <2>1. T = S /\ longer = slice
    BY <1>1, ViolatingStep
  <2>2. QED BY <2>1 DEF Lists
<1>2. CASE Violates(threshold, vulns[n + 1])
  <2>1. /\ longer = Append(slice, d)
        /\ Len(longer) = Len(slice) + 1 /\ longer[Len(slice) + 1] = d
        /\ \A m \in 1..Len(slice) : longer[m] = slice[m]
    BY <1>2, AppendProperties
  <2>2. /\ T = S \cup {n + 1} /\ Cardinality(T) = Cardinality(S) + 1
        /\ Rank(T, n + 1) = Cardinality(S) + 1
        /\ \A k \in S : Rank(T, k) = Rank(S, k) /\ Rank(S, k) \in 1..Cardinality(S)
        /\ Cardinality(S) \in Nat
    BY <1>2, ViolatingStep
  <2>3. /\ Len(slice) = Cardinality(S)
        /\ \A k \in S : slice[Rank(S, k)] = ViolationDetail(vulns[k])
        /\ \A m \in 1..Len(slice) : \E k \in S : Rank(S, k) = m
    BY DEF Lists
  <2>4. ASSUME NEW k \in T PROVE longer[Rank(T, k)] = ViolationDetail(vulns[k])
    <3>1. CASE k \in S
      BY <3>1, <2>1, <2>2, <2>3
    <3>2. CASE k = n + 1
      BY <3>2, <2>1, <2>2, <2>3
    <3>3. QED BY <3>1, <3>2, <2>2
  <2>5. ASSUME NEW m \in 1..Len(longer) PROVE \E k \in T : Rank(T, k) = m
    <3>1. CASE m \in 1..Len(slice)
      <4>1. PICK k \in S : Rank(S, k) = m
        BY <3>1, <2>3
      <4>2. QED BY <4>1, <2>2
    <3>2. CASE m = Len(slice) + 1
      BY <3>2, <2>2, <2>3
    <3>3. QED BY <3>1, <3>2, <2>1, <2>2, <2>3
  <2>6. QED BY <2>1, <2>2, <2>3, <2>4, <2>5 DEF Lists
<1>3. QED BY <1>1, <1>2

\* A slice that lists the violating positions of the whole report is the
\* reference's: whichever position of a rank it chooses, the slice has it there.
LEMMA ListIsReference ==
    ASSUME NEW D, violations \in Seq(D), vulns \in Seq(Vulnerability),
           Lists(violations, Len(vulns))
    PROVE  violations = ViolationsOf(threshold, vulns)
<1> DEFINE bad == ViolatingIn(threshold, vulns)
<1>1. bad = ViolatingUpTo(Len(vulns))
  BY LenProperties DEF ViolatingIn, ViolatingUpTo
<1>2. ASSUME NEW m \in 1..Len(violations)
      PROVE  violations[m] = ViolationDetail(vulns[Nth(bad, m)])
  <2>1. \E k \in bad : Rank(bad, k) = m
    BY <1>1 DEF Lists
  <2>2. Nth(bad, m) \in bad /\ Rank(bad, Nth(bad, m)) = m
    BY <2>1 DEF Nth
  <2>3. QED BY <1>1, <2>2 DEF Lists
<1>3. ViolationsOf(threshold, vulns) =
        [m \in 1..Len(violations) |-> ViolationDetail(vulns[Nth(bad, m)])]
  BY <1>1 DEF ViolationsOf, Lists
<1>4. violations = [m \in 1..Len(violations) |-> violations[m]]
  BY LenProperties
<1>5. QED BY <1>2, <1>3, <1>4

LEMMA InitLoop == Init => IInv
<1> SUFFICES ASSUME Init PROVE IInv
  OBVIOUS
<1>1. TypeOK
  <2>1. cveCounts \in [CanonicalLabel -> Nat]
    BY DEF Init, ZeroCounts
  <2>2. violations \in Seq([cveID : CVE, severity : CanonicalLabel])
    BY EmptySeq DEF Init
  <2>3. decision.pass = FALSE /\ decision.reason = ""
    BY DEF Init, NoDecision, Decision
  <2>4. i \in Nat \ {0}
    BY DEF Init
  <2>5. decision.pass \in BOOLEAN /\ returned \in BOOLEAN
    BY <2>3, Zenon DEF Init
  <2>6. decision.reason \in Reason
    BY <2>3 DEF Reason
  <2>7. QED BY <2>1, <2>2, <2>4, <2>5, <2>6 DEF Init, TypeOK
<1>2. ASSUME NEW l \in CanonicalLabel
      PROVE  cveCounts[l] = Cardinality(CountedAs(l, i - 1))
  <2>1. CountedAs(l, i - 1) = {} BY DEF Init, CountedAs
  <2>2. QED BY <2>1, FS_EmptySet DEF Init, ZeroCounts
<1>3. report.nil \in BOOLEAN /\ vulns \in Seq(Vulnerability)
  BY ReportType DEF Init
<1>4. Lists(violations, i - 1)
  <2>1. ViolatingUpTo(i - 1) = {} /\ violations = <<>> /\ Len(violations) = 0
    BY EmptySeq DEF Init, ViolatingUpTo
  <2>2. QED BY <2>1, FS_EmptySet DEF Lists
<1>5. LoopInv
  BY <1>1, <1>2, <1>3, <1>4 DEF Init, LoopInv
<1>6. ReturnInv
  BY DEF Init, ReturnInv
<1>7. QED BY <1>5, <1>6 DEF IInv

LEMMA ListsStay ==
    ASSUME Lists(violations, i - 1), UNCHANGED <<threshold, report, i, violations>>
    PROVE  Lists(violations, i - 1)'
<1>1. ViolatingUpTo(i - 1)' = ViolatingUpTo(i - 1) /\ vulns' = vulns
  BY DEF ViolatingUpTo, vulns
<1>2. QED BY <1>1 DEF Lists

\* A return leaves everything the loop invariant speaks of alone.
LEMMA ReturnKeepsLoop ==
    ASSUME LoopInv, NEW d, Return(d), d.pass \in BOOLEAN, d.reason \in Reason
    PROVE  LoopInv'
<1>1. TypeOK'
  BY DEF LoopInv, TypeOK, Return
<1>2. QED
  BY <1>1, ListsStay DEF LoopInv, Return, CountedAs, vulns

LEMMA CountOneKeepsLoop ==
    ASSUME LoopInv, CountOne
    PROVE  LoopInv'
<1> DEFINE v == vulns[i]
           s == SeverityString(SeverityOf(v))
<1> USE DEF LoopInv
<1>1. vulns \in Seq(Vulnerability) /\ report.nil \in BOOLEAN
  BY ReportType DEF TypeOK
<1>2. i \in DOMAIN vulns /\ v \in Vulnerability
  BY <1>1 DEF CountOne, TypeOK
<1>3. s \in CanonicalLabel /\ SeverityOf(v) \in Severity
  BY <1>2, SeverityOfType
<1>4. ViolationDetail(v) \in [cveID : CVE, severity : CanonicalLabel]
  BY <1>2, <1>3 DEF ViolationDetail, Vulnerability
<1>5. /\ threshold' = threshold /\ report' = report /\ vulns' = vulns
      /\ returned' = returned /\ decision' = decision /\ i' = i + 1
      /\ i' - 1 = i /\ i - 1 \in Nat /\ (i - 1) + 1 = i
  BY DEF CountOne, vulns, TypeOK
<1>6. TypeOK'
  <2>1. cveCounts' \in [CanonicalLabel -> Nat]
    BY <1>3 DEF TypeOK, CountOne
  <2>2. violations' \in Seq([cveID : CVE, severity : CanonicalLabel])
    <3>1. violations \in Seq([cveID : CVE, severity : CanonicalLabel])
      BY DEF TypeOK
    <3>2. Append(violations, ViolationDetail(v)) \in Seq([cveID : CVE, severity : CanonicalLabel])
      BY <3>1, <1>4, AppendProperties
    <3>3. QED BY <3>1, <3>2 DEF CountOne
  <2>3. QED BY <1>5, <2>1, <2>2 DEF TypeOK
<1>7. (\A k \in 1..(i-1) : ~Malformed(vulns[k]))'
  BY <1>5 DEF CountOne, TypeOK
<1>8. (violations = <<>> <=> \A k \in 1..(i-1) : ~Violates(threshold, vulns[k]))'
  <2>1. CASE Violates(threshold, v)
    <3>1. violations' # <<>>
      BY <2>1, <1>4 DEF CountOne, TypeOK
    <3>2. QED BY <3>1, <2>1, <1>5 DEF TypeOK, Violates
  <2>2. CASE ~Violates(threshold, v)
    BY <2>2, <1>5 DEF CountOne, TypeOK, Violates
  <2>3. QED BY <2>1, <2>2
<1>9. ASSUME NEW l \in CanonicalLabel
      PROVE  cveCounts'[l] = Cardinality(CountedAs(l, i - 1)')
  <2>1. CountedAs(l, i - 1)' = CountedAs(l, (i - 1) + 1)
    BY <1>5 DEF CountedAs
  <2>2. Cardinality(CountedAs(l, (i - 1) + 1)) =
          IF s = l THEN Cardinality(CountedAs(l, i - 1)) + 1
                   ELSE Cardinality(CountedAs(l, i - 1))
    <3>1. \A n \in Nat :
             Cardinality(CountedAs(l, n + 1)) =
               IF SeverityString(SeverityOf(vulns[n + 1])) = l
               THEN Cardinality(CountedAs(l, n)) + 1
               ELSE Cardinality(CountedAs(l, n))
      BY CountedAsStep
    <3>2. vulns[(i - 1) + 1] = v
      BY <1>5
    <3>3. QED BY <3>1, <3>2, <1>5
  <2>3. cveCounts'[l] = IF s = l THEN cveCounts[l] + 1 ELSE cveCounts[l]
    BY <1>3 DEF CountOne, TypeOK
  <2>4. QED BY <2>1, <2>2, <2>3
<1>10. (~report.nil => i <= Len(vulns) + 1)' /\ (report.nil => i = 1)'
  BY <1>1, <1>5 DEF CountOne, TypeOK
<1>11. Lists(violations, i - 1)'
  <2>1. ViolatingUpTo(i - 1)' = ViolatingUpTo((i - 1) + 1)
    BY <1>5 DEF ViolatingUpTo
  <2>2. /\ violations' = IF Violates(threshold, vulns[(i - 1) + 1])
                         THEN Append(violations, ViolationDetail(vulns[(i - 1) + 1]))
                         ELSE violations
        /\ ViolationDetail(vulns[(i - 1) + 1]) \in [cveID : CVE, severity : CanonicalLabel]
        /\ violations \in Seq([cveID : CVE, severity : CanonicalLabel])
    BY <1>4, <1>5 DEF CountOne, TypeOK
  <2>3. Lists(violations', (i - 1) + 1)
    BY <1>5, <2>2, ListStep
  <2>4. QED BY <1>5, <2>1, <2>3 DEF Lists
<1>12. QED BY <1>6, <1>7, <1>8, <1>9, <1>10, <1>11

\* The loop that went past the whole report holds the reference's counts and
\* violations.
LEMMA EvaluateAtEnd ==
    ASSUME LoopInv, ~report.nil, i > Len(vulns)
    PROVE  /\ i = Len(vulns) + 1
           /\ violations # <<>> =>
                 Evaluate(threshold, report) =
                    Decision(FALSE, "vulnerability_exceeded", cveCounts, violations)
           /\ violations = <<>> =>
                 Evaluate(threshold, report) = Decision(TRUE, "", cveCounts, <<>>)
<1> USE DEF LoopInv
<1>1. vulns \in Seq(Vulnerability) /\ Len(vulns) \in Nat /\ DOMAIN vulns = 1..Len(vulns)
  BY ReportType, LenProperties DEF TypeOK
<1>2. i = Len(vulns) + 1 /\ i - 1 = Len(vulns)
  BY <1>1 DEF TypeOK
<1>3. \A k \in DOMAIN vulns : ~Malformed(vulns[k])
  BY <1>1, <1>2
<1>4. violations = <<>> <=> \A k \in DOMAIN vulns : ~Violates(threshold, vulns[k])
  BY <1>1, <1>2
<1>5. cveCounts = CountsOf(vulns)
  <2>1. \A l \in CanonicalLabel : cveCounts[l] = CountsOf(vulns)[l]
    BY <1>1, <1>2 DEF CountedAs, CountsOf
  <2>2. QED BY <2>1 DEF TypeOK, CountsOf
<1>6. violations = ViolationsOf(threshold, vulns)
  BY <1>1, <1>2, ListIsReference DEF TypeOK
<1>7. Evaluate(threshold, report) =
        IF \E k \in DOMAIN vulns : Violates(threshold, vulns[k])
        THEN Decision(FALSE, "vulnerability_exceeded", CountsOf(vulns), ViolationsOf(threshold, vulns))
        ELSE Decision(TRUE, "", CountsOf(vulns), <<>>)
  BY <1>3, Zenon DEF Evaluate, vulns
<1>8. QED BY <1>2, <1>4, <1>5, <1>6, <1>7

LEMMA StepLoop == IInv /\ [Next]_vars => IInv'
<1> SUFFICES ASSUME IInv, [Next]_vars PROVE IInv'
  OBVIOUS
<1> USE DEF IInv
<1>t. vulns \in Seq(Vulnerability) /\ report.nil \in BOOLEAN /\ (report.nil => vulns = <<>>)
  BY ReportType DEF LoopInv, TypeOK
<1>1. CASE ReturnNil
  <2>1. LoopInv'
    BY <1>1, ReturnKeepsLoop DEF ReturnNil, Decision, Reason
  <2>2. /\ decision' = Decision(FALSE, "scan_fetch_error", NoCounts, <<>>)
        /\ threshold' = threshold /\ report' = report /\ report.nil
    BY <1>1 DEF ReturnNil, Return
  <2>3. decision' = Evaluate(threshold, report)'
    BY <2>2, Zenon DEF Evaluate
  <2>4. ReturnInv'
    BY <2>2, <2>3 DEF Decision, ReturnInv, Clean
  <2>5. QED BY <2>1, <2>4
<1>2. CASE ReturnMalformed
  <2>1. LoopInv'
    BY <1>2, ReturnKeepsLoop DEF ReturnMalformed, Decision, Reason
  <2>2. i \in DOMAIN vulns /\ vulns' = vulns /\ report' = report
    BY <1>2, <1>t DEF ReturnMalformed, Return, LoopInv, TypeOK, vulns
  <2>3. ~Clean(threshold, report)
    BY <1>2, <2>2 DEF ReturnMalformed, Clean, vulns
  <2>4. decision' = Decision(FALSE, "vulnerability_exceeded", ZeroCounts, <<>>)
    BY <1>2 DEF ReturnMalformed, Return
  <2>5. threshold' = threshold /\ Clean(threshold, report)' = Clean(threshold, report)
    BY <1>2, <2>2 DEF ReturnMalformed, Return, Clean
  <2>6. Malformed(vulns[i])
    BY <1>2 DEF ReturnMalformed
  <2>7. decision' = Evaluate(threshold, report)'
    <3>1. ~report.nil /\ \E k \in DOMAIN report.vulnerabilities : Malformed(report.vulnerabilities[k])
      BY <1>2, <2>2, <2>6 DEF ReturnMalformed, vulns
    <3>2. QED BY <2>2, <2>4, <2>5, <3>1, Zenon DEF Evaluate
  <2>8. ReturnInv'
    BY <2>2, <2>3, <2>4, <2>5, <2>6, <2>7 DEF Decision, ReturnInv
  <2>9. QED BY <2>1, <2>8
<1>3. CASE CountOne
  <2>1. LoopInv'
    BY <1>3, CountOneKeepsLoop
  <2>2. ReturnInv'
    BY <1>3 DEF CountOne, ReturnInv
  <2>3. QED BY <2>1, <2>2
<1>4. CASE ReturnFail
  <2>1. LoopInv'
    BY <1>4, ReturnKeepsLoop DEF ReturnFail, Decision, Reason
  <2>2. PICK k \in 1..(i-1) : Violates(threshold, vulns[k])
    BY <1>4 DEF ReturnFail, LoopInv
  <2>3. k \in DOMAIN vulns
    BY <1>4, <1>t DEF ReturnFail, LoopInv, TypeOK
  <2>4. ~Clean(threshold, report)
    BY <2>2, <2>3 DEF Clean, vulns
  <2>5. Clean(threshold, report)' = Clean(threshold, report)
    BY <1>4 DEF ReturnFail, Return, Clean
  <2>6. decision'.pass = FALSE /\ decision'.violations = violations /\ violations # <<>>
    BY <1>4 DEF ReturnFail, Return, Decision
  <2>7. decision' = Evaluate(threshold, report)'
    <3>1. ~report.nil /\ i > Len(vulns) /\ violations # <<>>
      BY <1>4, <2>6 DEF ReturnFail
    <3>2. Evaluate(threshold, report) =
            Decision(FALSE, "vulnerability_exceeded", cveCounts, violations)
      BY <3>1, EvaluateAtEnd
    <3>3. QED BY <1>4, <3>2 DEF ReturnFail, Return
  <2>8. QED BY <2>1, <2>4, <2>5, <2>6, <2>7 DEF ReturnInv
<1>5. CASE ReturnPass
  <2>1. LoopInv'
    BY <1>5, ReturnKeepsLoop DEF ReturnPass, Decision, Reason
  <2>2. violations = <<>> /\ i = Len(vulns) + 1 /\ ~report.nil
    <3>1. violations = <<>>
      <4>1. violations \in Seq([cveID : CVE, severity : CanonicalLabel]) /\ Len(violations) = 0
        BY <1>5 DEF ReturnPass, LoopInv, TypeOK
      <4>2. QED BY <4>1, EmptySeq
    <3>2. ~report.nil
      BY <1>5 DEF ReturnPass
    <3>3. i > Len(vulns) /\ i <= Len(vulns) + 1
      BY <1>5, <3>2 DEF ReturnPass, LoopInv
    <3>4. i = Len(vulns) + 1
      BY <3>3, <1>t, LenProperties DEF LoopInv, TypeOK
    <3>5. QED BY <3>1, <3>2, <3>4
  <2>3. DOMAIN vulns = 1..(i-1)
    BY <2>2, <1>t DEF LoopInv, TypeOK
  <2>4. Clean(threshold, report)
    BY <2>2, <2>3 DEF Clean, LoopInv, vulns
  <2>5. Clean(threshold, report)' = Clean(threshold, report)
    BY <1>5 DEF ReturnPass, Return, Clean
  <2>6. decision'.pass = TRUE /\ decision'.cveCounts = cveCounts
    BY <1>5 DEF ReturnPass, Return, Decision
  <2>7. cveCounts' = cveCounts /\ i' = i /\ vulns' = vulns
    BY <1>5 DEF ReturnPass, Return, vulns
  <2>8. decision' = Evaluate(threshold, report)'
    <3>1. Evaluate(threshold, report) = Decision(TRUE, "", cveCounts, <<>>)
      BY <1>5, <2>2, EvaluateAtEnd DEF ReturnPass
    <3>2. QED BY <1>5, <3>1 DEF ReturnPass, Return
  <2>9. QED BY <2>1, <2>2, <2>4, <2>5, <2>6, <2>7, <2>8 DEF ReturnInv
<1>6. CASE UNCHANGED vars
  <2>1. LoopInv'
    BY <1>6, ListsStay DEF vars, LoopInv, TypeOK, CountedAs, vulns
  <2>2. ReturnInv'
    BY <1>6 DEF vars, ReturnInv, Clean, vulns
  <2>3. QED BY <2>1, <2>2
<1>7. QED BY <1>1, <1>2, <1>3, <1>4, <1>5, <1>6 DEF Next, Terminated

LEMMA LoopInvariant == Spec => []IInv
BY InitLoop, StepLoop, PTL DEF Spec

\* The evaluator's state is well-typed on every report.
THEOREM TypeCorrect == Spec => []TypeOK
<1>1. IInv => TypeOK BY DEF IInv, LoopInv
<1>2. QED BY <1>1, LoopInvariant, PTL

\* The loop returns the reference value, on every report and at every threshold:
\* Evaluate as SigningService uses it is what evaluator.go:24-84 computes.
THEOREM LoopIsReference == Spec => []DecisionIsReference
<1>1. IInv => DecisionIsReference
  BY DEF IInv, ReturnInv, DecisionIsReference
<1>2. QED BY <1>1, LoopInvariant, PTL

\* The gate passes exactly the clean reports, of any length, at any threshold
\* (evaluator.go:24-84).
THEOREM PassIsClean == Spec => []PassIffClean
<1>1. IInv => PassIffClean
  BY DEF IInv, ReturnInv, PassIffClean
<1>2. QED BY <1>1, LoopInvariant, PTL

\* A failing decision always names its cause.
THEOREM FailureIsExplained == Spec => []FailureExplained
<1>1. IInv => FailureExplained
  BY DEF IInv, ReturnInv, FailureExplained
<1>2. QED BY <1>1, LoopInvariant, PTL

-----------------------------------------------------------------------------
(* Counts *)

\* All findings of a map of counts, level by level.
Total(counts) ==
      counts[SeverityString(SeverityNone)] + counts[SeverityString(SeverityLow)]
    + counts[SeverityString(SeverityMedium)] + counts[SeverityString(SeverityHigh)]
    + counts[SeverityString(SeverityCritical)]

\* Different levels have different labels.
LEMMA LabelsDiffer ==
    ASSUME NEW s \in Severity, NEW t \in Severity, SeverityString(s) = SeverityString(t)
    PROVE  s = t
<1>1. s \in {0, 1, 2, 3, 4} /\ t \in {0, 1, 2, 3, 4}
  BY DEF Severity, SeverityNone, SeverityCritical
<1>2. SeverityString(s).word = CASE s = 0 -> "none" [] s = 1 -> "low" [] s = 2 -> "medium"
                                 [] s = 3 -> "high" [] OTHER -> "critical"
  BY <1>1 DEF SeverityString, SeverityNone, SeverityLow, SeverityMedium, SeverityHigh
<1>3. SeverityString(t).word = CASE t = 0 -> "none" [] t = 1 -> "low" [] t = 2 -> "medium"
                                 [] t = 3 -> "high" [] OTHER -> "critical"
  BY <1>1 DEF SeverityString, SeverityNone, SeverityLow, SeverityMedium, SeverityHigh
<1>4. QED BY <1>1, <1>2, <1>3

LEMMA DisjointUnion ==
    ASSUME NEW S, NEW T, IsFiniteSet(S), IsFiniteSet(T), S \cap T = {}
    PROVE  /\ IsFiniteSet(S \cup T)
           /\ Cardinality(S \cup T) = Cardinality(S) + Cardinality(T)
<1>1. Cardinality(S) \in Nat /\ Cardinality(T) \in Nat /\ Cardinality(S \cap T) = 0
  BY FS_CardinalityType, FS_EmptySet
<1>2. /\ IsFiniteSet(S \cup T)
      /\ Cardinality(S \cup T) = Cardinality(S) + Cardinality(T) - Cardinality(S \cap T)
  BY FS_Union, Zenon
<1>3. QED BY <1>1, <1>2

\* Every position of a report has one level, hence is in one of the five counts.
LEMMA CountsAddUp ==
    ASSUME NEW findings \in Seq(Vulnerability)
    PROVE  Total(CountsOf(findings)) = Len(findings)
<1> DEFINE D == DOMAIN findings
           At(s) == {k \in D : SeverityOf(findings[k]) = s}
<1>1. D = 1..Len(findings) /\ Len(findings) \in Nat
  BY LenProperties
<1>2. IsFiniteSet(D) /\ Cardinality(D) = Len(findings)
  BY <1>1, FS_Interval
<1>3. \A k \in D : SeverityOf(findings[k]) \in Severity
  BY ElementOfSeq, <1>1, SeverityOfType
<1>4. ASSUME NEW s \in Severity
      PROVE  IsFiniteSet(At(s)) /\ CountsOf(findings)[SeverityString(s)] = Cardinality(At(s))
  <2>1. IsFiniteSet(At(s))
    BY <1>2, FS_Subset
  <2>2. {k \in D : SeverityString(SeverityOf(findings[k])) = SeverityString(s)} = At(s)
    BY <1>3, LabelsDiffer
  <2>3. SeverityString(s) \in CanonicalLabel
    BY DEF CanonicalLabel
  <2>4. QED BY <2>1, <2>2, <2>3 DEF CountsOf
<1>5. /\ SeverityNone \in Severity /\ SeverityLow \in Severity /\ SeverityMedium \in Severity
      /\ SeverityHigh \in Severity /\ SeverityCritical \in Severity
  BY DEF Severity, SeverityNone, SeverityLow, SeverityMedium, SeverityHigh, SeverityCritical
<1> DEFINE U1 == At(0) \cup At(1)
           U2 == U1 \cup At(2)
           U3 == U2 \cup At(3)
           U4 == U3 \cup At(4)
<1>6. Total(CountsOf(findings)) =
        Cardinality(At(0)) + Cardinality(At(1)) + Cardinality(At(2)) + Cardinality(At(3)) + Cardinality(At(4))
  BY <1>4, <1>5 DEF Total, SeverityNone, SeverityLow, SeverityMedium, SeverityHigh, SeverityCritical
<1>7. \A s \in {0, 1, 2, 3, 4} : IsFiniteSet(At(s))
  BY <1>4, <1>5 DEF SeverityNone, SeverityLow, SeverityMedium, SeverityHigh, SeverityCritical
<1>8. /\ At(0) \cap At(1) = {} /\ U1 \cap At(2) = {} /\ U2 \cap At(3) = {} /\ U3 \cap At(4) = {}
      /\ U4 = D
  <2>1. \A k \in D : SeverityOf(findings[k]) \in {0, 1, 2, 3, 4}
    BY <1>3 DEF Severity, SeverityNone, SeverityCritical
  <2>2. At(0) \cap At(1) = {} /\ U1 \cap At(2) = {} /\ U2 \cap At(3) = {} /\ U3 \cap At(4) = {}
    OBVIOUS
  <2>3. U4 \subseteq D
    OBVIOUS
  <2>4. ASSUME NEW k \in D PROVE k \in U4
    BY <2>1
  <2>5. QED BY <2>2, <2>3, <2>4
<1>9. IsFiniteSet(U1) /\ Cardinality(U1) = Cardinality(At(0)) + Cardinality(At(1))
  <2> HIDE DEF At
  <2>1. QED BY <1>7, <1>8, DisjointUnion, Zenon
<1>10. IsFiniteSet(U2) /\ Cardinality(U2) = Cardinality(U1) + Cardinality(At(2))
  <2> HIDE DEF At, U1
  <2>1. QED BY <1>7, <1>8, <1>9, DisjointUnion, Zenon
<1>11. IsFiniteSet(U3) /\ Cardinality(U3) = Cardinality(U2) + Cardinality(At(3))
  <2> HIDE DEF At, U2
  <2>1. QED BY <1>7, <1>8, <1>10, DisjointUnion, Zenon
<1>12. Cardinality(U4) = Cardinality(U3) + Cardinality(At(4))
  <2> HIDE DEF At, U3
  <2>1. QED BY <1>7, <1>8, <1>11, DisjointUnion, Zenon
<1>13. QED
  <2> HIDE DEF At, U1, U2, U3, U4, D
  <2>1. \A s \in {0, 1, 2, 3, 4} : Cardinality(At(s)) \in Nat
    BY <1>7, FS_CardinalityType
  <2>2. Cardinality(U4) = Len(findings)
    BY <1>2, <1>8
  <2>3. QED BY <2>1, <2>2, <1>6, <1>9, <1>10, <1>11, <1>12

\* Whether the report passed or violations were found, no finding is left out of
\* the counts and none is counted twice (evaluator.go:34-62).
THEOREM EveryFindingIsCounted ==
    Spec => [](returned /\ (decision.pass \/ decision.violations # <<>>)
                  => Total(decision.cveCounts) = Len(vulns))
<1>1. IInv => (returned /\ (decision.pass \/ decision.violations # <<>>)
                  => Total(decision.cveCounts) = Len(vulns))
  <2> SUFFICES ASSUME IInv, returned, decision.pass \/ decision.violations # <<>>
               PROVE  Total(decision.cveCounts) = Len(vulns)
    OBVIOUS
  <2>1. decision = Evaluate(threshold, report)
    BY DEF IInv, ReturnInv
  <2>2. vulns \in Seq(Vulnerability)
    BY ReportType DEF IInv, LoopInv, TypeOK
  <2>3. decision.cveCounts = CountsOf(vulns)
    <3>1. ASSUME report.nil PROVE FALSE
      BY <2>1, <3>1 DEF Evaluate, Decision
    <3>2. ASSUME ~report.nil, \E k \in DOMAIN vulns : Malformed(vulns[k]) PROVE FALSE
      BY <2>1, <3>2 DEF Evaluate, Decision, vulns
    <3>3. CASE ~report.nil /\ \A k \in DOMAIN vulns : ~Malformed(vulns[k])
      <4>1. Evaluate(threshold, report) =
              IF \E k \in DOMAIN vulns : Violates(threshold, vulns[k])
              THEN Decision(FALSE, "vulnerability_exceeded", CountsOf(vulns), ViolationsOf(threshold, vulns))
              ELSE Decision(TRUE, "", CountsOf(vulns), <<>>)
        BY <3>3, Zenon DEF Evaluate, vulns
      <4>2. decision.cveCounts = CountsOf(vulns)
        <5>1. CASE \E k \in DOMAIN vulns : Violates(threshold, vulns[k])
          <6>1. decision =
                  Decision(FALSE, "vulnerability_exceeded", CountsOf(vulns), ViolationsOf(threshold, vulns))
            BY <2>1, <4>1, <5>1
          <6>2. QED BY <6>1 DEF Decision
        <5>2. CASE ~\E k \in DOMAIN vulns : Violates(threshold, vulns[k])
          <6>1. decision = Decision(TRUE, "", CountsOf(vulns), <<>>)
            BY <2>1, <4>1, <5>2
          <6>2. QED BY <6>1 DEF Decision
        <5>3. QED BY <5>1, <5>2
      <4>3. QED BY <4>2
    <3>4. QED BY <3>1, <3>2, <3>3
  <2>4. QED BY <2>2, <2>3, CountsAddUp
<1>2. QED BY <1>1, LoopInvariant, PTL

-----------------------------------------------------------------------------
(* The threshold *)

\* Raising the threshold never refuses a report that passed before, and at the
\* lowest threshold, "None", only a report without findings passes.
THEOREM ThresholdOrdersGates ==
    ASSUME NEW r \in Reports, NEW low \in Severity, NEW high \in Severity, low <= high
    PROVE  /\ Clean(low, r) => Clean(high, r)
           /\ Clean(SeverityNone, r) <=> ~r.nil /\ r.vulnerabilities = <<>>
<1>1. r.vulnerabilities \in Seq(Vulnerability)
  <2>1. r = NilReport \/ r.vulnerabilities \in Seq(Vulnerability)
    BY ReportsAssumption
  <2>2. NilReport.vulnerabilities = <<>> /\ <<>> \in Seq(Vulnerability)
    BY EmptySeq DEF NilReport
  <2>3. QED BY <2>1, <2>2
<1>2. DOMAIN r.vulnerabilities = 1..Len(r.vulnerabilities) /\ Len(r.vulnerabilities) \in Nat
  BY <1>1, LenProperties
<1>3. \A k \in DOMAIN r.vulnerabilities : SeverityOf(r.vulnerabilities[k]) \in Severity
  BY <1>1, <1>2, ElementOfSeq, SeverityOfType
<1>4. Clean(low, r) => Clean(high, r)
  BY <1>3 DEF Clean, Violates, Severity, SeverityNone, SeverityCritical
<1>5. Clean(SeverityNone, r) <=> ~r.nil /\ DOMAIN r.vulnerabilities = {}
  BY <1>3 DEF Clean, Violates, Severity, SeverityNone, SeverityCritical
<1>6. r.vulnerabilities = <<>> <=> DOMAIN r.vulnerabilities = {}
  <2>1. r.vulnerabilities = <<>> <=> Len(r.vulnerabilities) = 0
    BY <1>1, EmptySeq
  <2>2. Len(r.vulnerabilities) = 0 => 1..Len(r.vulnerabilities) = {}
    BY <1>2
  <2>3. Len(r.vulnerabilities) # 0 => 1 \in 1..Len(r.vulnerabilities)
    BY <1>2
  <2>4. QED BY <1>2, <2>1, <2>2, <2>3, Zenon
<1>7. QED BY <1>4, <1>5, <1>6
=============================================================================
