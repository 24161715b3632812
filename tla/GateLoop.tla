------------------------------ MODULE GateLoop ------------------------------
(***************************************************************************)
(* DefaultEvaluator.Evaluate as the loop it is: one call, on any report    *)
(* and any threshold, from the nil check to the returned decision.         *)
(***************************************************************************)
EXTENDS Gate

CONSTANTS
    CVE,       \* the vulnerability ids a report may carry
    Reports    \* the reports Evaluate is called with

Vulnerability == [id : CVE, severity : Label]

ASSUME ReportsAssumption ==
    \A r \in Reports :
        \/ r = NilReport
        \/ /\ r = ScanReport(r.vulnerabilities)
           /\ r.vulnerabilities \in Seq(Vulnerability)

VARIABLES
    threshold,   \* e.Threshold, fixed by NewEvaluator
    report,      \* the argument
    i,           \* the index of the vulnerability the loop looks at next
    cveCounts,   \* the map under construction
    violations,  \* the slice under construction
    returned,    \* has Evaluate returned?
    decision     \* the value it returned

vars == <<threshold, report, i, cveCounts, violations, returned, decision>>

NoDecision == Decision(FALSE, "", NoCounts, <<>>)

vulns == report.vulnerabilities

Init ==
    /\ threshold \in Severity
    /\ report \in Reports
    /\ i = 1
    /\ cveCounts = ZeroCounts
    /\ violations = <<>>
    /\ returned = FALSE
    /\ decision = NoDecision

Return(d) ==
    /\ returned' = TRUE
    /\ decision' = d
    /\ UNCHANGED <<threshold, report, i, cveCounts, violations>>

\* if report == nil
ReturnNil ==
    /\ ~returned
    /\ report.nil
    /\ Return(Decision(FALSE, "scan_fetch_error", NoCounts, <<>>))

\* ParseSeverity failed: the counts and violations so far are dropped.
ReturnMalformed ==
    /\ ~returned
    /\ ~report.nil
    /\ i <= Len(vulns)
    /\ Malformed(vulns[i])
    /\ Return(Decision(FALSE, "vulnerability_exceeded", ZeroCounts, <<>>))

\* Fault: a severity equal to the threshold is let through.
CountOneAbove ==
    /\ ~returned
    /\ ~report.nil
    /\ i <= Len(vulns)
    /\ ~Malformed(vulns[i])
    /\ cveCounts' = [cveCounts EXCEPT ![SeverityString(SeverityOf(vulns[i]))] = @ + 1]
    /\ violations' = IF SeverityOf(vulns[i]) > threshold
                     THEN Append(violations, ViolationDetail(vulns[i]))
                     ELSE violations
    /\ i' = i + 1
    /\ UNCHANGED <<threshold, report, returned, decision>>

\* Fault: the map entry is set, not incremented.
CountOneOnce ==
    /\ ~returned
    /\ ~report.nil
    /\ i <= Len(vulns)
    /\ ~Malformed(vulns[i])
    /\ cveCounts' = [cveCounts EXCEPT ![SeverityString(SeverityOf(vulns[i]))] = 1]
    /\ violations' = IF Violates(threshold, vulns[i])
                     THEN Append(violations, ViolationDetail(vulns[i]))
                     ELSE violations
    /\ i' = i + 1
    /\ UNCHANGED <<threshold, report, returned, decision>>

\* One turn of the loop on a known severity.
CountOne ==
    /\ ~returned
    /\ ~report.nil
    /\ i <= Len(vulns)
    /\ ~Malformed(vulns[i])
    /\ cveCounts' = [cveCounts EXCEPT ![SeverityString(SeverityOf(vulns[i]))] = @ + 1]
    /\ violations' = IF Violates(threshold, vulns[i])
                     THEN Append(violations, ViolationDetail(vulns[i]))
                     ELSE violations
    /\ i' = i + 1
    /\ UNCHANGED <<threshold, report, returned, decision>>

\* if len(violations) > 0
ReturnFail ==
    /\ ~returned
    /\ ~report.nil
    /\ i > Len(vulns)
    /\ Len(violations) > 0
    /\ Return(Decision(FALSE, "vulnerability_exceeded", cveCounts, violations))

ReturnPass ==
    /\ ~returned
    /\ ~report.nil
    /\ i > Len(vulns)
    /\ Len(violations) = 0
    /\ Return(Decision(TRUE, "", cveCounts, <<>>))

\* The call is over; nothing more happens.
Terminated == returned /\ UNCHANGED vars

Next ==
    \/ ReturnNil
    \/ ReturnMalformed
    \/ CountOne
    \/ ReturnFail
    \/ ReturnPass
    \/ Terminated

Spec == Init /\ [][Next]_vars

-----------------------------------------------------------------------------

\* The type of the state: a decision is a well-formed GateDecision, counts
\* have exactly the five canonical labels of evaluator.go:34-40.
TypeOK ==
    /\ threshold \in Severity
    /\ report \in Reports
    /\ i \in Nat \ {0}
    /\ cveCounts \in [CanonicalLabel -> Nat]
    /\ violations \in Seq([cveID : CVE, severity : CanonicalLabel])
    /\ returned \in BOOLEAN
    /\ decision.pass \in BOOLEAN
    /\ decision.reason \in Reason

\* Whatever the loop returns is the reference value, on every report: the
\* early returns and the accumulated counts and violations agree with the
\* one-expression definition of evaluator.go:24-84.
DecisionIsReference == returned => decision = Evaluate(threshold, report)

\* Evaluate answers Pass exactly on a report whose every severity string is
\* known and below the threshold: an unknown string never slips through as
\* SeverityNone, the value ParseSeverity returns beside its error.
PassIffClean == returned => (decision.pass <=> Clean(threshold, report))

\* A failing decision says why: either it names a violation, or the report
\* was nil or malformed and it names none and counts nothing.
FailureExplained ==
    (returned /\ ~decision.pass) =>
        \/ decision.violations # <<>>
        \/ report.nil
        \/ \E k \in DOMAIN vulns : Malformed(vulns[k]) /\ decision.cveCounts = ZeroCounts
=============================================================================
