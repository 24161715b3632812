-------------------------------- MODULE Gate --------------------------------
(***************************************************************************)
(* The severity gate: labels, ParseSeverity, and what a GateDecision must  *)
(* be for a given scan report (internal/service/gate).  This module has no *)
(* state; GateLoop is the evaluator's loop, step by step.                  *)
(***************************************************************************)
EXTENDS Naturals, FiniteSets, Sequences

SeverityNone == 0
SeverityLow == 1
SeverityMedium == 2
SeverityHigh == 3
SeverityCritical == 4

Severity == SeverityNone .. SeverityCritical

(***************************************************************************)
(* A severity string is a word and the casing it is written in.  "other"   *)
(* stands for every word that is not a known level: Harbor's "Unknown" and *)
(* "Negligible", and the empty string.                                     *)
(***************************************************************************)
Word == {"none", "low", "medium", "high", "critical", "other"}
Casing == {"lower", "title", "upper"}
Label == [word : Word, casing : Casing]

\* strings.ToLower forgets the casing.
ToLower(label) == [label EXCEPT !.casing = "lower"]

LowerWord(w) == [word |-> w, casing |-> "lower"]

\* (sev, nil) on the five known words, (SeverityNone, error) on any other.
ParseSeverity(label) ==
    CASE ToLower(label) = LowerWord("none")     -> [sev |-> SeverityNone, err |-> FALSE]
      [] ToLower(label) = LowerWord("low")      -> [sev |-> SeverityLow, err |-> FALSE]
      [] ToLower(label) = LowerWord("medium")   -> [sev |-> SeverityMedium, err |-> FALSE]
      [] ToLower(label) = LowerWord("high")     -> [sev |-> SeverityHigh, err |-> FALSE]
      [] ToLower(label) = LowerWord("critical") -> [sev |-> SeverityCritical, err |-> FALSE]
      [] OTHER                                  -> [sev |-> SeverityNone, err |-> TRUE]

\* Severity.String, the canonical label of a level.
SeverityString(s) ==
    CASE s = SeverityNone   -> [word |-> "none", casing |-> "title"]
      [] s = SeverityLow    -> [word |-> "low", casing |-> "title"]
      [] s = SeverityMedium -> [word |-> "medium", casing |-> "title"]
      [] s = SeverityHigh   -> [word |-> "high", casing |-> "title"]
      [] OTHER              -> [word |-> "critical", casing |-> "title"]

CanonicalLabel == {SeverityString(s) : s \in Severity}

(***************************************************************************)
(* A *harbor.ScanReport: nil, or a list of vulnerabilities, each an id and *)
(* a severity string.                                                      *)
(***************************************************************************)
NilReport == [nil |-> TRUE, vulnerabilities |-> <<>>]
ScanReport(vulns) == [nil |-> FALSE, vulnerabilities |-> vulns]

Malformed(vuln) == ParseSeverity(vuln.severity).err
SeverityOf(vuln) == ParseSeverity(vuln.severity).sev
Violates(threshold, vuln) == SeverityOf(vuln) >= threshold

ViolationDetail(vuln) ==
    [cveID |-> vuln.id, severity |-> SeverityString(SeverityOf(vuln))]

ZeroCounts == [l \in CanonicalLabel |-> 0]
NoCounts == [l \in {} |-> 0]

Decision(pass, reason, counts, violations) ==
    [pass |-> pass, reason |-> reason,
     cveCounts |-> counts, violations |-> violations]

Reason == {"", "scan_fetch_error", "vulnerability_exceeded"}

(***************************************************************************)
(* The reference: what Evaluate must return, as one expression.            *)
(***************************************************************************)
CountsOf(vulns) ==
    [l \in CanonicalLabel |->
        Cardinality({i \in DOMAIN vulns : SeverityString(SeverityOf(vulns[i])) = l})]

ViolatingIn(threshold, vulns) == {k \in DOMAIN vulns : Violates(threshold, vulns[k])}

\* The place of k among the numbers of S, from the smallest on.
Rank(S, k) == Cardinality({j \in S : j <= k})

\* The n-th smallest number of S.
Nth(S, n) == CHOOSE k \in S : Rank(S, k) = n

\* The n-th violation is that of the n-th violating position.
ViolationsOf(threshold, vulns) ==
    LET bad == ViolatingIn(threshold, vulns)
    IN  [n \in 1..Cardinality(bad) |-> ViolationDetail(vulns[Nth(bad, n)])]

\* Every severity string is known and every severity is below the threshold.
Clean(threshold, report) ==
    /\ ~report.nil
    /\ \A i \in DOMAIN report.vulnerabilities :
          /\ ~Malformed(report.vulnerabilities[i])
          /\ ~Violates(threshold, report.vulnerabilities[i])

Evaluate(threshold, report) ==
    LET vulns == report.vulnerabilities
    IN  CASE report.nil
               -> Decision(FALSE, "scan_fetch_error", NoCounts, <<>>)
          [] ~report.nil /\ \E i \in DOMAIN vulns : Malformed(vulns[i])
               -> Decision(FALSE, "vulnerability_exceeded", ZeroCounts, <<>>)
          [] OTHER
               -> IF \E i \in DOMAIN vulns : Violates(threshold, vulns[i])
                  THEN Decision(FALSE, "vulnerability_exceeded",
                                CountsOf(vulns), ViolationsOf(threshold, vulns))
                  ELSE Decision(TRUE, "", CountsOf(vulns), <<>>)
=============================================================================
