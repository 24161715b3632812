----------------------------- MODULE MCGateLoop -----------------------------
(***************************************************************************)
(* GateLoop on every report of at most MaxVulns vulnerabilities whose      *)
(* labels are each known word once in a casing that is not canonical, one  *)
(* canonical label, and an unknown word.                                   *)
(***************************************************************************)
EXTENDS GateLoop

MaxVulns == 3

MCLabels ==
    { [word |-> "none", casing |-> "upper"],
      [word |-> "low", casing |-> "lower"],
      [word |-> "medium", casing |-> "upper"],
      [word |-> "high", casing |-> "title"],
      [word |-> "high", casing |-> "upper"],
      [word |-> "critical", casing |-> "lower"],
      [word |-> "other", casing |-> "title"] }

MCReports ==
    {NilReport} \cup
    {ScanReport(v) : v \in UNION {[1..n -> [id : CVE, severity : MCLabels]] : n \in 0..MaxVulns}}

=============================================================================
