-------------------------- MODULE MCSigningService --------------------------
(***************************************************************************)
(* SigningService on invocations from the webhook and from the sweep, for  *)
(* the same artifact, at the default threshold High.  A scanner's report   *)
(* is clean or has a violation; Harbor holds none, either or both.         *)
(***************************************************************************)
EXTENDS SigningService

CONSTANTS web, sweep, image

MCArtifactOf == [c \in Calls |-> image]
MCSourceOf == [c \in Calls |-> IF c = sweep THEN "reconciliation" ELSE "webhook"]

Finding(label) == [id |-> "CVE", severity |-> label]
Medium == Finding([word |-> "medium", casing |-> "title"])
High == Finding([word |-> "high", casing |-> "upper"])

MCScanReports == {ScanReport(<<Medium>>), ScanReport(<<Medium, High>>)}

=============================================================================
