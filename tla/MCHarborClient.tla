--------------------------- MODULE MCHarborClient ---------------------------
(***************************************************************************)
(* HarborClient on a project of two repositories with one artifact each,   *)
(* which fill a page; a third may appear and make the listing longer.      *)
(***************************************************************************)
EXTENDS HarborClient, TLC

CONSTANTS r1, r2, a1, a2, clean

MCHome == a1 :> r1 @@ a2 :> r2

MCInitialScan == a1 :> {clean, Pending} @@ a2 :> {clean}
=============================================================================
