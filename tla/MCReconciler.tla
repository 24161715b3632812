---------------------------- MODULE MCReconciler ----------------------------
(***************************************************************************)
(* Reconciler on two projects.  Something is behind every kind of failure: *)
(* an artifact in the same project, and another project, which is empty.   *)
(***************************************************************************)
EXTENDS Reconciler

CONSTANTS a1, a2

MCListing == [platform |-> <<a1, a2>>, library |-> <<>>]
MCProjects == <<"platform", "library">>
=============================================================================
