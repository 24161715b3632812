----------------------------- MODULE MCReadiness -----------------------------
(***************************************************************************)
(* Readiness with three checkers, one of them not critical as in           *)
(* handler_test.go:81 (main makes all three critical).  A dependency       *)
(* answers, answers slowly, answers an error or hangs.                     *)
(***************************************************************************)
EXTENDS Readiness

MCCheckers == <<"harbor", "fulcio", "rekor">>

MCConditions == {[ok |-> TRUE, takes |-> 0], [ok |-> TRUE, takes |-> 2],
                 [ok |-> FALSE, takes |-> 0], [ok |-> TRUE, takes |-> 9]}
=============================================================================
