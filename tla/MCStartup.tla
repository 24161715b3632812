------------------------------ MODULE MCStartup ------------------------------
(***************************************************************************)
(* Startup in every environment that differs from a good one in at most    *)
(* two variables.                                                          *)
(***************************************************************************)
EXTENDS Startup

Good == [key \in Key |-> IF key \in Required THEN "given" ELSE Unset]

\* What a variable may be instead.
Deviations(key) ==
    CASE key \in Required           -> {Unset}
      [] key \in Port               -> {0, 1, 8080, 65535, 65536, NotANumber}
      [] key \in Positive           -> {-1, 0, 1, NotANumber}
      [] key \in NonNegative        -> {-1, 0, 1, 4, 16, NotANumber}
      [] key = "SEVERITY_THRESHOLD" -> Label
      [] key = "LOG_LEVEL"          -> {"debug", "fatal", "verbose"}
      [] key = "HARBOR_PROJECTS"    -> {<<"", "">>, <<"a", "", "b">>}

MCEnvironments ==
    {[key \in Key |-> IF key = k THEN v ELSE IF key = l THEN w ELSE Good[key]] :
        <<k, v, l, w>> \in UNION {{k} \X Deviations(k) \X {l} \X Deviations(l) : k, l \in Key}}
=============================================================================
