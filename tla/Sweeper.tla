------------------------------- MODULE Sweeper -------------------------------
(***************************************************************************)
(* What the reconciler promises to the process around it, without projects *)
(* or artifacts: at most one caller sweeps at a time, and once Stop has    *)
(* been confirmed the ticker goroutine sweeps no more.                     *)
(***************************************************************************)
CONSTANTS
    Callers,   \* those that start sweeps
    Ticker,    \* the one that Stop stops
    NoOne      \* the holder while nobody sweeps

VARIABLES
    holder,    \* who is sweeping
    stop       \* "no", "asked", "confirmed"

vars == <<holder, stop>>

Init ==
    /\ holder = NoOne
    /\ stop = "no"

\* A request to stop does not keep the ticker from one more sweep; its
\* confirmation does.
Begin(c) ==
    /\ holder = NoOne
    /\ c = Ticker => stop # "confirmed"
    /\ holder' = c
    /\ UNCHANGED stop

End ==
    /\ holder # NoOne
    /\ holder' = NoOne
    /\ UNCHANGED stop

Ask ==
    /\ stop = "no"
    /\ stop' = "asked"
    /\ UNCHANGED holder

Confirm ==
    /\ stop = "asked"
    /\ holder # Ticker
    /\ stop' = "confirmed"
    /\ UNCHANGED holder

Next == (\E c \in Callers : Begin(c)) \/ End \/ Ask \/ Confirm

Spec == Init /\ [][Next]_vars
=============================================================================
