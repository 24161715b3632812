------------------------------- MODULE Backoff -------------------------------
(***************************************************************************)
(* The delays between retries, in whole seconds: of the Harbor client      *)
(* (client.go:382-392) and of the signer (signer.go:325-344).  Each        *)
(* operator is the set of delays that its jitter allows.                   *)
(***************************************************************************)
EXTENDS Integers

\* Fault: the base is capped, not its multiple.
ExponentialOfCapped(base, max, attempt) ==
    (IF base > max THEN max ELSE base) * 2^(attempt - 1)

\* base * 2^(attempt-1), capped.  A float does not wrap around.
Exponential(base, max, attempt) ==
    IF base * 2^(attempt - 1) > max THEN max ELSE base * 2^(attempt - 1)

\* NewClient puts defaults in the place of what is not positive.
NewClient(retries, base, max) ==
    [maxRetries |-> IF retries <= 0 THEN 3 ELSE retries,
     base |-> IF base <= 0 THEN 1 ELSE base,
     max  |-> IF max <= 0 THEN 10 ELSE max]

\* rand.Float64() * backoff
ClientDelays(client, attempt) == 0 .. Exponential(client.base, client.max, attempt)

\* A quarter of the backoff is added or taken away, after the cap.
SignerDelays(base, max, attempt) ==
    LET backoff == Exponential(base, max, attempt)
    IN  ((3 * backoff) \div 4) .. ((5 * backoff) \div 4)
=============================================================================
