--------------------------- MODULE WebhookHandler ---------------------------
(***************************************************************************)
(* What HandleWebhook (internal/handler/webhook) decides about one         *)
(* request.  A request is the secret it presents and a body: how many of   *)
(* its bytes arrive, whether the connection breaks behind them, and the    *)
(* payload they encode.  Strings matter only as empty, equal or different. *)
(***************************************************************************)
EXTENDS Integers, Sequences

CONSTANTS
    WebhookSecret,    \* cfg.WebhookSecret
    MaxPayloadSize,   \* cfg.MaxPayloadSize
    MaxInt64,         \* the largest int64
    NotJSON           \* a body that json.Unmarshal refuses

ASSUME WebhookAssumption ==
    /\ MaxInt64 \in Nat
    /\ MaxPayloadSize \in 1..MaxInt64

\* harbor.WebhookPayload, as far as the handler reads it.
Payload(type, digests, namespace, name) ==
    [type |-> type, resources |-> digests, namespace |-> namespace, name |-> name]

\* Both must be there; the comparison takes constant time.
validateSecret(provided, expected) ==
    /\ provided # ""
    /\ expected # ""
    /\ provided = expected

\* io.LimitReader(body, MaxPayloadSize+1).  The sum wraps around, and a reader
\* with a negative limit is at its end at once.
ReadLimit == IF MaxPayloadSize = MaxInt64 THEN -MaxInt64 - 1 ELSE MaxPayloadSize + 1

BytesRead(body) ==
    IF ReadLimit <= 0 THEN 0 ELSE IF body.size < ReadLimit THEN body.size ELSE ReadLimit

\* The break is met only by a reader that gets that far.
ReadFails(body) == body.breaks /\ BytesRead(body) = body.size /\ body.size < ReadLimit

TooLarge(body) == BytesRead(body) > MaxPayloadSize

\* A prefix of a payload is not JSON.
Parses(body) == body.payload # NotJSON /\ BytesRead(body) = body.size

\* ExtractArtifact finds the fields it needs; later resources are not looked at.
Extractable(payload) ==
    /\ payload.resources # <<>>
    /\ Head(payload.resources) # ""
    /\ payload.namespace # ""
    /\ payload.name # ""

\* The answer, or "submit" for a request whose job goes to the pool.
Verdict(request) ==
    IF ~validateSecret(request.secret, WebhookSecret) THEN "unauthorized"
    ELSE IF ReadFails(request.body) \/ TooLarge(request.body) \/ ~Parses(request.body)
         THEN "bad request"
    ELSE IF request.body.payload.type # "SCANNING_COMPLETED" THEN "ignored"
    ELSE IF ~Extractable(request.body.payload) THEN "unprocessable"
    ELSE "submit"

Refusal == {"unauthorized", "bad request", "ignored", "unprocessable"}
=============================================================================
