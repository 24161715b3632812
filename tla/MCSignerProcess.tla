--------------------------- MODULE MCSignerProcess ---------------------------
(***************************************************************************)
(* SignerProcess on calls that end at each return of the handler: a valid  *)
(* one, a wrong secret, a body above the limit, a broken connection, an    *)
(* event of another type and a payload without a digest.                   *)
(***************************************************************************)
EXTENDS SignerProcess

Scanned(digests) == Payload("SCANNING_COMPLETED", digests, "library", "library/nginx")
Body(size, breaks, payload) == [size |-> size, breaks |-> breaks, payload |-> payload]
Call(secret, body) == [secret |-> secret, body |-> body]

Valid == Call("s3cret", Body(2, FALSE, Scanned(<<"sha256">>)))

MCIncoming == {
    Valid,
    Call("guess", Body(2, FALSE, Scanned(<<"sha256">>))),
    Call("s3cret", Body(3, FALSE, Scanned(<<"sha256">>))),
    Call("s3cret", Body(1, TRUE, NotJSON)),
    Call("s3cret", Body(2, FALSE, Payload("PUSH_ARTIFACT", <<"sha256">>, "library", "library/nginx"))),
    Call("s3cret", Body(2, FALSE, Scanned(<<"">>)))}

MCValid == {Valid}
=============================================================================
