------------------------ MODULE SigningService_proofs ------------------------
(***************************************************************************)
(* ProcessArtifact, for every number of invocations, artifacts, reports    *)
(* and attempts: only a clean report leads to Rekor, a signed artifact is  *)
(* signed again only behind a failed check, the gauge is exact.            *)
(***************************************************************************)
EXTENDS SigningService, FiniteSetTheorems, TLAPS

-----------------------------------------------------------------------------
(* The signer: Sign, for every number of calls and attempts. *)

\* The labels of the part of Sign that comes after the certificate.
Certified == {"cosign", "rekor", "rekorAnswer", "rekorBackoff", "ok"}
Uploading == {"rekor", "rekorAnswer", "rekorBackoff", "ok"}

\* A request exists only for a call that got as far as Rekor.
StageInv ==
    /\ \A c \in Calls : signPc[c] \in Certified => c \in certified
    /\ \A c \in Calls : signErr[c] # "none" <=> signPc[c] = "failed"
    /\ \A c \in Calls, n \in Attempt : <<c, n>> \in sent =>
          /\ c \in certified
          /\ signPc[c] \in Uploading \/ (signPc[c] = "failed" /\ signErr[c] = "rekor")

\* A retry loop that is entered again has an attempt left, and one that is
\* entered first has them all.
RetryInv ==
    \A c \in Calls :
        /\ signPc[c] \in {"fulcioBackoff", "rekorBackoff", "rekorAnswer"} => attempt[c] < MaxAttempts
        /\ signPc[c] = "cosign" => attempt[c] = 0
        /\ signErr[c] \in {"fulcio", "rekor"} => attempt[c] = MaxAttempts \/ c \in ctxDone

\* Upload succeeds with an entry that Rekor holds.
OkHasEntry ==
    \A c \in Calls : signPc[c] = "ok" => \E n \in Attempt : <<c, n>> \in rekorLog

SignInv ==
    /\ SignTypeOK
    /\ StageInv
    /\ RetryInv
    /\ OkHasEntry

-----------------------------------------------------------------------------

LEMMA SignInitInv == SignInit => SignInv
BY SignerAssumption
   DEF SignInit, SignInv, SignTypeOK, StageInv, RetryInv, OkHasEntry,
       SignLabel, GateReason, Certified, Uploading

\* Moving one call changes the label of no other.
LEMMA GotoOther ==
    ASSUME SignTypeOK, NEW c \in Calls, NEW l, Goto(c, l)
    PROVE  \A d \in Calls : signPc'[d] = IF d = c THEN l ELSE signPc[d]
BY DEF SignTypeOK, Goto

LEMMA FailOther ==
    ASSUME SignTypeOK, NEW c \in Calls, NEW s, Fail(c, s)
    PROVE  \A d \in Calls :
              /\ signPc'[d] = IF d = c THEN "failed" ELSE signPc[d]
              /\ signErr'[d] = IF d = c THEN s ELSE signErr[d]
BY DEF SignTypeOK, Goto, Fail

\* Every step of Sign preserves the type.
LEMMA SignStepType ==
    ASSUME SignTypeOK, NEW c \in Calls, SignCall(c) \/ SignStep(c)
    PROVE  SignTypeOK'
<1> USE SignerAssumption DEF SignTypeOK, Goto, Fail, counters, SignLabel
<1>1. CASE SignCall(c)
  BY <1>1 DEF SignCall
<1>2. CASE TokenRejected(c)
  BY <1>2 DEF TokenRejected
<1>3. CASE TokenAccepted(c)
  BY <1>3 DEF TokenAccepted
<1>4. CASE FulcioOk(c)
  BY <1>4 DEF FulcioOk
<1>5. CASE FulcioAttemptFails(c)
  BY <1>5 DEF FulcioAttemptFails
<1>6. CASE FulcioExhausted(c)
  BY <1>6 DEF FulcioExhausted, IncrementSigningFailures, GateReason
<1>7. CASE CosignOk(c)
  BY <1>7 DEF CosignOk
<1>8. CASE CosignFails(c)
  BY <1>8 DEF CosignFails, IncrementSigningFailures, GateReason
<1>9. CASE RekorSend(c)
  BY <1>9 DEF RekorSend, Attempt
<1>10. CASE RekorOk(c)
  BY <1>10 DEF RekorOk
<1>11. CASE RekorAttemptFails(c)
  BY <1>11 DEF RekorAttemptFails
<1>12. CASE RekorExhausted(c)
  BY <1>12 DEF RekorExhausted, IncrementSigningFailures, GateReason
<1>13. CASE BackoffElapses(c)
  BY <1>13 DEF BackoffElapses, BackoffOf
<1>14. CASE BackoffCancelled(c)
  BY <1>14 DEF BackoffCancelled, BackoffOf, IncrementSigningFailures, GateReason
<1>15. QED
  BY <1>1, <1>2, <1>3, <1>4, <1>5, <1>6, <1>7, <1>8, <1>9, <1>10, <1>11, <1>12,
     <1>13, <1>14 DEF SignStep

\* Every step of Sign preserves the invariant.
LEMMA SignStepInv ==
    ASSUME SignInv, NEW c \in Calls, SignCall(c) \/ SignStep(c)
    PROVE  SignInv'
<1> USE SignerAssumption DEF SignInv
<1>t. SignTypeOK'
  BY SignStepType
<1> SUFFICES StageInv' /\ RetryInv' /\ OkHasEntry'
  BY <1>t
<1> USE DEF StageInv, RetryInv, OkHasEntry, Certified, Uploading, counters
<1>1. CASE SignCall(c)
  BY <1>1, GotoOther DEF SignCall
<1>2. CASE TokenRejected(c)
  BY <1>2, FailOther DEF TokenRejected
<1>3. CASE TokenAccepted(c)
  BY <1>3, GotoOther DEF TokenAccepted
<1>4. CASE FulcioOk(c)
  <2>1. \A d \in Calls : attempt'[d] = IF d = c THEN 0 ELSE attempt[d]
    BY <1>4 DEF FulcioOk, SignTypeOK
  <2>2. QED BY <1>4, <2>1, GotoOther DEF FulcioOk
<1>5. CASE FulcioAttemptFails(c)
  <2>1. \A d \in Calls : attempt'[d] = IF d = c THEN attempt[d] + 1 ELSE attempt[d]
    BY <1>5 DEF FulcioAttemptFails, SignTypeOK
  <2>2. \A d \in Calls : signPc'[d] =
           IF d = c THEN IF attempt[c] + 1 < MaxAttempts THEN "fulcioBackoff" ELSE "fulcio"
                    ELSE signPc[d]
    BY <1>5, GotoOther DEF FulcioAttemptFails
  <2>3. StageInv' /\ OkHasEntry'
    BY <1>5, <2>2 DEF FulcioAttemptFails
  <2>4. RetryInv'
    BY <1>5, <2>1, <2>2 DEF FulcioAttemptFails
  <2>5. QED BY <2>3, <2>4
<1>6. CASE FulcioExhausted(c)
  <2>1. attempt[c] = MaxAttempts
    BY <1>6 DEF FulcioExhausted, SignTypeOK
  <2>2. QED BY <1>6, <2>1, FailOther DEF FulcioExhausted
<1>7. CASE CosignOk(c)
  BY <1>7, GotoOther DEF CosignOk
<1>8. CASE CosignFails(c)
  BY <1>8, FailOther DEF CosignFails
<1>9. CASE RekorSend(c)
  <2>1. \A d \in Calls : signPc'[d] = IF d = c THEN "rekorAnswer" ELSE signPc[d]
    BY <1>9, GotoOther DEF RekorSend
  <2>2. \A d \in Calls, n \in Attempt : <<d, n>> \in sent' => d = c \/ <<d, n>> \in sent
    BY <1>9 DEF RekorSend
  <2>3. StageInv'
    BY <1>9, <2>1, <2>2 DEF RekorSend
  <2>4. RetryInv' /\ OkHasEntry'
    BY <1>9, <2>1 DEF RekorSend
  <2>5. QED BY <2>3, <2>4
<1>10. CASE RekorOk(c)
  <2>1. attempt[c] + 1 \in Attempt
    BY <1>10 DEF RekorOk, SignTypeOK, Attempt
  <2>2. QED BY <1>10, <2>1, GotoOther DEF RekorOk
<1>11. CASE RekorAttemptFails(c)
  <2>1. \A d \in Calls : attempt'[d] = IF d = c THEN attempt[d] + 1 ELSE attempt[d]
    BY <1>11 DEF RekorAttemptFails, SignTypeOK
  <2>2. \A d \in Calls : signPc'[d] =
           IF d = c THEN IF attempt[c] + 1 < MaxAttempts THEN "rekorBackoff" ELSE "rekor"
                    ELSE signPc[d]
    BY <1>11, GotoOther DEF RekorAttemptFails
  <2>3. StageInv' /\ OkHasEntry'
    BY <1>11, <2>2 DEF RekorAttemptFails
  <2>4. RetryInv'
    BY <1>11, <2>1, <2>2 DEF RekorAttemptFails
  <2>5. QED BY <2>3, <2>4
<1>12. CASE RekorExhausted(c)
  <2>1. attempt[c] = MaxAttempts
    BY <1>12 DEF RekorExhausted, SignTypeOK
  <2>2. QED BY <1>12, <2>1, FailOther DEF RekorExhausted
<1>13. CASE BackoffElapses(c)
  <2>1. \/ signPc[c] = "fulcioBackoff" /\ Goto(c, "fulcio")
        \/ signPc[c] = "rekorBackoff" /\ Goto(c, "rekor")
    BY <1>13 DEF BackoffElapses, BackoffOf
  <2>2. QED BY <1>13, <2>1, GotoOther DEF BackoffElapses
<1>14. CASE BackoffCancelled(c)
  <2>1. \/ signPc[c] = "fulcioBackoff" /\ Fail(c, "fulcio")
        \/ signPc[c] = "rekorBackoff" /\ Fail(c, "rekor")
    BY <1>14 DEF BackoffCancelled, BackoffOf
  <2>2. QED BY <1>14, <2>1, FailOther DEF BackoffCancelled
<1>15. QED
  BY <1>1, <1>2, <1>3, <1>4, <1>5, <1>6, <1>7, <1>8, <1>9, <1>10, <1>11, <1>12,
     <1>13, <1>14 DEF SignStep

\* What happens around a call preserves the invariant.
LEMMA EnvironmentInv ==
    ASSUME SignInv, NEW c \in Calls, Environment(c)
    PROVE  SignInv'
<1> USE DEF SignInv, SignTypeOK, StageInv, RetryInv, OkHasEntry, counters
<1>2. CASE ContextDone(c)
  BY <1>2 DEF ContextDone
<1>3. ASSUME NEW n \in Attempt, RekorRecords(c, n) PROVE SignInv'
  BY <1>3 DEF RekorRecords
<1>4. QED BY <1>2, <1>3 DEF Environment

LEMMA SignStutterInv == SignInv /\ UNCHANGED signVars => SignInv'
BY DEF SignInv, SignTypeOK, StageInv, RetryInv, OkHasEntry, signVars

LEMMA SignInvariant == SignSpec => []SignInv
<1>1. SignInv /\ [SignNext]_signVars => SignInv'
  BY SignStepInv, EnvironmentInv, SignStutterInv DEF SignNext, Terminated
<1>2. QED BY SignInitInv, <1>1, PTL DEF SignSpec

-----------------------------------------------------------------------------

\* The state of Sign is well-typed.
THEOREM SignTypeCorrect == SignSpec => []SignTypeOK
<1>1. SignInv => SignTypeOK BY DEF SignInv
<1>2. QED BY <1>1, SignInvariant, PTL

\* An entry in Rekor has a certificate behind it (signer.go:219-250).
THEOREM EntryHasCertificate == SignSpec => []LogNeedsCertificate
<1>1. SignInv => LogNeedsCertificate
  BY DEF SignInv, StageInv, SignTypeOK, LogNeedsCertificate, Uploading
<1>2. QED BY <1>1, SignInvariant, PTL

\* The failed attempts of the upload a call is in, or ended with.
FailedTries(c) ==
    IF signPc[c] \in Uploading \/ signErr[c] = "rekor" THEN attempt[c] ELSE 0

LEMMA FailedUploadsFinite == IsFiniteSet(FailedUploads) /\ Cardinality(FailedUploads) \in Nat
<1>1. IsFiniteSet(Attempt)
  BY SignerAssumption, FS_Interval DEF Attempt
<1>2. IsFiniteSet(Calls \X Attempt)
  BY <1>1, SignerAssumption, FS_Product
<1>3. FailedUploads \subseteq Calls \X Attempt
  BY DEF FailedUploads
<1>4. QED BY <1>2, <1>3, FS_Subset, FS_CardinalityType

FailedUploadsAreTries ==
    FailedUploads = {p \in Calls \X Attempt : p[2] <= FailedTries(p[1])}

LEMMA FailedUploadsByTries == FailedUploadsAreTries
<1>1. ASSUME NEW c \in Calls, NEW n \in Attempt
      PROVE  <<c, n>> \in FailedUploads <=> n <= FailedTries(c)
  <2>1. n \in Nat \ {0}
    BY SignerAssumption DEF Attempt
  <2>2. CASE signPc[c] \in Uploading \/ signErr[c] = "rekor"
    BY <2>2 DEF FailedUploads, FailedTries, Uploading
  <2>3. CASE ~(signPc[c] \in Uploading \/ signErr[c] = "rekor")
    <3>1. FailedTries(c) = 0
      BY <2>3 DEF FailedTries
    <3>2. <<c, n>> \notin FailedUploads
      BY <2>3 DEF FailedUploads, Uploading
    <3>3. QED BY <2>1, <3>1, <3>2
  <2>4. QED BY <2>2, <2>3
<1>2. \A p \in Calls \X Attempt : p \in FailedUploads <=> p[2] <= FailedTries(p[1])
  BY <1>1
<1>3. FailedUploads \subseteq Calls \X Attempt
  BY DEF FailedUploads
<1>4. QED BY <1>2, <1>3 DEF FailedUploadsAreTries

LEMMA FailedUploadsByTriesNext == FailedUploadsAreTries'
BY FailedUploadsByTries, PTL

\* The counter against the attempts it counts.
RekorCounted == rekorErrors = Cardinality(FailedUploads)

LEMMA RekorCountKept ==
    ASSUME RekorCounted, rekorErrors' = rekorErrors,
           \A d \in Calls : FailedTries(d)' = FailedTries(d)
    PROVE  RekorCounted'
<1>1. FailedUploads' = {p \in Calls \X Attempt : p[2] <= FailedTries(p[1])'}
  BY FailedUploadsByTriesNext DEF FailedUploadsAreTries
<1>2. FailedUploads' = FailedUploads
  BY <1>1, FailedUploadsByTries DEF FailedUploadsAreTries
<1>3. QED BY <1>2 DEF RekorCounted

LEMMA RekorCountGrows ==
    ASSUME RekorCounted, NEW c \in Calls, rekorErrors' = rekorErrors + 1,
           FailedTries(c) \in Nat, FailedTries(c) < MaxAttempts,
           FailedTries(c)' = FailedTries(c) + 1,
           \A d \in Calls : d # c => FailedTries(d)' = FailedTries(d)
    PROVE  RekorCounted'
<1>1. FailedUploads' = {p \in Calls \X Attempt : p[2] <= FailedTries(p[1])'}
  BY FailedUploadsByTriesNext DEF FailedUploadsAreTries
<1> DEFINE new == <<c, FailedTries(c) + 1>>
<1>2. new \in Calls \X Attempt
  BY SignerAssumption DEF Attempt
<1>3. new \notin FailedUploads
  BY FailedUploadsByTries DEF FailedUploadsAreTries
<1>4. ASSUME NEW d \in Calls, NEW n \in Attempt
      PROVE  n <= FailedTries(d)' <=> n <= FailedTries(d) \/ <<d, n>> = new
  <2>1. n \in Nat
    BY SignerAssumption DEF Attempt
  <2>2. CASE d = c
    BY <2>1, <2>2
  <2>3. CASE d # c
    BY <2>3
  <2>4. QED BY <2>2, <2>3
<1>5. FailedUploads' = FailedUploads \cup {new}
  <2>1. \A p \in Calls \X Attempt : p \in FailedUploads' <=> p \in FailedUploads \cup {new}
    BY <1>1, <1>4, FailedUploadsByTries DEF FailedUploadsAreTries
  <2>2. FailedUploads' \subseteq Calls \X Attempt /\ FailedUploads \subseteq Calls \X Attempt
    BY <1>1 DEF FailedUploads
  <2>3. QED BY <1>2, <2>1, <2>2
<1>6. Cardinality(FailedUploads') = Cardinality(FailedUploads) + 1
  BY <1>3, <1>5, FailedUploadsFinite, FS_AddElement
<1>7. QED BY <1>6 DEF RekorCounted

LEMMA RekorCountStep ==
    ASSUME SignInv, RekorCounted, NEW c \in Calls, SignCall(c) \/ SignStep(c)
    PROVE  RekorCounted'
<1> USE DEF counters
<1>t. SignTypeOK
  BY DEF SignInv
<1>e. \A d \in Calls : signErr[d] # "none" <=> signPc[d] = "failed"
  BY DEF SignInv, StageInv
<1>a. \A d \in Calls : attempt[d] \in Nat
  BY <1>t, SignerAssumption DEF SignTypeOK
<1>1. CASE SignCall(c) \/ TokenAccepted(c)
  BY <1>1, <1>t, GotoOther, RekorCountKept DEF SignCall, TokenAccepted, FailedTries, Uploading
<1>2. CASE TokenRejected(c)
  BY <1>2, <1>t, <1>e, FailOther, RekorCountKept DEF TokenRejected, FailedTries, Uploading
<1>4. CASE FulcioOk(c)
  <2>1. \A d \in Calls : d # c => attempt'[d] = attempt[d]
    BY <1>4, <1>t DEF FulcioOk, SignTypeOK
  <2>2. QED
    BY <1>4, <1>t, <1>e, <2>1, GotoOther, RekorCountKept DEF FulcioOk, FailedTries, Uploading
<1>5. CASE FulcioAttemptFails(c)
  <2>1. \A d \in Calls : d # c => attempt'[d] = attempt[d]
    BY <1>5, <1>t DEF FulcioAttemptFails, SignTypeOK
  <2>2. \E l \in {"fulcioBackoff", "fulcio"} : Goto(c, l)
    BY <1>5 DEF FulcioAttemptFails
  <2>3. QED
    BY <1>5, <1>t, <1>e, <2>1, <2>2, GotoOther, RekorCountKept
       DEF FulcioAttemptFails, FailedTries, Uploading
<1>6. CASE FulcioExhausted(c)
  BY <1>6, <1>t, <1>e, FailOther, RekorCountKept DEF FulcioExhausted, FailedTries, Uploading
<1>7. CASE CosignOk(c)
  <2>1. attempt[c] = 0
    BY <1>7 DEF CosignOk, SignInv, RetryInv
  <2>2. QED
    BY <1>7, <1>t, <1>e, <2>1, GotoOther, RekorCountKept DEF CosignOk, FailedTries, Uploading
<1>8. CASE CosignFails(c)
  BY <1>8, <1>t, <1>e, FailOther, RekorCountKept DEF CosignFails, FailedTries, Uploading
<1>9. CASE RekorSend(c)
  BY <1>9, <1>t, <1>e, GotoOther, RekorCountKept DEF RekorSend, FailedTries, Uploading
<1>10. CASE RekorOk(c)
  BY <1>10, <1>t, <1>e, GotoOther, RekorCountKept DEF RekorOk, FailedTries, Uploading
<1>11. CASE RekorAttemptFails(c)
  <2>1. \A d \in Calls : attempt'[d] = IF d = c THEN attempt[d] + 1 ELSE attempt[d]
    BY <1>11, <1>t DEF RekorAttemptFails, SignTypeOK
  <2>2. \E l \in {"rekorBackoff", "rekor"} : Goto(c, l)
    BY <1>11 DEF RekorAttemptFails
  <2>3. /\ \A d \in Calls : d # c => signPc'[d] = signPc[d]
        /\ signPc'[c] \in {"rekorBackoff", "rekor"}
    BY <1>t, <2>2, GotoOther
  <2>4. FailedTries(c) = attempt[c] /\ FailedTries(c)' = attempt[c] + 1
    BY <1>11, <2>1, <2>3 DEF RekorAttemptFails, FailedTries, Uploading
  <2>5. \A d \in Calls : d # c => FailedTries(d)' = FailedTries(d)
    BY <1>11, <2>1, <2>3 DEF RekorAttemptFails, FailedTries
  <2>6. QED BY <1>11, <1>a, <2>4, <2>5, RekorCountGrows DEF RekorAttemptFails
<1>12. CASE RekorExhausted(c)
  BY <1>12, <1>t, <1>e, FailOther, RekorCountKept DEF RekorExhausted, FailedTries, Uploading
<1>13. CASE BackoffElapses(c)
  <2>1. \/ signPc[c] = "fulcioBackoff" /\ Goto(c, "fulcio")
        \/ signPc[c] = "rekorBackoff" /\ Goto(c, "rekor")
    BY <1>13 DEF BackoffElapses, BackoffOf
  <2>2. QED
    BY <1>13, <1>t, <1>e, <2>1, GotoOther, RekorCountKept
       DEF BackoffElapses, FailedTries, Uploading
<1>14. CASE BackoffCancelled(c)
  <2>1. \/ signPc[c] = "fulcioBackoff" /\ Fail(c, "fulcio")
        \/ signPc[c] = "rekorBackoff" /\ Fail(c, "rekor")
    BY <1>14 DEF BackoffCancelled, BackoffOf
  <2>2. QED
    BY <1>14, <1>t, <1>e, <2>1, FailOther, RekorCountKept
       DEF BackoffCancelled, FailedTries, Uploading
<1>15. QED
  BY <1>1, <1>2, <1>4, <1>5, <1>6, <1>7, <1>8, <1>9, <1>10, <1>11, <1>12, <1>13, <1>14
     DEF SignStep

LEMMA RekorCountInvariant == SignSpec => []RekorCounted
<1>1. SignInit => RekorCounted
  <2> SUFFICES ASSUME SignInit PROVE RekorCounted
    OBVIOUS
  <2>1. FailedUploads = {}
    BY DEF SignInit, FailedUploads
  <2>2. Cardinality({}) = 0
    BY FS_EmptySet
  <2>3. QED BY <2>1, <2>2 DEF SignInit, RekorCounted
<1>2. ASSUME RekorCounted, UNCHANGED <<signPc, signErr, attempt, rekorErrors>>
      PROVE  RekorCounted'
  BY <1>2, RekorCountKept DEF FailedTries
<1>3. SignInv /\ RekorCounted /\ [SignNext]_signVars => RekorCounted'
  <2> SUFFICES ASSUME SignInv, RekorCounted, [SignNext]_signVars PROVE RekorCounted'
    OBVIOUS
  <2>1. ASSUME NEW c \in Calls, SignCall(c) \/ SignStep(c) PROVE RekorCounted'
    BY <2>1, RekorCountStep
  <2>2. ASSUME NEW c \in Calls, Environment(c) PROVE RekorCounted'
    BY <1>2, <2>2 DEF Environment, ContextDone, RekorRecords, counters
  <2>3. CASE UNCHANGED signVars
    BY <1>2, <2>3 DEF signVars
  <2>4. QED BY <2>1, <2>2, <2>3 DEF SignNext, Terminated
<1>4. QED BY <1>1, <1>3, SignInvariant, PTL DEF SignSpec

\* No retry loop gives up early, no failed upload is left out of the counter, and
\* none is counted that was Fulcio's (signer.go:267-322).
THEOREM NoEarlyGiveUp == SignSpec => []GivesUpOnlyAfterRetries
<1>1. SignInv /\ RekorCounted => GivesUpOnlyAfterRetries
  BY DEF SignInv, RetryInv, RekorCounted, GivesUpOnlyAfterRetries
<1>2. QED BY <1>1, SignInvariant, RekorCountInvariant, PTL

-----------------------------------------------------------------------------
(* The entries of one call. *)

\* The attempts that a call has made of the upload it is in, or ended with.
Tries(c) == IF signPc[c] \in {"rekorAnswer", "ok"} THEN attempt[c] + 1 ELSE attempt[c]

\* What was sent for a call was sent by its attempts so far, and success is that
\* of the last one.
UploadInv ==
    \A c \in Calls :
        /\ \A n \in Attempt : <<c, n>> \in sent => n <= Tries(c)
        /\ signPc[c] = "ok" => <<c, attempt[c] + 1>> \in rekorLog

\* The labels of Sign before its upload.
Early == {"idle", "token", "fulcio", "fulcioBackoff", "cosign"}

\* A step of one call that sends nothing, does not end in success, and takes
\* back no try of a call that has sent something.
LEMMA UploadKept ==
    ASSUME SignInv, UploadInv, SignTypeOK', NEW c \in Calls,
           sent' = sent, rekorLog' = rekorLog,
           \A d \in Calls : d # c => signPc'[d] = signPc[d] /\ attempt'[d] = attempt[d],
           signPc[c] \in Early \/ Tries(c) <= Tries(c)',
           signPc'[c] # "ok"
    PROVE  UploadInv'
<1>1. SignTypeOK
  BY DEF SignInv
<1>2. ASSUME NEW d \in Calls, NEW n \in Attempt, <<d, n>> \in sent'
      PROVE  n <= Tries(d)'
  <2>0. n \in Int
    BY SignerAssumption DEF Attempt
  <2>1. <<d, n>> \in sent /\ n <= Tries(d)
    BY <1>2 DEF UploadInv
  <2>2. CASE d = c
    <3>1. signPc[c] \notin Early
      BY <2>1, <2>2 DEF SignInv, StageInv, Uploading, Early
    <3>2. Tries(c) \in Int /\ Tries(c)' \in Int
      BY <1>1, SignerAssumption DEF Tries, SignTypeOK
    <3>3. QED BY <2>0, <2>1, <2>2, <3>1, <3>2
  <2>3. CASE d # c
    BY <2>1, <2>3 DEF Tries
  <2>4. QED BY <2>2, <2>3
<1>3. ASSUME NEW d \in Calls, signPc'[d] = "ok"
      PROVE  <<d, attempt'[d] + 1>> \in rekorLog'
  BY <1>3 DEF UploadInv
<1>4. QED BY <1>2, <1>3 DEF UploadInv

LEMMA UploadStep ==
    ASSUME SignInv, UploadInv, NEW c \in Calls, SignCall(c) \/ SignStep(c)
    PROVE  UploadInv'
<1> USE DEF counters
<1>t. SignTypeOK /\ SignTypeOK'
  BY SignStepType DEF SignInv
<1>n. attempt[c] \in Int
  BY <1>t, SignerAssumption DEF SignTypeOK
<1>1. CASE SignCall(c)
  BY <1>1, <1>t, GotoOther, UploadKept DEF SignCall, Early
<1>2. CASE TokenRejected(c)
  BY <1>2, <1>t, FailOther, UploadKept DEF TokenRejected, Early
<1>3. CASE TokenAccepted(c)
  BY <1>3, <1>t, GotoOther, UploadKept DEF TokenAccepted, Early
<1>4. CASE FulcioOk(c)
  <2>1. \A d \in Calls : d # c => attempt'[d] = attempt[d]
    BY <1>4, <1>t DEF FulcioOk, SignTypeOK
  <2>2. QED BY <1>4, <1>t, <2>1, GotoOther, UploadKept DEF FulcioOk, Early
<1>5. CASE FulcioAttemptFails(c)
  <2>1. \A d \in Calls : d # c => attempt'[d] = attempt[d]
    BY <1>5, <1>t DEF FulcioAttemptFails, SignTypeOK
  <2>2. \E l \in {"fulcioBackoff", "fulcio"} : Goto(c, l)
    BY <1>5 DEF FulcioAttemptFails
  <2>3. QED BY <1>5, <1>t, <2>1, <2>2, GotoOther, UploadKept DEF FulcioAttemptFails, Early
<1>6. CASE FulcioExhausted(c)
  BY <1>6, <1>t, FailOther, UploadKept DEF FulcioExhausted, Early
<1>7. CASE CosignOk(c)
  BY <1>7, <1>t, GotoOther, UploadKept DEF CosignOk, Early
<1>8. CASE CosignFails(c)
  BY <1>8, <1>t, FailOther, UploadKept DEF CosignFails, Early
<1>9. CASE RekorSend(c)
  <2>1. \A d \in Calls : signPc'[d] = IF d = c THEN "rekorAnswer" ELSE signPc[d]
    BY <1>9, <1>t, GotoOther DEF RekorSend
  <2>2. Tries(c) = attempt[c] /\ Tries(c)' = attempt[c] + 1 /\ attempt' = attempt
    BY <1>9, <2>1 DEF RekorSend, Tries
  <2>3. ASSUME NEW d \in Calls, NEW n \in Attempt, <<d, n>> \in sent'
        PROVE  n <= Tries(d)'
    <3>1. \/ d = c /\ n = attempt[c] + 1
          \/ <<d, n>> \in sent /\ n <= Tries(d)
      BY <1>9, <2>3 DEF RekorSend, UploadInv
    <3>2. CASE d = c
      BY <1>n, <2>2, <3>1, <3>2 DEF Attempt
    <3>3. CASE d # c
      BY <2>1, <2>2, <3>1, <3>3 DEF Tries
    <3>4. QED BY <3>2, <3>3
  <2>4. ASSUME NEW d \in Calls, signPc'[d] = "ok"
        PROVE  <<d, attempt'[d] + 1>> \in rekorLog'
    BY <1>9, <2>1, <2>4 DEF RekorSend, UploadInv
  <2>5. QED BY <2>3, <2>4 DEF UploadInv
<1>10. CASE RekorOk(c)
  <2>1. \A d \in Calls : signPc'[d] = IF d = c THEN "ok" ELSE signPc[d]
    BY <1>10, <1>t, GotoOther DEF RekorOk
  <2>2. \A d \in Calls : Tries(d)' = Tries(d)
    BY <1>10, <2>1 DEF RekorOk, Tries
  <2>3. QED BY <1>10, <2>1, <2>2 DEF RekorOk, UploadInv
<1>11. CASE RekorAttemptFails(c)
  <2>1. \A d \in Calls : attempt'[d] = IF d = c THEN attempt[d] + 1 ELSE attempt[d]
    BY <1>11, <1>t DEF RekorAttemptFails, SignTypeOK
  <2>2. \E l \in {"rekorBackoff", "rekor"} : Goto(c, l)
    BY <1>11 DEF RekorAttemptFails
  <2>3. /\ \A d \in Calls : d # c => signPc'[d] = signPc[d]
        /\ signPc'[c] \in {"rekorBackoff", "rekor"}
    BY <1>t, <2>2, GotoOther
  <2>4. Tries(c) <= Tries(c)'
    BY <1>n, <2>1, <2>3 DEF Tries
  <2>5. QED BY <1>11, <1>t, <2>1, <2>3, <2>4, UploadKept DEF RekorAttemptFails
<1>12. CASE RekorExhausted(c)
  <2>1. Tries(c) <= Tries(c)'
    BY <1>12, <1>t, <1>n, FailOther DEF RekorExhausted, Tries
  <2>2. QED BY <1>12, <1>t, <2>1, FailOther, UploadKept DEF RekorExhausted
<1>13. CASE BackoffElapses(c)
  <2>1. \/ signPc[c] = "fulcioBackoff" /\ Goto(c, "fulcio")
        \/ signPc[c] = "rekorBackoff" /\ Goto(c, "rekor")
    BY <1>13 DEF BackoffElapses, BackoffOf
  <2>2. Tries(c) <= Tries(c)'
    BY <1>13, <1>t, <1>n, <2>1, GotoOther DEF BackoffElapses, Tries
  <2>3. QED BY <1>13, <1>t, <2>1, <2>2, GotoOther, UploadKept DEF BackoffElapses
<1>14. CASE BackoffCancelled(c)
  <2>1. \E s \in {"fulcio", "rekor"} : Fail(c, s) /\ signPc[c] \in {"fulcioBackoff", "rekorBackoff"}
    BY <1>14 DEF BackoffCancelled, BackoffOf
  <2>2. Tries(c) <= Tries(c)'
    BY <1>14, <1>t, <1>n, <2>1, FailOther DEF BackoffCancelled, Tries
  <2>3. QED BY <1>14, <1>t, <2>1, <2>2, FailOther, UploadKept DEF BackoffCancelled
<1>15. QED
  BY <1>1, <1>2, <1>3, <1>4, <1>5, <1>6, <1>7, <1>8, <1>9, <1>10, <1>11, <1>12,
     <1>13, <1>14 DEF SignStep

LEMMA UploadElsewhere ==
    ASSUME UploadInv, UNCHANGED <<signPc, attempt, sent>>, rekorLog \subseteq rekorLog'
    PROVE  UploadInv'
BY DEF UploadInv, Tries

LEMMA UploadInvariant == SignSpec => []UploadInv
<1>1. SignInit => UploadInv
  BY DEF SignInit, UploadInv
<1>2. SignInv /\ UploadInv /\ [SignNext]_signVars => UploadInv'
  <2> SUFFICES ASSUME SignInv, UploadInv, [SignNext]_signVars PROVE UploadInv'
    OBVIOUS
  <2>1. ASSUME NEW c \in Calls, SignCall(c) \/ SignStep(c) PROVE UploadInv'
    BY <2>1, UploadStep
  <2>2. ASSUME NEW c \in Calls, Environment(c) PROVE UploadInv'
    <3>1. UNCHANGED <<signPc, attempt, sent>> /\ rekorLog \subseteq rekorLog'
      BY <2>2 DEF Environment, ContextDone, RekorRecords
    <3>2. QED BY <3>1, UploadElsewhere
  <2>3. CASE UNCHANGED signVars
    BY <2>3, UploadElsewhere DEF signVars
  <2>4. QED BY <2>1, <2>2, <2>3 DEF SignNext, Terminated
<1>3. QED BY <1>1, <1>2, SignInvariant, PTL DEF SignSpec

\* The entries that Rekor may come to hold for one call, however late it records
\* them: one for each attempt that was made.
EntriesBehindAttempts ==
    \A c \in Calls :
        /\ signPc[c] = "ok" =>
              /\ <<c, attempt[c] + 1>> \in rekorLog
              /\ \A n \in Attempt : <<c, n>> \in sent => n <= attempt[c] + 1
        /\ signPc[c] = "failed" => \A n \in Attempt : <<c, n>> \in sent => n <= attempt[c]

\* A call that needed no retry has one entry and will never have another: only a
\* failed attempt of the upload can leave a duplicate behind (signer.go:299-322).
OneEntryWithoutRetry ==
    \A c \in Calls : signPc[c] = "ok" /\ attempt[c] = 0 =>
        \A n \in Attempt : <<c, n>> \in sent <=> n = 1

\* Success is the entry of the last attempt, and duplicates are of the failed ones
\* before it (signer.go:285-322).
THEOREM DuplicatesNeedRetries == SignSpec => [](EntriesBehindAttempts /\ OneEntryWithoutRetry)
<1>1. UploadInv => EntriesBehindAttempts
  BY DEF UploadInv, Tries, EntriesBehindAttempts
<1>2. SignTypeOK /\ EntriesBehindAttempts => OneEntryWithoutRetry
  <2> SUFFICES ASSUME SignTypeOK, EntriesBehindAttempts,
                      NEW c \in Calls, signPc[c] = "ok", attempt[c] = 0,
                      NEW n \in Attempt
               PROVE  <<c, n>> \in sent <=> n = 1
    BY DEF OneEntryWithoutRetry
  <2>1. <<c, 1>> \in sent
    <3>1. <<c, attempt[c] + 1>> \in rekorLog /\ attempt[c] + 1 = 1
      BY DEF EntriesBehindAttempts
    <3>2. QED BY <3>1 DEF SignTypeOK
  <2>2. <<c, n>> \in sent => n <= attempt[c] + 1
    BY DEF EntriesBehindAttempts
  <2>3. n \in Nat \ {0}
    BY SignerAssumption DEF Attempt
  <2>4. QED BY <2>1, <2>2, <2>3
<1>3. QED BY <1>1, <1>2, UploadInvariant, SignTypeCorrect, PTL

\* The calls whose last attempt is not a failed one.
Answered == {c \in Calls : signPc[c] \in {"rekorAnswer", "ok"}}
LastAttempts == {<<c, attempt[c] + 1>> : c \in Answered}

LEMMA LastAttemptsFinite ==
    /\ IsFiniteSet(Answered) /\ IsFiniteSet(LastAttempts)
    /\ Cardinality(Answered) \in Nat /\ Cardinality(LastAttempts) \in Nat
    /\ Cardinality(LastAttempts) <= Cardinality(Answered)
<1> DEFINE last == [c \in Answered |-> <<c, attempt[c] + 1>>]
<1>1. IsFiniteSet(Answered)
  BY SignerAssumption, FS_Subset DEF Answered
<1>2. last \in Surjection(Answered, LastAttempts)
  BY DEF Surjection, LastAttempts
<1>3. IsFiniteSet(LastAttempts) /\ Cardinality(LastAttempts) <= Cardinality(Answered)
  BY <1>1, <1>2, FS_Surjection
<1>4. QED BY <1>1, <1>3, FS_CardinalityType

\* The entries are of failed attempts, which the counter has, and of at most one
\* more for each call that succeeded or waits (signer.go:285-322).
THEOREM EntriesAreAccountedFor == SignSpec => []LogIsAccountedFor
<1>1. SignInv /\ UploadInv => rekorLog \subseteq FailedUploads \cup LastAttempts
  <2> SUFFICES ASSUME SignInv, UploadInv, NEW c \in Calls, NEW n \in Attempt, <<c, n>> \in sent
               PROVE  <<c, n>> \in FailedUploads \cup LastAttempts
    BY DEF SignInv, SignTypeOK
  <2>1. n \in Nat /\ attempt[c] \in Nat
    BY SignerAssumption DEF Attempt, SignInv, SignTypeOK
  <2>2. signPc[c] \in Uploading \/ signErr[c] = "rekor"
    BY DEF SignInv, StageInv
  <2>3. n <= Tries(c)
    BY DEF UploadInv
  <2>4. CASE n <= attempt[c]
    BY <2>2, <2>4 DEF FailedUploads, Uploading
  <2>5. CASE ~(n <= attempt[c])
    <3>1. signPc[c] \in {"rekorAnswer", "ok"} /\ n <= attempt[c] + 1
      BY <2>3, <2>5 DEF Tries
    <3>2. n = attempt[c] + 1
      BY <2>1, <2>5, <3>1
    <3>3. QED BY <3>1, <3>2 DEF LastAttempts, Answered
  <2>6. QED BY <2>4, <2>5
<1>2. SignInv /\ UploadInv /\ RekorCounted => LogIsAccountedFor
  <2> SUFFICES ASSUME SignInv, UploadInv, RekorCounted PROVE LogIsAccountedFor
    OBVIOUS
  <2>1. /\ IsFiniteSet(FailedUploads \cup LastAttempts)
        /\ Cardinality(FailedUploads \cup LastAttempts)
              <= Cardinality(FailedUploads) + Cardinality(LastAttempts)
    <3>1. /\ IsFiniteSet(FailedUploads \cup LastAttempts)
          /\ Cardinality(FailedUploads \cup LastAttempts) = Cardinality(FailedUploads)
                + Cardinality(LastAttempts) - Cardinality(FailedUploads \cap LastAttempts)
      BY FailedUploadsFinite, LastAttemptsFinite, FS_Union
    <3>2. Cardinality(FailedUploads \cap LastAttempts) \in Nat
      BY FailedUploadsFinite, FS_Intersection, FS_CardinalityType
    <3>3. QED BY <3>1, <3>2, FailedUploadsFinite, LastAttemptsFinite
  <2>2. /\ Cardinality(rekorLog) <= Cardinality(FailedUploads \cup LastAttempts)
        /\ Cardinality(rekorLog) \in Nat
        /\ Cardinality(FailedUploads \cup LastAttempts) \in Nat
    BY <1>1, <2>1, FS_Subset, FS_CardinalityType
  <2>3. Cardinality(rekorLog) <= rekorErrors + Cardinality(Answered)
    BY <2>1, <2>2, FailedUploadsFinite, LastAttemptsFinite DEF RekorCounted
  <2>4. QED BY <2>3 DEF LogIsAccountedFor, Answered
<1>3. QED BY <1>2, SignInvariant, UploadInvariant, RekorCountInvariant, PTL

-----------------------------------------------------------------------------
(* The counter of signing failures. *)

FailedCalls == {c \in Calls : signPc[c] = "failed" /\ signErr[c] # "token"}

\* A step moves the counter and the number of those calls by the same k.
CountedBy(k) ==
    /\ gateFailures'["signing_error"] = gateFailures["signing_error"] + k
    /\ Cardinality(FailedCalls') = Cardinality(FailedCalls) + k

\* A step that fails a call after its token was accepted adds that call, and
\* one to the counter.
LEMMA CountedFailure ==
    ASSUME SignInv, NEW c \in Calls,
           NEW s \in {"fulcio", "cosign", "rekor"},
           signPc[c] # "failed", Fail(c, s), IncrementSigningFailures
    PROVE  CountedBy(1)
<1>1. FailedCalls' = FailedCalls \cup {c} /\ c \notin FailedCalls
  BY FailOther DEF FailedCalls, SignInv
<1>2. IsFiniteSet(FailedCalls)
  BY SignerAssumption, FS_Subset DEF FailedCalls
<1>3. Cardinality(FailedCalls') = Cardinality(FailedCalls) + 1
  BY <1>1, <1>2, FS_AddElement
<1>4. gateFailures'["signing_error"] = gateFailures["signing_error"] + 1
  BY DEF IncrementSigningFailures, SignInv, SignTypeOK, GateReason
<1>5. QED BY <1>3, <1>4 DEF CountedBy

\* Any other step changes neither.
LEMMA UncountedStep ==
    ASSUME SignTypeOK, gateFailures' = gateFailures,
           \A d \in Calls : (signPc'[d] = "failed" /\ signErr'[d] # "token")
                           <=> (signPc[d] = "failed" /\ signErr[d] # "token")
    PROVE  CountedBy(0)
<1>1. FailedCalls' = FailedCalls BY DEF FailedCalls
<1>2. IsFiniteSet(FailedCalls)
  BY SignerAssumption, FS_Subset DEF FailedCalls
<1>3. Cardinality(FailedCalls) \in Nat /\ gateFailures["signing_error"] \in Nat
  BY <1>2, FS_CardinalityType DEF SignTypeOK, GateReason
<1>4. QED BY <1>1, <1>3 DEF CountedBy

LEMMA SignStepCounts ==
    ASSUME SignInv, NEW c \in Calls, SignCall(c) \/ SignStep(c)
    PROVE  CountedBy(0) \/ CountedBy(1)
<1> USE DEF counters
<1>t. SignTypeOK BY DEF SignInv
<1>1. CASE SignCall(c)
  BY <1>1, <1>t, GotoOther, UncountedStep DEF SignCall
<1>2. CASE TokenRejected(c)
  BY <1>2, <1>t, FailOther, UncountedStep DEF TokenRejected
<1>3. CASE TokenAccepted(c)
  BY <1>3, <1>t, GotoOther, UncountedStep DEF TokenAccepted
<1>4. CASE FulcioOk(c)
  BY <1>4, <1>t, GotoOther, UncountedStep DEF FulcioOk
<1>5. CASE FulcioAttemptFails(c)
  BY <1>5, <1>t, GotoOther, UncountedStep DEF FulcioAttemptFails
<1>6. CASE FulcioExhausted(c)
  BY <1>6, CountedFailure DEF FulcioExhausted
<1>7. CASE CosignOk(c)
  BY <1>7, <1>t, GotoOther, UncountedStep DEF CosignOk
<1>8. CASE CosignFails(c)
  BY <1>8, CountedFailure DEF CosignFails
<1>9. CASE RekorSend(c)
  BY <1>9, <1>t, GotoOther, UncountedStep DEF RekorSend
<1>10. CASE RekorOk(c)
  BY <1>10, <1>t, GotoOther, UncountedStep DEF RekorOk
<1>11. CASE RekorAttemptFails(c)
  BY <1>11, <1>t, GotoOther, UncountedStep DEF RekorAttemptFails
<1>12. CASE RekorExhausted(c)
  BY <1>12, CountedFailure DEF RekorExhausted
<1>13. CASE BackoffElapses(c)
  <2>1. \E l \in {"fulcio", "rekor"} : Goto(c, l) /\ signPc[c] # "failed"
    BY <1>13 DEF BackoffElapses, BackoffOf
  <2>2. QED BY <1>13, <1>t, <2>1, GotoOther, UncountedStep DEF BackoffElapses
<1>14. CASE BackoffCancelled(c)
  <2>1. \E s \in {"fulcio", "rekor"} : Fail(c, s) /\ signPc[c] # "failed"
    BY <1>14 DEF BackoffCancelled, BackoffOf
  <2>2. QED BY <1>14, <2>1, CountedFailure DEF BackoffCancelled
<1>15. QED
  BY <1>1, <1>2, <1>3, <1>4, <1>5, <1>6, <1>7, <1>8, <1>9, <1>10, <1>11, <1>12,
     <1>13, <1>14 DEF SignStep

LEMMA EnvironmentCounts ==
    ASSUME SignInv, NEW c \in Calls, Environment(c)
    PROVE  CountedBy(0)
BY UncountedStep DEF SignInv, Environment, ContextDone, RekorRecords, counters

\* The recorder's counter is the number of calls that failed after their token
\* was accepted (signer.go:220-257, metrics.go:246-253).
THEOREM FailuresAreCounted == SignSpec => []SigningFailuresCounted
<1>1. SignInit => SigningFailuresCounted
  <2> SUFFICES ASSUME SignInit PROVE SigningFailuresCounted
    OBVIOUS
  <2>1. FailedCalls = {} BY DEF SignInit, FailedCalls
  <2>2. QED BY <2>1, FS_EmptySet DEF SignInit, SigningFailuresCounted, FailedCalls, GateReason
<1>2. ASSUME SigningFailuresCounted, CountedBy(0) \/ CountedBy(1) PROVE SigningFailuresCounted'
  BY <1>2 DEF SigningFailuresCounted, CountedBy, FailedCalls
<1>3. SignInv /\ SigningFailuresCounted /\ [SignNext]_signVars => SigningFailuresCounted'
  <2> SUFFICES ASSUME SignInv, SigningFailuresCounted, [SignNext]_signVars
               PROVE  SigningFailuresCounted'
    OBVIOUS
  <2>1. ASSUME NEW c \in Calls, SignCall(c) \/ SignStep(c) PROVE SigningFailuresCounted'
    BY <2>1, <1>2, SignStepCounts
  <2>2. ASSUME NEW c \in Calls, Environment(c) PROVE SigningFailuresCounted'
    BY <2>2, <1>2, EnvironmentCounts
  <2>3. CASE UNCHANGED signVars
    BY <2>3, <1>2, UncountedStep DEF signVars, SignInv
  <2>4. QED BY <2>1, <2>2, <2>3 DEF SignNext, Terminated
<1>4. QED BY <1>1, <1>3, SignInvariant, PTL DEF SignSpec

-----------------------------------------------------------------------------
(* The service: ProcessArtifact. *)

Before == {"idle", "check", "fetch", "evaluate"}

\* Where an invocation is and where its call of Sign is; what it knows by then.
StageOfService ==
    /\ \A c \in Calls : pc[c] \in Before => signPc[c] = "idle"
    /\ \A c \in Calls : pc[c] # "done" => outcome[c] = "none"
    /\ \A c \in Calls : pc[c] \in {"evaluate", "signing"} => report[c] \in ScanReports

\* Sign was entered behind a clean report.
GateInv == \A c \in Calls : signPc[c] # "idle" => Clean(Threshold, report[c])

\* An invocation begun on a signed artifact gets past the check only by its error.
CheckInv ==
    \A c \in signedAtBegin :
        /\ ArtifactOf[c] \in signed
        /\ pc[c] \in {"fetch", "evaluate", "signing"} => c \in checkFailed
        /\ signPc[c] # "idle" => c \in checkFailed

ServiceInv ==
    /\ TypeOK
    /\ SignInv
    /\ StageOfService
    /\ GateInv
    /\ CheckInv
    /\ InFlightIsExact

-----------------------------------------------------------------------------

\* The reference decision passes exactly the clean reports.
LEMMA EvaluatePasses ==
    \A t, r : r.nil = FALSE =>
        /\ Evaluate(t, r).pass => Clean(t, r)
        /\ ~Evaluate(t, r).pass => Evaluate(t, r).reason = "vulnerability_exceeded"
<1> TAKE t, r
<1> HAVE r.nil = FALSE
<1> DEFINE v == r.vulnerabilities
<1>1. CASE \E i \in DOMAIN v : Malformed(v[i])
  BY <1>1 DEF Evaluate, Clean, Decision
<1>2. CASE ~(\E i \in DOMAIN v : Malformed(v[i]))
  <2>1. CASE \E i \in DOMAIN v : Violates(t, v[i])
    BY <1>2, <2>1 DEF Evaluate, Clean, Decision
  <2>2. CASE ~(\E i \in DOMAIN v : Violates(t, v[i]))
    BY <1>2, <2>2 DEF Evaluate, Clean, Decision
  <2>3. QED BY <2>1, <2>2
<1>3. QED BY <1>1, <1>2

Active == {c \in Calls : pc[c] \notin {"idle", "done"}}

LEMMA ActiveFinite ==
    /\ IsFiniteSet(Active)
    /\ Cardinality(Active) \in Nat
BY SignerAssumption, FS_Subset, FS_CardinalityType DEF Active

LEMMA ServiceInit == Init => ServiceInv
<1> SUFFICES ASSUME Init PROVE ServiceInv
  OBVIOUS
<1>1. SignInv
  BY SignInitInv DEF Init
<1>2. TypeOK
  BY <1>1 DEF Init, TypeOK, SignInv, Source
<1>3. StageOfService /\ GateInv /\ CheckInv
  BY DEF Init, SignInit, StageOfService, GateInv, CheckInv, Before
<1>4. InFlightIsExact
  <2>1. Active = {} BY DEF Init, Active
  <2>2. QED BY <2>1, FS_EmptySet DEF Init, InFlightIsExact, Active
<1>5. QED BY <1>1, <1>2, <1>3, <1>4 DEF ServiceInv

\* The service's own steps leave Sign alone but for the shared counter.
LEMMA SignUntouched ==
    ASSUME SignInv, UNCHANGED signVarsButGate, gateFailures' \in [GateReason -> Nat]
    PROVE  SignInv'
BY DEF SignInv, SignTypeOK, StageInv, RetryInv, OkHasEntry, signVarsButGate

LEMMA StepOther ==
    ASSUME TypeOK, NEW c \in Calls, NEW from, NEW to, Step(c, from, to)
    PROVE  /\ pc[c] = from
           /\ \A d \in Calls : pc'[d] = IF d = c THEN to ELSE pc[d]
BY DEF TypeOK, Step

LEMMA FinishOther ==
    ASSUME TypeOK, NEW c \in Calls, NEW from, NEW how, Finish(c, from, how)
    PROVE  /\ pc[c] = from
           /\ \A d \in Calls : /\ pc'[d] = IF d = c THEN "done" ELSE pc[d]
                               /\ outcome'[d] = IF d = c THEN how ELSE outcome[d]
BY DEF TypeOK, Step, Finish

\* The gauge follows an invocation that ends, one that begins, and no other.
LEMMA GaugeDown ==
    ASSUME ServiceInv, NEW c \in Calls, NEW how,
           NEW from \in {"check", "fetch", "evaluate", "signing"}, Finish(c, from, how)
    PROVE  InFlightIsExact' /\ inFlight' \in Nat
<1>1. Active' = Active \ {c} /\ c \in Active
  BY FinishOther DEF Active, ServiceInv
<1>2. Cardinality(Active') = Cardinality(Active) - 1 /\ Cardinality(Active') \in Nat
  BY <1>1, ActiveFinite, FS_RemoveElement, FS_CardinalityType
<1>3. inFlight' = inFlight - 1 /\ inFlight = Cardinality(Active)
  BY DEF Finish, ServiceInv, InFlightIsExact, Active
<1>4. QED BY <1>2, <1>3 DEF InFlightIsExact, Active

LEMMA GaugeUp ==
    ASSUME ServiceInv, NEW c \in Calls, Begin(c)
    PROVE  InFlightIsExact' /\ inFlight' \in Nat
<1>1. Active' = Active \cup {c} /\ c \notin Active
  BY StepOther DEF Active, ServiceInv, Begin
<1>2. Cardinality(Active') = Cardinality(Active) + 1 /\ Cardinality(Active') \in Nat
  BY <1>1, ActiveFinite, FS_AddElement, FS_CardinalityType
<1>3. inFlight' = inFlight + 1 /\ inFlight = Cardinality(Active)
  BY DEF Begin, ServiceInv, InFlightIsExact, Active
<1>4. QED BY <1>2, <1>3 DEF InFlightIsExact, Active

LEMMA GaugeSame ==
    ASSUME InFlightIsExact, inFlight' = inFlight,
           \A d \in Calls : pc'[d] \in {"idle", "done"} <=> pc[d] \in {"idle", "done"}
    PROVE  InFlightIsExact'
<1>1. Active' = Active BY DEF Active
<1>2. QED BY <1>1 DEF InFlightIsExact, Active

LEMMA BeginInv ==
    ASSUME ServiceInv, NEW c \in Calls, Begin(c)
    PROVE  ServiceInv'
<1> USE DEF ServiceInv
<1>1. SignInv'
  BY SignStutterInv DEF Begin
<1>2. InFlightIsExact' /\ inFlight' \in Nat
  BY GaugeUp
<1>3. TypeOK'
  BY <1>1, <1>2 DEF Begin, Step, TypeOK, SignInv, registry
<1>4. StageOfService' /\ GateInv'
  BY StepOther DEF Begin, StageOfService, GateInv, signVars, Before
<1>5. CheckInv'
  <2>1. signPc[c] = "idle"
    BY DEF Begin, Step, StageOfService, Before
  <2>2. QED BY <2>1, StepOther DEF Begin, CheckInv, signVars, registry, TypeOK
<1>6. QED BY <1>1, <1>2, <1>3, <1>4, <1>5

\* The ends of ProcessArtifact.
LEMMA FinishInv ==
    ASSUME ServiceInv, NEW c \in Calls,
           AlreadySigned(c) \/ FetchError(c) \/ GateFail(c) \/ SignError(c) \/ Issue(c)
    PROVE  ServiceInv'
<1> USE DEF ServiceInv
<1>0. PICK from \in {"check", "fetch", "evaluate", "signing"},
           how \in {"skipped", "fetchError", "gateFailed", "signError", "issued"} :
             Finish(c, from, how)
  BY DEF AlreadySigned, FetchError, GateFail, SignError, Issue
<1>1. InFlightIsExact' /\ inFlight' \in Nat
  BY <1>0, GaugeDown
<1>2. /\ UNCHANGED signVarsButGate
      /\ UNCHANGED <<checkFailed, report, signedAtBegin, signed, scan>>
  BY DEF AlreadySigned, FetchError, GateFail, SignError, Issue, signVars,
         signVarsButGate, registry
<1>3. gateFailures' \in [GateReason -> Nat]
  <2>1. gateFailures \in [GateReason -> Nat]
    BY DEF TypeOK, SignTypeOK
  <2>2. \/ gateFailures' = gateFailures
        \/ \E r \in GateReason : gateFailures' = [gateFailures EXCEPT ![r] = @ + 1]
    <3>1. CASE AlreadySigned(c) \/ Issue(c)
      BY <3>1 DEF AlreadySigned, Issue, signVars
    <3>2. CASE FetchError(c)
      BY <3>2 DEF FetchError, IncrementGateFailures, GateReason
    <3>3. CASE SignError(c)
      BY <3>3 DEF SignError, IncrementGateFailures, GateReason
    <3>4. CASE GateFail(c)
      <4>1. pc[c] = "evaluate"
        BY <3>4, FinishOther DEF GateFail
      <4>2. report[c].nil = FALSE
        BY <4>1, ServiceAssumption DEF StageOfService
      <4>3. ~Evaluate(Threshold, report[c]).pass
        BY <3>4 DEF GateFail, DecisionFor
      <4>4. Evaluate(Threshold, report[c]).reason = "vulnerability_exceeded"
        BY <4>2, <4>3, EvaluatePasses
      <4>5. QED BY <3>4, <4>4 DEF GateFail, DecisionFor, IncrementGateFailures, GateReason
    <3>5. QED BY <3>1, <3>2, <3>3, <3>4
  <2>3. QED BY <2>1, <2>2
<1>4. SignInv'
  BY <1>2, <1>3, SignUntouched
<1>5. skipped' \in Nat /\ issued' \in [Source -> Nat]
  BY ServiceAssumption DEF TypeOK, AlreadySigned, FetchError, GateFail, SignError, Issue
<1>6. TypeOK'
  <2>1. /\ pc' \in [Calls -> {"idle", "check", "fetch", "evaluate", "signing", "done"}]
        /\ outcome' \in [Calls -> {"none", "skipped", "fetchError", "gateFailed", "signError", "issued"}]
    BY <1>0 DEF Finish, Step, TypeOK
  <2>2. QED BY <1>1, <1>2, <1>4, <1>5, <2>1 DEF TypeOK, SignInv
<1>7. signPc' = signPc
  BY <1>2 DEF signVarsButGate
<1>8. \A d \in Calls : /\ pc'[d] = IF d = c THEN "done" ELSE pc[d]
                       /\ outcome'[d] = IF d = c THEN how ELSE outcome[d]
  BY <1>0, FinishOther
<1>9. StageOfService'
  BY <1>2, <1>7, <1>8 DEF StageOfService, Before
<1>10. GateInv'
  BY <1>2, <1>7 DEF GateInv
<1>11. CheckInv'
  BY <1>2, <1>7, <1>8 DEF CheckInv, TypeOK
<1>12. QED BY <1>1, <1>4, <1>6, <1>9, <1>10, <1>11

\* The steps from one stage of ProcessArtifact to the next.
LEMMA AdvanceInv ==
    ASSUME ServiceInv, NEW c \in Calls,
           NotSigned(c) \/ CheckError(c) \/ FetchReport(c)
    PROVE  ServiceInv'
<1> USE DEF ServiceInv
<1>0. PICK from \in {"check", "fetch"}, to \in {"fetch", "evaluate"} : Step(c, from, to)
  BY DEF NotSigned, CheckError, FetchReport
<1>1. UNCHANGED signVars /\ UNCHANGED <<outcome, signedAtBegin, inFlight, skipped, issued, signed, scan>>
  BY DEF NotSigned, CheckError, FetchReport, registry
<1>2. SignInv'
  BY <1>1, SignStutterInv
<1>3. signPc' = signPc /\ signPc[c] = "idle"
  BY <1>0, <1>1, StepOther DEF signVars, StageOfService, Before
<1>4. InFlightIsExact'
  BY <1>0, <1>1, StepOther, GaugeSame
<1>5. CASE NotSigned(c) \/ CheckError(c)
  <2>1. Step(c, "check", "fetch") /\ report' = report
    BY <1>5 DEF NotSigned, CheckError
  <2>2. TypeOK'
    BY <1>1, <1>2, <1>5, <2>1 DEF NotSigned, CheckError, TypeOK, SignInv, Step
  <2>3. StageOfService' /\ GateInv'
    BY <1>1, <1>3, <2>1, StepOther DEF StageOfService, GateInv, Before
  <2>4. CheckInv'
    <3>1. \A d \in Calls : pc'[d] = IF d = c THEN "fetch" ELSE pc[d]
      BY <2>1, StepOther
    <3>2. c \in signedAtBegin => c \in checkFailed'
      BY <1>5 DEF NotSigned, CheckError, CheckInv
    <3>3. checkFailed \subseteq checkFailed'
      BY <1>5 DEF NotSigned, CheckError
    <3>4. QED BY <1>1, <1>3, <3>1, <3>2, <3>3 DEF CheckInv, TypeOK
  <2>5. QED BY <1>2, <1>4, <2>2, <2>3, <2>4
<1>6. CASE FetchReport(c)
  <2>0. PICK r \in scan[ArtifactOf[c]] : report' = [report EXCEPT ![c] = r]
    BY <1>6 DEF FetchReport
  <2>1. Step(c, "fetch", "evaluate") /\ checkFailed' = checkFailed
    BY <1>6 DEF FetchReport
  <2>2. \A d \in Calls : report'[d] = IF d = c THEN r ELSE report[d]
    BY <2>0 DEF TypeOK
  <2>3. r \in ScanReports
    BY ServiceAssumption DEF TypeOK
  <2>4. TypeOK'
    BY <1>1, <1>2, <2>0, <2>1, <2>3 DEF TypeOK, SignInv, Step
  <2>5. /\ pc[c] = "fetch"
        /\ \A d \in Calls : pc'[d] = IF d = c THEN "evaluate" ELSE pc[d]
    BY <2>1, StepOther
  <2>6. StageOfService'
    BY <1>1, <1>3, <2>2, <2>3, <2>5 DEF StageOfService, Before
  <2>7. GateInv'
    BY <1>3, <2>2 DEF GateInv
  <2>8. CheckInv'
    BY <1>1, <1>3, <2>1, <2>5 DEF CheckInv, TypeOK
  <2>9. QED BY <1>2, <1>4, <2>4, <2>6, <2>7, <2>8
<1>7. QED BY <1>5, <1>6

LEMMA GatePassInv ==
    ASSUME ServiceInv, NEW c \in Calls, GatePass(c)
    PROVE  ServiceInv'
<1> USE DEF ServiceInv
<1>1. SignInv'
  BY SignStepInv DEF GatePass
<1>2. Step(c, "evaluate", "signing") /\ Goto(c, "token")
  BY DEF GatePass, SignCall
<1>3. UNCHANGED <<outcome, checkFailed, report, signedAtBegin, inFlight, skipped, issued, signed, scan>>
  BY DEF GatePass, registry
<1>4. report[c].nil = FALSE
  BY <1>2, StepOther, ServiceAssumption DEF StageOfService
<1>5. Clean(Threshold, report[c])
  <2>1. Evaluate(Threshold, report[c]).pass
    BY DEF GatePass, DecisionFor
  <2>2. QED BY <1>4, <2>1, EvaluatePasses
<1>6. TypeOK'
  BY <1>1, <1>2, <1>3 DEF TypeOK, SignInv, Step
<1>7. \A d \in Calls : /\ signPc'[d] = IF d = c THEN "token" ELSE signPc[d]
                       /\ pc'[d] = IF d = c THEN "signing" ELSE pc[d]
  BY <1>2, StepOther, GotoOther DEF SignInv
<1>8. pc[c] = "evaluate"
  BY <1>2 DEF Step
<1>9. StageOfService'
  BY <1>3, <1>7, <1>8 DEF StageOfService, Before
<1>10. GateInv'
  BY <1>3, <1>5, <1>7 DEF GateInv
<1>11. CheckInv'
  BY <1>3, <1>7, <1>8 DEF CheckInv, TypeOK
<1>12. InFlightIsExact'
  BY <1>3, <1>7, <1>8, GaugeSame
<1>13. QED BY <1>1, <1>6, <1>9, <1>10, <1>11, <1>12

\* A step inside Sign is taken only by a call that was entered.
LEMMA SignStepEntered ==
    ASSUME SignTypeOK, NEW c \in Calls, SignStep(c)
    PROVE  /\ signPc[c] # "idle"
           /\ \A d \in Calls : d # c => signPc'[d] = signPc[d]
           /\ signPc'[c] # "idle"
<1> USE DEF SignTypeOK, Goto, Fail
<1>1. CASE TokenRejected(c) \/ TokenAccepted(c)
  BY <1>1 DEF TokenRejected, TokenAccepted
<1>2. CASE FulcioOk(c) \/ FulcioAttemptFails(c) \/ FulcioExhausted(c)
  BY <1>2 DEF FulcioOk, FulcioAttemptFails, FulcioExhausted
<1>3. CASE CosignOk(c) \/ CosignFails(c)
  BY <1>3 DEF CosignOk, CosignFails
<1>4. CASE RekorSend(c) \/ RekorOk(c) \/ RekorAttemptFails(c) \/ RekorExhausted(c)
  BY <1>4 DEF RekorSend, RekorOk, RekorAttemptFails, RekorExhausted
<1>5. CASE BackoffElapses(c) \/ BackoffCancelled(c)
  BY <1>5 DEF BackoffElapses, BackoffCancelled, BackoffOf
<1>6. QED BY <1>1, <1>2, <1>3, <1>4, <1>5 DEF SignStep

LEMMA SigningInv ==
    ASSUME ServiceInv, NEW c \in Calls, Signing(c) \/ Around(c)
    PROVE  ServiceInv'
<1> USE DEF ServiceInv
<1>1. SignInv'
  BY SignStepInv, EnvironmentInv DEF Signing, Around
<1>2. UNCHANGED <<pc, outcome, checkFailed, report, signedAtBegin, inFlight, skipped, issued, signed, scan>>
  BY DEF Signing, Around, serviceVars, registry
<1>3. \A d \in Calls : signPc'[d] # "idle" <=> signPc[d] # "idle"
  <2>1. CASE Signing(c)
    BY <2>1, SignStepEntered DEF Signing, SignInv
  <2>2. CASE Around(c)
    BY <2>2 DEF Around, Environment, ContextDone, RekorRecords
  <2>3. QED BY <2>1, <2>2
<1>4. TypeOK'
  BY <1>1, <1>2 DEF TypeOK, SignInv
<1>5. StageOfService'
  BY <1>2, <1>3 DEF StageOfService
<1>6. GateInv'
  BY <1>2, <1>3 DEF GateInv
<1>7. CheckInv'
  BY <1>2, <1>3 DEF CheckInv, TypeOK
<1>8. InFlightIsExact'
  BY <1>2 DEF InFlightIsExact
<1>9. QED BY <1>1, <1>4, <1>5, <1>6, <1>7, <1>8

LEMMA RegistryInv ==
    ASSUME ServiceInv, NEW a \in Artifacts, ExternalSign(a) \/ Rescan(a)
    PROVE  ServiceInv'
<1> USE DEF ServiceInv
<1>1. SignInv'
  BY SignStutterInv DEF ExternalSign, Rescan
<1>2. TypeOK'
  BY <1>1 DEF ExternalSign, Rescan, TypeOK, SignInv, serviceVars
<1>3. StageOfService' /\ GateInv' /\ CheckInv' /\ InFlightIsExact'
  BY DEF ExternalSign, Rescan, serviceVars, signVars, StageOfService, GateInv,
         CheckInv, InFlightIsExact
<1>4. QED BY <1>1, <1>2, <1>3

LEMMA ServiceStutter == ServiceInv /\ UNCHANGED vars => ServiceInv'
<1> SUFFICES ASSUME ServiceInv, UNCHANGED vars PROVE ServiceInv'
  OBVIOUS
<1>1. SignInv'
  BY SignStutterInv DEF ServiceInv, vars
<1>2. TypeOK'
  BY <1>1 DEF ServiceInv, TypeOK, SignInv, vars, serviceVars, registry
<1>3. StageOfService' /\ GateInv' /\ CheckInv' /\ InFlightIsExact'
  BY DEF ServiceInv, vars, serviceVars, signVars, registry, StageOfService, GateInv,
         CheckInv, InFlightIsExact
<1>4. QED BY <1>1, <1>2, <1>3 DEF ServiceInv

LEMMA ServiceStep == ServiceInv /\ [Next]_vars => ServiceInv'
<1> SUFFICES ASSUME ServiceInv, [Next]_vars PROVE ServiceInv'
  OBVIOUS
<1>1. ASSUME NEW c \in Calls, Begin(c) PROVE ServiceInv'
  BY <1>1, BeginInv
<1>2. ASSUME NEW c \in Calls, ProcessStep(c) PROVE ServiceInv'
  BY <1>2, FinishInv, AdvanceInv, GatePassInv DEF ProcessStep
<1>3. ASSUME NEW c \in Calls, Signing(c) \/ Around(c) PROVE ServiceInv'
  BY <1>3, SigningInv
<1>4. ASSUME NEW a \in Artifacts, ExternalSign(a) \/ Rescan(a) PROVE ServiceInv'
  BY <1>4, RegistryInv
<1>5. CASE UNCHANGED vars
  BY <1>5, ServiceStutter
<1>6. QED BY <1>1, <1>2, <1>3, <1>4, <1>5 DEF Next, ServiceTerminated

LEMMA ServiceInvariant == Spec => []ServiceInv
BY ServiceInit, ServiceStep, PTL DEF Spec

-----------------------------------------------------------------------------

\* The state of the service is well-typed.
THEOREM ServiceTypeCorrect == Spec => []TypeOK
<1>1. ServiceInv => TypeOK BY DEF ServiceInv
<1>2. QED BY <1>1, ServiceInvariant, PTL

\* No request reaches the transparency log behind a report that is not clean
\* (service.go:147-187), for any threshold, any reports and any interleaving.
THEOREM OnlyCleanIsSigned == Spec => []OnlyCleanReachesRekor
<1>1. ServiceInv => OnlyCleanReachesRekor
  BY DEF ServiceInv, GateInv, SignInv, StageInv, Uploading, OnlyCleanReachesRekor
<1>2. QED BY <1>1, ServiceInvariant, PTL

\* A signed artifact is signed again only behind a failed signature check
\* (service.go:108-129).
THEOREM ResignNeedsCheckError == Spec => []ResignOnlyOnCheckError
<1>1. ServiceInv => ResignOnlyOnCheckError
  BY DEF ServiceInv, TypeOK, CheckInv, SignInv, StageInv, Uploading, ResignOnlyOnCheckError
<1>2. QED BY <1>1, ServiceInvariant, PTL

\* The in-flight gauge is exact (service.go:104-106).
THEOREM GaugeIsExact == Spec => []InFlightIsExact
<1>1. ServiceInv => InFlightIsExact BY DEF ServiceInv
<1>2. QED BY <1>1, ServiceInvariant, PTL

-----------------------------------------------------------------------------
(* The counters of the service. *)

\* The calls of a set that ended in one way.
EndedAs(how, D) == {d \in D : outcome[d] = how}

OfSource(s) == {c \in Calls : SourceOf[c] = s}

CountInv ==
    /\ GateFailuresCounted
    /\ \A s \in Source : issued[s] = Cardinality(EndedAs("issued", OfSource(s)))
    /\ \A c \in Calls : outcome[c] = "issued" => signPc[c] = "ok"

\* A counter of a way of ending changes with an invocation that ends in that way.
LEMMA EndedOneMore ==
    ASSUME ServiceInv, NEW c \in Calls, NEW how, NEW D \in SUBSET Calls,
           NEW from \in {"check", "fetch", "evaluate", "signing"}, Finish(c, from, how),
           how # "none", c \in D
    PROVE  Cardinality(EndedAs(how, D)') = Cardinality(EndedAs(how, D)) + 1
<1>1. EndedAs(how, D)' = EndedAs(how, D) \cup {c} /\ c \notin EndedAs(how, D)
  BY FinishOther DEF EndedAs, ServiceInv, StageOfService
<1>2. IsFiniteSet(EndedAs(how, D))
  BY SignerAssumption, FS_Subset DEF EndedAs
<1>3. QED BY <1>1, <1>2, FS_AddElement

LEMMA EndedOtherwise ==
    ASSUME ServiceInv, NEW c \in Calls, NEW how, NEW D \in SUBSET Calls, NEW other,
           NEW from \in {"check", "fetch", "evaluate", "signing"}, Finish(c, from, how),
           other # "none", other # how \/ c \notin D
    PROVE  EndedAs(other, D)' = EndedAs(other, D)
BY FinishOther DEF EndedAs, ServiceInv, StageOfService

\* What is not counted changes no counter.
LEMMA CountsKept ==
    ASSUME CountInv, outcome' = outcome, issued' = issued,
           \A r \in {"vulnerability_exceeded", "scan_fetch_error"} :
               gateFailures'[r] = gateFailures[r],
           \A c \in Calls : signPc[c] = "ok" => signPc'[c] = "ok"
    PROVE  CountInv'
BY DEF CountInv, GateFailuresCounted, EndedAs

LEMMA IssuedKept ==
    ASSUME CountInv, GateFailuresCounted', issued' = issued, signPc' = signPc,
           \A s \in Source : EndedAs("issued", OfSource(s))' = EndedAs("issued", OfSource(s)),
           \A c \in Calls : outcome'[c] = "issued" => outcome[c] = "issued"
    PROVE  CountInv'
BY DEF CountInv

\* Sign counts no reason but its own, and a call of it that succeeded is over.
LEMMA SignKeepsGateCounts ==
    ASSUME SignTypeOK, NEW c \in Calls, SignCall(c) \/ SignStep(c) \/ Environment(c)
    PROVE  /\ \A r \in {"vulnerability_exceeded", "scan_fetch_error"} :
                 gateFailures'[r] = gateFailures[r]
           /\ \A d \in Calls : signPc[d] = "ok" => signPc'[d] = "ok"
<1> USE DEF SignTypeOK, Goto, Fail, counters, IncrementSigningFailures, GateReason
<1>1. CASE SignCall(c) \/ TokenRejected(c) \/ TokenAccepted(c)
  BY <1>1 DEF SignCall, TokenRejected, TokenAccepted
<1>2. CASE FulcioOk(c) \/ FulcioAttemptFails(c) \/ FulcioExhausted(c)
  BY <1>2 DEF FulcioOk, FulcioAttemptFails, FulcioExhausted
<1>3. CASE CosignOk(c) \/ CosignFails(c)
  BY <1>3 DEF CosignOk, CosignFails
<1>4. CASE RekorSend(c) \/ RekorOk(c) \/ RekorAttemptFails(c) \/ RekorExhausted(c)
  BY <1>4 DEF RekorSend, RekorOk, RekorAttemptFails, RekorExhausted
<1>5. CASE BackoffElapses(c) \/ BackoffCancelled(c)
  BY <1>5 DEF BackoffElapses, BackoffCancelled, BackoffOf
<1>6. CASE Environment(c)
  BY <1>6 DEF Environment, ContextDone, RekorRecords
<1>7. QED BY <1>1, <1>2, <1>3, <1>4, <1>5, <1>6 DEF SignStep

\* An invocation that ends moves the counter of its outcome and no other.
LEMMA FinishCounts ==
    ASSUME ServiceInv, CountInv, NEW c \in Calls,
           AlreadySigned(c) \/ FetchError(c) \/ GateFail(c) \/ SignError(c) \/ Issue(c)
    PROVE  CountInv'
<1> USE DEF ServiceInv
<1>1. signPc' = signPc
  BY DEF AlreadySigned, FetchError, GateFail, SignError, Issue, signVars, signVarsButGate
<1>2. \A s \in Source : OfSource(s) \in SUBSET Calls
  BY DEF OfSource
<1>3. gateFailures \in [GateReason -> Nat] /\ issued \in [Source -> Nat]
  BY DEF TypeOK, SignTypeOK
<1> DEFINE Rejected == EndedAs("gateFailed", Calls)
           Unfetched == EndedAs("fetchError", Calls)
<1>4. CASE AlreadySigned(c)
  <2>1. Finish(c, "check", "skipped") /\ gateFailures' = gateFailures /\ issued' = issued
    BY <1>4 DEF AlreadySigned, signVars
  <2>2. Rejected' = Rejected /\ Unfetched' = Unfetched
    BY <2>1, EndedOtherwise
  <2>3. \A s \in Source : EndedAs("issued", OfSource(s))' = EndedAs("issued", OfSource(s))
    BY <1>2, <2>1, EndedOtherwise
  <2>4. \A d \in Calls : outcome'[d] = "issued" => outcome[d] = "issued"
    BY <2>1, FinishOther
  <2>5. GateFailuresCounted'
    BY <2>1, <2>2 DEF CountInv, GateFailuresCounted, EndedAs
  <2>6. QED BY <1>1, <2>1, <2>3, <2>4, <2>5, IssuedKept
<1>5. CASE FetchError(c)
  <2>1. /\ Finish(c, "fetch", "fetchError") /\ issued' = issued
        /\ gateFailures' = [gateFailures EXCEPT !["scan_fetch_error"] = @ + 1]
    BY <1>5 DEF FetchError, IncrementGateFailures
  <2>2. Rejected' = Rejected
    BY <2>1, EndedOtherwise
  <2>3. Cardinality(Unfetched') = Cardinality(Unfetched) + 1
    BY <2>1, EndedOneMore
  <2>4. \A s \in Source : EndedAs("issued", OfSource(s))' = EndedAs("issued", OfSource(s))
    BY <1>2, <2>1, EndedOtherwise
  <2>5. \A d \in Calls : outcome'[d] = "issued" => outcome[d] = "issued"
    BY <2>1, FinishOther
  <2>6. GateFailuresCounted'
    BY <1>3, <2>1, <2>2, <2>3 DEF CountInv, GateFailuresCounted, EndedAs, GateReason
  <2>7. QED BY <1>1, <2>1, <2>4, <2>5, <2>6, IssuedKept
<1>6. CASE GateFail(c)
  <2>0. DecisionFor(c).reason = "vulnerability_exceeded"
    <3>1. pc[c] = "evaluate"
      BY <1>6, FinishOther DEF GateFail
    <3>2. report[c].nil = FALSE
      BY <3>1, ServiceAssumption DEF StageOfService
    <3>3. ~Evaluate(Threshold, report[c]).pass
      BY <1>6 DEF GateFail, DecisionFor
    <3>4. QED BY <3>2, <3>3, EvaluatePasses DEF DecisionFor
  <2>1. /\ Finish(c, "evaluate", "gateFailed") /\ issued' = issued
        /\ gateFailures' = [gateFailures EXCEPT !["vulnerability_exceeded"] = @ + 1]
    BY <1>6, <2>0 DEF GateFail, IncrementGateFailures
  <2>2. Unfetched' = Unfetched
    BY <2>1, EndedOtherwise
  <2>3. Cardinality(Rejected') = Cardinality(Rejected) + 1
    BY <2>1, EndedOneMore
  <2>4. \A s \in Source : EndedAs("issued", OfSource(s))' = EndedAs("issued", OfSource(s))
    BY <1>2, <2>1, EndedOtherwise
  <2>5. \A d \in Calls : outcome'[d] = "issued" => outcome[d] = "issued"
    BY <2>1, FinishOther
  <2>6. GateFailuresCounted'
    BY <1>3, <2>1, <2>2, <2>3 DEF CountInv, GateFailuresCounted, EndedAs, GateReason
  <2>7. QED BY <1>1, <2>1, <2>4, <2>5, <2>6, IssuedKept
<1>7. CASE SignError(c)
  <2>1. /\ Finish(c, "signing", "signError") /\ issued' = issued
        /\ gateFailures' = [gateFailures EXCEPT !["signing_error"] = @ + 1]
    BY <1>7 DEF SignError, IncrementGateFailures
  <2>2. Rejected' = Rejected /\ Unfetched' = Unfetched
    BY <2>1, EndedOtherwise
  <2>3. \A s \in Source : EndedAs("issued", OfSource(s))' = EndedAs("issued", OfSource(s))
    BY <1>2, <2>1, EndedOtherwise
  <2>4. \A d \in Calls : outcome'[d] = "issued" => outcome[d] = "issued"
    BY <2>1, FinishOther
  <2>5. GateFailuresCounted'
    BY <1>3, <2>1, <2>2 DEF CountInv, GateFailuresCounted, EndedAs, GateReason
  <2>6. QED BY <1>1, <2>1, <2>3, <2>4, <2>5, IssuedKept
<1>8. CASE Issue(c)
  <2>1. /\ Finish(c, "signing", "issued") /\ gateFailures' = gateFailures
        /\ issued' = [issued EXCEPT ![SourceOf[c]] = @ + 1]
        /\ signPc[c] = "ok"
    BY <1>8 DEF Issue, signVars
  <2>2. Rejected' = Rejected /\ Unfetched' = Unfetched
    BY <2>1, EndedOtherwise
  <2>3. ASSUME NEW s \in Source
        PROVE  issued'[s] = Cardinality(EndedAs("issued", OfSource(s))')
    <3>1. CASE s = SourceOf[c]
      <4>1. Cardinality(EndedAs("issued", OfSource(s))')
               = Cardinality(EndedAs("issued", OfSource(s))) + 1
        BY <1>2, <2>1, <3>1, EndedOneMore DEF OfSource
      <4>2. issued'[s] = issued[s] + 1
        BY <1>3, <2>1, <3>1
      <4>3. QED BY <4>1, <4>2 DEF CountInv
    <3>2. CASE s # SourceOf[c]
      <4>1. EndedAs("issued", OfSource(s))' = EndedAs("issued", OfSource(s))
        BY <1>2, <2>1, <3>2, EndedOtherwise DEF OfSource
      <4>2. issued'[s] = issued[s]
        BY <1>3, <2>1, <3>2
      <4>3. QED BY <4>1, <4>2 DEF CountInv
    <3>3. QED BY <3>1, <3>2
  <2>4. \A d \in Calls : outcome'[d] = "issued" => signPc'[d] = "ok"
    BY <1>1, <2>1, FinishOther DEF CountInv
  <2>5. GateFailuresCounted'
    BY <2>1, <2>2 DEF CountInv, GateFailuresCounted, EndedAs
  <2>6. QED BY <2>3, <2>4, <2>5 DEF CountInv, EndedAs
<1>9. QED BY <1>4, <1>5, <1>6, <1>7, <1>8

LEMMA CountStep == ServiceInv /\ CountInv /\ [Next]_vars => CountInv'
<1> SUFFICES ASSUME ServiceInv, CountInv, [Next]_vars PROVE CountInv'
  OBVIOUS
<1>0. SignTypeOK
  BY DEF ServiceInv, SignInv
<1>1. ASSUME NEW c \in Calls, Begin(c) \/ NotSigned(c) \/ CheckError(c) \/ FetchReport(c)
      PROVE  CountInv'
  BY <1>1, CountsKept DEF Begin, NotSigned, CheckError, FetchReport, signVars
<1>2. ASSUME NEW c \in Calls, GatePass(c) PROVE CountInv'
  BY <1>0, <1>2, SignKeepsGateCounts, CountsKept DEF GatePass
<1>3. ASSUME NEW c \in Calls, Signing(c) \/ Around(c) PROVE CountInv'
  BY <1>0, <1>3, SignKeepsGateCounts, CountsKept DEF Signing, Around, serviceVars
<1>4. ASSUME NEW a \in Artifacts, ExternalSign(a) \/ Rescan(a) PROVE CountInv'
  BY <1>4, CountsKept DEF ExternalSign, Rescan, signVars, serviceVars
<1>5. CASE UNCHANGED vars
  BY <1>5, CountsKept DEF vars, signVars, serviceVars
<1>6. QED
  BY <1>1, <1>2, <1>3, <1>4, <1>5, FinishCounts DEF Next, ProcessStep, ServiceTerminated

LEMMA CountInvariant == Spec => []CountInv
<1>1. Init => CountInv
  <2> SUFFICES ASSUME Init PROVE CountInv
    OBVIOUS
  <2>1. \A how, D : how # "none" /\ D \in SUBSET Calls => EndedAs(how, D) = {}
    BY DEF Init, EndedAs
  <2>2. \A s \in Source : OfSource(s) \in SUBSET Calls
    BY DEF OfSource
  <2>3. GateFailuresCounted
    BY <2>1, FS_EmptySet DEF Init, SignInit, GateFailuresCounted, EndedAs, GateReason
  <2>4. \A s \in Source : issued[s] = Cardinality(EndedAs("issued", OfSource(s)))
    BY <2>1, <2>2, FS_EmptySet DEF Init
  <2>5. QED BY <2>3, <2>4 DEF Init, CountInv
<1>2. QED BY <1>1, CountStep, ServiceInvariant, PTL DEF Spec

\* Each of the gate's two reasons is counted once per invocation that ended for
\* it (service.go:131-161), and Sign, which shares the counter, moves neither.
THEOREM GateReasonsCounted == Spec => []GateFailuresCounted
<1>1. CountInv => GateFailuresCounted BY DEF CountInv
<1>2. QED BY <1>1, CountInvariant, PTL

\* Per trigger, the signatures counted as issued are those that Rekor holds
\* (service.go:189-208, signer.go:245-263).
THEOREM IssuedHasEntry == Spec => []IssuedIsLogged
<1>1. ServiceInv /\ CountInv => IssuedIsLogged
  <2> SUFFICES ASSUME ServiceInv, CountInv, NEW s \in Source
               PROVE  issued[s] = Cardinality({c \in Calls :
                          /\ SourceOf[c] = s
                          /\ outcome[c] = "issued"
                          /\ \E n \in Attempt : <<c, n>> \in rekorLog})
    BY DEF IssuedIsLogged
  <2>1. EndedAs("issued", OfSource(s)) = {c \in Calls :
            /\ SourceOf[c] = s
            /\ outcome[c] = "issued"
            /\ \E n \in Attempt : <<c, n>> \in rekorLog}
    BY DEF EndedAs, OfSource, CountInv, ServiceInv, SignInv, OkHasEntry
  <2>2. QED BY <2>1 DEF CountInv
<1>2. QED BY <1>1, ServiceInvariant, CountInvariant, PTL

-----------------------------------------------------------------------------
(* The two layers that count one failure. *)

\* gate_failures_total{signing_error}, which Sign moves for its own failures and
\* the service again for every error that Sign returns.
SigningErrorsCounted ==
    gateFailures["signing_error"] =
        Cardinality(FailedCalls) + Cardinality(EndedAs("signError", Calls))

SkippedCounted == skipped = Cardinality(EndedAs("skipped", Calls))

\* An invocation that ends with Sign's error is one whose Sign failed.
ErrorInv ==
    /\ SigningErrorsCounted
    /\ SkippedCounted
    /\ \A c \in Calls : outcome[c] = "signError" => signPc[c] = "failed"

LEMMA EndedCardinality ==
    ASSUME NEW how
    PROVE  IsFiniteSet(EndedAs(how, Calls)) /\ Cardinality(EndedAs(how, Calls)) \in Nat
<1>1. EndedAs(how, Calls) \subseteq Calls
  BY DEF EndedAs
<1>2. QED BY <1>1, SignerAssumption, FS_Subset, FS_CardinalityType

LEMMA FailedCardinality == IsFiniteSet(FailedCalls) /\ Cardinality(FailedCalls) \in Nat
<1>1. FailedCalls \subseteq Calls
  BY DEF FailedCalls
<1>2. QED BY <1>1, SignerAssumption, FS_Subset, FS_CardinalityType

\* A step that ends no invocation.
LEMMA ErrorsKept ==
    ASSUME SignTypeOK, ErrorInv, outcome' = outcome, skipped' = skipped,
           CountedBy(0) \/ CountedBy(1),
           \A c \in Calls : signPc[c] = "failed" => signPc'[c] = "failed"
    PROVE  ErrorInv'
<1>1. \A how : EndedAs(how, Calls)' = EndedAs(how, Calls)
  BY DEF EndedAs
<1>2. SigningErrorsCounted'
  BY <1>1, EndedCardinality, FailedCardinality
     DEF ErrorInv, SigningErrorsCounted, CountedBy
<1>3. SkippedCounted'
  BY <1>1 DEF ErrorInv, SkippedCounted
<1>4. QED BY <1>2, <1>3 DEF ErrorInv

\* Sign's steps leave a failed call failed.
LEMMA FailedStays ==
    ASSUME SignTypeOK, NEW c \in Calls, SignCall(c) \/ SignStep(c) \/ Environment(c)
    PROVE  \A d \in Calls : signPc[d] = "failed" => signPc'[d] = "failed"
<1> USE DEF SignTypeOK, Goto, Fail
<1>1. CASE SignCall(c) \/ TokenRejected(c) \/ TokenAccepted(c)
  BY <1>1 DEF SignCall, TokenRejected, TokenAccepted
<1>2. CASE FulcioOk(c) \/ FulcioAttemptFails(c) \/ FulcioExhausted(c)
  BY <1>2 DEF FulcioOk, FulcioAttemptFails, FulcioExhausted
<1>3. CASE CosignOk(c) \/ CosignFails(c)
  BY <1>3 DEF CosignOk, CosignFails
<1>4. CASE RekorSend(c) \/ RekorOk(c) \/ RekorAttemptFails(c) \/ RekorExhausted(c)
  BY <1>4 DEF RekorSend, RekorOk, RekorAttemptFails, RekorExhausted
<1>5. CASE BackoffElapses(c) \/ BackoffCancelled(c)
  BY <1>5 DEF BackoffElapses, BackoffCancelled, BackoffOf
<1>6. CASE Environment(c)
  BY <1>6 DEF Environment, ContextDone, RekorRecords
<1>7. QED BY <1>1, <1>2, <1>3, <1>4, <1>5, <1>6 DEF SignStep

\* An invocation that ends: only an error of Sign moves the counter, and only the
\* return behind an existing signature the other one.
LEMMA FinishErrors ==
    ASSUME ServiceInv, ErrorInv, NEW c \in Calls,
           AlreadySigned(c) \/ FetchError(c) \/ GateFail(c) \/ SignError(c) \/ Issue(c)
    PROVE  ErrorInv'
<1>1. /\ SignTypeOK /\ gateFailures \in [GateReason -> Nat]
  BY DEF ServiceInv, SignInv, SignTypeOK
<1>2. UNCHANGED <<signPc, signErr>> /\ FailedCalls' = FailedCalls
  BY DEF AlreadySigned, FetchError, GateFail, SignError, Issue, signVars, signVarsButGate,
         FailedCalls
<1> DEFINE Errors == EndedAs("signError", Calls)
           Skips == EndedAs("skipped", Calls)
<1>3. CASE AlreadySigned(c)
  <2>1. Finish(c, "check", "skipped") /\ gateFailures' = gateFailures /\ skipped' = skipped + 1
    BY <1>3 DEF AlreadySigned, signVars
  <2>2. Errors' = Errors
    BY <2>1, EndedOtherwise
  <2>3. Cardinality(Skips') = Cardinality(Skips) + 1
    BY <2>1, EndedOneMore
  <2>4. \A d \in Calls : outcome'[d] = "signError" => outcome[d] = "signError"
    BY <2>1, FinishOther DEF ServiceInv
  <2>5. SigningErrorsCounted'
    BY <1>2, <2>1, <2>2 DEF ErrorInv, SigningErrorsCounted
  <2>6. SkippedCounted'
    BY <2>1, <2>3 DEF ErrorInv, SkippedCounted
  <2>7. QED BY <1>2, <2>4, <2>5, <2>6 DEF ErrorInv
<1>4. CASE SignError(c)
  <2>1. /\ Finish(c, "signing", "signError") /\ skipped' = skipped /\ signPc[c] = "failed"
        /\ gateFailures' = [gateFailures EXCEPT !["signing_error"] = @ + 1]
    BY <1>4 DEF SignError, IncrementGateFailures
  <2>2. Skips' = Skips
    BY <2>1, EndedOtherwise
  <2>3. Cardinality(Errors') = Cardinality(Errors) + 1
    BY <2>1, EndedOneMore
  <2>4. gateFailures'["signing_error"] = gateFailures["signing_error"] + 1
    BY <1>1, <2>1 DEF GateReason
  <2>5. SigningErrorsCounted'
    <3> HIDE DEF Errors
    <3>1. Cardinality(FailedCalls) \in Nat /\ Cardinality(Errors) \in Nat
      BY FailedCardinality, EndedCardinality DEF Errors
    <3>2. gateFailures["signing_error"] = Cardinality(FailedCalls) + Cardinality(Errors)
      BY DEF ErrorInv, SigningErrorsCounted, Errors
    <3>3. gateFailures'["signing_error"] = Cardinality(FailedCalls') + Cardinality(Errors')
      BY <1>2, <2>3, <2>4, <3>1, <3>2
    <3>4. QED BY <3>3 DEF SigningErrorsCounted, Errors
  <2>6. SkippedCounted'
    BY <2>1, <2>2 DEF ErrorInv, SkippedCounted
  <2>7. \A d \in Calls : outcome'[d] = "signError" => d = c \/ outcome[d] = "signError"
    BY <2>1, FinishOther DEF ServiceInv
  <2>8. QED BY <1>2, <2>1, <2>5, <2>6, <2>7 DEF ErrorInv
<1>5. CASE FetchError(c) \/ GateFail(c) \/ Issue(c)
  <2>1. PICK from \in {"check", "fetch", "evaluate", "signing"},
             how \in {"fetchError", "gateFailed", "issued"} : Finish(c, from, how)
    BY <1>5 DEF FetchError, GateFail, Issue
  <2>2. Errors' = Errors /\ Skips' = Skips
    BY <2>1, EndedOtherwise
  <2>3. skipped' = skipped
    BY <1>5 DEF FetchError, GateFail, Issue
  <2>4. gateFailures'["signing_error"] = gateFailures["signing_error"]
    <3>1. CASE FetchError(c)
      BY <1>1, <3>1 DEF FetchError, IncrementGateFailures, GateReason
    <3>2. CASE GateFail(c)
      <4>1. pc[c] = "evaluate"
        BY <3>2, FinishOther DEF GateFail, ServiceInv
      <4>2. report[c].nil = FALSE
        BY <4>1, ServiceAssumption DEF StageOfService, ServiceInv
      <4>3. DecisionFor(c).reason = "vulnerability_exceeded"
        BY <3>2, <4>2, EvaluatePasses DEF GateFail, DecisionFor
      <4>4. QED BY <1>1, <3>2, <4>3 DEF GateFail, IncrementGateFailures, GateReason
    <3>3. CASE Issue(c)
      BY <3>3 DEF Issue, signVars
    <3>4. QED BY <1>5, <3>1, <3>2, <3>3
  <2>5. \A d \in Calls : outcome'[d] = "signError" => outcome[d] = "signError"
    BY <2>1, FinishOther DEF ServiceInv
  <2>6. SigningErrorsCounted' /\ SkippedCounted'
    BY <1>2, <2>2, <2>3, <2>4 DEF ErrorInv, SigningErrorsCounted, SkippedCounted
  <2>7. QED BY <1>2, <2>5, <2>6 DEF ErrorInv
<1>6. QED BY <1>3, <1>4, <1>5

LEMMA ErrorStep == ServiceInv /\ ErrorInv /\ [Next]_vars => ErrorInv'
<1> SUFFICES ASSUME ServiceInv, ErrorInv, [Next]_vars PROVE ErrorInv'
  OBVIOUS
<1>0. SignInv /\ SignTypeOK
  BY DEF ServiceInv, SignInv
<1>1. ASSUME UNCHANGED signVars, outcome' = outcome, skipped' = skipped PROVE ErrorInv'
  <2>1. CountedBy(0)
    BY <1>0, <1>1, UncountedStep DEF signVars
  <2>2. QED BY <1>0, <1>1, <2>1, ErrorsKept DEF signVars
<1>2. ASSUME NEW c \in Calls, Begin(c) \/ NotSigned(c) \/ CheckError(c) \/ FetchReport(c)
      PROVE  ErrorInv'
  BY <1>1, <1>2 DEF Begin, NotSigned, CheckError, FetchReport
<1>3. ASSUME NEW c \in Calls, SignCall(c) \/ SignStep(c) \/ Environment(c),
             outcome' = outcome, skipped' = skipped
      PROVE  ErrorInv'
  BY <1>0, <1>3, SignStepCounts, EnvironmentCounts, FailedStays, ErrorsKept
<1>4. ASSUME NEW c \in Calls, GatePass(c) \/ Signing(c) \/ Around(c) PROVE ErrorInv'
  BY <1>3, <1>4 DEF GatePass, Signing, Around, serviceVars
<1>5. ASSUME NEW a \in Artifacts, ExternalSign(a) \/ Rescan(a) PROVE ErrorInv'
  BY <1>1, <1>5 DEF ExternalSign, Rescan, serviceVars
<1>6. CASE UNCHANGED vars
  BY <1>1, <1>6 DEF vars, serviceVars
<1>7. QED
  BY <1>2, <1>4, <1>5, <1>6, FinishErrors DEF Next, ProcessStep, ServiceTerminated

LEMMA ErrorInvariant == Spec => []ErrorInv
<1>1. Init => ErrorInv
  <2> SUFFICES ASSUME Init PROVE ErrorInv
    OBVIOUS
  <2>1. /\ EndedAs("signError", Calls) = {} /\ EndedAs("skipped", Calls) = {}
        /\ FailedCalls = {}
    BY DEF Init, SignInit, EndedAs, FailedCalls
  <2>2. Cardinality({}) = 0
    BY FS_EmptySet
  <2>3. gateFailures["signing_error"] = 0
    BY DEF Init, SignInit, GateReason
  <2>4. SigningErrorsCounted
    <3>1. Cardinality(FailedCalls) = 0 /\ Cardinality(EndedAs("signError", Calls)) = 0
      BY <2>1, <2>2
    <3>2. QED BY <2>3, <3>1 DEF SigningErrorsCounted
  <2>5. SkippedCounted
    BY <2>1, <2>2 DEF Init, SkippedCounted
  <2>6. \A c \in Calls : outcome[c] # "signError"
    BY DEF Init
  <2>7. QED BY <2>4, <2>5, <2>6 DEF ErrorInv
<1>2. QED BY <1>1, ErrorStep, ServiceInvariant, PTL DEF Spec

\* gate_failures_total{signing_error} is not the number of failed signatures: each
\* that failed after its token was accepted is in it twice, once by Sign and once
\* by the invocation, and one whose token was refused once (signer.go:220-257,
\* service.go:174-176).
THEOREM FailedSigningsCountedTwice ==
    Spec => [](SigningErrorsCounted /\ SkippedCounted)
<1>1. ErrorInv => SigningErrorsCounted /\ SkippedCounted
  BY DEF ErrorInv
<1>2. QED BY <1>1, ErrorInvariant, PTL
=============================================================================
