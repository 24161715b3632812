------------------------- MODULE Reconciler_proofs -------------------------
(***************************************************************************)
(* The safety properties of Reconciler, for any projects, listings and     *)
(* number of callers of RunSweep.                                          *)
(***************************************************************************)
EXTENDS Reconciler, TLAPS

\* Where a sweep is agrees with what it has left to do.
Position ==
    \A c \in Callers :
        /\ pc[c] \in {"artifact", "process"} => project[c] <= Len(Projects)
        /\ pc[c] = "process" => todo[c] # <<>>

\* A signature stays, and nothing that was signed before reaches ProcessArtifact.
NotOffered ==
    \A c \in Callers :
        /\ signedBefore[c] \subseteq signed
        /\ pc[c] = "process" => Head(todo[c]) \notin signedBefore[c]

Dealt(c, a) == \E how \in Outcome : <<a, how>> \in handled[c]
Pending(c, a) == \E j \in DOMAIN todo[c] : todo[c][j] = a
Listed(k) == Listing[Projects[k]]

\* What a sweep has passed is dealt with, and of the current project each
\* artifact is dealt with or still to come.
ProgressOf(c) ==
    pc[c] \in InSweep =>
        /\ result[c] = "none"
        /\ \A k \in DOMAIN Projects : k < project[c] =>
              \A i \in DOMAIN Listed(k) : Dealt(c, Listed(k)[i])
        /\ pc[c] # "project" =>
              \A i \in DOMAIN Listed(project[c]) :
                  Dealt(c, Listed(project[c])[i]) \/ Pending(c, Listed(project[c])[i])

CompletedOf(c) ==
    result[c] = "completed" =>
        \A k \in DOMAIN Projects : \A i \in DOMAIN Listed(k) : Dealt(c, Listed(k)[i])

Progress == \A c \in Callers : ProgressOf(c) /\ CompletedOf(c)

ReconcilerInv ==
    /\ TypeOK
    /\ OneSweep
    /\ StoppedIsStopped
    /\ Position
    /\ NotOffered
    /\ SignedNotProcessed
    /\ Progress

-----------------------------------------------------------------------------

\* The invariant holds at the start.
LEMMA InitInv == Init => ReconcilerInv
<1> SUFFICES ASSUME Init PROVE ReconcilerInv
  OBVIOUS
<1> USE ReconcilerAssumption DEF Init, Callers
<1>1. TypeOK
  <2>1. <<>> \in Seq(Artifacts) OBVIOUS
  <2>2. todo \in [Callers -> Seq(Artifacts)] BY <2>1
  <2>3. Len(Projects) \in Nat OBVIOUS
  <2>4. pc \in [Callers -> {"select", "idle", "lock", "returned", "stopped"} \cup InSweep]
    OBVIOUS
  <2>5. project \in [Callers -> 1..Len(Projects) + 1]
    BY <2>3
  <2>6. /\ result \in [Callers -> Result]
        /\ handled \in [Callers -> SUBSET (Artifacts \X Outcome)]
        /\ signedBefore \in [Callers -> SUBSET Artifacts]
    BY DEF Result
  <2>7. /\ running \in Callers \cup {NoOne} /\ expired \subseteq Callers
        /\ signed \subseteq Artifacts /\ tick \in BOOLEAN
        /\ stopPc \in {"idle", "waiting", "returned"}
    BY Zenon
  <2>8. /\ reconciliationSigned \in Nat /\ reconciliationErrors \in Nat
        /\ ticks \in 0..MaxTicks
    OBVIOUS
  <2>9. QED BY <2>2, <2>4, <2>5, <2>6, <2>7, <2>8 DEF TypeOK
<1>2. OneSweep /\ StoppedIsStopped
  BY DEF OneSweep, StoppedIsStopped, InSweep
<1>3. Position /\ NotOffered /\ SignedNotProcessed
  BY DEF Position, NotOffered, SignedNotProcessed
<1>4. Progress
  BY DEF Progress, ProgressOf, CompletedOf, InSweep
<1>5. QED BY <1>1, <1>2, <1>3, <1>4 DEF ReconcilerInv

\* Position keeps the index of the project in range.
LEMMA TypeStep ==
    ASSUME ReconcilerInv, [Next]_vars
    PROVE  TypeOK'
<1> USE ReconcilerAssumption
<1> USE DEF ReconcilerInv, Callers, InSweep, TypeOK, Position, Result, Outcome,
        sweepVars, tickerVars
<1>1. ASSUME NEW c \in Callers, Call(c) PROVE TypeOK'
  BY <1>1 DEF Call
<1>2. ASSUME NEW c \in Callers, Skip(c) PROVE TypeOK'
  BY <1>2 DEF Skip, Return
<1>3. ASSUME NEW c \in Callers, Lock(c) PROVE TypeOK'
  BY <1>3 DEF Lock
<1>4. ASSUME NEW c \in Callers, ListArtifacts(c) PROVE TypeOK'
  BY <1>4 DEF ListArtifacts, AtProject
<1>5. ASSUME NEW c \in Callers, ListError(c) PROVE TypeOK'
  BY <1>5 DEF ListError, AtProject, Leave, Return
<1>6. ASSUME NEW c \in Callers, NextProject(c) PROVE TypeOK'
  BY <1>6 DEF NextProject, AdvanceBy
<1>7. ASSUME NEW c \in Callers, FoundSigned(c) PROVE TypeOK'
  BY <1>7 DEF FoundSigned, Handle, AtArtifact
<1>8. ASSUME NEW c \in Callers, CheckFailed(c) PROVE TypeOK'
  BY <1>8 DEF CheckFailed, Handle, AtArtifact
<1>9. ASSUME NEW c \in Callers, Offer(c) PROVE TypeOK'
  BY <1>9 DEF Offer, AtArtifact
<1>10. ASSUME NEW c \in Callers, ProcessNil(c) PROVE TypeOK'
  <2>1. PICK how \in Processed : Handle(c, how)
    BY <1>10 DEF ProcessNil, Processed
  <2>2. pc[c] = "process" /\ reconciliationSigned' = reconciliationSigned + 1
    BY <1>10 DEF ProcessNil
  <2>3. QED BY <2>1, <2>2 DEF Handle, Processed
<1>11. ASSUME NEW c \in Callers, ProcessError(c) PROVE TypeOK'
  BY <1>11 DEF ProcessError, Handle
<1>12. ASSUME NEW c \in Callers, TimedOut(c) PROVE TypeOK'
  BY <1>12 DEF TimedOut, AtProject, AtArtifact, Leave, Return
<1>13. ASSUME NEW c \in Callers, Finish(c) PROVE TypeOK'
  BY <1>13 DEF Finish, Leave, Return
<1>14. ASSUME NEW c \in Callers, Expire(c) PROVE TypeOK'
  BY <1>14 DEF Expire
<1>15. CASE Tick
  BY <1>15 DEF Tick
<1>16. CASE TakeTick
  BY <1>16 DEF TakeTick
<1>17. CASE TakeStop
  BY <1>17 DEF TakeStop
<1>18. CASE StopCall
  BY <1>18 DEF StopCall
<1>19. CASE StopReturn
  BY <1>19 DEF StopReturn
<1>20. ASSUME NEW a \in Artifacts, ExternalSign(a) PROVE TypeOK'
  BY <1>20 DEF ExternalSign
<1>21. CASE UNCHANGED vars
  BY <1>21 DEF vars
<1>22. QED
  BY <1>1, <1>2, <1>3, <1>4, <1>5, <1>6, <1>7, <1>8, <1>9, <1>10, <1>11, <1>12, <1>13, <1>14,
     <1>15, <1>16, <1>17, <1>18, <1>19, <1>20, <1>21 DEF Next, SweepStep, Terminated

\* Only TryLock enters a sweep, and every way out of it unlocks.
LEMMA MutexStep ==
    ASSUME ReconcilerInv, [Next]_vars
    PROVE  (OneSweep /\ StoppedIsStopped)'
<1> USE ReconcilerAssumption
<1> USE DEF ReconcilerInv, Callers, InSweep, TypeOK, OneSweep, StoppedIsStopped,
        sweepVars, tickerVars
<1>1. ASSUME NEW c \in Callers, Call(c) PROVE (OneSweep /\ StoppedIsStopped)'
  BY <1>1 DEF Call
<1>2. ASSUME NEW c \in Callers, Skip(c) PROVE (OneSweep /\ StoppedIsStopped)'
  BY <1>2 DEF Skip, Return
<1>3. ASSUME NEW c \in Callers, Lock(c) PROVE (OneSweep /\ StoppedIsStopped)'
  BY <1>3 DEF Lock
<1>4. ASSUME NEW c \in Callers, ListArtifacts(c) PROVE (OneSweep /\ StoppedIsStopped)'
  BY <1>4 DEF ListArtifacts, AtProject
<1>5. ASSUME NEW c \in Callers, ListError(c) PROVE (OneSweep /\ StoppedIsStopped)'
  BY <1>5 DEF ListError, AtProject, Leave, Return
<1>6. ASSUME NEW c \in Callers, NextProject(c) PROVE (OneSweep /\ StoppedIsStopped)'
  BY <1>6 DEF NextProject, AdvanceBy
<1>7. ASSUME NEW c \in Callers, FoundSigned(c) PROVE (OneSweep /\ StoppedIsStopped)'
  BY <1>7 DEF FoundSigned, Handle, AtArtifact
<1>8. ASSUME NEW c \in Callers, CheckFailed(c) PROVE (OneSweep /\ StoppedIsStopped)'
  BY <1>8 DEF CheckFailed, Handle, AtArtifact
<1>9. ASSUME NEW c \in Callers, Offer(c) PROVE (OneSweep /\ StoppedIsStopped)'
  BY <1>9 DEF Offer, AtArtifact
<1>10. ASSUME NEW c \in Callers, ProcessNil(c) PROVE (OneSweep /\ StoppedIsStopped)'
  BY <1>10 DEF ProcessNil, Handle
<1>11. ASSUME NEW c \in Callers, ProcessError(c) PROVE (OneSweep /\ StoppedIsStopped)'
  BY <1>11 DEF ProcessError, Handle
<1>12. ASSUME NEW c \in Callers, TimedOut(c) PROVE (OneSweep /\ StoppedIsStopped)'
  BY <1>12 DEF TimedOut, AtProject, AtArtifact, Leave, Return
<1>13. ASSUME NEW c \in Callers, Finish(c) PROVE (OneSweep /\ StoppedIsStopped)'
  BY <1>13 DEF Finish, Leave, Return
<1>14. ASSUME NEW c \in Callers, Expire(c) PROVE (OneSweep /\ StoppedIsStopped)'
  BY <1>14 DEF Expire
<1>15. CASE Tick
  BY <1>15 DEF Tick
<1>16. CASE TakeTick
  BY <1>16 DEF TakeTick
<1>17. CASE TakeStop
  BY <1>17 DEF TakeStop
<1>18. CASE StopCall
  BY <1>18 DEF StopCall
<1>19. CASE StopReturn
  BY <1>19 DEF StopReturn
<1>20. ASSUME NEW a \in Artifacts, ExternalSign(a) PROVE (OneSweep /\ StoppedIsStopped)'
  BY <1>20 DEF ExternalSign
<1>21. CASE UNCHANGED vars
  BY <1>21 DEF vars
<1>22. QED
  BY <1>1, <1>2, <1>3, <1>4, <1>5, <1>6, <1>7, <1>8, <1>9, <1>10, <1>11, <1>12, <1>13, <1>14,
     <1>15, <1>16, <1>17, <1>18, <1>19, <1>20, <1>21 DEF Next, SweepStep, Terminated

\* A sweep is past the head of a list only when the list is empty.
LEMMA PositionStep ==
    ASSUME ReconcilerInv, [Next]_vars
    PROVE  Position'
<1> USE ReconcilerAssumption
<1> USE DEF ReconcilerInv, Callers, InSweep, TypeOK, Position,
        sweepVars, tickerVars
<1>1. ASSUME NEW c \in Callers, Call(c) PROVE Position'
  BY <1>1 DEF Call
<1>2. ASSUME NEW c \in Callers, Skip(c) PROVE Position'
  BY <1>2 DEF Skip, Return
<1>3. ASSUME NEW c \in Callers, Lock(c) PROVE Position'
  BY <1>3 DEF Lock
<1>4. ASSUME NEW c \in Callers, ListArtifacts(c) PROVE Position'
  BY <1>4 DEF ListArtifacts, AtProject
<1>5. ASSUME NEW c \in Callers, ListError(c) PROVE Position'
  BY <1>5 DEF ListError, AtProject, Leave, Return
<1>6. ASSUME NEW c \in Callers, NextProject(c) PROVE Position'
  BY <1>6 DEF NextProject, AdvanceBy
<1>7. ASSUME NEW c \in Callers, FoundSigned(c) PROVE Position'
  BY <1>7 DEF FoundSigned, Handle, AtArtifact
<1>8. ASSUME NEW c \in Callers, CheckFailed(c) PROVE Position'
  BY <1>8 DEF CheckFailed, Handle, AtArtifact
<1>9. ASSUME NEW c \in Callers, Offer(c) PROVE Position'
  BY <1>9 DEF Offer, AtArtifact
<1>10. ASSUME NEW c \in Callers, ProcessNil(c) PROVE Position'
  BY <1>10 DEF ProcessNil, Handle
<1>11. ASSUME NEW c \in Callers, ProcessError(c) PROVE Position'
  BY <1>11 DEF ProcessError, Handle
<1>12. ASSUME NEW c \in Callers, TimedOut(c) PROVE Position'
  BY <1>12 DEF TimedOut, AtProject, AtArtifact, Leave, Return
<1>13. ASSUME NEW c \in Callers, Finish(c) PROVE Position'
  BY <1>13 DEF Finish, Leave, Return
<1>14. ASSUME NEW c \in Callers, Expire(c) PROVE Position'
  BY <1>14 DEF Expire
<1>15. CASE Tick
  BY <1>15 DEF Tick
<1>16. CASE TakeTick
  BY <1>16 DEF TakeTick
<1>17. CASE TakeStop
  BY <1>17 DEF TakeStop
<1>18. CASE StopCall
  BY <1>18 DEF StopCall
<1>19. CASE StopReturn
  BY <1>19 DEF StopReturn
<1>20. ASSUME NEW a \in Artifacts, ExternalSign(a) PROVE Position'
  BY <1>20 DEF ExternalSign
<1>21. CASE UNCHANGED vars
  BY <1>21 DEF vars
<1>22. QED
  BY <1>1, <1>2, <1>3, <1>4, <1>5, <1>6, <1>7, <1>8, <1>9, <1>10, <1>11, <1>12, <1>13, <1>14,
     <1>15, <1>16, <1>17, <1>18, <1>19, <1>20, <1>21 DEF Next, SweepStep, Terminated

\* HasSignature stands between a signed artifact and ProcessArtifact.
LEMMA NotOfferedStep ==
    ASSUME ReconcilerInv, [Next]_vars
    PROVE  (NotOffered /\ SignedNotProcessed)'
<1> USE ReconcilerAssumption
<1> USE DEF ReconcilerInv, Callers, InSweep, TypeOK, NotOffered, SignedNotProcessed, Processed,
        sweepVars, tickerVars
<1>1. ASSUME NEW c \in Callers, Call(c) PROVE (NotOffered /\ SignedNotProcessed)'
  BY <1>1 DEF Call
<1>2. ASSUME NEW c \in Callers, Skip(c) PROVE (NotOffered /\ SignedNotProcessed)'
  BY <1>2 DEF Skip, Return
<1>3. ASSUME NEW c \in Callers, Lock(c) PROVE (NotOffered /\ SignedNotProcessed)'
  BY <1>3 DEF Lock
<1>4. ASSUME NEW c \in Callers, ListArtifacts(c) PROVE (NotOffered /\ SignedNotProcessed)'
  BY <1>4 DEF ListArtifacts, AtProject
<1>5. ASSUME NEW c \in Callers, ListError(c) PROVE (NotOffered /\ SignedNotProcessed)'
  BY <1>5 DEF ListError, AtProject, Leave, Return
<1>6. ASSUME NEW c \in Callers, NextProject(c) PROVE (NotOffered /\ SignedNotProcessed)'
  BY <1>6 DEF NextProject, AdvanceBy
<1>7. ASSUME NEW c \in Callers, FoundSigned(c) PROVE (NotOffered /\ SignedNotProcessed)'
  BY <1>7 DEF FoundSigned, Handle, AtArtifact
<1>8. ASSUME NEW c \in Callers, CheckFailed(c) PROVE (NotOffered /\ SignedNotProcessed)'
  BY <1>8 DEF CheckFailed, Handle, AtArtifact
<1>9. ASSUME NEW c \in Callers, Offer(c) PROVE (NotOffered /\ SignedNotProcessed)'
  BY <1>9 DEF Offer, AtArtifact
<1>10. ASSUME NEW c \in Callers, ProcessNil(c) PROVE (NotOffered /\ SignedNotProcessed)'
  <2>1. PICK how \in Processed : Handle(c, how)
    BY <1>10 DEF ProcessNil, Processed
  <2>2. pc[c] = "process" /\ reconciliationSigned' = reconciliationSigned + 1
    BY <1>10 DEF ProcessNil
  <2>3. QED BY <2>1, <2>2 DEF Handle, Processed
<1>11. ASSUME NEW c \in Callers, ProcessError(c) PROVE (NotOffered /\ SignedNotProcessed)'
  BY <1>11 DEF ProcessError, Handle
<1>12. ASSUME NEW c \in Callers, TimedOut(c) PROVE (NotOffered /\ SignedNotProcessed)'
  BY <1>12 DEF TimedOut, AtProject, AtArtifact, Leave, Return
<1>13. ASSUME NEW c \in Callers, Finish(c) PROVE (NotOffered /\ SignedNotProcessed)'
  BY <1>13 DEF Finish, Leave, Return
<1>14. ASSUME NEW c \in Callers, Expire(c) PROVE (NotOffered /\ SignedNotProcessed)'
  BY <1>14 DEF Expire
<1>15. CASE Tick
  BY <1>15 DEF Tick
<1>16. CASE TakeTick
  BY <1>16 DEF TakeTick
<1>17. CASE TakeStop
  BY <1>17 DEF TakeStop
<1>18. CASE StopCall
  BY <1>18 DEF StopCall
<1>19. CASE StopReturn
  BY <1>19 DEF StopReturn
<1>20. ASSUME NEW a \in Artifacts, ExternalSign(a) PROVE (NotOffered /\ SignedNotProcessed)'
  BY <1>20 DEF ExternalSign
<1>21. CASE UNCHANGED vars
  BY <1>21 DEF vars
<1>22. QED
  BY <1>1, <1>2, <1>3, <1>4, <1>5, <1>6, <1>7, <1>8, <1>9, <1>10, <1>11, <1>12, <1>13, <1>14,
     <1>15, <1>16, <1>17, <1>18, <1>19, <1>20, <1>21 DEF Next, SweepStep, Terminated

\* A caller's sweep is its own: a step of another leaves it alone.
LEMMA ElsewhereUnchanged ==
    ASSUME TypeOK, NEW c \in Callers, NEW d \in Callers, c # d,
           Call(c) \/ SweepStep(c) \/ Expire(c)
    PROVE  /\ pc'[d] = pc[d] /\ result'[d] = result[d] /\ handled'[d] = handled[d]
           /\ todo'[d] = todo[d] /\ project'[d] = project[d]
BY DEF TypeOK, Call, SweepStep, Expire, Skip, Lock, ListArtifacts, ListError, NextProject,
       FoundSigned, CheckFailed, Offer, ProcessNil, ProcessError, TimedOut, Finish,
       Return, Leave, Handle, AdvanceBy

LEMMA SameProgress ==
    ASSUME NEW d \in Callers, ProgressOf(d) /\ CompletedOf(d),
           pc'[d] = pc[d], result'[d] = result[d], handled'[d] = handled[d],
           todo'[d] = todo[d], project'[d] = project[d]
    PROVE  ProgressOf(d)' /\ CompletedOf(d)'
BY DEF ProgressOf, CompletedOf, Dealt, Pending, Listed

\* Outside a sweep, and without a completed one behind it, nothing is claimed.
LEMMA NoProgressNeeded ==
    ASSUME NEW c \in Callers, pc'[c] \notin InSweep, result'[c] # "completed"
    PROVE  ProgressOf(c)' /\ CompletedOf(c)'
BY DEF ProgressOf, CompletedOf

\* The artifact at the head is dealt with, the others move up.
LEMMA HandleProgress ==
    ASSUME ReconcilerInv, NEW c \in Callers, NEW how \in Outcome,
           pc[c] \in {"artifact", "process"}, todo[c] # <<>>, Handle(c, how)
    PROVE  ProgressOf(c)' /\ CompletedOf(c)'
<1> USE DEF ReconcilerInv
<1>1. /\ todo[c] \in Seq(Artifacts) /\ todo'[c] = Tail(todo[c])
      /\ handled'[c] = handled[c] \cup {<<Head(todo[c]), how>>}
      /\ pc'[c] = "artifact" /\ result'[c] = result[c] /\ project'[c] = project[c]
  BY DEF TypeOK, Handle
<1>2. \A x : Dealt(c, x) => Dealt(c, x)'
  BY <1>1 DEF Dealt
<1>3. ASSUME NEW x, Pending(c, x) PROVE Dealt(c, x)' \/ Pending(c, x)'
  <2>1. PICK j \in DOMAIN todo[c] : todo[c][j] = x
    BY <1>3 DEF Pending
  <2>2. CASE j = 1
    BY <1>1, <2>1, <2>2 DEF Dealt
  <2>3. CASE j # 1
    <3>1. j - 1 \in DOMAIN Tail(todo[c]) /\ Tail(todo[c])[j - 1] = x
      BY <1>1, <2>1, <2>3
    <3>2. QED BY <1>1, <3>1 DEF Pending
  <2>4. QED BY <2>2, <2>3
<1>4. ProgressOf(c) /\ pc[c] \in InSweep
  BY DEF Progress, InSweep
<1>5. ProgressOf(c)'
  BY <1>1, <1>2, <1>3, <1>4 DEF ProgressOf, Listed
<1>6. CompletedOf(c)'
  BY <1>1, <1>4 DEF ProgressOf, CompletedOf
<1>7. QED BY <1>5, <1>6

\* Every step of a sweep keeps what it has dealt with; only the last completes it.
LEMMA ProgressStep ==
    ASSUME ReconcilerInv, [Next]_vars
    PROVE  Progress'
<1> USE ReconcilerAssumption DEF ReconcilerInv
<1>1. ASSUME NEW c \in Callers, Call(c) \/ SweepStep(c) \/ Expire(c) PROVE Progress'
  <2> DEFINE Goal == ProgressOf(c)' /\ CompletedOf(c)'
  <2>0. ProgressOf(c) /\ CompletedOf(c)
    BY DEF Progress
  <2>1. ASSUME Call(c) PROVE Goal
    <3>1. pc[c] = "idle" /\ pc'[c] = "lock" BY <2>1 DEF Call, TypeOK
    <3>2. QED BY <2>0, <2>1, <3>1 DEF Call, ProgressOf, CompletedOf, InSweep, Dealt
  <2>2. ASSUME Skip(c) \/ ListError(c) \/ TimedOut(c) PROVE Goal
    <3>1. pc'[c] \notin InSweep /\ result'[c] # "completed"
      BY <2>2 DEF Skip, ListError, TimedOut, Leave, Return, TypeOK, InSweep
    <3>2. QED BY <3>1, NoProgressNeeded
  <2>3. ASSUME Lock(c) PROVE Goal
    <3>1. pc'[c] = "project" /\ project'[c] = 1 /\ result'[c] = "none"
      BY <2>3 DEF Lock, TypeOK
    <3>2. QED BY <3>1 DEF ProgressOf, CompletedOf
  <2>4. ASSUME ListArtifacts(c) PROVE Goal
    <3>1. /\ pc[c] = "project" /\ pc'[c] = "artifact" /\ project'[c] = project[c]
          /\ todo'[c] = Listed(project[c]) /\ result'[c] = result[c] /\ handled'[c] = handled[c]
      BY <2>4 DEF ListArtifacts, AtProject, TypeOK, Listed
    <3>2. QED BY <2>0, <3>1 DEF ProgressOf, CompletedOf, InSweep, Dealt, Pending, Listed
  <2>5. ASSUME NextProject(c) PROVE Goal
    <3>1. /\ pc[c] = "artifact" /\ pc'[c] = "project" /\ project'[c] = project[c] + 1
          /\ todo[c] = <<>> /\ result'[c] = result[c] /\ handled'[c] = handled[c]
          /\ project[c] \in Nat
      BY <2>5 DEF NextProject, AdvanceBy, TypeOK
    <3>2. \A i \in DOMAIN Listed(project[c]) : Dealt(c, Listed(project[c])[i])
      BY <2>0, <3>1 DEF ProgressOf, InSweep, Pending
    <3>3. \A k \in DOMAIN Projects : k < project[c] + 1 => k < project[c] \/ k = project[c]
      BY <3>1
    <3>4. QED BY <2>0, <3>1, <3>2, <3>3 DEF ProgressOf, CompletedOf, InSweep, Dealt, Listed
  <2>6. ASSUME FoundSigned(c) \/ CheckFailed(c) \/ ProcessNil(c) \/ ProcessError(c) PROVE Goal
    <3>1. PICK how \in Outcome : Handle(c, how)
      BY <2>6 DEF FoundSigned, CheckFailed, ProcessNil, ProcessError, Outcome
    <3>2. pc[c] \in {"artifact", "process"} /\ todo[c] # <<>>
      BY <2>6 DEF FoundSigned, CheckFailed, ProcessNil, ProcessError, AtArtifact, Position
    <3>3. QED BY <3>1, <3>2, HandleProgress
  <2>7. ASSUME Offer(c) PROVE Goal
    <3>1. pc[c] = "artifact" /\ pc'[c] = "process"
      BY <2>7 DEF Offer, AtArtifact, TypeOK
    <3>2. QED BY <2>0, <2>7, <3>1 DEF Offer, ProgressOf, CompletedOf, InSweep, Dealt, Pending, Listed
  <2>8. ASSUME Finish(c) PROVE Goal
    <3>1. pc[c] = "project" /\ project[c] > Len(Projects) /\ pc'[c] \notin InSweep
      BY <2>8 DEF Finish, Leave, Return, TypeOK, InSweep
    <3>2. CASE c \in expired
      <4>1. result'[c] # "completed"
        BY <2>8, <3>2 DEF Finish, Leave, Return, TypeOK
      <4>2. QED BY <3>1, <4>1, NoProgressNeeded
    <3>3. CASE c \notin expired
      <4>1. handled'[c] = handled[c]
        BY <2>8, <3>3 DEF Finish, Leave
      <4>2. \A k \in DOMAIN Projects : k < project[c]
        BY <3>1 DEF TypeOK
      <4>3. QED BY <2>0, <3>1, <4>1, <4>2 DEF ProgressOf, CompletedOf, InSweep, Dealt, Listed
    <3>4. QED BY <3>2, <3>3
  <2>9. ASSUME Expire(c) PROVE Goal
    BY <2>0, <2>9, SameProgress DEF Expire
  <2>10. Goal
    BY <1>1, <2>1, <2>2, <2>3, <2>4, <2>5, <2>6, <2>7, <2>8, <2>9 DEF SweepStep
  <2>11. ASSUME NEW d \in Callers, d # c PROVE ProgressOf(d)' /\ CompletedOf(d)'
    BY <1>1, <2>11, ElsewhereUnchanged, SameProgress DEF Progress
  <2>12. QED BY <2>10, <2>11 DEF Progress
<1>2. ASSUME \/ Tick \/ StopCall \/ StopReturn \/ UNCHANGED vars
             \/ \E a \in Artifacts : ExternalSign(a)
      PROVE  Progress'
  BY <1>2, SameProgress DEF Tick, StopCall, StopReturn, ExternalSign, vars, sweepVars, Progress
<1>3. ASSUME TakeTick \/ TakeStop PROVE Progress'
  <2>1. ASSUME NEW d \in Callers PROVE ProgressOf(d)' /\ CompletedOf(d)'
    <3>1. /\ pc'[d] = pc[d] \/ pc'[d] \notin InSweep
          /\ result'[d] = result[d] /\ handled'[d] = handled[d]
          /\ todo'[d] = todo[d] /\ project'[d] = project[d]
      BY <1>3 DEF TakeTick, TakeStop, TypeOK, InSweep, Callers
    <3>2. CASE pc'[d] = pc[d]
      BY <3>1, <3>2, SameProgress DEF Progress
    <3>3. CASE pc'[d] \notin InSweep
      BY <3>1, <3>3 DEF Progress, ProgressOf, CompletedOf, Dealt, Listed
    <3>4. QED BY <3>1, <3>2, <3>3
  <2>2. QED BY <2>1 DEF Progress
<1>4. QED BY <1>1, <1>2, <1>3 DEF Next, Terminated

-----------------------------------------------------------------------------

LEMMA Invariant == Spec => []ReconcilerInv
<1>1. ReconcilerInv /\ [Next]_vars => ReconcilerInv'
  BY TypeStep, MutexStep, PositionStep, NotOfferedStep, ProgressStep DEF ReconcilerInv
<1>2. QED BY InitInv, <1>1, PTL DEF Spec

\* The sweeps' state is well-typed; no sweep leaves the list of projects
\* (reconciler.go:127-221).
THEOREM TypeCorrect == Spec => []TypeOK
BY Invariant, PTL DEF ReconcilerInv

\* TryLock lets one sweep in at a time, however many callers meet
\* (reconciler.go:110-114).
THEOREM SweepsExclude == Spec => []OneSweep
BY Invariant, PTL DEF ReconcilerInv

\* Once Stop has returned, the ticker goroutine sweeps no more
\* (reconciler.go:75-97).
THEOREM StopIsFinal == Spec => []StoppedIsStopped
BY Invariant, PTL DEF ReconcilerInv

\* What was signed before a sweep is not processed by it (reconciler.go:162-177).
THEOREM SignedIsSkipped == Spec => []SignedNotProcessed
BY Invariant, PTL DEF ReconcilerInv

\* A completed sweep has dealt with every artifact of every project, whatever
\* failed on the way (reconciler.go:127-199).
THEOREM NothingMissed == Spec => []CompletedSweepMissesNothing
<1>1. ReconcilerInv => CompletedSweepMissesNothing
  BY DEF ReconcilerInv, Progress, CompletedOf, CompletedSweepMissesNothing, Dealt, Listed
<1>2. QED BY Invariant, <1>1, PTL

\* No step of the reconciler is more than a step of the sweeper.
LEMMA SweeperStep ==
    ASSUME ReconcilerInv, [Next]_vars
    PROVE  [Abstract!Next]_(Abstract!vars)
<1> USE DEF ReconcilerInv, StopStatus, Abstract!vars
<1>1. ASSUME NEW c \in Callers, Lock(c) PROVE Abstract!Begin(c)
  <2>1. c = Ticker => StopStatus # "confirmed"
    BY <1>1 DEF Lock, StoppedIsStopped, TypeOK
  <2>2. QED BY <1>1, <2>1 DEF Lock, Abstract!Begin, tickerVars
<1>2. ASSUME NEW c \in Callers, ListError(c) \/ TimedOut(c) \/ Finish(c) PROVE Abstract!End
  <2>1. running # NoOne
    BY <1>2, ReconcilerAssumption
       DEF ListError, TimedOut, Finish, AtProject, AtArtifact, OneSweep, InSweep
  <2>2. QED BY <1>2, <2>1 DEF ListError, TimedOut, Finish, Leave, Abstract!End, tickerVars
<1>3. ASSUME StopCall PROVE Abstract!Ask
  BY <1>3 DEF StopCall, Abstract!Ask, sweepVars
<1>4. ASSUME StopReturn PROVE Abstract!Confirm
  <2>1. running # Ticker
    BY <1>4 DEF StopReturn, OneSweep, InSweep, Callers
  <2>2. QED BY <1>4, <2>1 DEF StopReturn, Abstract!Confirm, sweepVars
<1>5. ASSUME NEW c \in Callers,
             \/ Call(c) \/ Skip(c) \/ ListArtifacts(c) \/ NextProject(c) \/ FoundSigned(c)
             \/ CheckFailed(c) \/ Offer(c) \/ ProcessNil(c) \/ ProcessError(c) \/ Expire(c)
      PROVE  UNCHANGED <<running, stopPc>>
  BY <1>5 DEF Call, Skip, ListArtifacts, NextProject, AdvanceBy, FoundSigned, CheckFailed, Offer,
              ProcessNil, ProcessError, Handle, Expire, tickerVars
<1>6. ASSUME \/ Tick \/ TakeTick \/ TakeStop \/ UNCHANGED vars
             \/ \E a \in Artifacts : ExternalSign(a)
      PROVE  UNCHANGED <<running, stopPc>>
  BY <1>6 DEF Tick, TakeTick, TakeStop, ExternalSign, vars, sweepVars, tickerVars
<1>7. QED
  BY <1>1, <1>2, <1>3, <1>4, <1>5, <1>6 DEF Next, SweepStep, Terminated, Abstract!Next

\* The reconciler implements the sweeper that the process relies on
\* (reconciler.go:75-124).
THEOREM Refinement == Spec => ImplementsSweeper
<1>1. Init => Abstract!Init
  BY DEF Init, Abstract!Init, StopStatus
<1>2. QED BY Invariant, <1>1, SweeperStep, PTL DEF Spec, ImplementsSweeper, Abstract!Spec
=============================================================================
