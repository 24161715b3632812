-------------------------- MODULE WorkerPool_proofs --------------------------
(***************************************************************************)
(* The worker pool, for every number of workers, jobs, Shutdown calls and  *)
(* every channel capacity: its type, the inductive invariant PoolInv, the  *)
(* safety properties that follow, and that it implements JobLedger.        *)
(***************************************************************************)
EXTENDS WorkerPool, FiniteSetTheorems, SequenceTheorems, TLAPS

\* The channel holds the queued jobs and nothing else, each one once.
ChannelInv ==
    /\ \A j \in Jobs : fate[j] = "queued" <=> \E k \in 1..Len(jobs) : jobs[k] = j
    /\ \A k, l \in 1..Len(jobs) : jobs[k] = jobs[l] => k = l

\* The channel is the end of what was accepted, where no job comes twice.
OrderInv ==
    /\ Len(jobs) <= Len(accepted)
    /\ \A k \in 1..Len(jobs) : jobs[k] = accepted[Len(accepted) - Len(jobs) + k]
    /\ \A k, l \in 1..Len(accepted) : accepted[k] = accepted[l] => k = l
    /\ \A k \in 1..Len(accepted) : fate[accepted[k]] \notin {"new", "dropped", "panicked"}

\* Who saw the end of the pool: a worker that exited found the channel closed
\* and empty, a wait group that was waited for has no member left, and only a
\* call whose waitDone is closed returns nil.
DrainInv ==
    /\ NoJobStranded
    /\ waitDone # {} => \A w \in Workers : workerPc[w] = "exited"
    /\ \A c \in Callers : shutdownPc[c] = "nil" => c \in waitDone

PoolInv ==
    /\ TypeOK
    /\ ChannelInv
    /\ OrderInv
    /\ OneWorkerPerJob
    /\ BoundedOvertaking
    /\ DrainInv

-----------------------------------------------------------------------------
(* Overtaking. *)

\* As long as what was executed stays so, no job that was executed is overtaken
\* by more jobs than before.
LEMMA OvertakingKept ==
    ASSUME TypeOK, BoundedOvertaking,
           NEW k \in 1..Len(accepted), Executed(accepted[k]),
           \A l \in 1..Len(accepted) :
              /\ accepted'[l] = accepted[l]
              /\ Executed(accepted[l]) => Executed(accepted[l])'
    PROVE  Cardinality({l \in 1..(k - 1) : ~Executed(accepted[l])}') < Cardinality(Workers)
<1> DEFINE Before == {l \in 1..(k - 1) : ~Executed(accepted[l])}
<1>1. Len(accepted) \in Nat /\ k \in Nat /\ k - 1 \in Int
  BY LenProperties DEF TypeOK
<1>2. Before' \subseteq Before
  <2>1. \A l \in 1..(k - 1) : l \in 1..Len(accepted)
    BY <1>1
  <2>2. QED BY <2>1
<1>3. IsFiniteSet(Before)
  <2>1. IsFiniteSet(1..(k - 1))
    BY <1>1, FS_Interval
  <2>2. Before \in SUBSET (1..(k - 1))
    OBVIOUS
  <2>3. QED BY <2>1, <2>2, FS_Subset
<1>4. Cardinality(Before) < Cardinality(Workers)
  BY DEF BoundedOvertaking
<1>5. /\ Cardinality(Before') <= Cardinality(Before)
      /\ Cardinality(Before') \in Nat /\ Cardinality(Before) \in Nat
  BY <1>2, <1>3, FS_Subset, FS_CardinalityType
<1>6. Cardinality(Workers) \in Nat
  BY PoolAssumption, FS_CardinalityType
<1>7. QED BY <1>4, <1>5, <1>6

-----------------------------------------------------------------------------
(* The invariant. *)

LEMMA InitPool == Init => PoolInv
<1> SUFFICES ASSUME Init PROVE PoolInv
  OBVIOUS
<1>0. jobs = <<>> /\ accepted = <<>> /\ Len(jobs) = 0 /\ Len(accepted) = 0
  BY EmptySeq DEF Init
<1>1. TypeOK
  BY <1>0, EmptySeq DEF Init, TypeOK, Fate
<1>2. OrderInv /\ BoundedOvertaking
  BY <1>0 DEF OrderInv, BoundedOvertaking
<1>3. ChannelInv
  BY <1>0 DEF Init, ChannelInv
<1>4. OneWorkerPerJob
  BY DEF Init, OneWorkerPerJob
<1>5. DrainInv
  BY DEF Init, DrainInv, NoJobStranded
<1>6. QED BY <1>1, <1>2, <1>3, <1>4, <1>5 DEF PoolInv

LEMMA SubmitAcceptKeeps ==
    ASSUME PoolInv, NEW j \in Jobs, SubmitAccept(j)
    PROVE  PoolInv'
<1> USE DEF PoolInv
<1>1. /\ jobs' \in Seq(Jobs) /\ Len(jobs') = Len(jobs) + 1 /\ Len(jobs) \in Nat
      /\ \A k \in 1..Len(jobs) : jobs'[k] = jobs[k]
      /\ jobs'[Len(jobs) + 1] = j
  BY AppendProperties, LenProperties DEF SubmitAccept, TypeOK
<1>2. TypeOK'
  <2>1. accepted' \in Seq(Jobs)
    BY AppendProperties DEF SubmitAccept, TypeOK
  <2>2. fate' \in [Jobs -> Fate]
    BY DEF SubmitAccept, TypeOK, Fate
  <2>3. QED BY <1>1, <2>1, <2>2 DEF SubmitAccept, TypeOK
<1>3. /\ Len(accepted') = Len(accepted) + 1 /\ Len(accepted) \in Nat
      /\ \A k \in 1..Len(accepted) : accepted'[k] = accepted[k] /\ accepted[k] \in Jobs
      /\ accepted'[Len(accepted) + 1] = j
      /\ \A m \in Jobs : fate'[m] = IF m = j THEN "queued" ELSE fate[m]
      /\ fate[j] = "new"
  BY AppendProperties, LenProperties, ElementOfSeq DEF SubmitAccept, TypeOK
<1>8. OrderInv'
  <2>1. \A k \in 1..Len(accepted) : accepted[k] # j
    BY <1>3 DEF OrderInv
  <2>2. \A k, l \in 1..Len(accepted') : accepted'[k] = accepted'[l] => k = l
    BY <1>3, <2>1 DEF OrderInv
  <2>3. \A k \in 1..Len(accepted') : fate'[accepted'[k]] \notin {"new", "dropped", "panicked"}
    <3>1. ASSUME NEW k \in 1..Len(accepted)
          PROVE  fate'[accepted'[k]] \notin {"new", "dropped", "panicked"}
      BY <1>3, <2>1 DEF OrderInv
    <3>2. fate'[accepted'[Len(accepted) + 1]] = "queued"
      BY <1>3
    <3>3. \A k \in 1..Len(accepted') : k = Len(accepted) + 1 \/ k \in 1..Len(accepted)
      BY <1>3
    <3>4. QED BY <3>1, <3>2, <3>3
  <2>4. Len(jobs') <= Len(accepted')
    BY <1>1, <1>3 DEF OrderInv
  <2>5. ASSUME NEW k \in 1..Len(jobs')
        PROVE  jobs'[k] = accepted'[Len(accepted') - Len(jobs') + k]
    <3>1. Len(accepted') - Len(jobs') + k = Len(accepted) - Len(jobs) + k
      BY <1>1, <1>3
    <3>2. CASE k = Len(jobs) + 1
      <4>1. Len(accepted) - Len(jobs) + k = Len(accepted) + 1
        BY <1>1, <1>3, <3>2
      <4>2. QED BY <1>1, <1>3, <3>1, <3>2, <4>1
    <3>3. CASE k \in 1..Len(jobs)
      <4>1. Len(accepted) - Len(jobs) + k \in 1..Len(accepted)
        BY <1>1, <1>3, <3>3 DEF OrderInv
      <4>2. QED BY <1>1, <1>3, <3>1, <3>3, <4>1 DEF OrderInv
    <3>4. QED BY <1>1, <3>2, <3>3
  <2>6. QED BY <2>2, <2>3, <2>4, <2>5 DEF OrderInv
<1>9. BoundedOvertaking'
  <2>1. \A l \in 1..Len(accepted) : Executed(accepted[l])' <=> Executed(accepted[l])
    BY <1>3 DEF Executed
  <2>2. ASSUME NEW k \in 1..Len(accepted'), Executed(accepted[k])'
        PROVE  k \in 1..Len(accepted) /\ Executed(accepted[k])
    BY <1>3, <2>1, <2>2 DEF Executed
  <2>3. QED BY <1>3, <2>1, <2>2, OvertakingKept DEF BoundedOvertaking
<1>4. ChannelInv'
  <2>1. \A k \in 1..Len(jobs) : jobs[k] # j
    BY DEF SubmitAccept, ChannelInv
  <2>2. \A m \in Jobs : fate'[m] = IF m = j THEN "queued" ELSE fate[m]
    BY DEF SubmitAccept, TypeOK
  <2>3. ASSUME NEW m \in Jobs
        PROVE  fate'[m] = "queued" <=> \E k \in 1..Len(jobs') : jobs'[k] = m
    <3>1. CASE m = j
      BY <3>1, <1>1, <2>2
    <3>2. CASE m # j
      BY <3>2, <1>1, <2>2 DEF ChannelInv
    <3>3. QED BY <3>1, <3>2
  <2>4. \A k, l \in 1..Len(jobs') : jobs'[k] = jobs'[l] => k = l
    BY <1>1, <2>1 DEF ChannelInv
  <2>5. QED BY <2>3, <2>4 DEF ChannelInv
<1>5. OneWorkerPerJob'
  BY DEF SubmitAccept, OneWorkerPerJob, TypeOK
<1>6. DrainInv'
  BY DEF SubmitAccept, DrainInv, NoJobStranded
<1>7. QED BY <1>2, <1>4, <1>5, <1>6, <1>8, <1>9

\* A submission that is dropped, or that panics, only changes its own fate.
LEMMA RejectKeeps ==
    ASSUME PoolInv, NEW j \in Jobs, SubmitDrop(j) \/ SubmitPanic(j)
    PROVE  PoolInv'
<1> USE DEF PoolInv, SubmitDrop, SubmitPanic
<1>1. TypeOK'
  BY DEF TypeOK, Fate
<1>2. OrderInv' /\ BoundedOvertaking'
  <2>1. \A k \in 1..Len(accepted) : accepted[k] \in Jobs /\ accepted[k] # j
    BY ElementOfSeq DEF TypeOK, OrderInv
  <2>2. \A k \in 1..Len(accepted) : fate'[accepted[k]] = fate[accepted[k]]
    BY <2>1 DEF TypeOK
  <2>3. OrderInv'
    BY <2>2 DEF OrderInv
  <2>4. \A k \in 1..Len(accepted) : Executed(accepted[k])' <=> Executed(accepted[k])
    BY <2>2 DEF Executed
  <2>5. QED BY <2>3, <2>4, OvertakingKept DEF BoundedOvertaking
<1>3. ChannelInv'
  <2>1. fate[j] # "queued" /\ fate'[j] # "queued" /\ jobs' = jobs
    BY DEF TypeOK
  <2>2. \A m \in Jobs : m # j => fate'[m] = fate[m]
    BY DEF TypeOK
  <2>3. QED BY <2>1, <2>2 DEF ChannelInv
<1>4. OneWorkerPerJob'
  BY DEF OneWorkerPerJob, TypeOK
<1>5. DrainInv'
  BY DEF DrainInv, NoJobStranded
<1>6. QED BY <1>1, <1>2, <1>3, <1>4, <1>5

LEMMA ReceiveKeeps ==
    ASSUME PoolInv, NEW w \in Workers, Receive(w)
    PROVE  PoolInv'
<1> USE DEF PoolInv
<1> DEFINE h == Head(jobs)
<1>1. /\ h \in Jobs /\ h = jobs[1] /\ jobs' \in Seq(Jobs)
      /\ Len(jobs) \in Nat \ {0} /\ Len(jobs') = Len(jobs) - 1
      /\ \A k \in 1..Len(jobs') : jobs'[k] = jobs[k + 1]
  BY HeadTailProperties, EmptySeq DEF Receive, TypeOK
<1>2. fate[h] = "queued"
  BY <1>1 DEF ChannelInv
<1>3. \A m \in Jobs : fate'[m] = IF m = h THEN "received" ELSE fate[m]
  BY DEF Receive, TypeOK
<1>4. TypeOK'
  <2>2. fate' \in [Jobs -> Fate]
    BY DEF Receive, TypeOK, Fate
  <2>3. workerJob' \in [Workers -> Jobs \cup {NoJob}]
    BY <1>1 DEF Receive, TypeOK
  <2>4. QED BY <1>1, <2>2, <2>3 DEF Receive, TypeOK
<1>5. OrderInv' /\ BoundedOvertaking'
  <2>1. /\ accepted' = accepted
        /\ \A k \in 1..Len(accepted) : accepted[k] \in Jobs
        /\ Len(accepted) \in Nat
    BY ElementOfSeq, LenProperties DEF Receive, TypeOK
  <2>2. OrderInv'
    <3>1. ASSUME NEW k \in 1..Len(jobs')
          PROVE  jobs'[k] = accepted'[Len(accepted') - Len(jobs') + k]
      <4>1. /\ k + 1 \in 1..Len(jobs)
            /\ Len(accepted') - Len(jobs') + k = Len(accepted) - Len(jobs) + (k + 1)
        BY <1>1, <2>1
      <4>2. QED BY <1>1, <2>1, <4>1 DEF OrderInv
    <3>2. Len(jobs') <= Len(accepted')
      BY <1>1, <2>1 DEF OrderInv
    <3>3. \A k \in 1..Len(accepted') : fate'[accepted'[k]] \notin {"new", "dropped", "panicked"}
      BY <1>3, <2>1 DEF OrderInv
    <3>4. QED BY <2>1, <3>1, <3>2, <3>3 DEF OrderInv
  <2>3. \A k \in 1..Len(accepted) : Executed(accepted[k])' <=> Executed(accepted[k])
    BY <1>2, <1>3, <2>1 DEF Executed
  <2>4. QED BY <2>1, <2>2, <2>3, OvertakingKept DEF BoundedOvertaking
<1>6. ChannelInv'
  <2>1. ASSUME NEW m \in Jobs
        PROVE  fate'[m] = "queued" <=> \E k \in 1..Len(jobs') : jobs'[k] = m
    <3>1. CASE m = h
      BY <3>1, <1>1, <1>3 DEF ChannelInv
    <3>2. CASE m # h
      <4>1. ASSUME NEW k \in 1..Len(jobs), jobs[k] = m
            PROVE  k - 1 \in 1..Len(jobs') /\ jobs'[k - 1] = m
        BY <4>1, <3>2, <1>1
      <4>2. ASSUME NEW k \in 1..Len(jobs'), jobs'[k] = m
            PROVE  k + 1 \in 1..Len(jobs) /\ jobs[k + 1] = m
        BY <4>2, <1>1
      <4>3. QED BY <3>2, <1>3, <4>1, <4>2 DEF ChannelInv
    <3>3. QED BY <3>1, <3>2
  <2>2. \A k, l \in 1..Len(jobs') : jobs'[k] = jobs'[l] => k = l
    BY <1>1 DEF ChannelInv
  <2>3. QED BY <2>1, <2>2 DEF ChannelInv
<1>7. OneWorkerPerJob'
  <2>1. \A v \in Workers :
           /\ workerPc'[v] = IF v = w THEN "received" ELSE workerPc[v]
           /\ workerJob'[v] = IF v = w THEN h ELSE workerJob[v]
    BY DEF Receive, TypeOK
  <2>2. \A v \in Workers : workerPc[v] \in {"received", "execute"} => workerJob[v] # h
    BY <1>2 DEF OneWorkerPerJob
  <2>3. workerPc[w] \notin {"received", "execute"}
    BY DEF Receive
  <2>4. QED BY <1>1, <1>3, <2>1, <2>2, <2>3 DEF OneWorkerPerJob
<1>8. DrainInv'
  BY DEF Receive, DrainInv, NoJobStranded, TypeOK
<1>9. QED BY <1>4, <1>5, <1>6, <1>7, <1>8

\* Who has not been called of those that came before a called one is in another
\* worker's hand.
LEMMA ExecuteOvertakes ==
    ASSUME PoolInv, NEW w \in Workers, workerPc[w] = "received",
           NEW k \in 1..Len(accepted), accepted[k] = workerJob[w]
    PROVE  Cardinality({l \in 1..(k - 1) : ~Executed(accepted[l])}) < Cardinality(Workers)
<1> USE DEF PoolInv
<1> DEFINE B == {l \in 1..(k - 1) : ~Executed(accepted[l])}
           T == Workers \ {w}
           f == [l \in B |-> CHOOSE v \in Workers :
                                workerPc[v] = "received" /\ workerJob[v] = accepted[l]]
           n == Len(accepted) - Len(jobs)
<1>1. /\ Len(accepted) \in Nat /\ Len(jobs) \in Nat /\ n \in Nat
      /\ \A l \in 1..Len(accepted) : accepted[l] \in Jobs
      /\ fate[accepted[k]] = "received"
  BY LenProperties, ElementOfSeq DEF TypeOK, OrderInv, OneWorkerPerJob
<1>2. \A l \in 1..Len(accepted) : fate[accepted[l]] = "queued" <=> l > n
  <2>1. ASSUME NEW l \in 1..Len(accepted), l > n PROVE fate[accepted[l]] = "queued"
    <3>1. l - n \in 1..Len(jobs) /\ accepted[l] = jobs[l - n]
      BY <1>1, <2>1 DEF OrderInv
    <3>2. QED BY <1>1, <3>1 DEF ChannelInv
  <2>2. ASSUME NEW l \in 1..Len(accepted), fate[accepted[l]] = "queued" PROVE l > n
    <3>1. PICK m \in 1..Len(jobs) : jobs[m] = accepted[l]
      BY <1>1, <2>2 DEF ChannelInv
    <3>2. n + m \in 1..Len(accepted) /\ accepted[n + m] = accepted[l]
      BY <1>1, <3>1 DEF OrderInv
    <3>3. l = n + m
      BY <3>2 DEF OrderInv
    <3>4. QED BY <1>1, <3>1, <3>3
  <2>3. QED BY <2>1, <2>2
<1>3. ASSUME NEW l \in B
      PROVE  l \in 1..Len(accepted) /\ l # k /\ fate[accepted[l]] = "received"
  <2>1. l \in 1..Len(accepted) /\ l < k
    BY <1>1
  <2>2. ~(k > n)
    BY <1>1, <1>2
  <2>3. fate[accepted[l]] # "queued"
    BY <1>1, <1>2, <2>1, <2>2
  <2>4. fate[accepted[l]] \in Fate
    BY <1>1, <2>1 DEF TypeOK
  <2>5. fate[accepted[l]] \notin {"new", "dropped", "panicked", "running", "done"}
    BY <2>1 DEF OrderInv, Executed
  <2>6. QED BY <1>1, <2>1, <2>3, <2>4, <2>5 DEF Fate
<1>4. ASSUME NEW l \in B
      PROVE  f[l] \in T /\ workerPc[f[l]] = "received" /\ workerJob[f[l]] = accepted[l]
  <2>1. \E v \in Workers : workerPc[v] = "received" /\ workerJob[v] = accepted[l]
    BY <1>1, <1>3 DEF OneWorkerPerJob
  <2>2. f[l] \in Workers /\ workerPc[f[l]] = "received" /\ workerJob[f[l]] = accepted[l]
    BY <2>1
  <2>3. accepted[l] # accepted[k]
    BY <1>3 DEF OrderInv
  <2>4. QED BY <2>2, <2>3
<1>5. \A l, m \in B : accepted[l] = accepted[m] => l = m
  BY <1>3 DEF OrderInv
<1> HIDE DEF f, B
<1>6. f \in [B -> T]
  BY <1>4 DEF f
<1>7. f \in Injection(B, T)
  BY <1>4, <1>5, <1>6 DEF Injection, IsInjective
<1>8. /\ IsFiniteSet(T)
      /\ Cardinality(T) = Cardinality(Workers) - 1
      /\ Cardinality(Workers) \in Nat
  BY PoolAssumption, FS_RemoveElement, FS_CardinalityType
<1>9. IsFiniteSet(B) /\ Cardinality(B) <= Cardinality(T)
  BY <1>7, <1>8, FS_Injection
<1>10. Cardinality(B) \in Nat
  BY <1>9, FS_CardinalityType
<1>11. Cardinality(B) < Cardinality(Workers)
  BY <1>8, <1>9, <1>10
<1>12. QED BY <1>11 DEF B

LEMMA ExecuteKeeps ==
    ASSUME PoolInv, NEW w \in Workers, Execute(w)
    PROVE  PoolInv'
<1> USE DEF PoolInv
<1> DEFINE d == workerJob[w]
<1>1. d \in Jobs /\ fate[d] = "received"
  BY DEF Execute, OneWorkerPerJob
<1>2. \A m \in Jobs : fate'[m] = IF m = d THEN "running" ELSE fate[m]
  BY DEF Execute, TypeOK
<1>3. TypeOK'
  <2>1. fate' \in [Jobs -> Fate]
    BY DEF Execute, TypeOK, Fate
  <2>2. QED BY <2>1 DEF Execute, TypeOK
<1>4. ChannelInv'
  BY <1>1, <1>2 DEF Execute, ChannelInv
<1>5. /\ accepted' = accepted
      /\ \A k \in 1..Len(accepted) : accepted[k] \in Jobs
  BY ElementOfSeq DEF Execute, TypeOK
<1>6. OrderInv'
  BY <1>1, <1>2, <1>5 DEF OrderInv, Execute
<1>7. BoundedOvertaking'
  <2>1. \A k \in 1..Len(accepted) : Executed(accepted[k])' <=> accepted[k] = d \/ Executed(accepted[k])
    BY <1>1, <1>2, <1>5 DEF Executed
  <2>2. ASSUME NEW k \in 1..Len(accepted), accepted[k] = d
        PROVE  Cardinality({l \in 1..(k - 1) : ~Executed(accepted[l])}') < Cardinality(Workers)
    <3>1. Len(accepted) \in Nat /\ \A l \in 1..(k - 1) : l \in 1..Len(accepted) /\ l # k
      BY LenProperties DEF TypeOK
    <3>2. \A l \in 1..(k - 1) : Executed(accepted[l])' <=> Executed(accepted[l])
      BY <2>1, <2>2, <3>1 DEF OrderInv
    <3>3. {l \in 1..(k - 1) : ~Executed(accepted[l])}' = {l \in 1..(k - 1) : ~Executed(accepted[l])}
      BY <3>2
    <3>4. QED BY <2>2, <3>3, ExecuteOvertakes DEF Execute
  <2>3. QED BY <1>5, <2>1, <2>2, OvertakingKept DEF BoundedOvertaking
<1>8. OneWorkerPerJob'
  <2>1. \A v \in Workers :
           /\ workerPc'[v] = IF v = w THEN "execute" ELSE workerPc[v]
           /\ workerJob'[v] = workerJob[v]
    BY DEF Execute, TypeOK
  <2>2. \A v \in Workers :
           v # w /\ workerPc[v] \in {"received", "execute"} => workerJob[v] # d
    BY DEF Execute, OneWorkerPerJob
  <2>3. workerPc[w] = "received"
    BY DEF Execute
  <2>4. QED BY <1>1, <1>2, <2>1, <2>2, <2>3 DEF OneWorkerPerJob
<1>9. DrainInv'
  BY DEF Execute, DrainInv, NoJobStranded, TypeOK
<1>10. QED BY <1>3, <1>4, <1>6, <1>7, <1>8, <1>9

LEMMA FinishKeeps ==
    ASSUME PoolInv, NEW w \in Workers, Finish(w)
    PROVE  PoolInv'
<1> USE DEF PoolInv
<1> DEFINE d == workerJob[w]
<1>1. d \in Jobs /\ fate[d] = "running"
  BY DEF Finish, OneWorkerPerJob
<1>2. \A m \in Jobs : fate'[m] = IF m = d THEN "done" ELSE fate[m]
  BY DEF Finish, TypeOK
<1>3. TypeOK'
  <2>1. fate' \in [Jobs -> Fate]
    BY DEF Finish, TypeOK, Fate
  <2>2. QED BY <2>1 DEF Finish, TypeOK
<1>4. OrderInv' /\ BoundedOvertaking'
  <2>1. accepted' = accepted /\ \A k \in 1..Len(accepted) : accepted[k] \in Jobs
    BY ElementOfSeq DEF Finish, TypeOK
  <2>2. OrderInv'
    BY <1>1, <1>2, <2>1 DEF OrderInv, Finish
  <2>3. \A k \in 1..Len(accepted) : Executed(accepted[k])' <=> Executed(accepted[k])
    BY <1>1, <1>2, <2>1 DEF Executed
  <2>4. QED BY <2>1, <2>2, <2>3, OvertakingKept DEF BoundedOvertaking
<1>5. ChannelInv'
  BY <1>1, <1>2 DEF Finish, ChannelInv
<1>6. OneWorkerPerJob'
  <2>1. \A v \in Workers :
           /\ workerPc'[v] = IF v = w THEN "receive" ELSE workerPc[v]
           /\ v # w => workerJob'[v] = workerJob[v]
    BY DEF Finish, TypeOK
  <2>2. \A v \in Workers : workerPc'[v] \in {"received", "execute"} =>
                               v # w /\ workerJob[v] # d
    BY <2>1 DEF Finish, OneWorkerPerJob
  <2>3. QED BY <1>1, <1>2, <2>1, <2>2 DEF OneWorkerPerJob
<1>7. DrainInv'
  BY DEF Finish, DrainInv, NoJobStranded, TypeOK
<1>8. QED BY <1>3, <1>4, <1>5, <1>6, <1>7

LEMMA ExitKeeps ==
    ASSUME PoolInv, NEW w \in Workers, Exit(w)
    PROVE  PoolInv'
<1> USE DEF PoolInv, Exit
<1>1. TypeOK'
  BY DEF TypeOK
<1>2. OrderInv' /\ BoundedOvertaking'
  BY DEF OrderInv, BoundedOvertaking, Executed
<1>3. ChannelInv'
  BY DEF ChannelInv
<1>4. OneWorkerPerJob'
  BY DEF OneWorkerPerJob, TypeOK
<1>5. DrainInv'
  BY DEF DrainInv, NoJobStranded, TypeOK
<1>6. QED BY <1>1, <1>2, <1>3, <1>4, <1>5

\* The steps of a Shutdown call touch neither the channel's content, nor the
\* workers, nor the jobs.
LEMMA ShutdownKeeps ==
    ASSUME PoolInv, NEW c \in Callers,
           ShutdownBegin(c) \/ Expire(c) \/ ShutdownStep(c)
    PROVE  PoolInv'
<1> USE DEF PoolInv, ShutdownBegin, Expire, ShutdownStep, WaitGroupDone,
            ShutdownNil, ShutdownDeadline, Return
<1>1. TypeOK'
  BY DEF TypeOK
<1>2. OrderInv' /\ BoundedOvertaking'
  BY DEF OrderInv, BoundedOvertaking, Executed
<1>3. ChannelInv'
  BY DEF ChannelInv
<1>4. OneWorkerPerJob'
  BY DEF OneWorkerPerJob
<1>5. DrainInv'
  BY DEF DrainInv, NoJobStranded, TypeOK
<1>6. QED BY <1>1, <1>2, <1>3, <1>4, <1>5

LEMMA StepPool == PoolInv /\ [Next]_vars => PoolInv'
<1> SUFFICES ASSUME PoolInv, [Next]_vars PROVE PoolInv'
  OBVIOUS
<1>1. ASSUME NEW j \in Jobs, Submit(j) PROVE PoolInv'
  BY <1>1, SubmitAcceptKeeps, RejectKeeps DEF Submit
<1>2. ASSUME NEW w \in Workers, WorkerStep(w) PROVE PoolInv'
  BY <1>2, ReceiveKeeps, ExecuteKeeps, FinishKeeps, ExitKeeps DEF WorkerStep
<1>3. ASSUME NEW c \in Callers, ShutdownBegin(c) \/ Expire(c) \/ ShutdownStep(c)
      PROVE  PoolInv'
  BY <1>3, ShutdownKeeps
<1>4. CASE UNCHANGED vars
  BY <1>4 DEF vars, PoolInv, TypeOK, ChannelInv, OrderInv, OneWorkerPerJob,
              BoundedOvertaking, Executed, DrainInv, NoJobStranded
<1>5. QED BY <1>1, <1>2, <1>3, <1>4 DEF Next, Terminated

LEMMA PoolInvariant == Spec => []PoolInv
BY InitPool, StepPool, PTL DEF Spec

-----------------------------------------------------------------------------

\* The pool's state is well-typed.
THEOREM TypeCorrect == Spec => []TypeOK
<1>1. PoolInv => TypeOK BY DEF PoolInv
<1>2. QED BY <1>1, PoolInvariant, PTL

\* However workers are preempted between the receive and the call, fewer jobs are
\* overtaken by a later one than there are workers (pool.go:56-57).
THEOREM OvertakingIsBounded == Spec => []BoundedOvertaking
<1>1. PoolInv => BoundedOvertaking BY DEF PoolInv
<1>2. QED BY <1>1, PoolInvariant, PTL

\* A job that was received, or runs, has exactly one worker.
THEOREM ExclusiveExecution == Spec => []OneWorkerPerJob
<1>1. PoolInv => OneWorkerPerJob BY DEF PoolInv
<1>2. QED BY <1>1, PoolInvariant, PTL

\* What the state looks like behind a Shutdown that returned nil.
LEMMA NilShutdownDrained ==
    ASSUME PoolInv, NEW c \in Callers, shutdownPc[c] = "nil"
    PROVE  /\ closed
           /\ \A w \in Workers : workerPc[w] = "exited"
           /\ \A j \in Jobs : fate[j] \notin {"queued", "received", "running"}
<1> USE DEF PoolInv
<1>1. \A w \in Workers : workerPc[w] = "exited"
  BY DEF DrainInv
<1>2. jobs = <<>> /\ closed
  BY <1>1, PoolAssumption DEF DrainInv, NoJobStranded
<1>3. \A j \in Jobs : fate[j] # "queued"
  BY <1>2, EmptySeq DEF ChannelInv
<1>4. \A j \in Jobs : fate[j] \notin {"received", "running"}
  BY <1>1 DEF OneWorkerPerJob
<1>5. QED BY <1>1, <1>2, <1>3, <1>4

\* A nil Shutdown is a drained pool (pool.go:75-92).
THEOREM NilShutdownIsDrained == Spec => []NilMeansDrained
<1>1. PoolInv => NilMeansDrained
  BY NilShutdownDrained DEF NilMeansDrained
<1>2. QED BY <1>1, PoolInvariant, PTL

\* No job is left in the channel when a worker has gone.
THEOREM NothingStranded == Spec => []NoJobStranded
<1>1. PoolInv => NoJobStranded BY DEF PoolInv, DrainInv
<1>2. QED BY <1>1, PoolInvariant, PTL

-----------------------------------------------------------------------------
(* Refinement. *)

\* The ledger counts with the same Cardinality.
LEMMA SameCardinality ==
    ASSUME NEW S
    PROVE  Ledger!Cardinality(S) = Cardinality(S)
BY DEF Ledger!Cardinality, Cardinality

\* While a worker does not execute, fewer jobs run than there are workers.
LEMMA RoomToRun ==
    ASSUME PoolInv, NEW w \in Workers, workerPc[w] # "execute"
    PROVE  Cardinality(Ledger!In("running")) < Cardinality(Workers)
<1> DEFINE R == Ledger!In("running")
           T == Workers \ {w}
           f == [j \in R |-> CHOOSE v \in Workers :
                                workerPc[v] = "execute" /\ workerJob[v] = j]
<1>1. R \subseteq Jobs /\ \A j \in R : fate[j] = "running"
  BY DEF Ledger!In, LedgerStatus
<1>2. ASSUME NEW j \in R
      PROVE  f[j] \in T /\ workerPc[f[j]] = "execute" /\ workerJob[f[j]] = j
  <2>1. \E v \in Workers : workerPc[v] = "execute" /\ workerJob[v] = j
    BY <1>1 DEF PoolInv, OneWorkerPerJob
  <2>2. f[j] \in Workers /\ workerPc[f[j]] = "execute" /\ workerJob[f[j]] = j
    BY <2>1
  <2>3. QED BY <2>2
<1> HIDE DEF f
<1>3. f \in [R -> T]
  BY <1>2 DEF f
<1>4. f \in Injection(R, T)
  BY <1>2, <1>3 DEF Injection, IsInjective
<1>5. /\ IsFiniteSet(T)
      /\ Cardinality(T) = Cardinality(Workers) - 1
      /\ Cardinality(Workers) \in Nat
  BY PoolAssumption, FS_RemoveElement, FS_CardinalityType
<1>6. IsFiniteSet(R) /\ Cardinality(R) <= Cardinality(T)
  BY <1>4, <1>5, FS_Injection
<1>7. Cardinality(R) \in Nat
  BY <1>6, FS_CardinalityType
<1>8. QED BY <1>5, <1>6, <1>7

\* What one changed fate does to the ledger.
LEMMA FateMoves ==
    ASSUME TypeOK, NEW j \in Jobs, NEW f \in Fate,
           fate' = [fate EXCEPT ![j] = f]
    PROVE  LedgerStatus' =
             [LedgerStatus EXCEPT ![j] =
                CASE f \in {"queued", "received"} -> "accepted"
                  [] f \in {"dropped", "panicked"} -> "rejected"
                  [] OTHER -> f]
BY DEF TypeOK, LedgerStatus

LEMMA InitLedger == Init => Ledger!Init
BY DEF Init, Ledger!Init, LedgerStatus

LEMMA StepLedger == PoolInv /\ [Next]_vars => [Ledger!Next]_Ledger!vars
<1> SUFFICES ASSUME PoolInv, [Next]_vars PROVE [Ledger!Next]_Ledger!vars
  OBVIOUS
<1> USE DEF PoolInv
<1>1. ASSUME NEW j \in Jobs, SubmitAccept(j) PROVE Ledger!Accept(j)
  <2>1. LedgerStatus[j] = "new"
    BY <1>1 DEF SubmitAccept, LedgerStatus
  <2>2. LedgerStatus' = [LedgerStatus EXCEPT ![j] = "accepted"]
    BY <1>1, FateMoves DEF SubmitAccept, Fate
  <2>3. QED BY <1>1, <2>1, <2>2 DEF SubmitAccept, Ledger!Accept, Ledger!Move
<1>2. ASSUME NEW j \in Jobs, SubmitDrop(j) \/ SubmitPanic(j) PROVE Ledger!Reject(j)
  <2>1. LedgerStatus[j] = "new"
    BY <1>2 DEF SubmitDrop, SubmitPanic, LedgerStatus
  <2>2. LedgerStatus' = [LedgerStatus EXCEPT ![j] = "rejected"]
    BY <1>2, FateMoves DEF SubmitDrop, SubmitPanic, Fate
  <2>3. QED BY <1>2, <2>1, <2>2 DEF SubmitDrop, SubmitPanic, Ledger!Reject, Ledger!Move
<1>3. ASSUME NEW w \in Workers, Receive(w) PROVE UNCHANGED Ledger!vars
  <2>1. Head(jobs) \in Jobs /\ fate[Head(jobs)] = "queued"
    <3>1. Head(jobs) \in Jobs /\ Head(jobs) = jobs[1] /\ 1 \in 1..Len(jobs)
      BY <1>3, HeadTailProperties, EmptySeq DEF Receive, TypeOK
    <3>2. QED BY <3>1 DEF ChannelInv
  <2>2. LedgerStatus[Head(jobs)] = "accepted"
    BY <2>1 DEF LedgerStatus
  <2>3. LedgerStatus' = [LedgerStatus EXCEPT ![Head(jobs)] = "accepted"]
    BY <1>3, <2>1, FateMoves DEF Receive, Fate
  <2>4. LedgerStatus \in [Jobs -> Ledger!Status]
    BY DEF TypeOK, Fate, LedgerStatus, Ledger!Status
  <2>5. LedgerStatus' = LedgerStatus
    BY <2>2, <2>3, <2>4
  <2>6. QED BY <1>3, <2>5 DEF Receive, Ledger!vars
<1>15. ASSUME NEW w \in Workers, Execute(w) PROVE Ledger!Start(workerJob[w])
  <2>1. workerJob[w] \in Jobs /\ fate[workerJob[w]] = "received"
    BY <1>15 DEF Execute, OneWorkerPerJob
  <2>2. LedgerStatus[workerJob[w]] = "accepted"
    BY <2>1 DEF LedgerStatus
  <2>3. LedgerStatus' = [LedgerStatus EXCEPT ![workerJob[w]] = "running"]
    BY <1>15, <2>1, FateMoves DEF Execute, Fate
  <2>4. Ledger!Cardinality(Ledger!In("running")) < Cardinality(Workers)
    BY <1>15, RoomToRun, SameCardinality DEF Execute
  <2>5. QED BY <1>15, <2>2, <2>3, <2>4 DEF Execute, Ledger!Start, Ledger!Move
<1>4. ASSUME NEW w \in Workers, Finish(w) PROVE Ledger!Finish(workerJob[w])
  <2>1. workerJob[w] \in Jobs /\ fate[workerJob[w]] = "running"
    BY <1>4 DEF Finish, OneWorkerPerJob
  <2>2. LedgerStatus[workerJob[w]] = "running"
    BY <2>1 DEF LedgerStatus
  <2>3. LedgerStatus' = [LedgerStatus EXCEPT ![workerJob[w]] = "done"]
    BY <1>4, <2>1, FateMoves DEF Finish, Fate
  <2>4. QED BY <1>4, <2>2, <2>3 DEF Finish, Ledger!Finish, Ledger!Move
<1>5. ASSUME NEW w \in Workers, Exit(w) PROVE UNCHANGED Ledger!vars
  BY <1>5 DEF Exit, Ledger!vars, LedgerStatus
<1>6. ASSUME NEW c \in Callers, ShutdownBegin(c) PROVE Ledger!Close
  <2>1. {b \in Callers : shutdownPc[b] = "nil"}' = {b \in Callers : shutdownPc[b] = "nil"}
    BY <1>6 DEF ShutdownBegin, TypeOK
  <2>2. QED BY <1>6, <2>1 DEF ShutdownBegin, Ledger!Close, LedgerStatus
<1>7. ASSUME NEW c \in Callers, Expire(c) \/ WaitGroupDone(c) PROVE UNCHANGED Ledger!vars
  BY <1>7 DEF Expire, WaitGroupDone, Ledger!vars, LedgerStatus
<1>8. ASSUME NEW c \in Callers, ShutdownDeadline(c) PROVE UNCHANGED Ledger!vars
  <2>1. {b \in Callers : shutdownPc[b] = "nil"}' = {b \in Callers : shutdownPc[b] = "nil"}
    BY <1>8 DEF ShutdownDeadline, Return, TypeOK
  <2>2. QED BY <1>8, <2>1 DEF ShutdownDeadline, Return, Ledger!vars, LedgerStatus
<1>9. ASSUME NEW c \in Callers, ShutdownNil(c) PROVE Ledger!ReportDrained(c)
  <2>1. {b \in Callers : shutdownPc[b] = "nil"}' =
          {b \in Callers : shutdownPc[b] = "nil"} \cup {c}
    BY <1>9 DEF ShutdownNil, Return, TypeOK
  <2>2. \A w \in Workers : workerPc[w] = "exited"
    BY <1>9 DEF ShutdownNil, DrainInv
  <2>3. jobs = <<>> /\ closed
    BY <2>2, PoolAssumption DEF DrainInv, NoJobStranded
  <2>4. \A j \in Jobs : fate[j] \notin {"queued", "received", "running"}
    BY <2>2, <2>3, EmptySeq DEF ChannelInv, OneWorkerPerJob
  <2>5. Ledger!In("accepted") \cup Ledger!In("running") = {}
    BY <2>4 DEF Ledger!In, LedgerStatus, TypeOK, Fate
  <2>6. LedgerStatus' = LedgerStatus /\ closed' = closed
    BY <1>9 DEF ShutdownNil, Return, LedgerStatus
  <2>7. QED BY <2>1, <2>3, <2>5, <2>6 DEF Ledger!ReportDrained
<1>10. CASE UNCHANGED vars
  BY <1>10 DEF vars, Ledger!vars, LedgerStatus
<1>11. ASSUME NEW w \in Workers, WorkerStep(w) PROVE [Ledger!Next]_Ledger!vars
  <2>1. CASE Receive(w)
    BY <2>1, <1>3
  <2>5. CASE Execute(w)
    <3>1. workerJob[w] \in Jobs
      BY <2>5 DEF Execute, OneWorkerPerJob
    <3>2. QED BY <2>5, <3>1, <1>15 DEF Ledger!Next
  <2>2. CASE Finish(w)
    <3>1. workerJob[w] \in Jobs
      BY <2>2 DEF Finish, OneWorkerPerJob
    <3>2. QED BY <2>2, <3>1, <1>4 DEF Ledger!Next
  <2>3. CASE Exit(w)
    BY <2>3, <1>5
  <2>4. QED BY <1>11, <2>1, <2>2, <2>3, <2>5 DEF WorkerStep
<1>12. ASSUME NEW c \in Callers, ShutdownBegin(c) \/ Expire(c) \/ ShutdownStep(c)
       PROVE  [Ledger!Next]_Ledger!vars
  BY <1>12, <1>6, <1>7, <1>8, <1>9 DEF ShutdownStep, Ledger!Next
<1>13. ASSUME NEW j \in Jobs, Submit(j) PROVE [Ledger!Next]_Ledger!vars
  BY <1>13, <1>1, <1>2 DEF Submit, Ledger!Next
<1>14. QED
  BY <1>10, <1>11, <1>12, <1>13 DEF Next, Terminated

\* The pool implements the ledger (pool.go:12-92): whatever interleaving of
\* submissions, workers and Shutdown calls, each step is one the ledger allows.
THEOREM Refinement == Spec => ImplementsLedger
<1>1. Init => Ledger!Init BY InitLedger
<1>2. PoolInv /\ [Next]_vars => [Ledger!Next]_Ledger!vars BY StepLedger
<1>3. QED BY <1>1, <1>2, PoolInvariant, PTL DEF Spec, ImplementsLedger, Ledger!Spec
=============================================================================
