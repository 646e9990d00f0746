-------------------------- MODULE JobThreads_proofs --------------------------
(***************************************************************************)
(* For every number of threads, indices and jobs: no call outlives its     *)
(* job, and a run that returned has called every index exactly once.       *)
(***************************************************************************)
EXTENDS JobThreads, FiniteSetTheorems, TLAPS

\* The caller is inside run exactly while the job is posted.
CallerWaits ==
    /\ job # 0 <=> pc[Caller] \in {"call", "ok", "threw", "test", "asleep"}
    /\ job # 0 <=> outcome = "running"
    /\ job # 0 => n = asked

\* The indices taken are those done and those in a call.
Counted == job # 0 => next <= n /\ next = done + Cardinality(InCall)

\* The calls made and the errors kept so far.
Recorded ==
    job # 0 => /\ \A i \in Indices : calls[i] = (IF i < next THEN 1 ELSE 0)
               /\ thrown <=> (error \/ \E t \in Threads : pc[t] = "threw")

IInv == TypeOK /\ JobOutlivesCalls /\ CallerWaits /\ Counted /\ Recorded /\ RunComplete

-----------------------------------------------------------------------------
\* The threads in a call are finitely many, and their number moves by one.
LEMMA InCallFinite == IsFiniteSet(InCall) /\ Cardinality(InCall) \in Nat
<1>1. IsFiniteSet(Threads)
  BY JobThreadsAssumption, FS_AddElement DEF Threads
<1> QED
  BY <1>1, FS_Subset, FS_CardinalityType DEF InCall

\* The initial state satisfies the invariant.
LEMMA InitIInv == Init => IInv
<1> SUFFICES ASSUME Init PROVE IInv
  OBVIOUS
<1> USE JobThreadsAssumption DEF Init, Threads, Indices
<1>1. TypeOK
  <2>1. pc \in [Threads -> Places]
    BY DEF Places
  <2>2. job \in 0..MaxRuns /\ runs \in 0..MaxRuns /\ asked \in 0..MaxIndices /\ n \in 0..MaxIndices /\ next \in 0..MaxIndices /\ done \in 0..MaxIndices
    OBVIOUS
  <2>3. at \in [Threads -> 0..MaxRuns] /\ calls \in [Indices -> Nat]
    OBVIOUS
  <2> QED BY <2>1, <2>2, <2>3 DEF TypeOK
<1>2. InCall = {}
  BY DEF InCall
<1> QED
  BY <1>1, <1>2 DEF IInv, JobOutlivesCalls, CallerWaits, Counted, Recorded, RunComplete

\* A step that leaves job, counts and records alone and takes no thread into
\* or out of a call or the caller into or out of run keeps the invariant.
LEMMA QuietStep ==
  ASSUME IInv, TypeOK', InCall' = InCall, UNCHANGED <<job, n, next, done, error, at, asked, calls, thrown, outcome>>,
         pc'[Caller] \in {"call", "ok", "threw", "test", "asleep"} <=> pc[Caller] \in {"call", "ok", "threw", "test", "asleep"},
         \A t \in Threads : pc'[t] = "threw" <=> pc[t] = "threw"
  PROVE  IInv'
BY DEF IInv, JobOutlivesCalls, CallerWaits, Counted, Recorded, RunComplete

\* Taking an index keeps the invariant: one more index is taken, one more
\* thread is in a call of the posted job.  p and failed are what the critical
\* section left before the take, d the count of done indices.
LEMMA TakeStep ==
  ASSUME IInv, NEW t \in Threads, NEW p \in [Threads -> Places],
         NEW failed \in BOOLEAN, NEW d \in Nat, WorkLeft, TakeIndex(t, p, failed),
         done' = d, UNCHANGED <<n, stop, runs, asked, thrown>>,
         \A u \in Threads \ {t} : \/ p[u] = pc[u]
                                  \/ u = Caller /\ pc[u] = "asleep" /\ p[u] = "test",
         \/ t \notin InCall /\ d = done /\ failed = error /\ pc[t] = "test"
         \/ t \in InCall /\ d = done + 1 /\ failed = (error \/ pc[t] = "threw")
  PROVE  IInv'
<1> USE JobThreadsAssumption DEF IInv, WorkLeft, TakeIndex
<1>1. Caller \in Threads /\ next \in Indices /\ next + 1 <= n
  BY DEF Threads, TypeOK, Indices
<1>2. pc' \in [Threads -> Places]
  BY DEF Places
<1>3. InCall' = InCall \cup {t}
  BY DEF TypeOK, InCall
<1>4. Cardinality(InCall') = IF t \in InCall THEN Cardinality(InCall) ELSE Cardinality(InCall) + 1
  BY <1>3, InCallFinite, FS_AddElement
<1>5. Counted'
  BY <1>1, <1>4, InCallFinite DEF Counted, TypeOK
<1>6. TypeOK'
  <2>1. next' \in 0..MaxIndices
    BY <1>1 DEF TypeOK
  <2>4. Cardinality(InCall') \in Nat
    BY <1>4, InCallFinite
  <2>5. done' <= next'
    BY <1>5, <2>4, <2>1 DEF Counted
  <2>6. done' \in 0..MaxIndices
    BY <2>1, <2>5
  <2>2. at' \in [Threads -> 0..MaxRuns] /\ calls' \in [Indices -> Nat]
    BY <1>1 DEF TypeOK
  <2>3. UNCHANGED <<job, n, stop, runs, asked, thrown, outcome>> /\ error' \in BOOLEAN
    BY Zenon
  <2> QED BY <1>2, <2>1, <2>2, <2>3, <2>6 DEF TypeOK
<1>7. JobOutlivesCalls'
  BY <1>3 DEF JobOutlivesCalls, TypeOK, InCall
<1>8. CallerWaits'
  BY <1>1 DEF CallerWaits, TypeOK
<1>9. Recorded'
  <2>1. \A i \in Indices : calls'[i] = (IF i < next' THEN 1 ELSE 0)
    BY <1>1 DEF Recorded, Indices, TypeOK
  <2>2. thrown' <=> (error' \/ \E u \in Threads : pc'[u] = "threw")
    BY <1>1 DEF Recorded, TypeOK, InCall
  <2> QED BY <2>1, <2>2 DEF Recorded
<1>10. RunComplete'
  BY <1>8 DEF CallerWaits, RunComplete
<1> QED
  BY <1>5, <1>6, <1>7, <1>8, <1>9, <1>10

\* run's return keeps the invariant: the caller was the last to be in a call,
\* or nobody is in one any more.
LEMMA ReturnStep ==
  ASSUME IInv, NEW p \in [Threads -> Places], NEW failed \in BOOLEAN, Return(p, failed),
         ~WorkLeft, done' = n, UNCHANGED <<n, stop, runs, asked, thrown>>,
         \A u \in Threads \ {Caller} : p[u] = pc[u],
         \/ pc[Caller] = "test" /\ done = n /\ failed = error
         \/ pc[Caller] \in {"ok", "threw"} /\ done + 1 = n /\ failed = (error \/ pc[Caller] = "threw")
  PROVE  IInv'
<1> USE JobThreadsAssumption DEF IInv, Return
<1>1. Caller \in Threads /\ job # 0
  BY DEF Threads, CallerWaits
<1>2. next = n /\ n = asked
  BY <1>1, InCallFinite DEF Counted, WorkLeft, TypeOK, CallerWaits
<1>3. InCall \subseteq {Caller}
  <2>1. CASE pc[Caller] = "test"
    <3>1. Cardinality(InCall) = 0
      BY <1>1, <1>2, <2>1, InCallFinite DEF Counted, TypeOK
    <3> QED BY <3>1, InCallFinite, FS_EmptySet
  <2>2. CASE pc[Caller] \in {"ok", "threw"}
    <3>1. Cardinality(InCall) = 1
      BY <1>1, <1>2, <2>2, InCallFinite DEF Counted, TypeOK
    <3>2. Caller \in InCall
      BY <1>1, <2>2 DEF InCall
    <3>3. \E c : InCall = {c}
      BY <3>1, InCallFinite, FS_Singleton
    <3> QED BY <3>2, <3>3
  <2> QED BY <2>1, <2>2
<1>4. InCall' = {}
  BY <1>1, <1>3 DEF InCall, TypeOK
<1>5. TypeOK'
  <2>1. pc' \in [Threads -> Places]
    BY DEF Places
  <2>2. job' \in 0..MaxRuns /\ done' \in 0..MaxIndices
    BY DEF TypeOK
  <2>3. error' \in BOOLEAN /\ outcome' \in {"none", "running", "returned", "rethrown"}
    BY Zenon
  <2> QED BY <2>1, <2>2, <2>3 DEF TypeOK
<1>6. failed <=> thrown
  <2>1. \A u \in Threads : pc[u] = "threw" => u = Caller
    BY <1>3 DEF InCall
  <2> QED BY <1>1, <2>1 DEF Recorded
<1>7. RunComplete'
  <2>1. \A i \in Indices : calls'[i] = (IF i < asked' THEN 1 ELSE 0)
    BY <1>1, <1>2 DEF Recorded
  <2>2. outcome' = "rethrown" <=> thrown'
    BY <1>6 DEF TypeOK
  <2> QED BY <2>1, <2>2 DEF RunComplete
<1> QED
  BY <1>1, <1>4, <1>5, <1>7 DEF JobOutlivesCalls, CallerWaits, Counted, Recorded

\* A thread that ends a call and takes no other keeps the invariant: one more
\* index is done, one thread fewer is in a call.
LEMMA LeaveStep ==
  ASSUME IInv, NEW t \in Threads, NEW place \in {"asleep", "gone"}, NEW p \in [Threads -> Places], NEW failed \in BOOLEAN,
         pc[t] \in {"ok", "threw"}, pc' = [p EXCEPT ![t] = place], error' = failed, done' = done + 1,
         t = Caller => place = "asleep",
         failed = (error \/ pc[t] = "threw"),
         \A u \in Threads \ {t} : \/ p[u] = pc[u]
                                  \/ u = Caller /\ pc[u] = "asleep" /\ p[u] = "test",
         UNCHANGED <<job, n, next, stop, at, runs, asked, calls, thrown, outcome>>
  PROVE  IInv'
<1> USE JobThreadsAssumption DEF IInv
<1>1. Caller \in Threads /\ t \in InCall /\ job # 0
  BY DEF Threads, InCall, JobOutlivesCalls
<1>2. InCall' = InCall \ {t}
  BY DEF InCall, TypeOK
<1>3. Cardinality(InCall') = Cardinality(InCall) - 1 /\ Cardinality(InCall') \in Nat
  BY <1>1, <1>2, InCallFinite, FS_RemoveElement, FS_CardinalityType
<1>4. Counted'
  BY <1>1, <1>3, InCallFinite DEF Counted, TypeOK
<1>5. TypeOK'
  <2>1. pc' \in [Threads -> Places]
    BY DEF Places
  <2>2. done' <= next
    BY <1>1, <1>3, InCallFinite DEF Counted, TypeOK
  <2>3. done' \in 0..MaxIndices
    BY <2>2 DEF TypeOK
  <2> QED BY <2>1, <2>3 DEF TypeOK
<1>6. JobOutlivesCalls' /\ RunComplete'
  BY <1>2 DEF JobOutlivesCalls, RunComplete, InCall
<1>7. CallerWaits'
  BY <1>1 DEF CallerWaits, TypeOK
<1>8. Recorded'
  <2>1. (\E u \in Threads : pc[u] = "threw") <=> (pc[t] = "threw" \/ \E u \in Threads : pc'[u] = "threw")
    BY DEF TypeOK
  <2> QED BY <1>1, <2>1 DEF Recorded, TypeOK
<1> QED
  BY <1>4, <1>5, <1>6, <1>7, <1>8

\* The end of a call, with each of the things that may follow it.
LEMMA EndCallStep ==
  ASSUME IInv, NEW t \in Threads, EndCall(t)
  PROVE  IInv'
<1> DEFINE p == AfterCall
           failed == Failed(t)
<1> USE JobThreadsAssumption DEF IInv
<1>1. Caller \in Threads /\ failed \in BOOLEAN
  BY DEF Threads, Failed
<1>2. p \in [Threads -> Places]
  BY <1>1 DEF AfterCall, TypeOK, WakeCaller, Places
<1>3. \A u \in Threads \ {t} : \/ p[u] = pc[u]
                               \/ u = Caller /\ pc[u] = "asleep" /\ p[u] = "test"
  BY <1>1 DEF AfterCall, TypeOK, WakeCaller
<1>4. pc[t] \in {"ok", "threw"} /\ done' = done + 1 /\ UNCHANGED <<n, stop, runs, asked, thrown>>
  BY DEF EndCall
<1>5. t \in InCall /\ done + 1 \in Nat
  BY <1>4 DEF InCall, TypeOK
<1>6. CASE WorkLeft /\ TakeIndex(t, p, failed)
  <2> HIDE DEF p, failed, IInv
  <2> QED BY <1>1, <1>2, <1>3, <1>4, <1>5, <1>6, TakeStep DEF failed, Failed
<1>7. CASE ~WorkLeft /\ t = Caller /\ done + 1 = n /\ Return(p, failed)
  <2>1. pc[Caller] \in {"ok", "threw"} /\ done + 1 = n /\ failed = (error \/ pc[Caller] = "threw")
    BY <1>4, <1>7 DEF Failed
  <2>2. \A u \in Threads \ {Caller} : p[u] = pc[u]
    BY <1>1 DEF AfterCall, TypeOK, WakeCaller
  <2>3. done' = n
    BY <1>4, <1>7
  <2> HIDE DEF p, failed, IInv
  <2> QED BY <1>1, <1>2, <1>4, <1>7, <2>1, <2>2, <2>3, ReturnStep
<1>8. CASE ~WorkLeft /\ Park(t, p, failed)
  <2>1. PICK place \in {"asleep", "gone"} : pc' = [p EXCEPT ![t] = place] /\ (t = Caller => place = "asleep")
    BY <1>8 DEF Park
  <2>2. error' = failed /\ UNCHANGED <<job, next, at, calls, outcome>>
    BY <1>8 DEF Park
  <2>3. failed = (error \/ pc[t] = "threw")
    BY DEF Failed
  <2> HIDE DEF p, failed, IInv
  <2> QED BY <1>1, <1>2, <1>3, <1>4, <2>1, <2>2, <2>3, LeaveStep
<1> HIDE DEF IInv
<1> QED
  BY <1>4, <1>6, <1>7, <1>8 DEF EndCall, Finished

\* A thread's test in work, and the caller's in run.
LEMMA WorkerTestStep ==
  ASSUME IInv, NEW t \in Threads, WorkerTest(t)
  PROVE  IInv'
<1> USE JobThreadsAssumption DEF IInv
<1>1. t \in Workers /\ pc[t] = "test" /\ t # Caller /\ t \notin InCall /\ UNCHANGED <<n, done, stop, runs, asked, thrown>>
  BY DEF WorkerTest, InCall
<1>2. CASE WorkLeft /\ TakeIndex(t, pc, error)
  <2>1. pc \in [Threads -> Places] /\ error \in BOOLEAN /\ done \in Nat
    BY DEF TypeOK
  <2> HIDE DEF IInv
  <2> QED BY <1>1, <1>2, <2>1, TakeStep
<1>3. CASE Park(t, pc, error)
  <2>1. PICK place \in {"asleep", "gone"} : pc' = [pc EXCEPT ![t] = place]
    BY <1>3 DEF Park
  <2>2. UNCHANGED <<job, n, next, done, error, stop, at, runs, asked, calls, thrown, outcome>>
    BY <1>1, <1>3 DEF Park
  <2>3. TypeOK'
    <3>1. pc' \in [Threads -> Places]
      BY <2>1 DEF TypeOK, Places
    <3> QED BY <2>2, <3>1 DEF TypeOK
  <2>4. InCall' = InCall
    BY <1>1, <2>1 DEF InCall, TypeOK
  <2>5. pc'[Caller] = pc[Caller] /\ \A u \in Threads : pc'[u] = "threw" <=> pc[u] = "threw"
    BY <1>1, <2>1 DEF TypeOK
  <2> HIDE DEF IInv
  <2> QED BY <2>2, <2>3, <2>4, <2>5, QuietStep
<1> HIDE DEF IInv
<1> QED
  BY <1>2, <1>3 DEF WorkerTest

LEMMA CallerTestStep ==
  ASSUME IInv, CallerTest
  PROVE  IInv'
<1> USE JobThreadsAssumption DEF IInv
<1>1. Caller \in Threads /\ pc[Caller] = "test" /\ Caller \notin InCall /\ UNCHANGED <<n, done, stop, runs, asked, thrown>>
  BY DEF CallerTest, InCall, Threads
<1>2. CASE done = n /\ Return(pc, error)
  <2>1. pc \in [Threads -> Places] /\ error \in BOOLEAN
    BY DEF TypeOK
  <2>2. ~WorkLeft
    BY <1>2, InCallFinite DEF WorkLeft, Counted, TypeOK
  <2>3. done' = n
    BY <1>1, <1>2
  <2> HIDE DEF IInv
  <2> QED BY <1>1, <1>2, <2>1, <2>2, <2>3, ReturnStep
<1>3. CASE Park(Caller, pc, error)
  <2>1. pc' = [pc EXCEPT ![Caller] = "asleep"]
    BY <1>3 DEF Park
  <2>2. UNCHANGED <<job, n, next, done, error, stop, at, runs, asked, calls, thrown, outcome>>
    BY <1>1, <1>3 DEF Park
  <2>3. TypeOK'
    <3>1. pc' \in [Threads -> Places]
      BY <2>1 DEF TypeOK, Places
    <3> QED BY <2>2, <3>1 DEF TypeOK
  <2>4. InCall' = InCall
    BY <1>1, <2>1 DEF InCall, TypeOK
  <2>5. /\ pc'[Caller] = "asleep"
        /\ \A u \in Threads : pc'[u] = "threw" <=> pc[u] = "threw"
    BY <1>1, <2>1 DEF TypeOK
  <2> HIDE DEF IInv
  <2> QED BY <1>1, <2>2, <2>3, <2>4, <2>5, QuietStep
<1> HIDE DEF IInv
<1> QED
  BY <1>2, <1>3 DEF CallerTest, Finished

\* A call that returns or throws.
LEMMA CallStep ==
  ASSUME IInv, NEW t \in Threads, Call(t)
  PROVE  IInv'
<1> USE DEF IInv
<1>1. PICK threw \in BOOLEAN : /\ pc' = [pc EXCEPT ![t] = IF threw THEN "threw" ELSE "ok"]
                              /\ thrown' = (thrown \/ threw)
  BY DEF Call
<1>2. pc[t] = "call" /\ UNCHANGED <<job, n, next, done, error, stop, at, runs, asked, calls, outcome>>
  BY DEF Call, counts
<1>3. TypeOK'
  <2>1. pc' \in [Threads -> Places]
    BY <1>1 DEF TypeOK, Places
  <2>2. thrown' \in BOOLEAN
    BY <1>1
  <2> QED BY <1>2, <2>1, <2>2 DEF TypeOK
<1>4. InCall' = InCall
  BY <1>1, <1>2 DEF InCall, TypeOK
<1>5. job # 0 /\ outcome = "running"
  BY <1>2 DEF InCall, JobOutlivesCalls, CallerWaits
<1>6. Recorded'
  <2>1. (\E u \in Threads : pc'[u] = "threw") <=> (threw \/ \E u \in Threads : pc[u] = "threw")
    BY <1>1, <1>2 DEF TypeOK
  <2> QED BY <1>1, <1>2, <1>5, <2>1 DEF Recorded
<1>7. CallerWaits'
  BY <1>1, <1>2 DEF CallerWaits, TypeOK
<1> QED
  BY <1>2, <1>3, <1>4, <1>5, <1>6, <1>7 DEF JobOutlivesCalls, Counted, RunComplete

\* A run handed to the pool: nobody is in a call, the caller takes index 0.
LEMMA RunStep ==
  ASSUME IInv, NEW k \in 0..MaxIndices, Run(k)
  PROVE  IInv'
<1> USE JobThreadsAssumption DEF IInv
<1>1. /\ Caller \in Threads /\ pc[Caller] = "outside" /\ runs < MaxRuns /\ k >= 2
      /\ runs' = runs + 1 /\ job' = runs + 1 /\ n' = k /\ next' = 1 /\ done' = 0 /\ ~error'
      /\ asked' = k /\ ~thrown' /\ outcome' = "running" /\ stop' = stop /\ error' \in BOOLEAN /\ thrown' \in BOOLEAN
  BY DEF Run, Threads
<1>2. pc' = [WakeWorkers(pc) EXCEPT ![Caller] = "call"] /\ at' = [at EXCEPT ![Caller] = runs + 1]
  BY DEF Run
<1>3. calls' = [i \in Indices |-> IF i = 0 THEN 1 ELSE 0]
  BY DEF Run
<1>4. InCall = {}
  BY <1>1 DEF JobOutlivesCalls, CallerWaits
<1>5. \A t \in Threads : pc'[t] = IF t = Caller THEN "call" ELSE IF pc[t] = "asleep" /\ t \in Workers THEN "test" ELSE pc[t]
  BY <1>1, <1>2 DEF WakeWorkers
<1>6. InCall' = {Caller}
  BY <1>1, <1>4, <1>5 DEF InCall
<1>7. Cardinality(InCall') = 1
  BY <1>6, FS_Singleton
<1>8. TypeOK'
  <2>1. pc' \in [Threads -> Places]
    BY <1>2 DEF WakeWorkers, TypeOK, Places
  <2>2. runs' \in 0..MaxRuns /\ job' \in 0..MaxRuns /\ asked' \in 0..MaxIndices /\ n' \in 0..MaxIndices
    BY <1>1 DEF TypeOK
  <2>3. next' \in 0..MaxIndices /\ done' \in 0..MaxIndices
    BY <1>1
  <2>4. at' \in [Threads -> 0..MaxRuns] /\ calls' \in [Indices -> Nat]
    BY <1>1, <1>2, <1>3 DEF TypeOK
  <2> QED BY <1>1, <2>1, <2>2, <2>3, <2>4 DEF TypeOK
<1>9. job' # 0 /\ job' \in Nat
  BY <1>1 DEF TypeOK
<1>10. JobOutlivesCalls'
  BY <1>1, <1>2, <1>6, <1>9 DEF JobOutlivesCalls, TypeOK
<1>11. CallerWaits'
  BY <1>1, <1>5, <1>9 DEF CallerWaits
<1>12. Counted'
  BY <1>1, <1>7 DEF Counted
<1>13. Recorded'
  <2>1. \A i \in Indices : calls'[i] = (IF i < next' THEN 1 ELSE 0)
    BY <1>1, <1>3 DEF Indices
  <2>2. ~(\E u \in Threads : pc'[u] = "threw")
    BY <1>4, <1>5 DEF InCall
  <2> QED BY <1>1, <2>1, <2>2 DEF Recorded
<1>14. RunComplete'
  BY <1>1 DEF RunComplete
<1> QED
  BY <1>8, <1>10, <1>11, <1>12, <1>13, <1>14

\* A run on the caller alone: it posts no job.
LEMMA RunAloneStep ==
  ASSUME IInv, NEW k \in 0..MaxIndices, RunAlone(k)
  PROVE  IInv'
<1> USE JobThreadsAssumption DEF IInv
<1>1. /\ pc[Caller] = "outside" /\ runs' = runs + 1 /\ runs < MaxRuns /\ asked' = k /\ thrown' \in BOOLEAN
      /\ calls' = [i \in Indices |-> IF i < k THEN 1 ELSE 0]
      /\ outcome' = IF thrown' THEN "rethrown" ELSE "returned"
      /\ UNCHANGED <<job, n, next, done, error, stop, pc, at>>
  BY DEF RunAlone, counts
<1>2. InCall' = InCall /\ job = 0
  BY <1>1 DEF InCall, CallerWaits
<1>3. TypeOK'
  <2>1. runs' \in 0..MaxRuns /\ asked' \in 0..MaxIndices /\ calls' \in [Indices -> Nat]
    BY <1>1 DEF TypeOK
  <2> QED BY <1>1, <2>1 DEF TypeOK
<1>4. CallerWaits' /\ RunComplete'
  BY <1>1, <1>2 DEF CallerWaits, RunComplete
<1> QED
  BY <1>1, <1>2, <1>3, <1>4 DEF JobOutlivesCalls, Counted, Recorded

\* The steps of construction and destruction.
LEMMA LifeStep ==
  ASSUME IInv, (\E t \in Workers : Spawn(t)) \/ SpawnFails \/ Built \/ Stop \/ Joined
  PROVE  IInv'
<1> USE JobThreadsAssumption DEF IInv
<1>1. Caller \in Threads /\ UNCHANGED <<job, n, next, done, error, at, runs, asked, calls, thrown, outcome>>
  BY DEF Threads, Spawn, SpawnFails, Built, Stop, Joined, counts, history
<1>2. pc' \in [Threads -> Places] /\ stop' \in BOOLEAN
  BY DEF Spawn, SpawnFails, Built, Stop, Joined, WakeWorkers, TypeOK, Places
<1>3. pc[Caller] \notin {"call", "ok", "threw", "test", "asleep"} /\ pc'[Caller] \notin {"call", "ok", "threw", "test", "asleep"}
  BY <1>1 DEF Spawn, SpawnFails, Built, Stop, Joined, WakeWorkers, TypeOK
<1>4. \A t \in Threads : /\ pc'[t] = "threw" <=> pc[t] = "threw"
                         /\ pc'[t] \in {"call", "ok", "threw"} <=> pc[t] \in {"call", "ok", "threw"}
  BY <1>1 DEF Spawn, SpawnFails, Built, Stop, Joined, WakeWorkers, TypeOK, Threads
<1>5. TypeOK'
  BY <1>1, <1>2 DEF TypeOK
<1>6. InCall' = InCall
  BY <1>4 DEF InCall
<1> HIDE DEF IInv
<1> QED
  BY <1>1, <1>3, <1>4, <1>5, <1>6, QuietStep

\* Every step of the specification keeps the invariant.
LEMMA NextIInv == IInv /\ [Next]_vars => IInv'
<1> SUFFICES ASSUME IInv, [Next]_vars PROVE IInv'
  OBVIOUS
<1>1. CASE UNCHANGED vars
  BY <1>1 DEF IInv, vars, counts, history, TypeOK, InCall, JobOutlivesCalls, CallerWaits, Counted, Recorded, RunComplete
<1>2. CASE Next
  BY <1>1, <1>2, CallStep, EndCallStep, WorkerTestStep, CallerTestStep, RunStep, RunAloneStep, LifeStep
     DEF Next, Destroyed
<1> QED
  BY <1>1, <1>2

-----------------------------------------------------------------------------
\* The types hold, for any number of threads, indices and runs.
THEOREM JobThreadsTypeOK == Spec => []TypeOK
<1>1. IInv => TypeOK
  BY DEF IInv
<1> QED
  BY <1>1, InitIInv, NextIInv, PTL DEF Spec

\* No thread is ever in a call of a job whose run has returned: the pointer
\* job_ is never used after the function it points to is gone.
THEOREM JobThreadsJobOutlivesCalls == Spec => []JobOutlivesCalls
<1>1. IInv => JobOutlivesCalls
  BY DEF IInv
<1> QED
  BY <1>1, InitIInv, NextIInv, PTL DEF Spec

\* A run that has returned called every index exactly once, and rethrew
\* exactly if some call threw.
THEOREM JobThreadsRunComplete == Spec => []RunComplete
<1>1. IInv => RunComplete
  BY DEF IInv
<1> QED
  BY <1>1, InitIInv, NextIInv, PTL DEF Spec
=============================================================================
