----------------------------- MODULE JobThreads -----------------------------
(***************************************************************************)
(* core::JobThreads (core/job_threads.hpp): a fixed set of threads runs    *)
(* one job at a time over its indices beside the calling thread.  The      *)
(* scheduler samples with it, a Vulkan tensor group records with it.       *)
(*                                                                         *)
(* A step is one critical section of m_, or one job(i) call made without   *)
(* it.  condition_variable::wait(lk, pred) is its loop: a thread that      *)
(* finds pred false sleeps, a notify_all wakes every sleeper of that       *)
(* variable, and a woken thread tests pred again.                          *)
(***************************************************************************)
EXTENDS Naturals, FiniteSets

CONSTANTS
    Workers,      \* the pool's threads, threads_
    Caller,       \* the thread that makes the pool, calls run and destroys it
    MaxIndices,   \* bound: the most indices one job has
    MaxRuns       \* bound: the jobs run before the pool is destroyed

ASSUME JobThreadsAssumption ==
    /\ IsFiniteSet(Workers)
    /\ Caller \notin Workers
    /\ MaxIndices \in Nat
    /\ MaxRuns \in Nat

VARIABLES
    job,      \* job_: 0 for nullptr, else the number of the job run waits on
    n,        \* n_
    next,     \* next_
    done,     \* done_
    error,    \* error_ # nullptr
    stop,     \* stop_
    pc,       \* where each thread is
    at,       \* the job each thread's call belongs to
    runs,     \* the calls of run so far, which number the jobs
    asked,    \* the indices the last run was asked for
    calls,    \* per index of the last run, how often job(i) was called
    thrown,   \* whether a call of the last run threw
    outcome   \* what the last run did: "none", "running", "returned", "rethrown"

counts == <<job, n, next, done, error>>
history == <<runs, asked, calls, thrown, outcome>>
vars == <<counts, stop, pc, at, history>>

Threads == Workers \cup {Caller}
Indices == 0..MaxIndices - 1
Places == {"unborn", "build", "outside", "test", "asleep", "call", "ok", "threw", "join", "gone"}
InCall == {t \in Threads : pc[t] \in {"call", "ok", "threw"}}

\* The counts, the threads' places and the history have their types.
TypeOK ==
    /\ job \in 0..MaxRuns /\ runs \in 0..MaxRuns /\ asked \in 0..MaxIndices
    /\ n \in 0..MaxIndices /\ next \in 0..MaxIndices /\ done \in 0..MaxIndices
    /\ error \in BOOLEAN /\ stop \in BOOLEAN /\ thrown \in BOOLEAN
    /\ pc \in [Threads -> Places]
    /\ at \in [Threads -> 0..MaxRuns]
    /\ calls \in [Indices -> Nat]
    /\ outcome \in {"none", "running", "returned", "rethrown"}

Init ==
    /\ job = 0 /\ n = 0 /\ next = 0 /\ done = 0 /\ runs = 0 /\ asked = 0
    /\ error = FALSE /\ stop = FALSE /\ thrown = FALSE
    /\ pc = [t \in Threads |-> IF t = Caller THEN "build" ELSE "unborn"]
    /\ at = [t \in Threads |-> 0]
    /\ calls = [i \in Indices |-> 0]
    /\ outcome = "none"

-----------------------------------------------------------------------------
\* work_.notify_all() and idle_.notify_all(), over the threads' places p.
WakeWorkers(p) == [t \in Threads |-> IF t \in Workers /\ p[t] = "asleep" THEN "test" ELSE p[t]]

Bad_WakeCaller(p) == p
WakeCaller(p) == [p EXCEPT ![Caller] = IF @ = "asleep" THEN "test" ELSE @]

\* The constructor starts the threads one by one.  A start that throws stops
\* those already started and joins them, as the destructor does.
Spawn(t) ==
    /\ pc[Caller] = "build" /\ pc[t] = "unborn"
    /\ pc' = [pc EXCEPT ![t] = "test"]
    /\ UNCHANGED <<counts, stop, at, history>>

SpawnFails ==
    /\ pc[Caller] = "build" /\ \E t \in Workers : pc[t] = "unborn"
    /\ stop' = TRUE
    /\ pc' = [WakeWorkers(pc) EXCEPT ![Caller] = "join"]
    /\ UNCHANGED <<counts, at, history>>

Built ==
    /\ pc[Caller] = "build" /\ \A t \in Workers : pc[t] # "unborn"
    /\ pc' = [pc EXCEPT ![Caller] = "outside"]
    /\ UNCHANGED <<counts, stop, at, history>>

-----------------------------------------------------------------------------
\* run with fewer than two indices or no threads: every index on the caller
\* alone, the first exception rethrown after the others have run.
RunAlone(k) ==
    /\ pc[Caller] = "outside" /\ runs < MaxRuns
    /\ k < 2 \/ Workers = {}
    /\ runs' = runs + 1 /\ asked' = k
    /\ calls' = [i \in Indices |-> IF i < k THEN 1 ELSE 0]
    /\ thrown' \in (IF k = 0 THEN {FALSE} ELSE BOOLEAN)
    /\ outcome' = IF thrown' THEN "rethrown" ELSE "returned"
    /\ UNCHANGED <<counts, stop, pc, at>>

\* run with threads: the job is posted, the threads are woken and, the lock
\* still held, the caller takes the first index.
Run(k) ==
    /\ pc[Caller] = "outside" /\ runs < MaxRuns
    /\ k >= 2 /\ Workers # {}
    /\ runs' = runs + 1 /\ job' = runs + 1
    /\ n' = k /\ next' = 1 /\ done' = 0 /\ error' = FALSE
    /\ pc' = [WakeWorkers(pc) EXCEPT ![Caller] = "call"]
    /\ at' = [at EXCEPT ![Caller] = runs + 1]
    /\ asked' = k
    /\ calls' = [i \in Indices |-> IF i = 0 THEN 1 ELSE 0]
    /\ thrown' = FALSE /\ outcome' = "running"
    /\ UNCHANGED stop

\* job(i), without the lock: it returns or throws.
Call(t) ==
    /\ pc[t] = "call"
    /\ \E threw \in BOOLEAN :
        /\ pc' = [pc EXCEPT ![t] = IF threw THEN "threw" ELSE "ok"]
        /\ thrown' = (thrown \/ threw)
    /\ UNCHANGED <<counts, stop, at, runs, asked, calls, outcome>>

\* take's loop head with the lock held: thread t takes the next index.  Here
\* and below p is where this critical section has left the threads, failed
\* what it has left in error_.
TakeIndex(t, p, failed) ==
    /\ next' = next + 1 /\ error' = failed
    /\ calls' = [calls EXCEPT ![next] = @ + 1]
    /\ at' = [at EXCEPT ![t] = job]
    /\ pc' = [p EXCEPT ![t] = "call"]
    /\ UNCHANGED <<job, outcome>>

\* run's return, the lock held: the job is gone, the first error rethrown.
Bad_Return(p, failed) ==
    /\ job' = 0 /\ error' = FALSE
    /\ outcome' = "returned"
    /\ pc' = [p EXCEPT ![Caller] = "outside"]
    /\ UNCHANGED <<next, calls, at>>

Return(p, failed) ==
    /\ job' = 0 /\ error' = FALSE
    /\ outcome' = IF failed THEN "rethrown" ELSE "returned"
    /\ pc' = [p EXCEPT ![Caller] = "outside"]
    /\ UNCHANGED <<next, calls, at>>

\* The wait that follows when it does not end here: a thread of the pool ends
\* at stop_, any other sleeps.
Park(t, p, failed) ==
    /\ pc' = [p EXCEPT ![t] = IF t # Caller /\ stop THEN "gone" ELSE "asleep"]
    /\ error' = failed
    /\ UNCHANGED <<job, next, calls, at, outcome>>

\* The predicate of take's loop and of work's wait.
WorkLeft == job # 0 /\ next < n

\* The predicate of run's wait, with d indices done.
Bad_Finished(d) == next = n
Finished(d) == d = n

\* What a call's end leaves: the caller woken by the last one, the first error.
AfterCall == IF done + 1 = n THEN WakeCaller(pc) ELSE pc
Failed(t) == error \/ pc[t] = "threw"

\* A call's end: its error and its count, then the next index, or the wait
\* that follows take in work (a thread, which may find stop_) or in run.
EndCall(t) ==
    /\ pc[t] \in {"ok", "threw"}
    /\ done' = done + 1
    /\ \/ WorkLeft /\ TakeIndex(t, AfterCall, Failed(t))
       \/ ~WorkLeft /\ t = Caller /\ Finished(done') /\ Return(AfterCall, Failed(t))
       \/ ~WorkLeft /\ (t = Caller => ~Finished(done')) /\ Park(t, AfterCall, Failed(t))
    /\ UNCHANGED <<n, stop, runs, asked, thrown>>

\* A thread's wait in work: it ends at stop, takes an index or sleeps.
WorkerTest(t) ==
    /\ t \in Workers /\ pc[t] = "test"
    /\ \/ ~stop /\ WorkLeft /\ TakeIndex(t, pc, error)
       \/ (stop \/ ~WorkLeft) /\ Park(t, pc, error)
    /\ UNCHANGED <<n, done, stop, runs, asked, thrown>>

\* The caller's wait in run.
CallerTest ==
    /\ pc[Caller] = "test"
    /\ \/ Finished(done) /\ Return(pc, error)
       \/ ~Finished(done) /\ Park(Caller, pc, error)
    /\ UNCHANGED <<n, done, stop, runs, asked, thrown>>

-----------------------------------------------------------------------------
\* The destructor: stop_ set, every thread woken, then joined.
Bad_Stop ==
    /\ pc[Caller] = "outside"
    /\ stop' = TRUE
    /\ pc' = [pc EXCEPT ![Caller] = "join"]
    /\ UNCHANGED <<counts, at, history>>

Stop ==
    /\ pc[Caller] = "outside"
    /\ stop' = TRUE
    /\ pc' = [WakeWorkers(pc) EXCEPT ![Caller] = "join"]
    /\ UNCHANGED <<counts, at, history>>

Joined ==
    /\ pc[Caller] = "join" /\ \A t \in Workers : pc[t] \in {"unborn", "gone"}
    /\ pc' = [pc EXCEPT ![Caller] = "gone"]
    /\ UNCHANGED <<counts, stop, at, history>>

Destroyed ==
    /\ pc[Caller] = "gone"
    /\ UNCHANGED vars

Next ==
    \/ \E t \in Workers : Spawn(t)
    \/ SpawnFails \/ Built
    \/ \E k \in 0..MaxIndices : RunAlone(k) \/ Run(k)
    \/ \E t \in Threads : Call(t) \/ EndCall(t) \/ WorkerTest(t)
    \/ CallerTest \/ Stop \/ Joined \/ Destroyed

\* A started thread runs on, every job(i) ends, and the caller builds, waits
\* and joins; it owes nobody another run or the pool's end.
Fairness ==
    /\ WF_vars(Built \/ SpawnFails \/ CallerTest \/ Joined)
    /\ \A t \in Threads : WF_vars(Call(t) \/ EndCall(t) \/ WorkerTest(t))

Spec == Init /\ [][Next]_vars /\ Fairness

-----------------------------------------------------------------------------
\* job_ is a pointer to the caller's std::function: a call is in progress only
\* while run still waits on that very job, so no thread calls through a
\* dangling pointer ("the job outlives every call", job_threads.hpp:63).
JobOutlivesCalls == \A t \in InCall : job # 0 /\ at[t] = job

\* run returns once every index was called exactly once, and rethrows exactly
\* when some call threw (job_threads.hpp:31).
RunComplete ==
    outcome \in {"returned", "rethrown"} =>
        /\ \A i \in Indices : calls[i] = (IF i < asked THEN 1 ELSE 0)
        /\ outcome = "rethrown" <=> thrown

\* A run handed to the pool returns, however the threads interleave: no wakeup
\* of run's wait on done_ is lost.
RunReturns == (outcome = "running") ~> (outcome \in {"returned", "rethrown"})

\* The destructor's joins end: no thread sleeps through stop_.
StopJoins == (pc[Caller] = "join") ~> (pc[Caller] = "gone")
=============================================================================
