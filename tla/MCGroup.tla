------------------------------- MODULE MCGroup -------------------------------
(***************************************************************************)
(* The threads of a tensor group: the pool that makes its members' queue   *)
(* calls side by side, and the group's sums; `part` says which.  Two       *)
(* workers and a caller that runs two jobs of up to four indices, so a     *)
(* worker comes back for a second index and may bring one job's end into   *)
(* the next.  Two members of two passes in flight; three sums in a row, so *)
(* that a parity comes round; a record split in the middle; three members, *)
(* with a sum of two shots; and one failing call anywhere, or two.         *)
(***************************************************************************)
EXTENDS JobThreads

CONSTANTS w1, w2, Ring, InFlight, Readers
MCWorkers == {w1, w2}

Group(members, passes, sums, large, fails, splits) ==
    [members |-> members, passes |-> passes, sums |-> sums, large |-> large, fails |-> fails, splits |-> splits]
Groups ==
    {Group(2, 2, 2, {}, 1, FALSE), Group(2, 2, 3, {}, 0, FALSE), Group(2, 1, 2, {}, 1, TRUE), Group(2, 1, 2, {}, 2, FALSE),
     Group(3, 1, 2, {1}, 0, FALSE), Group(3, 1, 1, {1}, 1, FALSE)}

VARIABLES
    part, setting, place, sum, turn, held, status, tickets, got, parity, last, open, waits,
    made, good, lost, jobs, q, failed, failing, imported, queue, timeline, mem
recording == <<place, sum, turn, held, status, tickets, got, parity, last, open, waits>>
group == <<setting, recording, made, good, lost, jobs, q, failed, failing, imported, queue, timeline, mem>>
all == <<part, vars, group>>

X == INSTANCE Exchange WITH Settings <- Groups, pc <- place, at <- sum, fails <- failing

GroupInit == Init /\ X!Init /\ part \in {"pool", "sums"} /\ (part = "pool" => setting = Group(2, 1, 2, {}, 2, FALSE))
Pool == part = "pool" /\ Next /\ UNCHANGED <<part, group>>
Sums == part = "sums" /\ X!Next /\ UNCHANGED <<part, vars>>
GroupNext == Pool \/ Sums
\* Of each part, the fairness its module states.
PoolScheduled ==
    /\ WF_vars(part = "pool" /\ (Built \/ SpawnFails \/ CallerTest \/ Joined))
    /\ \A t \in Threads : WF_vars(part = "pool" /\ (Call(t) \/ EndCall(t) \/ WorkerTest(t)))
SumsScheduled ==
    /\ WF_group(part = "sums" /\ X!RecordingThread) /\ WF_group(part = "sums" /\ X!QueueThread)
    /\ \A m \in 1 .. 3 : WF_group(part = "sums" /\ m \in X!Members /\ X!Execute(m))
GroupSpec == GroupInit /\ [][GroupNext]_all /\ PoolScheduled /\ SumsScheduled

\* A run handed to the pool returns, and the destructor's joins end (job_threads.hpp).
PoolEnds == part = "pool" => RunReturns /\ StopJoins
\* What is read of a pass is the residual of its sums (vulkan_collective.hpp).
ReadsWhole == X!ReadsWhole
\* Every pass begun is read or fails (vulkan_collective.hpp, vulkan_backend.cpp).
PassesSettle == part = "sums" => X!PassesSettle
=============================================================================
