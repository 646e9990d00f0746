------------------------------ MODULE MCThreads ------------------------------
(***************************************************************************)
(* Three structures in which a thread waits for what others write; `part`  *)
(* says which.  Six chunks over four stages, the second recorded by the    *)
(* calling thread: each pass is begun twice, each buffer written three     *)
(* times, and a fast stage waits for a slow one on either side of it.      *)
(* Five pieces through three slots by two readers: each slot is filled     *)
(* again, the readers run ahead of each other and of the consumer.  Two    *)
(* pulls of the same two files, one of them by two streams.                *)
(***************************************************************************)
EXTENDS RunChunks

CONSTANTS Count, Slots, MaxReaders, Consumers, FailingStarts, Pulls, Streams, Attempts, Found, Outages
MCStreams == <<2, 1>>

VARIABLES part, consumer, taken, consumed, ready, slots, running, halted, broken, readers, piece, con
ring == <<consumer, taken, consumed, ready, slots, running, halted, broken, readers, piece, con>>
VARIABLES entry, settled, pull, outages
cache == <<entry, settled, pull, outages>>
all == <<part, vars, ring, cache>>

R == INSTANCE ReadRing WITH data <- slots, stop <- halted, failed <- broken, at <- readers
H == INSTANCE HubPull
ASSUME RingAssumption == R!ReadRingAssumption
ASSUME PullAssumption == H!HubPullAssumption

ThreadsInit == 
    /\ Init /\ R!Init /\ H!Init /\ part \in {"chunks", "ring", "pulls"}
    /\ part # "ring" => consumer = "disk"
    /\ part # "pulls" => \A f \in DOMAIN entry : entry[f] = "damaged"
ChunksStep == part = "chunks" /\ Next /\ UNCHANGED <<part, ring, cache>>
Ring == part = "ring" /\ R!Next /\ UNCHANGED <<part, vars, cache>>
PullStep == part = "pulls" /\ H!Next /\ UNCHANGED <<part, vars, ring>>
ThreadsNext == ChunksStep \/ Ring \/ PullStep
\* Of each part, the fairness its module states.
ChunksScheduled == WF_vars(part = "chunks" /\ CallingThread) /\ \A s \in Lanes : WF_vars(part = "chunks" /\ Lane(s))
RingScheduled ==
    /\ \A j \in R!ReaderIds : WF_ring(part = "ring" /\ R!Reader(j))
    /\ WF_ring(part = "ring" /\ R!Start) /\ WF_ring(part = "ring" /\ R!StartThrows) /\ WF_ring(part = "ring" /\ R!Joined) /\ WF_ring(part = "ring" /\ R!Destroy)
    /\ WF_ring(part = "ring" /\ \E j \in R!ReaderIds : R!StartReader(j) \/ R!StartFails(j))
    /\ WF_ring(part = "ring" /\ R!AskNext) /\ WF_ring(part = "ring" /\ R!NextWait) /\ WF_ring(part = "ring" /\ R!NextPoll)
    /\ WF_ring(part = "ring" /\ \E k \in 0 .. Count - 1 : R!Free(k))
PullScheduled == \A p \in Pulls : WF_cache(part = "pulls" /\ H!Process(p))
ThreadsSpec == ThreadsInit /\ [][ThreadsNext]_all /\ ChunksScheduled /\ RingScheduled /\ PullScheduled

\* A ring's representation, and what its consumer holds, is whole (read_ring.hpp).
RingSound == R!RingSound
\* Every piece is delivered unless a read failed, and then the failure is (read_ring.hpp).
DeliversOrFails == part = "ring" => R!DeliversOrFails
\* What pulls leave in the cache answers for the manifest (pull.hpp).
PullSound == H!PullSound
\* A pipelined prefill's call returns, its lanes joined (Model::run_chunks in passes.hpp);
\* whoever stops the readers, the consumer or a start that failed midway, sees them end
\* (read_ring.hpp); a pull ends, its streams joined (pull.hpp).
JoinsEnd == (part = "chunks" => Returns) /\ (part = "ring" => R!ReadersEnd) /\ (part = "pulls" => H!PullEnds)
=============================================================================
