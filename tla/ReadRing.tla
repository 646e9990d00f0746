------------------------------ MODULE ReadRing ------------------------------
(***************************************************************************)
(* infer::ReadRing (inference/read_ring.hpp): readers fill a ring of slots *)
(* with the pieces of a file, one consumer takes the pieces in order and   *)
(* gives each slot back once its copies out of it have retired.            *)
(*                                                                         *)
(* Its two users are modelled as its consumer: the loader's stream         *)
(* (inference/load.hpp), which waits for each piece, and the disk tier's   *)
(* StreamedRead (server/disk_tier.hpp), which polls, makes the ring under  *)
(* the scheduler's lock, and whose fill ends in a call that takes that     *)
(* lock.                                                                   *)
(*                                                                         *)
(* A step is a critical section of mu_ with the notify that follows it, or *)
(* a part of a read between two of them.                                   *)
(***************************************************************************)
EXTENDS Integers

CONSTANTS
    Count,      \* count_, the pieces
    Slots,      \* the most slots
    MaxReaders, \* readers_
    Consumers,  \* the users: "load" the loader's stream, "disk" StreamedRead
    FailingStarts   \* the users whose readers' threads may fail to start

Least(a, b) == IF a < b THEN a ELSE b

Size == Least(Slots, Count)
Threads == Least(MaxReaders, Size)

\* The loader reads on with the piece before in its slot, so it needs two.
ReadRingAssumption ==
    /\ Count \in Nat \ {0} /\ Slots \in Nat \ {0} /\ MaxReaders \in Nat \ {0}
    /\ Consumers \subseteq {"load", "disk"} /\ FailingStarts \subseteq Consumers
    /\ "load" \in Consumers => Size = Count \/ Size >= 2

VARIABLES
    consumer,   \* the ring's user
    taken,      \* next_, the consumer's
    consumed,   \* consumed_
    ready,      \* ready_: per slot, 1 + the piece read into it, 0 for none
    data,       \* what is in each slot: 1 + a whole piece, 0 nothing, -1 a read not done
    running,    \* running_
    stop,       \* stop_
    failed,     \* failed_ # nullptr
    at,         \* per reader, where it is
    piece,      \* per reader, k
    con         \* where the consumer is

shared == <<consumed, ready, data, running, stop, failed>>
vars == <<consumer, taken, shared, at, piece, con>>

ReaderIds == 0..Threads - 1
SlotIds == 0..Size - 1
Slot(k) == k % Size
Streamed == consumer = "disk"

\* The counts, the slots and every place have their types.
TypeOK ==
    /\ consumer \in Consumers
    /\ taken \in 0..Count /\ consumed \in 0..taken
    /\ ready \in [SlotIds -> 0..Count] /\ data \in [SlotIds -> -1..Count]
    /\ running \in 0..Threads
    /\ stop \in BOOLEAN /\ failed \in BOOLEAN
    /\ at \in [ReaderIds -> {"unborn", "wait", "asleep", "fill", "wake", "publish", "fail", "end", "gone"}]
    /\ piece \in [ReaderIds -> 0..Count + Threads]
    /\ con \in {"new", "start", "undo", "threw", "idle", "test", "asleep", "join", "gone"}

Init ==
    /\ consumer \in Consumers
    /\ taken = 0 /\ consumed = 0 /\ running = 0
    /\ ready = [s \in SlotIds |-> 0] /\ data = [s \in SlotIds |-> 0]
    /\ stop = FALSE /\ failed = FALSE
    /\ at = [j \in ReaderIds |-> "unborn"]
    /\ piece = [j \in ReaderIds |-> j]
    /\ con = "new"

\* cv_.notify_all(): readers and the consumer wait on the one variable.
Woken(p) == [j \in ReaderIds |-> IF p[j] = "asleep" THEN "wait" ELSE p[j]]
WokenConsumer == IF con = "asleep" THEN "test" ELSE con

-----------------------------------------------------------------------------
\* start: the readers one by one.  One that does not start has those before
\* it stopped and joined before the throw leaves.
Start ==
    /\ con = "new"
    /\ running' = Threads
    /\ con' = "start"
    /\ UNCHANGED <<consumer, taken, consumed, ready, data, stop, failed, at, piece>>

Started == {j \in ReaderIds : at[j] # "unborn"}

StartReader(j) ==
    /\ con = "start" /\ Started = 0..j - 1
    /\ at' = [at EXCEPT ![j] = "wait"]
    /\ con' = IF j = Threads - 1 THEN "idle" ELSE "start"
    /\ UNCHANGED <<consumer, taken, shared, piece>>

Bad_StartFails(j) ==
    /\ con = "start" /\ Started = 0..j - 1 /\ consumer \in FailingStarts
    /\ running' = running - (Threads - j)
    /\ con' = "undo"
    /\ UNCHANGED <<consumer, taken, consumed, ready, data, stop, failed, at, piece>>

StartFails(j) ==
    /\ con = "start" /\ Started = 0..j - 1 /\ consumer \in FailingStarts
    /\ running' = running - (Threads - j)
    /\ stop' = TRUE
    /\ at' = Woken(at)
    /\ con' = "undo"
    /\ UNCHANGED <<consumer, taken, consumed, ready, data, failed, piece>>

StartThrows ==
    /\ con = "undo" /\ \A j \in Started : at[j] = "gone"
    /\ con' = "threw"
    /\ UNCHANGED <<consumer, taken, shared, at, piece>>

-----------------------------------------------------------------------------
Bad_HasRoom(k) == k <= consumed + Size
\* The slot of piece k has been given back.
HasRoom(k) == k < consumed + Size

Bad_EndsLate(k) == k > Count \/ stop
Bad_EndsNoStop(k) == k >= Count
Ends(k) == k >= Count \/ stop

\* A reader's turn at its next piece: past the last it ends; else it waits for
\* the slot, or for stop.
Wait(j) ==
    /\ at[j] = "wait"
    /\ LET k == piece[j]
           place == IF Ends(k) THEN "end" ELSE IF HasRoom(k) THEN "fill" ELSE "asleep"
       IN  /\ at' = [at EXCEPT ![j] = place]
           /\ data' = IF place = "fill" THEN [data EXCEPT ![Slot(k)] = -1] ELSE data
    /\ UNCHANGED <<consumer, taken, consumed, ready, running, stop, failed, piece, con>>

\* fill reads the piece, or throws.
Fill(j) ==
    /\ at[j] = "fill"
    /\ \/ /\ at' = [at EXCEPT ![j] = IF Streamed THEN "wake" ELSE "publish"]
          /\ data' = [data EXCEPT ![Slot(piece[j])] = piece[j] + 1]
       \/ /\ at' = [at EXCEPT ![j] = "fail"]
          /\ UNCHANGED data
    /\ UNCHANGED <<consumer, taken, consumed, ready, running, stop, failed, piece, con>>

\* StreamedRead::fill tells the scheduler, through its lock, which the thread
\* that makes the ring holds until start is through.
LockHeld == con \in {"start", "undo"}

Wake(j) ==
    /\ at[j] = "wake" /\ ~LockHeld
    /\ at' = [at EXCEPT ![j] = "publish"]
    /\ UNCHANGED <<consumer, taken, shared, piece, con>>

\* The piece is said to be in its slot.
Bad_Publish(j) ==
    /\ at[j] = "publish"
    /\ ready' = [ready EXCEPT ![Slot(piece[j])] = piece[j] + 1]
    /\ piece' = [piece EXCEPT ![j] = @ + Threads]
    /\ at' = [at EXCEPT ![j] = "wait"]
    /\ UNCHANGED <<consumer, taken, consumed, data, running, stop, failed, con>>

Publish(j) ==
    /\ at[j] = "publish"
    /\ ready' = [ready EXCEPT ![Slot(piece[j])] = piece[j] + 1]
    /\ piece' = [piece EXCEPT ![j] = @ + Threads]
    /\ at' = [Woken(at) EXCEPT ![j] = "wait"]
    /\ con' = WokenConsumer
    /\ UNCHANGED <<consumer, taken, consumed, data, running, stop, failed>>

\* A read that threw fails the stream; the reader's end, below, tells it.
Fail(j) ==
    /\ at[j] = "fail"
    /\ failed' = TRUE
    /\ at' = [at EXCEPT ![j] = "end"]
    /\ UNCHANGED <<consumer, taken, consumed, ready, data, running, stop, piece, con>>

Bad_End(j) ==
    /\ at[j] = "end"
    /\ running' = running - 1
    /\ at' = [at EXCEPT ![j] = "gone"]
    /\ UNCHANGED <<consumer, taken, consumed, ready, data, stop, failed, piece, con>>

End(j) ==
    /\ at[j] = "end"
    /\ running' = running - 1
    /\ at' = [Woken(at) EXCEPT ![j] = "gone"]
    /\ con' = WokenConsumer
    /\ UNCHANGED <<consumer, taken, consumed, ready, data, stop, failed, piece>>

-----------------------------------------------------------------------------
\* What next would find: the next piece in its slot.
NextReady == ready[Slot(taken)] = taken + 1

\* The loader asks for a piece with at most the one before still in its slot.
AskNext ==
    /\ con = "idle" /\ ~stop /\ taken < Count
    /\ ~Streamed /\ taken - consumed <= 1
    /\ con' = "test"
    /\ UNCHANGED <<consumer, taken, shared, at, piece>>

\* next(true), a test of its wait: the piece, the failure, or sleep.
\* A failure is thrown to a caller that then stops the ring.
NextWait ==
    /\ con = "test"
    /\ \/ /\ NextReady
          /\ taken' = taken + 1 /\ con' = "idle"
          /\ UNCHANGED <<stop, at>>
       \/ /\ ~NextReady /\ failed
          /\ stop' = TRUE /\ at' = Woken(at) /\ con' = "idle"
          /\ UNCHANGED taken
       \/ /\ ~NextReady /\ ~failed
          /\ con' = "asleep"
          /\ UNCHANGED <<taken, stop, at>>
    /\ UNCHANGED <<consumer, consumed, ready, data, running, failed, piece>>

Bad_NextPoll ==
    /\ con = "idle" /\ ~stop /\ taken < Count /\ Streamed
    /\ NextReady
    /\ taken' = taken + 1
    /\ UNCHANGED <<consumer, shared, at, piece, con>>

\* StreamedRead::send: next(false) once ready() says there is something.
NextPoll ==
    /\ con = "idle" /\ ~stop /\ taken < Count /\ Streamed
    /\ \/ /\ NextReady
          /\ taken' = taken + 1
          /\ UNCHANGED <<stop, at>>
       \/ /\ ~NextReady /\ failed
          /\ stop' = TRUE /\ at' = Woken(at)
          /\ UNCHANGED taken
    /\ UNCHANGED <<consumer, consumed, ready, data, running, failed, piece, con>>

Bad_Free(k) ==
    /\ con = "idle" /\ k \in consumed..taken - 1
    /\ consumed' = k + 1
    /\ UNCHANGED <<consumer, taken, ready, data, running, stop, failed, at, piece, con>>

\* free(k): the copies out of every slot up to piece k's have retired.
Free(k) ==
    /\ con = "idle" /\ k \in consumed..taken - 1
    /\ consumed' = k + 1
    /\ at' = Woken(at)
    /\ UNCHANGED <<consumer, taken, ready, data, running, stop, failed, piece, con>>

\* stop: a cancel, or the stream's end.
Stop ==
    /\ con = "idle" /\ ~stop
    /\ Streamed \/ taken = Count
    /\ stop' = TRUE
    /\ at' = Woken(at)
    /\ UNCHANGED <<consumer, taken, consumed, ready, data, running, failed, piece, con>>

\* The destructor, which StreamedRead's owner leaves until idle(): no reader
\* runs and every copy has retired.
Destroy ==
    /\ con = "idle"
    /\ stop \/ (Streamed /\ taken = Count /\ running = 0)
    /\ Streamed => running = 0 /\ consumed = taken
    /\ stop' = TRUE
    /\ at' = Woken(at)
    /\ con' = "join"
    /\ UNCHANGED <<consumer, taken, consumed, ready, data, running, failed, piece>>

Joined ==
    /\ con = "join" /\ \A j \in ReaderIds : at[j] = "gone"
    /\ con' = "gone"
    /\ UNCHANGED <<consumer, taken, shared, at, piece>>

Over ==
    /\ con \in {"gone", "threw"}
    /\ UNCHANGED vars

Consume == NextWait \/ NextPoll \/ \E k \in 0..Count - 1 : Free(k)
Reader(j) == Wait(j) \/ Fill(j) \/ Wake(j) \/ Publish(j) \/ Fail(j) \/ End(j)

Next ==
    \/ Start \/ StartThrows \/ AskNext \/ Consume \/ Stop \/ Destroy \/ Joined \/ Over
    \/ \E j \in ReaderIds : StartReader(j) \/ StartFails(j) \/ Reader(j)

\* Every read ends, and the consumer keeps asking, gives slots back as its
\* copies retire, and destroys a ring it has stopped or emptied; nothing makes
\* it stop one early or makes a read fail.
Fairness ==
    /\ \A j \in ReaderIds : WF_vars(Reader(j))
    /\ WF_vars(Start) /\ WF_vars(StartThrows) /\ WF_vars(Joined) /\ WF_vars(Destroy)
    /\ WF_vars(\E j \in ReaderIds : StartReader(j) \/ StartFails(j))
    /\ WF_vars(AskNext) /\ WF_vars(NextWait) /\ WF_vars(NextPoll)
    /\ WF_vars(\E k \in 0..Count - 1 : Free(k))

Spec == Init /\ [][Next]_vars /\ Fairness

-----------------------------------------------------------------------------
\* A piece the consumer has taken and not given back is whole in its slot: no
\* reader writes over what a copy still reads, and a piece is what its number
\* says however far apart the readers are.
HeldPiecesWhole ==
    \A k \in consumed..taken - 1 : data[Slot(k)] = k + 1

\* Every piece reaches the consumer, in order, unless a read failed or the
\* stream was stopped: neither side sleeps on what the other has done.
AllDelivered == (con = "idle") ~> (taken = Count \/ failed \/ stop)

\* A failed read reaches the consumer, which stops the ring, unless it had
\* stopped it or been given every piece.
FailureTold == (failed /\ con \notin {"start", "undo"}) ~> (stop \/ taken = Count)

\* A stopped ring's readers all end, so what they read into can go
\* (idle, read_ring.hpp:103).
StopEnds == stop ~> (running = 0)

\* "A reader that fails to start stops and joins those already started before
\* the throw leaves" (read_ring.hpp:44): the throw does leave.
FailedStartLeaves == (con = "undo") ~> (con = "threw")

\* The ring's representation: its types, and what the consumer holds is whole.
RingSound == TypeOK /\ HeldPiecesWhole

\* Every piece is delivered unless a read failed, and then the failure is.
DeliversOrFails == AllDelivered /\ FailureTold

\* Whoever stops the readers, the consumer's stop or a start that failed midway,
\* sees them end.
ReadersEnd == StopEnds /\ FailedStartLeaves
=============================================================================
