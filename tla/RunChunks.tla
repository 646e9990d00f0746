------------------------------ MODULE RunChunks ------------------------------
(***************************************************************************)
(* Model::run_chunks (model/passes.hpp): a prompt's chunks through the     *)
(* stages of a pipelined split as a software pipeline.  The calling thread *)
(* begins, prepares and commits every stage and records those without a    *)
(* lane; a lane (model/stage_lanes.hpp) records its stage's chunks, each   *)
(* in a critical section of m that hands the chunk over or back.           *)
(*                                                                         *)
(* Chunk c runs in the pass c % S, and its rows go from a stage to the     *)
(* next in buffer c % 2 of the stage's two.  What a stage computes is left *)
(* out; any of its steps may fail.                                         *)
(***************************************************************************)
EXTENDS Integers, FiniteSets

CONSTANTS
    S,          \* the model's stages are 0..S - 1
    Chunks,     \* the prompt's chunks are 0..Chunks - 1
    Lanes       \* the stages with a lane (stage_waits)

Stages == 0..S - 1
Last == S - 1

ASSUME RunChunksAssumption ==
    S \in Nat \ {0} /\ Chunks \in Nat \ {0} /\ Lanes \subseteq Stages

None == -1

VARIABLES
    next,       \* next: per stage, the next chunk to take
    committed,  \* committed: per stage, the chunks it has committed
    busy,       \* busy: the stages whose lane holds a chunk
    todo,       \* per lane, Lane::todo
    work,       \* per stage, the chunk it records
    done,       \* per lane, Lane::done
    error,      \* the lanes whose record failed, Lane::error
    lane,       \* per lane, where its thread is
    stop,       \* the lanes told to stop
    holds,      \* ctx.passes: per pass, the chunk last begun in it
    rows,       \* ctx.handoff: per stage and buffer, the chunk whose rows it holds
    go,         \* the stages the round is still to take
    moved,      \* moved
    finished,   \* finished: the stage and chunk of each record to commit
    failed,     \* failed # nullptr
    pc          \* where the calling thread is

progress == <<next, committed>>
lanes == <<busy, todo, done, error, lane, stop>>
data == <<work, holds, rows>>
main == <<go, moved, finished, failed, pc>>
vars == <<progress, lanes, data, main>>

\* Every count, hand-over and place has its type.
TypeOK ==
    /\ next \in [Stages -> 0..Chunks] /\ committed \in [Stages -> 0..Chunks]
    /\ busy \subseteq Lanes /\ error \subseteq Lanes /\ stop \subseteq Lanes
    /\ todo \in [Stages -> None..Chunks - 1] /\ work \in [Stages -> None..Chunks - 1]
    /\ done \in [Stages -> None..Chunks - 1]
    /\ lane \in [Stages -> {"unborn", "look", "asleep", "record", "gone"}]
    /\ holds \in [Stages -> None..Chunks - 1] /\ rows \in [Stages -> [0..1 -> None..Chunks - 1]]
    /\ go \subseteq Stages /\ moved \in BOOLEAN /\ failed \in BOOLEAN
    /\ finished \subseteq Stages \X (0..Chunks - 1)
    /\ pc \in {"start", "round", "go", "inline", "look", "asleep", "commit", "join", "joining", "over"}

Init ==
    /\ next = [s \in Stages |-> 0] /\ committed = [s \in Stages |-> 0]
    /\ busy = {} /\ error = {} /\ stop = {}
    /\ todo = [s \in Stages |-> None] /\ work = [s \in Stages |-> None]
    /\ done = [s \in Stages |-> None]
    /\ lane = [s \in Stages |-> "unborn"]
    /\ holds = [k \in Stages |-> None] /\ rows = [s \in Stages |-> [b \in 0..1 |-> None]]
    /\ go = {} /\ moved = FALSE /\ finished = {} /\ failed = FALSE
    /\ pc = "start"

-----------------------------------------------------------------------------
\* StageLanes::start, lane by lane; a thread may not start.
Start ==
    /\ pc = "start"
    /\ \/ /\ lane' = [s \in Stages |-> IF s \in Lanes THEN "look" ELSE "unborn"]
          /\ pc' = "round" /\ UNCHANGED failed
       \/ \E first \in Lanes :
          /\ lane' = [s \in Stages |-> IF s \in Lanes /\ s < first THEN "look" ELSE "unborn"]
          /\ pc' = "join" /\ failed' = TRUE
    /\ UNCHANGED <<progress, busy, todo, done, error, stop, data, go, moved, finished>>

Bad_AfterNext(s, c) == s < Last => c < committed[s + 1] + 3
\* The stage after has committed the chunk whose buffer c reuses.
AfterNext(s, c) == s < Last => c < committed[s + 1] + 2

Bad_PassFree(s, c) == s = 0 => c <= committed[Last] + S
\* The last stage has committed the chunk whose pass c reuses.
PassFree(s, c) == s = 0 => c < committed[Last] + S

Bad_AfterPrior(s, c) == s > 0 => c + 1 < committed[s - 1]
\* The stage before has committed c.
AfterPrior(s, c) == s > 0 => c < committed[s - 1]

Ready(s) ==
    LET c == next[s] IN
    /\ c < Chunks /\ s \notin busy /\ committed[s] = c
    /\ AfterPrior(s, c) /\ AfterNext(s, c) /\ PassFree(s, c)

\* A round takes each stage ready at its start once.
Round ==
    /\ pc = "round"
    /\ IF committed[Last] = Chunks THEN pc' = "join" /\ UNCHANGED <<go, moved>>
       ELSE pc' = "go" /\ go' = {s \in Stages : Ready(s)} /\ moved' = FALSE
    /\ UNCHANGED <<progress, lanes, data, finished, failed>>

\* The chunk is begun at the first stage, prepared at each, and recorded by
\* the stage's lane or here.
Take(s) ==
    /\ pc = "go" /\ s \in go /\ \A t \in go : s <= t
    /\ go' = go \ {s} /\ moved' = TRUE
    /\ next' = [next EXCEPT ![s] = @ + 1]
    /\ holds' = IF s = 0 THEN [holds EXCEPT ![next[s] % S] = next[s]] ELSE holds
    /\ IF s \in Lanes
       THEN /\ todo' = [todo EXCEPT ![s] = next[s]] /\ busy' = busy \cup {s}
            /\ lane' = [lane EXCEPT ![s] = IF @ = "asleep" THEN "look" ELSE @]
            /\ UNCHANGED <<work, pc>>
       ELSE /\ work' = [work EXCEPT ![s] = next[s]] /\ pc' = "inline"
            /\ UNCHANGED <<todo, busy, lane>>
    /\ UNCHANGED <<committed, done, error, stop, rows, finished, failed>>

\* begin or the stage's preparation throws.
TakeFails(s) ==
    /\ pc = "go" /\ s \in go /\ \A t \in go : s <= t
    /\ next' = [next EXCEPT ![s] = @ + 1]
    /\ failed' = TRUE /\ pc' = "join"
    /\ UNCHANGED <<committed, lanes, data, go, moved, finished>>

\* A record ends: its rows are in the buffer for the next stage.
Sent(s, c) == IF s < Last THEN [rows EXCEPT ![s][c % 2] = c] ELSE rows

\* A stage without a lane: recorded and committed here.
Inline(s) ==
    /\ pc = "inline" /\ s \notin Lanes /\ work[s] # None
    /\ work' = [work EXCEPT ![s] = None]
    /\ \/ /\ rows' = Sent(s, work[s])
          /\ committed' = [committed EXCEPT ![s] = @ + 1]
          /\ pc' = "go" /\ UNCHANGED failed
       \/ /\ failed' = TRUE /\ pc' = "join"
          /\ UNCHANGED <<rows, committed>>
    /\ UNCHANGED <<next, lanes, holds, go, moved, finished>>

Arrived == \E s \in Lanes : s \in error \/ done[s] # None

\* The round took no stage, and no lane has ended a record.
Idle == go = {} /\ ~moved /\ ~Arrived

\* What the round's end does: it waits for a lane, or takes what the lanes
\* have ended.
Looking == (pc = "go" /\ go = {}) \/ pc = "look"

Wait ==
    /\ Looking /\ Idle
    /\ IF busy = {} THEN pc' = "join" /\ failed' = TRUE     \* std::logic_error
       ELSE pc' = "asleep" /\ UNCHANGED failed
    /\ UNCHANGED <<progress, lanes, data, go, moved, finished>>

Ended == {s \in Lanes : done[s] # None \/ s \in error}

Collect ==
    /\ Looking /\ ~Idle
    /\ finished' = {<<s, done[s]>> : s \in {t \in Lanes : done[t] # None}}
    /\ done' = [s \in Stages |-> None] /\ error' = {} /\ busy' = busy \ Ended
    /\ failed' = (error # {})
    /\ pc' = IF error # {} THEN "join" ELSE "commit"
    /\ UNCHANGED <<progress, todo, lane, stop, data, go, moved>>

Commit ==
    /\ pc = "commit"
    /\ \/ /\ committed' = [s \in Stages |-> IF \E c \in 0..Chunks - 1 : <<s, c>> \in finished
                                            THEN committed[s] + 1 ELSE committed[s]]
          /\ pc' = "round" /\ UNCHANGED failed
       \/ finished # {} /\ failed' = TRUE /\ pc' = "join" /\ UNCHANGED committed
    /\ finished' = {}
    /\ UNCHANGED <<next, lanes, data, go, moved>>

\* threads.reset(): every lane told to stop, then joined.
Join ==
    /\ pc = "join"
    /\ stop' = Lanes /\ pc' = "joining"
    /\ lane' = [s \in Stages |-> IF lane[s] = "asleep" THEN "look" ELSE lane[s]]
    /\ UNCHANGED <<progress, busy, todo, done, error, data, go, moved, finished, failed>>

Bad_Joined ==
    /\ pc = "joining"
    /\ pc' = "over"
    /\ UNCHANGED <<progress, lanes, data, go, moved, finished, failed>>

Joined ==
    /\ pc = "joining" /\ \A s \in Lanes : lane[s] \in {"unborn", "gone"}
    /\ pc' = "over"
    /\ UNCHANGED <<progress, lanes, data, go, moved, finished, failed>>

Over ==
    /\ pc = "over"
    /\ UNCHANGED vars

-----------------------------------------------------------------------------
\* StageLanes::run: to its end, to a chunk, or to sleep.
LaneLook(s) ==
    /\ lane[s] = "look"
    /\ IF s \in stop THEN lane' = [lane EXCEPT ![s] = "gone"] /\ UNCHANGED <<todo, work>>
       ELSE IF todo[s] # None
       THEN /\ lane' = [lane EXCEPT ![s] = "record"]
            /\ work' = [work EXCEPT ![s] = todo[s]]
            /\ todo' = [todo EXCEPT ![s] = None]
       ELSE lane' = [lane EXCEPT ![s] = "asleep"] /\ UNCHANGED <<todo, work>>
    /\ UNCHANGED <<progress, busy, done, error, stop, holds, rows, main>>

Bad_LaneEnds(s) ==
    /\ lane[s] = "record"
    /\ lane' = [lane EXCEPT ![s] = "look"]
    /\ work' = [work EXCEPT ![s] = None]
    /\ \/ /\ rows' = Sent(s, work[s])
          /\ done' = [done EXCEPT ![s] = work[s]] /\ UNCHANGED error
       \/ error' = error \cup {s} /\ UNCHANGED <<rows, done>>
    /\ UNCHANGED <<progress, busy, todo, stop, holds, main>>

\* The record and its end, told to the calling thread.
LaneEnds(s) ==
    /\ lane[s] = "record"
    /\ lane' = [lane EXCEPT ![s] = "look"]
    /\ work' = [work EXCEPT ![s] = None]
    /\ \/ /\ rows' = Sent(s, work[s])
          /\ done' = [done EXCEPT ![s] = work[s]] /\ UNCHANGED error
       \/ error' = error \cup {s} /\ UNCHANGED <<rows, done>>
    /\ pc' = IF pc = "asleep" THEN "look" ELSE pc
    /\ UNCHANGED <<progress, busy, todo, stop, holds, go, moved, finished, failed>>

CallingThread ==
    \/ Start \/ Round \/ Wait \/ Collect \/ Commit \/ Join \/ Joined
    \/ \E s \in Stages : Take(s) \/ TakeFails(s) \/ Inline(s)
Lane(s) == LaneLook(s) \/ LaneEnds(s)
Next == CallingThread \/ (\E s \in Lanes : Lane(s)) \/ Over

\* The threads are scheduled and every record ends.
Fairness == WF_vars(CallingThread) /\ \A s \in Lanes : WF_vars(Lane(s))
Spec == Init /\ [][Next]_vars /\ Fairness

-----------------------------------------------------------------------------
\* A stage records a chunk in the pass begun for it: no later chunk has taken
\* the pass while a stage, however far behind, still works on it.
PassOfItsChunk == \A s \in Stages : work[s] # None => holds[work[s] % S] = work[s]

\* A stage reads the rows the stage before sent for its chunk, whole from the
\* record's start to its end: the stage before, up to two chunks ahead, does
\* not write over them.
RowsOfItsChunk == \A s \in Stages \ {0} : work[s] # None => rows[s - 1][work[s] % 2] = work[s]

\* The chunk a round with nothing to do waits for is on its way: the
\* std::logic_error "a pipelined prefill with no stage ready and none
\* recording" (passes.hpp:405) is never thrown.
NeverStuck == Looking /\ Idle => busy # {}

\* The call returns with every chunk through every stage unless something
\* failed, and only when no lane records.
CallReturnsWhole ==
    pc = "over" =>
        /\ failed \/ committed = [s \in Stages |-> Chunks]
        /\ \A s \in Stages : work[s] = None

\* The call returns: no wake is lost between the caller and a lane.
Returns == <>(pc = "over")
=============================================================================
