----------------------------- MODULE StateSlots -----------------------------
(***************************************************************************)
(* The slots of recurrent state (SlotPool, StateSlot, MarkHold, Checkpoint *)
(* in model/kv_cache.hpp) and the sequences that read and write them       *)
(* (model/history.hpp, model/passes.hpp), from the passes the scheduler    *)
(* forms, retires and abandons, and the histories it parks, takes back and *)
(* forks.  A ghost says which tokens a slot's state has read, per stage.   *)
(* All of it happens on the scheduler's thread, one call at a time.        *)
(* A slot holds a recurrent state, which has read all its rows, or the     *)
(* rings of a model that keeps entries, written by position.               *)
(***************************************************************************)
EXTENDS Integers, FiniteSets, SequencesExt

CONSTANTS
    Seqs,                    \* sequences
    Slots, NoSlot,           \* state slots; NoSlot in `from` is kLive
    Buffers, NoBuffer,       \* a mark's buffers of saved inputs, one a mark
    NLive, NKept,            \* live and checkpoint slots; the other Slots are the marks'
    S,                       \* stages
    Headroom,                \* entries_headroom_: rows past a history its rings hold beside those its rows read;
                             \* 0 where a layer keeps a recurrent state
    MaxLen                   \* bound: tokens of a history

Stages == 1..S
NMarks == Cardinality(Buffers)
Tokens == Seqs               \* a token names the sequence that read it

\* What the constants must be for Init to be a pool with its counts.
SlotsCounted ==
    /\ NLive \in Nat \ {0} /\ NKept \in Nat /\ S \in Nat \ {0} /\ Headroom \in Nat /\ MaxLen \in Nat
    /\ IsFiniteSet(Slots) /\ NoSlot \notin Slots /\ IsFiniteSet(Buffers) /\ NoBuffer \notin Buffers
    /\ Cardinality(Slots) = NLive + NKept + NMarks

VARIABLES
    slotPool,   \* the SlotPool
    seqs,       \* the sequences and their holds
    flights,    \* per sequence, its passes in flight, oldest first
    hist,       \* ghost: the tokens of its passes, committed or in flight
    state       \* ghost: per slot and stage, the tokens its state has read, or its ring was last given at each position

vars == <<slotPool, seqs, flights, hist, state>>

MaybeSlot == Slots \cup {NoSlot}
Histories == UNION {[1..n -> Tokens] : n \in 0..MaxLen}
Place == [Stages -> MaybeSlot]
Mark == [buffer : Buffers \cup {NoBuffer}, owns : BOOLEAN, slot : MaybeSlot, pos : 0..MaxLen, from : Place, ran : BOOLEAN]
Sequence == [role : {"none", "active", "parked"}, len : [Stages -> 0..MaxLen], live : MaybeSlot,
             kept : MaybeSlot, pos : 0..MaxLen, from : Place, mark : Mark, deferred : Mark,
             decoding : BOOLEAN]
Pass == [start : 0..MaxLen, n : 1..MaxLen, kept : MaybeSlot, ran : 0..S, want : BOOLEAN]

\* The pool, every sequence, pass and history and the ghost have their types.
TypeOK ==
    /\ slotPool \in [free : SUBSET Slots, refs : [Slots -> 0..Cardinality(Seqs) * 2], buffers : SUBSET Buffers,
                 live : 0..NLive, kept : 0..NKept, marks : 0..NMarks]
    /\ seqs \in [Seqs -> Sequence]
    /\ \A q \in Seqs : Len(flights[q]) <= S /\ \A i \in DOMAIN flights[q] : flights[q][i] \in Pass
    /\ hist \in [Seqs -> Histories]
    /\ state \in [Slots -> [Stages -> Histories]]

Live == [s \in Stages |-> NoSlot]
NoMark == [buffer |-> NoBuffer, owns |-> FALSE, slot |-> NoSlot, pos |-> 0, from |-> Live, ran |-> FALSE]
NoSequence == [role |-> "none", len |-> [s \in Stages |-> 0], live |-> NoSlot, kept |-> NoSlot, pos |-> 0,
               from |-> Live, mark |-> NoMark, deferred |-> NoMark, decoding |-> FALSE]
NoState == [s \in Stages |-> <<>>]

Init ==
    /\ slotPool = [free |-> Slots, refs |-> [s \in Slots |-> 0], buffers |-> Buffers, live |-> 0, kept |-> 0, marks |-> 0]
    /\ seqs = [q \in Seqs |-> NoSequence]
    /\ flights = [q \in Seqs |-> <<>>]
    /\ hist = [q \in Seqs |-> <<>>]
    /\ state = [s \in Slots |-> NoState]

-----------------------------------------------------------------------------
\* The pool's operations.
Take(p, s) == [p EXCEPT !.free = @ \ {s}, !.live = @ + 1]
Release(p, s) == IF s = NoSlot THEN p ELSE [p EXCEPT !.free = @ \cup {s}, !.live = @ - 1]
TakeKept(p, s) == [p EXCEPT !.free = @ \ {s}, !.kept = @ + 1, !.refs[s] = 1]
Retain(p, s) == [p EXCEPT !.refs[s] = @ + 1]
ReleaseKept(p, s) ==
    IF s = NoSlot THEN p
    ELSE IF p.refs[s] > 1 THEN [p EXCEPT !.refs[s] = @ - 1]
    ELSE [p EXCEPT !.refs[s] = 0, !.free = @ \cup {s}, !.kept = @ - 1]
KeepLive(p, s) == [p EXCEPT !.live = @ - 1, !.kept = @ + 1, !.refs[s] = 1]
TakeMark(p, m) ==
    [p EXCEPT !.buffers = @ \ {m.buffer}, !.live = IF m.owns THEN @ - 1 ELSE @, !.marks = IF m.owns THEN @ + 1 ELSE @]
ReleaseMark(p, m) ==
    IF m.buffer = NoBuffer THEN p
    ELSE [p EXCEPT !.buffers = @ \cup {m.buffer}, !.free = IF m.owns THEN @ \cup {m.slot} ELSE @,
                   !.marks = IF m.owns THEN @ - 1 ELSE @]
Unmark(p, m) == [p EXCEPT !.buffers = @ \cup {m.buffer}, !.marks = @ - 1, !.live = @ + 1]

-----------------------------------------------------------------------------
\* A sequence's operations, on the pool p and the sequence q of h.
Shorter(q, n) == [q EXCEPT !.len = [s \in Stages |-> IF q.len[s] < n THEN q.len[s] ELSE n]]

DropMark(h) == [p |-> ReleaseMark(h.p, h.q.mark), q |-> [h.q EXCEPT !.mark = NoMark]]

Bad_RestoreMark(h) ==
    IF h.q.mark.buffer = NoBuffer THEN h
    ELSE IF h.q.mark.owns
         THEN [p |-> Unmark(h.p, h.q.mark), q |-> [h.q EXCEPT !.live = h.q.mark.slot, !.from = Live, !.mark = NoMark]]
         ELSE [p |-> ReleaseMark(Release(h.p, h.q.live), h.q.mark),
               q |-> [h.q EXCEPT !.live = NoSlot, !.from = h.q.mark.from, !.mark = NoMark]]

\* restore_mark: the mark's slot is the live one again.
RestoreMark(h) ==
    IF h.q.mark.buffer = NoBuffer THEN h
    ELSE IF h.q.mark.owns
         THEN [p |-> Unmark(Release(h.p, h.q.live), h.q.mark),
               q |-> [h.q EXCEPT !.live = h.q.mark.slot, !.from = Live, !.mark = NoMark]]
         ELSE [p |-> ReleaseMark(Release(h.p, h.q.live), h.q.mark),
               q |-> [h.q EXCEPT !.live = NoSlot, !.from = h.q.mark.from, !.mark = NoMark]]

\* settle: a rerun still on the stages' threads runs first, and its mark goes back.
Settled(h) == [p |-> ReleaseMark(h.p, h.q.deferred), q |-> [h.q EXCEPT !.deferred = NoMark]]

Bad_ToCheckpoint(h, n) ==
    LET over == h.q.kept # NoSlot /\ h.q.pos > n
        kept == IF over THEN NoSlot ELSE h.q.kept
    IN  [p |-> Release(IF over THEN ReleaseKept(h.p, h.q.kept) ELSE h.p, h.q.live),
         q |-> Shorter([h.q EXCEPT !.kept = kept, !.pos = IF kept = NoSlot THEN 0 ELSE @, !.live = NoSlot],
                       IF kept = NoSlot THEN 0 ELSE h.q.pos)]

\* To the checkpoint at or below n, else to 0: the live slot goes back too.
ToCheckpoint(h, n) ==
    LET over == h.q.kept # NoSlot /\ h.q.pos > n
        kept == IF over THEN NoSlot ELSE h.q.kept
    IN  [p |-> Release(IF over THEN ReleaseKept(h.p, h.q.kept) ELSE h.p, h.q.live),
         q |-> Shorter([h.q EXCEPT !.kept = kept, !.pos = IF kept = NoSlot THEN 0 ELSE @, !.live = NoSlot,
                                   !.from = [s \in Stages |-> kept]],
                       IF kept = NoSlot THEN 0 ELSE h.q.pos)]

Rewind(h, n) ==
    IF h.q.mark.buffer # NoBuffer /\ n >= h.q.mark.pos
    THEN LET r == RestoreMark(h) IN [r EXCEPT !.q = Shorter(r.q, h.q.mark.pos)]
    ELSE ToCheckpoint(DropMark(h), n)

\* retract, the rerun inside a mark put off to the stages' threads; run at
\* once it is one put off and settled.
Inside(q, n) == q.mark.buffer # NoBuffer /\ q.mark.ran /\ n > q.mark.pos /\ n < q.len[S]
Retract(h, n) ==
    IF Inside(h.q, n)
    THEN [h EXCEPT !.q = Shorter([h.q EXCEPT !.deferred = h.q.mark, !.mark = NoMark], n)]
    ELSE IF n >= h.q.len[S] THEN IF h.q.mark.ran THEN DropMark(h) ELSE RestoreMark(h)
    ELSE Rewind(h, n)

\* keep, which leaves a history without a state of its own, or one no slot is
\* left for, with no checkpoint at its end.
Keeps(h) ==
    LET freed == ReleaseKept(h.p, h.q.kept)
    IN  IF h.q.live = NoSlot \/ (h.q.kept # NoSlot /\ h.q.pos = h.q.len[S]) THEN h
        ELSE IF freed.kept = NKept THEN [p |-> freed, q |-> [h.q EXCEPT !.kept = NoSlot, !.pos = 0]]
        ELSE [p |-> KeepLive(freed, h.q.live),
              q |-> [h.q EXCEPT !.kept = h.q.live, !.pos = h.q.len[S], !.live = NoSlot,
                                !.from = [s \in Stages |-> h.q.live]]]
AtEnd(q) == q.kept # NoSlot /\ q.pos = q.len[S]

\* A sequence destroyed: every hold goes back.
Gone(h) ==
    [p |-> Release(ReleaseKept(ReleaseMark(ReleaseMark(h.p, h.q.mark), h.q.deferred), h.q.kept), h.q.live),
     q |-> NoSequence]

\* A slot given back holds nothing anyone reads.
Cleared(st) == [s \in Slots |-> IF s \in slotPool'.free THEN NoState ELSE st[s]]
Becomes(x, h) ==
    /\ slotPool' = h.p
    /\ seqs' = [seqs EXCEPT ![x] = h.q]

-----------------------------------------------------------------------------
Of(x) == [p |-> slotPool, q |-> seqs[x]]
Active == {x \in Seqs : seqs[x].role = "active"}
Resting(x) == flights[x] = <<>> /\ seqs[x].mark = NoMark

\* Cache::admit: a fresh history, at most as many requests as live slots
\* (Scheduler's constructor).
Admit(x) ==
    /\ seqs[x].role = "none" /\ Cardinality(Active) < NLive
    /\ seqs' = [seqs EXCEPT ![x] = [NoSequence EXCEPT !.role = "active"]]
    /\ hist' = [hist EXCEPT ![x] = <<>>]
    /\ UNCHANGED <<slotPool, flights, state>>

\* A fork of another history at its checkpoint, refused past the history's end.
Fork(x, y) ==
    /\ seqs[x].role = "none" /\ Cardinality(Active) < NLive
    /\ seqs[y].role # "none" /\ Resting(y) /\ seqs[y].kept # NoSlot /\ seqs[y].pos <= seqs[y].len[S]
    /\ slotPool' = Retain(slotPool, seqs[y].kept)
    /\ seqs' = [seqs EXCEPT ![x] = [NoSequence EXCEPT !.role = "active", !.len = [s \in Stages |-> seqs[y].pos],
                                    !.kept = seqs[y].kept, !.pos = seqs[y].pos,
                                    !.from = [s \in Stages |-> seqs[y].kept]]]
    /\ hist' = [hist EXCEPT ![x] = SubSeq(hist[y], 1, seqs[y].pos)]
    /\ UNCHANGED <<flights, state>>

\* A paused request takes its own donor back whole.
TakeBack(x) ==
    /\ seqs[x].role = "parked" /\ Cardinality(Active) < NLive
    /\ seqs' = [seqs EXCEPT ![x].role = "active"]
    /\ UNCHANGED <<slotPool, flights, hist, state>>

Bad_Continues(x) ==
    /\ seqs[x].mark = NoMark
    /\ \A i \in DOMAIN flights[x] : flights[x][i].ran > 0 /\ ~flights[x][i].want

\* begin_pass: a pass slot is free, and no pass in flight of x is before its
\* first commit, wants its logits or is a verify.
Continues(x) ==
    /\ seqs[x].mark = NoMark /\ Len(flights[x]) < S
    /\ \A i \in DOMAIN flights[x] : flights[x][i].ran > 0 /\ ~flights[x][i].want

\* A pass takes its next rows of x: a prompt's slice of n rows, which
\* may keep its state as a checkpoint, the rows a reply wants, or a verify of a
\* decoding request's drafts past a mark, no more than rings have headroom for.  One begin refuses for want of a live
\* slot ends every request (fail_all), as Drop of each does.
Begin(x, n, keep, verify, want) ==
    LET q == seqs[x] IN
    /\ q.role = "active" /\ Continues(x) /\ q.len[1] + n <= MaxLen
    /\ keep => ~want /\ slotPool.kept < NKept
    /\ q.decoding => want
    /\ verify => q.decoding /\ q.live # NoSlot /\ (Headroom > 0 => n <= Headroom)
    /\ \E b \in IF verify THEN Settled(Of(x)).p.buffers ELSE {NoBuffer} :
        LET h == IF verify THEN Settled(Of(x)) ELSE Of(x)
            \* mark: the live slot becomes the mark's, and the pass reads it there.
            m == [buffer |-> b, owns |-> TRUE, slot |-> q.live, pos |-> q.len[S], from |-> [s \in Stages |-> q.live], ran |-> TRUE]
            p == IF verify THEN TakeMark(h.p, m) ELSE h.p
            r == IF verify THEN [h.q EXCEPT !.mark = m, !.from = m.from, !.live = NoSlot] ELSE h.q
        IN  /\ verify => h.p.marks < NMarks
            /\ r.live = NoSlot => p.live < NLive
            /\ \E s \in IF r.live = NoSlot THEN p.free ELSE {r.live} :
               \E k \in IF keep THEN p.free \ {s} ELSE {NoSlot} :
                LET taken == IF r.live = NoSlot THEN Take(p, s) ELSE p
                IN  /\ slotPool' = IF keep THEN TakeKept(taken, k) ELSE taken
                    /\ seqs' = [seqs EXCEPT ![x] = [r EXCEPT !.live = s]]
                    /\ flights' = [flights EXCEPT ![x] = Append(@,
                        [start |-> q.len[1], n |-> n, kept |-> k, ran |-> 0, want |-> want])]
    /\ hist' = [hist EXCEPT ![x] = SubSeq(@, 1, q.len[1]) \o [i \in 1..n |-> x]]
    /\ state' = Cleared(state)

\* What stage s of x reads next: the slot, what was written to it, and what of
\* that are the history's rows: none where rows past its end
\* exceed the headroom, which a ring overwrote its last rows with and a
\* recurrent state, whose headroom is 0, has read.
Read(x, s) == IF seqs[x].from[s] = NoSlot THEN seqs[x].live ELSE seqs[x].from[s]
Written(x, s) == IF seqs[x].len[s] = 0 \/ Read(x, s) = NoSlot THEN <<>> ELSE state[Read(x, s)][s]
Found(x, s) ==
    IF Len(Written(x, s)) > seqs[x].len[s] + Headroom THEN <<>>
    ELSE [i \in DOMAIN Written(x, s) \cap (1..seqs[x].len[s]) |-> Written(x, s)[i]]

\* Pass i of x records and commits its next stage; its checkpoint is the
\* sequence's once every stage holds it.
Stage(x, i) ==
    LET f == flights[x][i]
        s == f.ran + 1
        q == seqs[x]
        last == s = S /\ f.kept # NoSlot
    IN
    /\ f.ran < S
    /\ \A j \in 1..i - 1 : flights[x][j].ran > f.ran
    /\ seqs' = [seqs EXCEPT ![x] = [q EXCEPT !.len[s] = @ + f.n, !.from[s] = f.kept,
                                   !.kept = IF last THEN f.kept ELSE @,
                                   !.pos = IF last THEN f.start + f.n ELSE @]]
    /\ flights' = [flights EXCEPT ![x][i].ran = s, ![x][i].kept = IF last THEN NoSlot ELSE @]
    /\ slotPool' = IF last THEN ReleaseKept(slotPool, q.kept) ELSE slotPool
    /\ state' = Cleared([state EXCEPT ![IF f.kept # NoSlot THEN f.kept ELSE q.live][s] =
                            Found(x, s) \o SubSeq(hist[x], f.start + 1, f.start + f.n)
                              \o SubSeq(Written(x, s), q.len[s] + f.n + 1, Len(Written(x, s)))])
    /\ UNCHANGED hist

\* The oldest pass retires; a verify's drafts past row n are dropped
\* (settle_verifies), a recurrent state run again from the mark's over the rows kept.
Retire(x) ==
    LET f == flights[x][1]
        q == seqs[x]
    IN
    /\ flights[x] # <<>> /\ f.ran = S
    /\ flights' = [flights EXCEPT ![x] = Tail(@)]
    /\ IF q.mark = NoMark
       THEN seqs' = [seqs EXCEPT ![x].decoding = f.want] /\ UNCHANGED <<slotPool, hist, state>>
       ELSE \E n \in f.start + 1..f.start + f.n :
            /\ Becomes(x, Retract(Of(x), n))
            /\ hist' = [hist EXCEPT ![x] = SubSeq(@, 1, n)]
            /\ state' = Cleared(IF Inside(q, n) /\ Headroom = 0
                 THEN [state EXCEPT ![q.live] = [s \in Stages |->
                         state[q.mark.from[s]][s] \o SubSeq(hist[x], q.mark.pos + 1, n)]]
                 ELSE state)

\* release_settled: a rerun has run on every stage's thread.
Rerun(x) ==
    /\ seqs[x].deferred # NoMark
    /\ Becomes(x, Settled(Of(x)))
    /\ state' = Cleared(state)
    /\ UNCHANGED <<flights, hist>>

Bad_ByLength(q, n, rows) ==
    Headroom > 0 /\ rows <= Headroom /\ n > 0 /\ q.mark.buffer = NoBuffer /\ q.live # NoSlot

\* rewind_by_length's condition: the history is not empty, reads and wrote its
\* live slot on every stage, outside a mark, and `rows` past n fit every ring.
ByLength(q, n, rows) ==
    /\ Headroom > 0 /\ rows <= Headroom
    /\ n > 0 /\ q.mark.buffer = NoBuffer /\ q.live # NoSlot /\ q.from = Live

BackTo(h, n, rows) == IF ByLength(h.q, n, rows) THEN [h EXCEPT !.q = Shorter(@, n)] ELSE Rewind(h, n)

Bad_EndsAlone(h, f, end) ==
    LET r == BackTo(h, f.start, f.n) IN [r EXCEPT !.p = ReleaseKept(@, f.kept)]
Bad_LeavesKept(h, f, end) ==
    LET r == BackTo(h, f.start, end - f.start)
    IN  IF ByLength(h.q, f.start, end - f.start) THEN r ELSE [r EXCEPT !.p = ReleaseKept(@, f.kept)]

\* roll_back of one pass, to where it found the history, by lengths alone
\* or by its state; its checkpoint's slot goes back.  `end` is the furthest row
\* a pass in flight of the history wrote to.
RolledBack(h, f, end) ==
    LET r == BackTo(h, f.start, end - f.start) IN [r EXCEPT !.p = ReleaseKept(@, f.kept)]

\* abort_pass of x's earliest pass, its later ones first.  A stage that fails
\* in one call has its pass rolled back without them, and its requests end
\* (Drop), so nothing reads what its rings then hold.
Abandoned(x) ==
    LET end == Last(flights[x]).start + Last(flights[x]).n
    IN  FoldRight(LAMBDA f, h : RolledBack(h, f, end), flights[x], Of(x))
Abandon(x) ==
    /\ flights[x] # <<>>
    /\ Becomes(x, [Abandoned(x) EXCEPT !.q.decoding = FALSE])
    /\ flights' = [flights EXCEPT ![x] = <<>>]
    /\ hist' = [hist EXCEPT ![x] = SubSeq(@, 1, seqs'[x].len[S])]
    /\ state' = Cleared(state)

\* Model::keep between passes: a job keeps its state where it has read to.
Keep(x) ==
    /\ x \in Active /\ Resting(x) /\ seqs[x].len[S] > 0
    /\ Becomes(x, Keeps(Settled(Of(x))))
    /\ state' = Cleared(state)
    /\ UNCHANGED <<flights, hist>>

\* Cache::park: a paused history keeps its state where it is, a finished one,
\* or one no slot is left for, goes back to its checkpoint, or is gone.
Park(x, paused) ==
    LET rest == Settled(Of(x))
        h == IF paused THEN Keeps(rest) ELSE rest
        end == IF (paused /\ AtEnd(h.q)) \/ h.q.kept = NoSlot THEN h ELSE Retract(h, h.q.pos)
    IN
    /\ x \in Active /\ Resting(x)
    /\ Becomes(x, IF h.q.kept = NoSlot THEN Gone(h) ELSE [end EXCEPT !.q.role = "parked", !.q.decoding = FALSE])
    /\ hist' = [hist EXCEPT ![x] = SubSeq(@, 1, seqs'[x].len[S])]
    /\ state' = Cleared(state)
    /\ UNCHANGED flights

\* A donor evicted, or a request ended by an error.
Drop(x) ==
    /\ seqs[x].role # "none" /\ Resting(x)
    /\ Becomes(x, Gone(Of(x)))
    /\ hist' = [hist EXCEPT ![x] = <<>>]
    /\ state' = Cleared(state)
    /\ UNCHANGED flights

Next == \E x \in Seqs :
    \/ Admit(x) \/ TakeBack(x) \/ Retire(x) \/ Rerun(x) \/ Abandon(x) \/ Keep(x) \/ Drop(x)
    \/ \E y \in Seqs : Fork(x, y)
    \/ \E n \in 1..MaxLen, keep, verify, want \in BOOLEAN : Begin(x, n, keep, verify, want)
    \/ \E i \in DOMAIN flights[x] : Stage(x, i)
    \/ \E paused \in BOOLEAN : Park(x, paused)

Spec == Init /\ [][Next]_vars

-----------------------------------------------------------------------------
\* The checkpoints a sequence and its passes hold.
KeptBy(x) == {<<x, 0>>} \X {seqs[x].kept} \cup {<<<<x, i>>, flights[x][i].kept>> : i \in DOMAIN flights[x]}
KeptHolds(s) == {k \in UNION {KeptBy(x) : x \in Seqs} : k[2] = s}
LiveHolds(s) == {x \in Seqs : seqs[x].live = s}
MarkHolds(s) == {m \in Seqs \X {"mark", "deferred"} :
    LET k == IF m[2] = "mark" THEN seqs[m[1]].mark ELSE seqs[m[1]].deferred IN k.buffer # NoBuffer /\ k.owns /\ k.slot = s}

\* Every slot is free or on one side: one sequence's live slot, one mark's, or a
\* checkpoint's with a reference for each holder; the sides' counts are theirs,
\* so a slot an unmark takes back was the live side's to take.
SlotsHeldOnce ==
    /\ \A s \in Slots :
        /\ slotPool.refs[s] = Cardinality(KeptHolds(s))
        /\ Cardinality(LiveHolds(s)) + Cardinality(MarkHolds(s))
             + (IF slotPool.refs[s] > 0 THEN 1 ELSE 0) + (IF s \in slotPool.free THEN 1 ELSE 0) = 1
    /\ slotPool.live = Cardinality({s \in Slots : LiveHolds(s) # {}})
    /\ slotPool.kept = Cardinality({s \in Slots : slotPool.refs[s] > 0})
    /\ slotPool.marks = Cardinality({s \in Slots : MarkHolds(s) # {}})

\* The state each stage reads next is the state of the history's rows there,
\* whatever was marked, kept, forked, retracted or abandoned before, and a ring
\* still holds the rows below the history's end.
ReadsItsState == \A x \in Seqs, s \in Stages :
    seqs[x].role # "none" => Found(x, s) = SubSeq(hist[x], 1, seqs[x].len[s])

\* A sequence the live side admits finds a live slot (SlotPool's comment).
LiveForAdmitted == \A x \in Active : seqs[x].live = NoSlot => slotPool.live < NLive

\* A history's checkpoint is one a fork or a retract can continue from
\* (runtime.hpp:141): none is left beyond the history's end.
CheckpointReached == \A x \in Seqs : flights[x] = <<>> => seqs[x].pos <= seqs[x].len[S]

\* The pool's representation: its types, and every slot held on one side.
SlotsAccounted == TypeOK /\ SlotsHeldOnce
=============================================================================
