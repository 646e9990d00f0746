---------------------------- MODULE MCKVCache ----------------------------
(***************************************************************************)
(* A model's memory; `ask` says what of it.  Its cache: two histories over  *)
(* three blocks of two rows, a history of up to four rows, and two tokens:  *)
(* a block is shared by a fork, its owner rolled back into it, the pool     *)
(* runs out in the middle of a step, and freed blocks are handed out again. *)
(* Or one question: its layers over devices, or a load's reads.             *)
(***************************************************************************)
EXTENDS KVCache

CONSTANTS s1, s2, t1, t2

MCHandles == {s1, s2}
MCTokens == {t1, t2}
Symmetry == Permutations(MCHandles) \cup Permutations(MCTokens)

VARIABLE ask
L == INSTANCE LayerSplit
W == INSTANCE Loading

-----------------------------------------------------------------------------
\* One to three layers over one to three devices, some of them the host's, with room for all, a part or nothing.
Footprint(w, tied, reads, drafter, tight) ==
    [w |-> w, look |-> [l \in DOMAIN w |-> l % 2], lookHost |-> [l \in DOMAIN w |-> 1], cache |-> [l \in DOMAIN w |-> 1],
     reads |-> [l \in DOMAIN w |-> IF reads /\ l = Len(w) /\ l > 1 THEN 1 ELSE 0], pooled |-> [l \in DOMAIN w |-> 1],
     embed |-> 2, out |-> 2, tied |-> tied, drafter |-> drafter, draftEmbed |-> drafter, draftCache |-> drafter, tables |-> 1, act |-> 1,
     logits |-> 1, slice |-> IF tight THEN 1 ELSE 0, argmax |-> 1, argmaxRows |-> 1, handoff |-> 1, hostState |-> 1, context |-> drafter, scratchRow |-> 0]
Device(bytes, host) == [bytes |-> bytes, host |-> host, hostSide |-> IF host THEN 0 ELSE 1, scratch |-> 0, coll |-> 0, argmax |-> ~host]
Rooms == {L!Unknown, 7, 10, 14}
DeviceLists ==
    {<<Device(b, FALSE)>> : b \in Rooms} \cup {<<Device(b, FALSE), Device(c, h)>> : b, c \in Rooms, h \in BOOLEAN}
    \cup {<<Device(b, h), Device(9, FALSE), Device(c, ~h)>> : b, c \in {7, 12, 20}, h \in BOOLEAN}
SplitTopics == [kind : {"split?"}, w : {<<3>>, <<1, 4>>, <<2, 1, 2>>}, D : DeviceLists]
SplitAsks(w, D) ==
    {[F |-> Footprint(w, tied, reads, IF tied THEN 0 ELSE 1, reads), D |-> D, rows |-> 1, slots |-> n, logitRows |-> n, hostFree |-> spare, shares |-> <<>>] :
        tied \in BOOLEAN, reads \in BOOLEAN, n \in {1, 3}, spare \in {6, L!Unknown}}
    \cup {[F |-> Footprint(w, TRUE, FALSE, 0, FALSE), D |-> D, rows |-> 1, slots |-> 1, logitRows |-> 1, hostFree |-> L!Unknown,
           shares |-> [d \in DOMAIN D |-> IF d = 1 THEN a ELSE IF d = 2 THEN b ELSE 1]] : a \in 1 .. 3, b \in 0 .. 2}

-----------------------------------------------------------------------------
\* Two or three tensors of a file, with gaps, read by one device whole, by the members of a group and by the host.
Section(units, unit, tiles, align, replicate) == [units |-> units, unit |-> unit, tiles |-> tiles, align |-> align, replicate |-> replicate]
Role(axis, in, out, sections) == [axis |-> axis, in |-> in, out |-> out, experts |-> 0, first |-> 0, part |-> FALSE, sections |-> sections]
Matrix(nin, rows, block) == [nin |-> nin, rows |-> rows, block |-> block, size |-> 1]
WholeRole(t) == Role("none", t.nin, t.rows, <<>>)
Declared ==
    {<<Matrix(1, 6, 1), Role("rows", 1, 6, <<Section(2, 3, 1, 2, FALSE)>>), 2>>,
     <<Matrix(1, 6, 1), Role("rows", 1, 6, <<Section(2, 1, 2, 1, FALSE), Section(1, 2, 1, 1, TRUE)>>), 2>>,
     <<Matrix(2, 4, 1), [Role("rows", 2, 2, <<Section(2, 1, 1, 1, FALSE)>>) EXCEPT !.first = 1, !.part = TRUE], 2>>,
     <<Matrix(6, 2, 1), Role("columns", 6, 2, <<Section(3, 1, 2, 1, FALSE)>>), 3>>,
     <<Matrix(8, 1, 2), Role("columns", 8, 1, <<Section(2, 4, 1, 4, FALSE)>>), 2>>,
     <<Matrix(2, 3, 1), [Role("rows", 2, 1, <<Section(3, 1, 1, 1, FALSE)>>) EXCEPT !.experts = 3], 3>>,
     <<Matrix(1, 6, 1), Role("rows", 1, 6, <<Section(3, 1, 2, 2, FALSE)>>), 3>>,
     <<Matrix(8, 1, 2), Role("columns", 8, 1, <<Section(8, 1, 1, 1, FALSE)>>), 8>>, <<Matrix(1, 6, 1), Role("rows", 1, 6, <<Section(6, 1, 1, 1, FALSE)>>), 4>>}
\* Less the widths that are refused: a section's units not divided, columns off whole blocks.
Shapes == {d \in Declared : W!Splits(d[2], d[3]) /\ W!WholeBlocks(d[2], d[1], d[3])}
Uploads(shape, both) ==
    [m \in 1 .. shape[3] |-> [tensor |-> 2, role |-> shape[2], width |-> shape[3], member |-> m - 1]]
    \o <<[tensor |-> 1, role |-> WholeRole(Matrix(1, 3, 1)), width |-> 1, member |-> 0]>>
    \o (IF both THEN <<[tensor |-> 3, role |-> WholeRole(Matrix(1, 2, 1)), width |-> 1, member |-> 0]>> ELSE <<>>)
LoadTopics == [kind : {"load?"}, shape : Shapes, mode : {"auto", "direct"}, host : {{}, {1}, {3}, {2, 3}}]
LoadAsks(shape, mode, host) ==
    {[mode |-> mode, uploads |-> Uploads(shape, both), host |-> host, granule |-> g, page |-> 2, limit |-> limit, run |-> run,
      tensors |-> <<[file |-> 1, offset |-> first, t |-> Matrix(1, 3, 1)], [file |-> 1, offset |-> first + 3 + gap, t |-> shape[1]],
                    [file |-> second, offset |-> IF second = 1 THEN first + 14 + gap ELSE first, t |-> Matrix(1, 2, 1)]>>] :
        both \in BOOLEAN, g \in {1, 2}, limit \in {2, 5}, run \in {2, 9}, first \in {0, 1}, gap \in {1, 4}, second \in {1, 2}}

-----------------------------------------------------------------------------
Cached == [kind |-> "cache"]
MemoryInit == Init /\ ask \in {Cached} \cup SplitTopics \cup LoadTopics
CacheSteps == ask = Cached /\ Next /\ UNCHANGED ask
Pose ==
    /\ UNCHANGED vars
    /\ \/ ask.kind = "split?" /\ \E g \in SplitAsks(ask.w, ask.D) : ask' = [kind |-> "split", g |-> g]
       \/ ask.kind = "load?" /\ \E q \in LoadAsks(ask.shape, ask.mode, ask.host) : ask' = [kind |-> "load", q |-> q]
Rest == ask.kind \in {"split", "load"} /\ UNCHANGED <<vars, ask>>
MemoryNext == CacheSteps \/ Pose \/ Rest
MemorySpec == MemoryInit /\ [][MemoryNext]_<<vars, ask>>

\* The layer split places a model wherever one fits and none is better (layer_split.hpp).
PlacesBest == ask.kind = "split" => L!SplitBest(ask.g)
\* A streamed load leaves every copy and the host's with their bytes (load.hpp, shard.hpp).
LoadSound == ask.kind = "load" => W!LoadsWhole(ask.q)
\* So a model's memory is laid out: each device holds the layers that are best there, and each copy its bytes.
LaidOut == PlacesBest /\ LoadSound
=============================================================================
