------------------------------ MODULE LayerSplit ------------------------------
(***************************************************************************)
(* model/layer_split.hpp: a model's layers over several devices, each        *)
(* running consecutive ones, fitted to the memory each reports free and to   *)
(* the host's.  The program walks the sets of devices and, for each, a table *)
(* over (devices taken, layers placed); FitsAll and the scores of every      *)
(* assignment are the reference it is checked against.                       *)
(*                                                                           *)
(* A footprint F = [w, look, lookHost, cache, reads, pooled, embed, out,     *)
(* tied, drafter, draftEmbed, draftCache, tables, act, logits, slice,        *)
(* argmax, argmaxRows, handoff, hostState, context, scratchRow]; a device    *)
(* [bytes, host, hostSide, scratch, coll, argmax], its bytes Unknown where   *)
(* it cannot tell; the question g = [F, D, rows, slots, logitRows, hostFree, *)
(* shares].  Layers are counted from 1.                                      *)
(***************************************************************************)
EXTENDS Integers, FiniteSets, SequencesExt

Unknown == -1
Within(bytes, room) == room = Unknown \/ bytes <= room
Total(seq, i, k) == FoldLeft(LAMBDA n, x : n + x, 0, SubSeq(seq, i, i + k - 1))
Larger(a, b) == IF a > b THEN a ELSE b
Layers(g) == Len(g.F.w)

\* The pooled rows a device that runs layers i .. i + k - 1 keeps again of sources before i, each once.
Replicas(F, i, k) ==
    FoldSet(LAMBDA s, n : n + F.pooled[s], 0, {s \in 1 .. i - 1 : \E j \in i .. i + k - 1 : F.reads[j] = s})
Resident(dev, bytes) == IF dev.host THEN 0 ELSE bytes
\* The embedding, the head and the drafter a device keeps; a tied pair on one device is one buffer.
Bad_EndWeights(F, dev, first, last) ==
    (IF first THEN Resident(dev, F.embed) ELSE 0) + (IF last THEN Resident(dev, F.out) + Resident(dev, F.drafter) ELSE 0)
EndWeights(F, dev, first, last) ==
    LET drafter == IF last THEN Resident(dev, F.drafter) + (IF first \/ F.tied THEN 0 ELSE Resident(dev, F.draftEmbed)) ELSE 0
    IN IF first /\ last /\ F.tied THEN Resident(dev, F.out) + drafter
       ELSE (IF first THEN Resident(dev, F.embed) ELSE 0) + (IF last THEN Resident(dev, F.out) ELSE 0) + drafter

\* What the host holds for the devices used, and the first host device among them, which carries it.
HandoffBuffers(slots, pipelined) == IF pipelined THEN Larger(2, slots) ELSE 1
HostNeed(g, used) ==
    g.logitRows * g.F.logits + g.F.tables + g.F.hostState + Total(g.F.lookHost, 1, Layers(g))
    + (IF Len(used) > 1 THEN HandoffBuffers(g.slots, TRUE) * (Len(used) - 1) * g.rows * g.F.handoff ELSE 0)
    + Len(used) * g.rows * g.F.scratchRow + FoldLeft(LAMBDA n, d : n + g.D[d].hostSide, 0, used)
HostDevices(g, used) == SelectSeq(used, LAMBDA d : g.D[d].host)
HostFor(g, used) == [need |-> HostNeed(g, used), carrier |-> IF HostDevices(g, used) = <<>> THEN 0 ELSE HostDevices(g, used)[1]]
EveryDevice(g) == [d \in DOMAIN g.D |-> d]
HostRoomOf(g) == IF HostDevices(g, EveryDevice(g)) = <<>> THEN g.hostFree ELSE g.D[HostDevices(g, EveryDevice(g))[1]].bytes
HostFits(g, h) == h.carrier # 0 \/ Within(h.need, HostRoomOf(g))

\* Beside weights and caches, and then all of what device d holds running k layers from i.
Overhead(g, d, h) ==
    (g.rows + g.F.context) * (g.F.act + g.D[d].coll) + (IF g.D[d].host THEN 0 ELSE g.F.tables) + g.D[d].scratch + (IF d = h.carrier THEN h.need ELSE 0)
HeadRows(g, d, last) ==
    IF ~last THEN 0 ELSE g.logitRows * g.F.slice + (IF g.D[d].argmax THEN (IF g.logitRows < g.F.argmaxRows THEN g.logitRows ELSE g.F.argmaxRows) * g.F.argmax ELSE 0)
Weights(g, d, i, k, first, last) == Resident(g.D[d], Total(g.F.w, i, k)) + EndWeights(g.F, g.D[d], first, last)
CacheOf(g, i, k, last) == Total(g.F.cache, i, k) + Replicas(g.F, i, k) + (IF last THEN g.F.draftCache ELSE 0)
Need(g, d, i, k, first, last, h) ==
    Weights(g, d, i, k, first, last) + Total(g.F.look, i, k) + CacheOf(g, i, k, last) + HeadRows(g, d, last) + Overhead(g, d, h)
Fits(g, d, bytes) == Within(bytes, g.D[d].bytes)

-----------------------------------------------------------------------------
\* A plan's score: layers on host devices, then the busiest other device's layers and bytes.
None == [ok |-> FALSE, host |-> 0, k |-> 0, bytes |-> 0, from |-> 0]
Less(a, b) ==
    a.ok /\ (~b.ok \/ a.host < b.host \/ (a.host = b.host /\ (a.k < b.k \/ (a.k = b.k /\ a.bytes < b.bytes))))
Bad_After(g, d, k, bytes, sc) == [sc EXCEPT !.from = k, !.k = Larger(@, k), !.bytes = Larger(@, bytes)]
After(g, d, k, bytes, sc) ==
    IF g.D[d].host THEN [sc EXCEPT !.from = k, !.host = @ + k]
    ELSE IF k > sc.k \/ (k = sc.k /\ bytes > sc.bytes) THEN [sc EXCEPT !.from = k, !.k = k, !.bytes = bytes] ELSE [sc EXCEPT !.from = k]
\* The table's next row: from i layers placed, k more on device d, growing k until it no longer fits; the last device runs the rest.
Steps(g, i, last) == IF last THEN {Layers(g) - i} ELSE 1 .. Layers(g) - i
Reaches(g, d, i, k, first, last, h) == \A n \in IF last THEN {k} ELSE 1 .. k : Fits(g, d, Need(g, d, i + 1, n, first, last, h))
Cell(g, d, first, last, h, prev, at) ==
    FoldLeft(LAMBDA best, i :
                IF prev[i].ok /\ at - i \in Steps(g, i, last) /\ Reaches(g, d, i, at - i, first, last, h)
                   /\ Less(After(g, d, at - i, Need(g, d, i + 1, at - i, first, last, h), prev[i]), best)
                THEN After(g, d, at - i, Need(g, d, i + 1, at - i, first, last, h), prev[i]) ELSE best,
             None, [n \in 1 .. at |-> n - 1])
NextRow(g, used, j, h, prev) == [at \in 0 .. Layers(g) |-> Cell(g, used[j], j = 1, j = Len(used), h, prev, at)]
Table(g, used, h) ==
    FoldLeft(LAMBDA rows, j : Append(rows, NextRow(g, used, j, h, rows[j])),
             <<[at \in 0 .. Layers(g) |-> IF at = 0 THEN [None EXCEPT !.ok = TRUE] ELSE None]>>, [j \in DOMAIN used |-> j])
\* The counts the table's last cell stands for, read back from the last device.
CountsOf(g, used, rows) ==
    FoldRight(LAMBDA j, c : [left |-> c.left - rows[j + 1][c.left].from, count |-> [c.count EXCEPT ![used[j]] = rows[j + 1][c.left].from]],
              [j \in DOMAIN used |-> j], [left |-> Layers(g), count |-> [d \in DOMAIN g.D |-> 0]]).count
\* The sets of devices in the order of their masks; a later one wins only when it is better.
Masks(g) == [m \in 1 .. 2 ^ Len(g.D) - 1 |-> SelectSeq(EveryDevice(g), LAMBDA d : (m \div 2 ^ (d - 1)) % 2 = 1)]
Tried(g, best, used, rows) ==
    LET end == rows[Len(used) + 1][Layers(g)] IN IF Less(end, best.score) THEN [score |-> end, count |-> CountsOf(g, used, rows)] ELSE best
Searched(g) ==
    FoldLeft(LAMBDA best, used :
                IF Len(used) > Layers(g) \/ ~HostFits(g, HostFor(g, used)) THEN best ELSE Tried(g, best, used, Table(g, used, HostFor(g, used))),
             [score |-> None, count |-> <<>>], Masks(g))

\* Shares: each device's part of the layers, the remainders to the largest fractions first.
Floor(g, d, sum) == (Layers(g) * g.shares[d]) \div sum
ByFraction(g, sum) == SortSeq(EveryDevice(g), LAMBDA a, b :
    LET x == (Layers(g) * g.shares[a]) % sum
        y == (Layers(g) * g.shares[b]) % sum
    IN x > y \/ (x = y /\ a < b))
SharedOver(g, sum, order) ==
    LET given == FoldLeft(LAMBDA n, d : n + Floor(g, d, sum), 0, EveryDevice(g))
    IN [d \in DOMAIN g.D |-> Floor(g, d, sum) + (IF \E i \in 1 .. Layers(g) - given : order[i] = d THEN 1 ELSE 0)]
SharedOut(g) == LET sum == Total(g.shares, 1, Len(g.shares)) IN SharedOver(g, sum, ByFraction(g, sum))

\* The split: the counts by shares or by the search, then every used device and the host checked against its room; <<>> where it refuses.
Used(count) == SelectSeq([d \in DOMAIN count |-> d], LAMBDA d : count[d] > 0)
First(count, d) == 1 + FoldLeft(LAMBDA n, e : IF e < d THEN n + count[e] ELSE n, 0, [e \in DOMAIN count |-> e])
Held(g, count, used, h, d) ==
    Weights(g, d, First(count, d), count[d], d = used[1], d = used[Len(used)]) + CacheOf(g, First(count, d), count[d], d = used[Len(used)])
    + Overhead(g, d, h) + Total(g.F.look, First(count, d), count[d])
Checked(g, count, used, h) ==
    IF HostFits(g, h) /\ \A i \in DOMAIN used : Fits(g, used[i], Held(g, count, used, h, used[i])) THEN count ELSE <<>>
CheckedOr(g, count) == IF count = <<>> THEN <<>> ELSE Checked(g, count, Used(count), HostFor(g, Used(count)))
SplitLayers(g) == CheckedOr(g, IF g.shares = <<>> THEN Searched(g).count ELSE SharedOut(g))

-----------------------------------------------------------------------------
\* The reference: every way to give the layers to the devices in order, and whether each device and the host holds its part.
Assignments(g) == {c \in [DOMAIN g.D -> 0 .. Layers(g)] : FoldLeft(LAMBDA n, d : n + c[d], 0, EveryDevice(g)) = Layers(g)}
\* What a device holds as a set of buffers, each once however many parts of the model read it, and the bytes of each.
Runs(count, d) == First(count, d) .. First(count, d) + count[d] - 1
Ends(F, first, last) == IF first /\ last /\ F.tied THEN {"out"} ELSE (IF first THEN {"embed"} ELSE {}) \cup (IF last THEN {"out"} ELSE {})
Drafts(F, ends) == IF "out" \notin ends THEN {} ELSE {"drafter"} \cup (IF "embed" \in ends \/ F.tied THEN {} ELSE {"draftEmbed"})
EndsAndDrafts(F, ends) == ends \cup Drafts(F, ends)
Copies(g, count, used, d) == ({"w"} \X Runs(count, d)) \cup (EndsAndDrafts(g.F, Ends(g.F, d = used[1], d = used[Len(used)])) \X {0})
StageBuffers(g, count, used, d) ==
    (IF g.D[d].host THEN {} ELSE Copies(g, count, used, d) \cup {<<"tables", 0>>}) \cup ({"look", "cache"} \X Runs(count, d))
    \cup {<<"pooled", s>> : s \in {r \in {g.F.reads[l] : l \in Runs(count, d)} \ {0} : r \notin Runs(count, d)}}
    \cup (IF d = used[Len(used)] THEN {<<"draftCache", 0>>} ELSE {})
BytesOf(F, b) == IF b[2] = 0 THEN F[b[1]] ELSE F[b[1]][b[2]]
Holds(g, count, used, h, d) ==
    FoldSet(LAMBDA b, n : n + BytesOf(g.F, b), 0, StageBuffers(g, count, used, d)) + (g.rows + g.F.context) * (g.F.act + g.D[d].coll) + g.D[d].scratch
    + HeadRows(g, d, d = used[Len(used)]) + (IF d = h.carrier THEN h.need ELSE 0)
HeldAll(g, count, used, h) == HostFits(g, h) /\ \A i \in DOMAIN used : Fits(g, used[i], Holds(g, count, used, h, used[i]))
FitsAll(g, count) == HeldAll(g, count, Used(count), HostFor(g, Used(count)))
\* The layers on host devices, and the most layers of another with the most bytes among those that run as many.
MaxOf(set) == IF set = {} THEN 0 ELSE CHOOSE n \in set : \A m \in set : m <= n
Busiest(g, count, used, h, cards, most) ==
    [ok |-> TRUE, host |-> FoldSet(LAMBDA d, n : n + count[d], 0, Range(used) \ cards), k |-> most,
     bytes |-> MaxOf({Holds(g, count, used, h, d) : d \in {e \in cards : count[e] = most}}), from |-> 0]
ScoreWith(g, count, used, cards) == Busiest(g, count, used, HostFor(g, used), cards, MaxOf({count[d] : d \in cards}))
ScoreOf(g, count) == ScoreWith(g, count, Used(count), {d \in Range(Used(count)) : ~g.D[d].host})

\* The search finds a placement wherever one fits and none is better (layer_split.hpp split_layers): no set of devices, cut or order of the
\* walk hides one, though a row of the table keeps one score a cell and stops growing a device's part where it first does not fit.  With
\* shares every layer is placed once and each device is within one layer of its share.
SplitBest(g) ==
    LET got == SplitLayers(g)
        fit == {c \in Assignments(g) : FitsAll(g, c)}
    IN IF g.shares = <<>>
       THEN /\ (got = <<>>) = (fit = {})
            /\ got # <<>> => got \in fit /\ \A c \in fit : ~Less(ScoreOf(g, c), ScoreOf(g, got))
       ELSE /\ SharedOut(g) \in Assignments(g)
            /\ \A d \in DOMAIN g.D : LET sum == Total(g.shares, 1, Len(g.shares)) IN
                  SharedOut(g)[d] * sum - Layers(g) * g.shares[d] \in (1 - sum) .. (sum - 1)
=============================================================================
