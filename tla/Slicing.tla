------------------------------- MODULE Slicing -------------------------------
(***************************************************************************)
(* model/slicing.hpp and next_slice (server/policy.hpp): the rows of a       *)
(* prompt's next slice on a pipelined split, the first of the equal cut of   *)
(* what remains that the stages' measured cost lines finish first.  Times    *)
(* are whole numbers.                                                        *)
(*                                                                           *)
(* A question q = [at, left, stages, lines, ubatch, flying, alone, capped,   *)
(* others]: lines[b] the stages' lines [fixed, row] of depth band b, <<>>    *)
(* where a stage has none; a flight [ran, own, from, rows, predicted].  A    *)
(* cut c = [at, rows, stages, cap, backlog, gap, bands, floor], its gap      *)
(* NoGap where none binds and its bands counted from the slice's own.        *)
(***************************************************************************)
EXTENDS Integers, FiniteSets, SequencesExt

CONSTANTS
    BandTokens,     \* kBandTokens
    SliceFloor,     \* kSliceFloor
    MaxStepGap      \* kMaxStepGapMs

NoGap == -1
Least(set) == CHOOSE n \in set : \A m \in set : n <= m
Most(set) == CHOOSE n \in set : \A m \in set : m <= n
DepthBand(depth) == Cardinality({b \in 0 .. depth : 2 ^ b <= depth \div BandTokens})
Equal(rows, n) == (rows + n - 1) \div n
Cost(line, rows) == line.fixed + rows * line.row

\* pipeline_add and pipeline_run: each stage's finish once a pass that takes times[s] runs through the stages after the first `ran`.
Times(lines, rows) == [s \in DOMAIN lines |-> Cost(lines[s], rows)]
Bad_Pipeline(finish, times, ran) == [s \in DOMAIN finish |-> IF s > ran THEN finish[s] + times[s] ELSE finish[s]]
Pipeline(finish, times, ran) ==
    FoldLeft(LAMBDA f, s : [f EXCEPT ![s] = Most({0, f[s]} \cup (IF s > ran + 1 THEN {f[s - 1]} ELSE {})) + times[s]],
             finish, [i \in 1 .. Len(finish) - ran |-> ran + i])

-----------------------------------------------------------------------------
\* prompt_slice.  The bands the cut reads, one without lines taking those of the band below it; the cut without prices where its own or its middle has none.
BandsOf(q) == [b \in 0 .. DepthBand(q.at + q.left - 1) - DepthBand(q.at) |-> q.lines[DepthBand(q.at) + b]]
Priced(q, bands) == bands[0] # <<>> /\ bands[DepthBand(q.at + q.left \div 2) - DepthBand(q.at)] # <<>>
Filled(bands) == [b \in DOMAIN bands |-> bands[Most({c \in 0 .. b : bands[c] # <<>>})]]
Unpriced(rows, cap, stages) == Least({rows, cap, Most({Least({SliceFloor, cap}), Equal(rows, 2 * stages)})})
Floor(rows, cap) == Least({rows, cap, SliceFloor})

\* No cut of n slices ends before every stage has run each of them.
Bad_NoSooner(c, n) == Most({0} \cup {c.backlog[s] + n * Most({c.bands[b][s].fixed : b \in DOMAIN c.bands}) + c.rows * Most({c.bands[b][s].row : b \in DOMAIN c.bands}) : s \in 1 .. c.stages})
NoSooner(c, n) == Most({0} \cup {c.backlog[s] + n * Least({c.bands[b][s].fixed : b \in DOMAIN c.bands}) + c.rows * Least({c.bands[b][s].row : b \in DOMAIN c.bands}) : s \in 1 .. c.stages})
LaterBy(c, r) == Pipeline(c.backlog, Times(c.bands[0], r), 0)[c.stages] - c.backlog[c.stages]
\* The slices of a cut of r rows, and when the last of them leaves the last stage.
SliceAt(c, r, i) == Least({r, c.rows - (i - 1) * r})
SliceTimes(c, r, i) == Times(c.bands[DepthBand(c.at + (i - 1) * r) - DepthBand(c.at)], SliceAt(c, r, i))
Finish(c, r) == FoldLeft(LAMBDA f, i : Pipeline(f, SliceTimes(c, r, i), 0), c.backlog, [i \in 1 .. Equal(c.rows, r) |-> i])[c.stages]
Tried(w, r, finish) == IF w.best < 0 \/ finish < w.best THEN [w EXCEPT !.best = finish, !.rows = r, !.last = r] ELSE [w EXCEPT !.last = r]
\* One round of the walk over the cuts, with the slice r of n equal ones.
WalkCut(c, w, r) ==
    IF w.over \/ (w.best >= 0 /\ NoSooner(c, Equal(c.rows, r)) >= w.best) \/ (c.gap # NoGap /\ r < c.floor) THEN [w EXCEPT !.over = TRUE]
    ELSE IF r = w.last THEN w
    ELSE IF c.gap # NoGap /\ LaterBy(c, r) > c.gap THEN [w EXCEPT !.last = r]
    ELSE Tried(w, r, Finish(c, r))
Walked(c) ==
    FoldLeft(LAMBDA w, n : WalkCut(c, w, Equal(c.rows, n)), [best |-> -1, rows |-> 0, last |-> 0, over |-> FALSE],
             [i \in 1 .. c.rows - Equal(c.rows, c.cap) + 1 |-> Equal(c.rows, c.cap) + i - 1])
SliceOf(c, w) == IF w.best < 0 THEN c.floor ELSE Least({c.rows, w.rows})
CutOf(q, backlog, gap) ==
    [at |-> q.at, rows |-> q.left, stages |-> q.stages, cap |-> q.ubatch, backlog |-> backlog, gap |-> gap, bands |-> Filled(BandsOf(q)), floor |-> Floor(q.left, q.ubatch)]
PromptSlice(q, backlog, gap) ==
    IF ~Priced(q, BandsOf(q)) THEN Unpriced(q.left, q.ubatch, q.stages) ELSE SliceOf(CutOf(q, backlog, gap), Walked(CutOf(q, backlog, gap)))

-----------------------------------------------------------------------------
\* next_slice: what the passes in flight leave each stage, and whether the gap binds, which it does only where each of them is priced.
Known(f, stages) == f.own \/ (Len(f.predicted) = stages /\ \A s \in f.ran + 1 .. stages : f.predicted[s] > 0)
Behind(q, backlog, f) ==
    IF f.own THEN IF q.lines[DepthBand(f.from)] # <<>> THEN Pipeline(backlog, Times(q.lines[DepthBand(f.from)], f.rows), f.ran) ELSE backlog
    ELSE IF Known(f, q.stages) THEN Pipeline(backlog, f.predicted, f.ran) ELSE backlog
Backlog(q) == FoldLeft(LAMBDA b, f : Behind(q, b, f), [s \in 1 .. q.stages |-> 0], q.flying)
Bad_GapOf(q) == IF q.capped THEN MaxStepGap ELSE NoGap
GapOf(q) == IF q.capped /\ \A i \in DOMAIN q.flying : Known(q.flying[i], q.stages) THEN MaxStepGap ELSE NoGap
Whole(q) == q.stages < 2 \/ (~q.capped /\ q.others) \/ (~q.alone /\ q.lines[DepthBand(q.at + q.left \div 2)] = <<>>)
NextSlice(q) == IF Whole(q) THEN Least({q.left, q.ubatch}) ELSE PromptSlice(q, Backlog(q), GapOf(q))

-----------------------------------------------------------------------------
\* The reference: a cut's slices run the stages as a grid of works, each after the one before it on its stage and the same slice's on the stage
\* before, so the last ends after the longest path to it, which enters at some stage after that stage's backlog.  A path is named by the stage it
\* leaves each slice at.
Paths(stages, n) == {e \in [1 .. n -> 1 .. stages] : e[n] = stages /\ \A i \in 1 .. n - 1 : e[i] <= e[i + 1]}
PathTime(c, r, e, s0) ==
    c.backlog[s0] + FoldLeft(LAMBDA t, i : t + FoldLeft(LAMBDA u, s : u + SliceTimes(c, r, i)[s], 0, [k \in 1 .. e[i] - (IF i = 1 THEN s0 ELSE e[i - 1]) + 1 |-> (IF i = 1 THEN s0 ELSE e[i - 1]) + k - 1]),
                             0, [i \in DOMAIN e |-> i])
LongestPath(c, r) == Most(UNION {{PathTime(c, r, e, s0) : s0 \in 1 .. e[1]} : e \in Paths(c.stages, Equal(c.rows, r))})
FirstLeaves(c, r) == Most({c.backlog[s0] + FoldLeft(LAMBDA t, s : t + SliceTimes(c, r, 1)[s], 0, [k \in 1 .. c.stages - s0 + 1 |-> s0 + k - 1]) : s0 \in 1 .. c.stages})
Allowed(c) == {r \in {Equal(c.rows, n) : n \in Equal(c.rows, c.cap) .. c.rows} : c.gap = NoGap \/ (r >= c.floor /\ FirstLeaves(c, r) - c.backlog[c.stages] <= c.gap)}
BestCut(c, r) == IF Allowed(c) = {} THEN r = c.floor ELSE r \in Allowed(c) /\ \A o \in Allowed(c) : LongestPath(c, r) < LongestPath(c, o) \/ (LongestPath(c, r) = LongestPath(c, o) /\ o <= r)

\* A slice makes progress and is within a pass; and no equal cut that the gap allows ends sooner, though the walk over the cuts stops at the first
\* bound that cannot beat the best found (slicing.hpp prompt_slice).  While every pass in flight is priced a capped slice leaves the last stage
\* within the gap or is no longer than the floor.
SliceBest(q) ==
    LET n == NextSlice(q)
        c == CutOf(q, Backlog(q), IF q.capped /\ \A i \in DOMAIN q.flying : q.flying[i].own \/ \A s \in q.flying[i].ran + 1 .. q.stages : q.flying[i].predicted[s] > 0 THEN MaxStepGap ELSE NoGap)
    IN /\ n \in 1 .. Least({q.left, q.ubatch})
       /\ ~Whole(q) /\ Priced(q, BandsOf(q)) => BestCut(c, n)
=============================================================================
