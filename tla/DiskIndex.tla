----------------------------- MODULE DiskIndex -----------------------------
(***************************************************************************)
(* The disk tier's index (server/disk_index.hpp): the files on disk as a    *)
(* tree of segments and states, which of them make a history, what of one   *)
(* is missing, and which file may go next.  A history is the sequence of    *)
(* its blocks, and a digest, which names every block below it, is the       *)
(* prefix it is the digest of; a block is one token, so a position is a     *)
(* count of blocks.  An index is the vector of its files.                   *)
(***************************************************************************)
EXTENDS Integers, FiniteSets, SequencesExt

CONSTANTS
    SegmentBlocks,   \* kSegmentTokens, in blocks
    NoBuild,         \* a file of this build's, or one proved its
    NoKey            \* a path without a state

SegmentCounted == SegmentBlocks \in Nat \ {0}

FileAt(k, s, b, r, u, a, p) == [key |-> k, state |-> s, below |-> b, rows |-> r, used |-> u, back |-> a, unproved |-> p]
First(f) == Len(f.below)
End(f) == Len(f.below) + Len(f.rows)
Ends(f) == {f.below \o SubSeq(f.rows, 1, k) : k \in 1 .. Len(f.rows)}
Whole(f) == f.below \o f.rows
Keys(F) == {F[i].key : i \in DOMAIN F}
At(F, key) == CHOOSE i \in DOMAIN F : F[i].key = key
Bytes(f) == IF f.state THEN 1 ELSE Len(f.rows)
TotalBytes(F) == FoldLeft(LAMBDA n, f : n + Bytes(f), 0, F)
Without(F, gone) == SelectSeq(F, LAMBDA f : f.key \notin gone)
Least(S) == CHOOSE i \in S : \A j \in S : i <= j
Most(S) == CHOOSE i \in S : \A j \in S : j <= i

-----------------------------------------------------------------------------
\* The segments that continue history h at block `at`, and how many of their blocks are the history's, of its first n.
Continue(F, h, at, unproved) ==
    {i \in DOMAIN F : ~F[i].state /\ F[i].below = SubSeq(h, 1, at) /\ (F[i].unproved = NoBuild \/ unproved)}
Bad_SharedBlocks(f, h, n) == IF First(f) + Len(f.rows) < n THEN Len(f.rows) ELSE n - First(f)
SharedBlocks(f, h, n) ==
    Most({k \in 0 .. Len(f.rows) : First(f) + k <= n /\ SubSeq(f.rows, 1, k) = SubSeq(h, First(f) + 1, First(f) + k)})
\* Of those that share most, the first, or this build's where the first is not.
Longest(F, C, h, n) ==
    LET most == {i \in C : SharedBlocks(F[i], h, n) > 0 /\ \A j \in C : SharedBlocks(F[j], h, n) <= SharedBlocks(F[i], h, n)}
        own == {i \in most : F[i].unproved = NoBuild}
    IN IF most = {} THEN 0 ELSE IF own # {} /\ F[Least(most)].unproved # NoBuild THEN Least(own) ELSE Least(most)

\* The states of history h at block `at`: this build's last one, or another build's first.
StatesAt(F, h, at, unproved) ==
    {i \in DOMAIN F : F[i].state /\ F[i].below = SubSeq(h, 1, at) /\ (unproved \/ F[i].unproved = NoBuild)}
ChosenState(F, S) ==
    LET own == {i \in S : F[i].unproved = NoBuild}
    IN F[IF own # {} THEN Most(own) ELSE Least(S)].key

\* The pieces of a path from the root: [key, first, end, use].
Pieces(F, h, n, unproved) ==
    LET from[at \in 0 .. n] ==
            LET i == Longest(F, Continue(F, h, at, unproved), h, n)
                k == SharedBlocks(F[i], h, n)
            IN IF at = n \/ i = 0 THEN <<>>
               ELSE <<[key |-> F[i].key, first |-> First(F[i]), end |-> End(F[i]), use |-> at + k]>>
                    \o (IF k < Len(F[i].rows) THEN <<>> ELSE from[at + k])
    IN from[0]
PathOf(F, h, all, state, unproved) ==
    LET length == IF all = <<>> THEN 0 ELSE all[Len(all)].use
        ends == {all[i].end : i \in {j \in DOMAIN all : all[j].use = all[j].end}} \cup {0}
        at == {k \in 0 .. length : StatesAt(F, h, k, unproved) # {}}
        top == IF at = {} THEN 0 ELSE Most(at)
        used == SelectSeq(all, LAMBDA p : p.first < top)
    IN IF ~state THEN [pieces |-> all, length |-> length, whole |-> Most(ends), state |-> NoKey]
       ELSE [pieces |-> [i \in DOMAIN used |-> IF i = Len(used) /\ used[i].use > top THEN [used[i] EXCEPT !.use = top] ELSE used[i]],
             length |-> top, whole |-> IF Most(ends) < top THEN Most(ends) ELSE top,
             state |-> IF at = {} THEN NoKey ELSE ChosenState(F, StatesAt(F, h, top, unproved))]
Path(F, h, most, state, unproved) == PathOf(F, h, Pieces(F, h, IF most < Len(h) THEN most ELSE Len(h), unproved), state, unproved)

\* What of history h is not on disk, each range a segment to write, cut at every multiple of SegmentBlocks.
Bad_WriteFrom(p, n) == p.length
WriteFrom(p, n) == IF p.length >= n THEN n ELSE p.whole
Missing(F, h, n) ==
    LET cut(at) == IF (at \div SegmentBlocks + 1) * SegmentBlocks < n THEN (at \div SegmentBlocks + 1) * SegmentBlocks ELSE n
        ranges[at \in 0 .. n] == IF at = n THEN <<>> ELSE <<[first |-> at, end |-> cut(at)]>> \o ranges[cut(at)]
    IN ranges[WriteFrom(Path(F, h, n, FALSE, FALSE), n)]
HasState(F, h, at) == StatesAt(F, h, at, FALSE) # {}

\* The unproved files that file f of this build's makes needless.
Covered(F, f) ==
    {F[i].key : i \in {j \in DOMAIN F :
        /\ F[j].unproved # NoBuild
        /\ \/ F[j].state /\ (IF f.state THEN F[j].below = f.below ELSE F[j].below \in Ends(f))
           \/ ~F[j].state /\ ~f.state /\ Ends(F[j]) \subseteq Ends(f)}}

\* The files a path from the root reaches, and the others.
Reached(F) ==
    LET grow[n \in 0 .. Len(F)] ==
            IF n = 0 THEN {<<>>} ELSE grow[n - 1] \cup UNION {Ends(F[i]) : i \in {j \in DOMAIN F : F[j].below \in grow[n - 1]}}
    IN {i \in DOMAIN F : F[i].below \in grow[Len(F)]}
Unreachable(F, states) == {F[i].key : i \in {j \in DOMAIN F \ Reached(F) : states \/ ~F[j].state}}

-----------------------------------------------------------------------------
\* The tree's links, as link makes them: P is the file each stands on, C each with all it stands on.
Parents(F) ==
    [i \in DOMAIN F |->
        LET holds == {s \in DOMAIN F \ {i} : F[i].below \in Ends(F[s])}
            exact == {s \in holds : Whole(F[s]) = F[i].below}
        IN IF holds = {} THEN 0 ELSE IF exact # {} THEN Most(exact) ELSE Least(holds)]
Chains(P) ==
    LET up[n \in 0 .. Len(P)] ==
            [i \in DOMAIN P |-> IF n = 0 THEN {i} ELSE up[n - 1][i] \cup {P[j] : j \in {k \in up[n - 1][i] : P[k] # 0}}]
    IN up[Len(P)]
On(P, i) == {j \in DOMAIN P : P[j] = i}
Subtree(C, i) == {j \in DOMAIN C : i \in C[j]}
\* What lies beyond a segment is what stands on it; beyond a state, also what stands on its segment at or above its position.
Beyond(F, P, C, i) ==
    Subtree(C, i) \cup
    (IF F[i].state /\ P[i] # 0
     THEN UNION {Subtree(C, g) : g \in {h \in On(P, P[i]) \ {i} : First(F[h]) >= End(F[i])}} ELSE {})
CameBack(F, P, C, i) == \E j \in Beyond(F, P, C, i) : F[j].back
\* A state with states of its history both below and above it.
Under(F, P, C, f, g) ==
    /\ F[f].state /\ F[g].state /\ f # g /\ P[f] # 0
    /\ \/ P[f] = P[g] /\ End(F[f]) < End(F[g])
       \/ \E t \in C[g] \ {g} : P[f] = P[t] /\ End(F[f]) <= First(F[t])
Between(F, P, C, i) == F[i].state /\ (\E f \in DOMAIN F : Under(F, P, C, f, i)) /\ (\E g \in DOMAIN F : Under(F, P, C, i, g))

\* How a file stands for its removal: a state between others first, then what did not come back; the oldest first, by its
\* own use or by the newest beyond it, and of those the one that ends highest.
Standing(F, P, C, i) ==
    LET between == Between(F, P, C, i)
        fresh == Most({F[j].used : j \in Beyond(F, P, C, i)})
    IN [rank |-> IF between THEN 0 ELSE IF CameBack(F, P, C, i) THEN 2 ELSE 1,
        age |-> IF between THEN F[i].used ELSE fresh, fresh |-> fresh, back |-> CameBack(F, P, C, i), end |-> End(F[i]), at |-> i]
Sooner(x, y) ==
    \/ x.rank < y.rank
    \/ x.rank = y.rank /\ x.age < y.age
    \/ x.rank = y.rank /\ x.age = y.age /\ (x.end > y.end \/ (x.end = y.end /\ x.at < y.at))
\* The files that may go: nothing stands on them and nothing pins them.
MayGo(F, P, pinned) == {i \in DOMAIN F : On(P, i) = {} /\ F[i].key \notin pinned}
\* The file that goes next, as the set of its standing, empty where none may.
Victim(F, before, pinned) ==
    LET P == Parents(F)
        C == Chains(P)
        may == {s \in {Standing(F, P, C, i) : i \in MayGo(F, P, pinned)} : s.fresh < before}
    IN {x \in may : \A y \in may \ {x} : Sooner(x, y)}
=============================================================================
