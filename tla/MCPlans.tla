------------------------------ MODULE MCPlans ------------------------------
(***************************************************************************)
(* What the server plans; `ask` says what.  The disk tier over its index:   *)
(* two histories that part inside a segment, over a cap that holds one and  *)
(* a half, after a server of this build or of another.  Admission: two      *)
(* uncapped requests whose texts share their first block and part later, a  *)
(* capped one of its own text, and a turn that goes on from the first's.    *)
(* Or one question: a prompt's next slice, or a chunk's rows.               *)
(***************************************************************************)
EXTENDS DiskTier, TLC

CONSTANTS t1, t2, B
Forked == {<<t1, t2>>, <<t1, t1>>}
OneBack == {<<t1, t1>>}
FileOf(k, state, below, rows, p) == [key |-> k, state |-> state, below |-> below, rows |-> rows, used |-> 0, back |-> FALSE, unproved |-> p]
LeftFiles == {<<>>,
           <<FileOf(1, FALSE, <<>>, <<t1, t2>>, B), FileOf(2, TRUE, <<t1>>, <<>>, B), FileOf(3, TRUE, <<t1, t2>>, <<>>, B)>>,
           <<FileOf(1, FALSE, <<>>, <<t1>>, NoBuild), FileOf(2, FALSE, <<t1>>, <<t2>>, NoBuild), FileOf(3, FALSE, <<>>, <<t1, t1>>, B)>>}

ASSUME TierAssumption == SegmentCounted /\ DiskTierCounted

CONSTANTS Requests, Text, Prompt, Uncapped, BT, Pool, Growth, MaxSeqs, HostCap, Ubatch, Slots, Turn, Cancels
MCText == ("a" :> <<1, 2, 3, 4, 5, 6, 7, 8>>) @@ ("b" :> <<1, 2, 3, 7, 8, 9, 9, 9>>) @@ ("c" :> <<1, 2, 3, 4, 5, 6, 2>>)
MCPrompt == ("a" :> 3) @@ ("b" :> 3) @@ ("c" :> 5)

VARIABLES ask, s, flights, pc, broken
room == <<s, flights, pc, broken>>
A == INSTANCE Admission
ASSUME RoomAssumption == A!CacheRoomCounted /\ A!AdmissionCounted

P == INSTANCE Slicing WITH BandTokens <- 2, SliceFloor <- 2, MaxStepGap <- 9
T == INSTANCE Prices WITH PieceStep <- 2

-----------------------------------------------------------------------------
\* What remains of a prompt over two or three stages, priced in some depth bands, behind its own slice, a priced pass or an unpriced one.
Line(fixed, row) == [fixed |-> fixed, row |-> row]
StageLines(stages) ==
    {<<>>} \cup (IF stages = 2 THEN {<<Line(1, 2), Line(2, 1)>>, <<Line(5, 1), Line(1, 1)>>} ELSE {<<Line(1, 2), Line(1, 1), Line(2, 2)>>, <<Line(4, 1), Line(1, 3), Line(1, 1)>>})
Flight(own, ran, predicted) == [own |-> own, ran |-> ran, from |-> 0, rows |-> 1, predicted |-> predicted]
Flying(stages) ==
    {<<>>, <<Flight(TRUE, 0, <<>>), Flight(FALSE, 1, [i \in 1 .. stages |-> i + 1])>>, <<Flight(FALSE, 0, [i \in 1 .. stages |-> 5 - i]), Flight(TRUE, 1, <<>>)>>,
     <<Flight(FALSE, 1, [i \in 1 .. stages |-> i - 1]), Flight(FALSE, 0, [i \in 1 .. stages |-> i - 1])>>}
SliceTopics == UNION {[kind : {"slice?"}, stages : {n}, lines : [0 .. 2 -> StageLines(n)]] : n \in {2, 3}} \cup {[kind |-> "slice?", stages |-> 1, lines |-> [b \in 0 .. 2 |-> <<>>]]}
SliceAsks(stages, lines) ==
    {[at |-> at, left |-> left, stages |-> stages, lines |-> lines, ubatch |-> ubatch, flying |-> flying, alone |-> who # "beside", capped |-> capped, others |-> who = "others"] :
        at \in {0, 1}, left \in {2, 5}, ubatch \in {3, 5}, flying \in Flying(stages), capped \in BOOLEAN, who \in {"alone", "beside", "others"}}

\* A stage whose slices of one to five steps cost more the more rows they have, searched for a target from what a shallower band taught.
SearchTopics == [kind : {"search?"}, costs : {c \in [1 .. 5 -> {1, 3, 5, 8, 12}] : \A n \in 1 .. 4 : c[n] <= c[n + 1]}]
SearchAsks(costs) == {[costs |-> costs, target |-> target, most |-> most, band |-> 1, below |-> below] : target \in {2, 4, 7, 9}, most \in {1, 5, 8, 9}, below \in SUBSET {1, 2, 5}}

-----------------------------------------------------------------------------
Tier == [kind |-> "tier"]
Serve == [kind |-> "admission"]
AskInit ==
    /\ Init /\ A!Init /\ ask \in {Tier, Serve} \cup SliceTopics \cup SearchTopics
    /\ ask # Tier => tier.left = <<>>
TierSteps == ask = Tier /\ Next /\ UNCHANGED <<ask, room>>
Rounds == ask = Serve /\ A!Next /\ UNCHANGED <<ask, vars>>
Pose ==
    /\ UNCHANGED <<vars, room>>
    /\ \/ ask.kind = "slice?" /\ \E q \in SliceAsks(ask.stages, ask.lines) : ask' = [kind |-> "slice", q |-> q]
       \/ ask.kind = "search?" /\ \E q \in SearchAsks(ask.costs) : ask' = [kind |-> "search", q |-> q]
Rest == ask.kind \in {"slice", "search"} /\ UNCHANGED <<vars, room, ask>>
AskNext == TierSteps \/ Rounds \/ Pose \/ Rest
\* Of Admission, the fairness its module states; the tier and a question have none.
AskSpec == AskInit /\ [][AskNext]_<<vars, room, ask>> /\ A!Fairness

\* No equal cut of a prompt ends sooner than the one its next slice is of (slicing.hpp), and the search for a chunk's rows comes to the
\* most its target allows (policy.hpp).
PlansBest ==
    /\ ask.kind = "slice" => P!SliceBest(ask.q)
    /\ ask.kind = "search" => T!SearchSettles(ask.q, 6)
\* The cache's blocks, donors and host copies are their holders' (cache.hpp, history.hpp).
CacheSound == ask = Serve => A!CacheSound
\* What was promised is there, and no round is empty (cache.hpp, policy.hpp).
RoomKept == ask = Serve => A!RoomKept
\* Age protects (scheduler.hpp grow, policy.hpp Growth).
OldestKeeps == A!OldestKeeps
\* Every request sent ends, at the pool's edge too (scheduler.hpp, policy.hpp).
RequestsEnd == A!RequestsEnd
=============================================================================
