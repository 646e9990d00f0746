------------------------------ MODULE CacheRoom ------------------------------
(***************************************************************************)
(* The prefix cache as functions of its state: who holds which blocks of    *)
(* the device pool, what memory serves a history (server/cache.hpp), which  *)
(* holders stay longest, who gives up blocks for whom                        *)
(* (server/policy.hpp make_room), and the host tier a donor the devices      *)
(* evict goes to.  One pool, a model that keeps no recurrent state, and no   *)
(* disk tier.  A token is a symbol that stands for its id and for how its    *)
(* row was computed, so rows computed alike are equal symbols, and a history *)
(* is the prefix of the text of the request that made it.                    *)
(*                                                                           *)
(* The state S = [req, donors, host, lru, pin]: the requests, the donors and *)
(* the host copies in the order the code keeps them, the ids of both in the  *)
(* order of their last use, and the copy being promoted.                     *)
(***************************************************************************)
EXTENDS Integers, FiniteSets, SequencesExt

CONSTANTS
    Requests,
    Text,       \* the whole history each request could have, prompt and reply
    Prompt,     \* its prompt's length
    Uncapped,   \* the requests without a max_tokens
    BT,         \* tokens of a block
    Pool,       \* blocks of the device pool
    Growth,     \* Growth::tokens
    MaxSeqs,    \* requests active, and donors kept
    HostCap     \* the host tier, in blocks

\* What the constants must be.
CacheRoomCounted ==
    /\ BT \in Nat \ {0} /\ Pool \in Nat \ {0} /\ Growth \in Nat \ {0} /\ MaxSeqs \in Nat \ {0} /\ HostCap \in Nat
    /\ Uncapped \subseteq Requests
    /\ \A r \in Requests : Prompt[r] \in 1 .. Len(Text[r]) - 1 /\ Len(Text[r]) <= Pool * BT

Least(a, b) == IF a < b THEN a ELSE b
Whole(n) == (n \div BT) * BT
BlocksFor(n) == Least((n + BT - 1) \div BT, Pool)
AtId(seq, id) == CHOOSE i \in DOMAIN seq : seq[i].id = id
Ids(seq) == {seq[i].id : i \in DOMAIN seq}
Common(a, b) == CHOOSE n \in 0 .. Len(a) :
    /\ n <= Len(b) /\ SubSeq(a, 1, n) = SubSeq(b, 1, n)
    /\ n = Len(a) \/ n = Len(b) \/ a[n + 1] # b[n + 1]
Agree == [r \in Requests |-> [o \in Requests |-> Common(Text[r], Text[o])]]

-----------------------------------------------------------------------------
\* A request's history, what it reserves as it is admitted, and whether it lacks only its last token.
History(S, r) == Prompt[r] + S.req[r].gen
Entry(S, r) == BlocksFor(IF r \in Uncapped THEN History(S, r) + Growth ELSE Len(Text[r]))
Decoding(S, r) == S.req[r].gen > 0 /\ S.req[r].len + 1 = History(S, r)
Active(S) == {r \in Requests : S.req[r].place = "active"}
Held(S, r) == Len(S.req[r].blocks)

\* The blocks taken, those a set of donors and requests holds alone, and the room: what is free and not promised.
DonorBlocks(S, ids) == UNION {Range(S.donors[i].blocks) : i \in {j \in DOMAIN S.donors : S.donors[j].id \in ids}}
ReqBlocks(S, rs) == UNION {Range(S.req[r].blocks) : r \in rs}
InUse(S) == DonorBlocks(S, Ids(S.donors)) \cup ReqBlocks(S, Requests)
FreeBlocks(S) == (1 .. Pool) \ InUse(S)
Freed(S, ids, rs, kept) ==
    (DonorBlocks(S, ids) \cup ReqBlocks(S, rs)) \ (DonorBlocks(S, Ids(S.donors) \ ids) \cup ReqBlocks(S, Requests \ rs) \cup kept)
Bad_Promised(S, r) == IF S.req[r].len > 0 THEN 0 ELSE S.req[r].need
Promised(S, r) == IF S.req[r].need > Held(S, r) THEN S.req[r].need - Held(S, r) ELSE 0
AllPromised(S) == FoldSet(LAMBDA r, n : n + Promised(S, r), 0, Active(S))
Room(S) == IF AllPromised(S) > Cardinality(FreeBlocks(S)) THEN 0 ELSE Cardinality(FreeBlocks(S)) - AllPromised(S)

-----------------------------------------------------------------------------
\* What a donor or a host copy holds of the first n tokens of r's text, in whole blocks.
Shared(e, r, n) == Whole(Least(Agree[r][e.of], Least(n, e.len)))
\* The most rows below n that another holder than `other` has.
HeldBelow(S, r, n, other) ==
    LET at == {Shared(S.donors[i], r, Whole(n)) : i \in {j \in DOMAIN S.donors : S.donors[j].id # other}}
              \cup {Shared(S.host[i], r, Whole(n)) : i \in {j \in DOMAIN S.host : S.host[j].id # other}}
    IN IF at = {} THEN 0 ELSE CHOOSE n1 \in at : \A n2 \in at : n2 <= n1
\* The one question for reuse: the longest share, the newest donor of equals, a host copy only past every donor.
Bad_Served(S, r, skip) ==
    LET donor(b, e) == IF e.id \notin skip /\ Agree[r][e.of] > 0 /\ Least(e.len, Agree[r][e.of]) >= b.n THEN [kind |-> "donor", id |-> e.id, n |-> Least(e.len, Agree[r][e.of])] ELSE b
    IN FoldLeft(donor, [kind |-> "none", id |-> 0, n |-> 0], S.donors)
Served(S, r, skip) ==
    LET n == History(S, r) - 1
        donor(b, e) == IF e.id \notin skip /\ Shared(e, r, n) > 0 /\ Shared(e, r, n) >= b.n THEN [kind |-> "donor", id |-> e.id, n |-> Shared(e, r, n)] ELSE b
        host(b, e) == IF e.id \notin skip /\ Shared(e, r, n) > b.n THEN [kind |-> "host", id |-> e.id, n |-> Shared(e, r, n)] ELSE b
    IN FoldLeft(host, FoldLeft(donor, [kind |-> "none", id |-> 0, n |-> 0], S.donors), S.host)

\* The one ranking of what stays: 0 where its going loses nothing, 1 a conversation that did not come back, 2 one that did; then the last use.
Class(S, e) ==
    IF e.superseded \/ (Whole(e.len) > 0 /\ HeldBelow(S, e.of, Whole(e.len), e.id) >= Whole(e.len)) THEN 0 ELSE IF e.back THEN 2 ELSE 1
UsedAt(S, id) == CHOOSE i \in DOMAIN S.lru : S.lru[i] = id
Rank(S, e) == [cls |-> Class(S, e), at |-> UsedAt(S, e.id)]
Before(a, b) == a.cls < b.cls \/ (a.cls = b.cls /\ a.at < b.at)
ByRank(S, seq) == SortSeq([i \in DOMAIN seq |-> [id |-> seq[i].id, rank |-> Rank(S, seq[i])]], LAMBDA a, b : Before(a.rank, b.rank))
RankedIds(sorted) == [i \in DOMAIN sorted |-> sorted[i].id]
Ranked(S) == RankedIds(ByRank(S, S.donors))

-----------------------------------------------------------------------------
\* make_room.  A plan t takes donors and pauses requests, each with or without the donor its history becomes.  The context
\* g = [S, keep, kept, take, also]: the donor that is forked or taken back, what stays of it, and the requests that go in any case.
NoPlan == [enough |-> FALSE, wait |-> FALSE, donors |-> <<>>, paused |-> <<>>]
NoGain(S) == [S |-> S, keep |-> 0, kept |-> 0, take |-> FALSE, also |-> {}]
Kept(g, t) == IF g.kept > 0 /\ g.keep \in Range(t.donors)
              THEN LET b == g.S.donors[AtId(g.S.donors, g.keep)].blocks IN {b[i] : i \in {j \in DOMAIN b : j <= g.kept \div BT}} ELSE {}
Gain(g, t) ==
    LET go == {t.paused[i].r : i \in {j \in DOMAIN t.paused : t.paused[j].with}}
        donors == Range(t.donors) \ (IF g.take THEN {g.keep} ELSE {})
    IN FoldSeq(LAMBDA p, n : n + Promised(g.S, p.r), 0, t.paused)
       + Cardinality(Freed(g.S, donors, go \cup g.also, Kept(g, t))) - Cardinality(Freed(g.S, {}, g.also, {}))
Fits(g, t, free, need) == need <= free + (IF t.donors = <<>> /\ t.paused = <<>> THEN 0 ELSE Gain(g, t))
Victims(order, keep, first) ==
    LET rest == SelectSeq(order, LAMBDA d : d # keep)
    IN IF keep \notin Range(order) THEN order ELSE IF first THEN <<keep>> \o rest ELSE rest \o <<keep>>

\* A plan with one more donor, and with one more pause, where it is not enough yet.
WithDonor(g, t, d, free, need) ==
    LET u == [t EXCEPT !.donors = Append(@, d)] IN IF t.enough THEN t ELSE [u EXCEPT !.enough = Fits(g, u, free, need)]
Bare(t, r) == [t EXCEPT !.paused = Append(@, [r |-> r, with |-> FALSE])]
WithPause(g, t, r, kept, flying, free, need) ==
    LET u == [t EXCEPT !.paused = Append(@, [r |-> r, with |-> TRUE]), !.wait = @ \/ flying]
    IN IF t.enough THEN t
       ELSE IF kept = 0 \/ Fits(g, Bare(t, r), free, need)
            THEN [Bare(t, r) EXCEPT !.wait = @ \/ flying, !.enough = Fits(g, Bare(t, r), free, need)]
       ELSE [u EXCEPT !.enough = Fits(g, u, free, need)]
\* A donor that frees nothing beside the other victims goes back, the last taken first.
Without(t, d) == [t EXCEPT !.donors = SelectSeq(@, LAMBDA x : x # d)]
Bad_PutBack(g, t) == IF t.enough THEN [t EXCEPT !.donors = SelectSeq(@, LAMBDA d : Freed(g.S, {d}, {}, {}) # {})] ELSE NoPlan
PutBack(g, t) ==
    IF t.enough THEN FoldLeft(LAMBDA u, d : IF Gain(g, Without(u, d)) = Gain(g, u) THEN Without(u, d) ELSE u, t, Reverse(t.donors))
    ELSE NoPlan
\* later: the requests growth may pause, the latest admitted first, [r, kept, flying].
MakeRoom(g, order, first, later, free, need) ==
    LET start == [NoPlan EXCEPT !.enough = Fits(g, NoPlan, free, need)]
        donors == FoldLeft(LAMBDA t, d : WithDonor(g, t, d, free, need), start, Victims(order, g.keep, first))
    IN PutBack(g, FoldLeft(LAMBDA t, h : WithPause(g, t, h.r, h.kept, h.flying, free, need), donors, later))

-----------------------------------------------------------------------------
\* The host tier: what it holds, and whether a copy of n tokens of this rank would be kept and what goes for it.
Bytes(n) == n \div BT
HostHeld(S) == FoldSeq(LAMBDA h, n : n + Bytes(h.len), 0, S.host)
Touch(S, id) == [S EXCEPT !.lru = Append(SelectSeq(@, LAMBDA x : x # id), id)]
Now(S) == Len(S.lru) + 1
HostAfter(S, ids) == FoldSeq(LAMBDA h, n : IF h.id \in ids THEN n ELSE n + Bytes(h.len), 0, S.host)
HostVictims(S, rank) == RankedIds(SelectSeq(ByRank(S, SelectSeq(S.host, LAMBDA h : h.id # S.pin)), LAMBDA v : Before(v.rank, rank)))
HostDrops(S, n, victims) ==
    FoldLeft(LAMBDA go, id : IF HostAfter(S, go) + Bytes(n) > HostCap THEN go \cup {id} ELSE go, {}, victims)
HostPlan(S, n, rank, short, drops) ==
    [why |-> IF HostAfter(S, drops) + Bytes(n) > HostCap
             THEN IF \E i \in DOMAIN S.host : S.host[i].id # S.pin /\ ~Before(Rank(S, S.host[i]), rank) THEN "outranked" ELSE "room"
             ELSE IF short THEN "memory" ELSE "kept",
     drops |-> drops]
HostRoom(S, n, rank, short) ==
    IF Bytes(n) > HostCap THEN [why |-> "larger", drops |-> {}] ELSE HostPlan(S, n, rank, short, HostDrops(S, n, HostVictims(S, rank)))
DropHost(S, ids) == [S EXCEPT !.host = SelectSeq(@, LAMBDA h : h.id \notin ids)]

\* write_back: the copy already there renewed, or room made by rank and a new copy, still being written.
SameCopies(S, d) == {i \in DOMAIN S.host : S.host[i].id = d.onHost \/ (S.host[i].len = Whole(d.len) /\ Agree[d.of][S.host[i].of] >= Whole(d.len))}
Renewed(S, d, i) ==
    LET h == [S.host[i] EXCEPT !.superseded = FALSE, !.back = @ \/ d.back]
    IN Touch([S EXCEPT !.host = SelectSeq(@, LAMBDA x : x.id # h.id) \o <<h>>], h.id)
Copied(S, d, plan) ==
    LET T == IF plan.why \in {"memory", "room", "larger"} THEN S ELSE DropHost(S, plan.drops)
    IN IF plan.why # "kept" THEN T
       ELSE [T EXCEPT !.host = Append(@, [id |-> d.id, of |-> d.of, len |-> Whole(d.len), back |-> d.back, superseded |-> FALSE, copying |-> TRUE])]
Bad_WriteBack(S, d, short) ==
    IF HostCap = 0 \/ d.superseded \/ Whole(d.len) = 0 THEN S ELSE Copied(S, d, [why |-> "kept", drops |-> {}])
WriteBack(S, d, short) ==
    IF HostCap = 0 \/ d.superseded \/ Whole(d.len) = 0 THEN S
    ELSE IF SameCopies(S, d) # {} THEN Renewed(S, d, CHOOSE i \in SameCopies(S, d) : \A j \in SameCopies(S, d) : i <= j)
    ELSE Copied(S, d, HostRoom(S, Whole(d.len), [cls |-> IF d.back THEN 2 ELSE 1, at |-> UsedAt(S, d.id)], short))
\* Ids no holder has any more leave the order of use.
Swept(S) == [S EXCEPT !.lru = SelectSeq(@, LAMBDA id : id \in Ids(S.donors) \cup Ids(S.host))]
Dropped(S, id) == Swept([S EXCEPT !.donors = SelectSeq(@, LAMBDA d : d.id # id)])
DropDonor(S, id, evicted, short) == Dropped(IF evicted THEN WriteBack(S, S.donors[AtId(S.donors, id)], short) ELSE S, id)
\* Several donors given up, from the back of the list.
Evict(S, ids, short) == FoldRight(LAMBDA d, T : IF d.id \in ids THEN DropDonor(T, d.id, TRUE, short) ELSE T, S.donors, S)
\* The donor count gives up the lowest ranked until at most n stay.
ToCount(S, n, short) ==
    FoldLeft(LAMBDA T, k : IF Len(T.donors) > n THEN DropDonor(T, Ranked(T)[1], TRUE, short) ELSE T, S, S.donors)

\* An id no holder has; only whether two are the same matters, so the least will do.
FreshId(S) ==
    CHOOSE n \in 1 .. Len(S.donors) + Len(S.host) + 2 * Cardinality(Requests) + 1 :
        LET used == Ids(S.donors) \cup Ids(S.host) \cup {S.req[r].donor : r \in Requests} \cup {S.req[r].pausedAs : r \in Requests}
        IN n \notin used /\ \A m \in 1 .. n - 1 : m \in used
\* n blocks of the free ones, the lowest.
TakeBlocks(free, n) == SubSeq(SetToSortSeq(free, LAMBDA a, b : a < b), 1, n)
AddDonor(S, d) == Touch([S EXCEPT !.donors = Append(@, d)], d.id)

\* promote: a host copy back on the devices as a donor of its own, older donors evicted for its room; the entry stays, renewed and pinned.
Pinned(S, id) ==
    LET h == [S.host[AtId(S.host, id)] EXCEPT !.back = TRUE]
    IN Touch([S EXCEPT !.host = SelectSeq(@, LAMBDA x : x.id # id) \o <<h>>, !.pin = id], id)
Restored(S, h) ==
    AddDonor([S EXCEPT !.pin = 0], [id |-> FreshId(S), of |-> h.of, len |-> h.len, blocks |-> TakeBlocks(FreeBlocks(S), Bytes(h.len)),
                                    back |-> h.back, superseded |-> FALSE, onHost |-> h.id])
Promoted(S, h, plan, short) ==
    IF ~plan.enough THEN [ok |-> FALSE, S |-> [S EXCEPT !.pin = 0]]
    ELSE [ok |-> TRUE, S |-> Restored(ToCount(Evict(S, Range(plan.donors), short), MaxSeqs - 1, short), h)]
PromoteAt(S, id, short) ==
    Promoted(S, S.host[AtId(S.host, id)], MakeRoom(NoGain(S), Ranked(S), FALSE, <<>>, Room(S), Bytes(S.host[AtId(S.host, id)].len)), short)
Promote(S, id, short) == PromoteAt(Pinned(S, id), id, short)
=============================================================================
