------------------------------ MODULE Admission ------------------------------
(***************************************************************************)
(* Room by first admission (server/scheduler.hpp's round, server/cache.hpp's *)
(* enter and park): which requests hold the device pool.  A round retires    *)
(* passes, lets requests that ended become donors, gives growth its room or  *)
(* its stall, pauses and turns at the pool's edge, admits from one line, and *)
(* forms a pass of what is ready.  Clients, the devices, the copies to host  *)
(* memory and the waits' bounds go on beside it.  Which prompts a pass takes *)
(* first is the service rule's; here a pass takes every request ready.       *)
(***************************************************************************)
EXTENDS CacheRoom

CONSTANTS
    Ubatch,    \* rows of a prompt a pass reads
    Slots,     \* passes in flight
    Turn,      \* growth steps a turn at the pool's edge lasts
    Cancels    \* the requests whose client may leave

\* What the constants must be.
AdmissionCounted == Ubatch \in Nat \ {0} /\ Slots \in Nat \ {0} /\ Turn \in Nat \ {0} /\ Cancels \subseteq Requests

VARIABLES
    s,         \* the cache and the requests, and the line they wait in
    flights,   \* the passes in flight, oldest first: the members and whether the devices are done
    pc,        \* where the scheduler's round is
    broken     \* a round with active requests formed an empty pass, or the pool was short of a promised block

vars == <<s, flights, pc, broken>>

NoRequest == [place |-> "out", len |-> 0, from |-> 0, blocks |-> <<>>, need |-> 0, gen |-> 0, donor |-> 0, pausedAs |-> 0, adm |-> 0,
              edge |-> 0, stalled |-> FALSE, fly |-> FALSE, cancel |-> FALSE, reused |-> FALSE, wait |-> "no"]
Init ==
    /\ s = [req |-> [r \in Requests |-> NoRequest], donors |-> <<>>, host |-> <<>>, lru |-> <<>>, pin |-> 0, line |-> <<>>]
    /\ flights = <<>> /\ pc = "wait" /\ broken = FALSE

Reply(r) == Len(Text[r]) - Prompt[r]
Gone(S, r) == [S EXCEPT !.req[r] = [NoRequest EXCEPT !.place = "gone"], !.line = SelectSeq(@, LAMBDA x : x # r)]
ByAdmission(S, rs) == SetToSortSeq(rs, LAMBDA a, b : S.req[a].adm < S.req[b].adm)
Admissions(S) == Cardinality({r \in Requests : S.req[r].adm > 0 \/ S.req[r].place = "gone"})

-----------------------------------------------------------------------------
\* park: a request leaves the active set, its history a donor where it holds at least `least` tokens; the last pause's copy is superseded.
Superseded(S, id) ==
    IF id = 0 THEN S
    ELSE [S EXCEPT !.donors = [i \in DOMAIN @ |-> [@[i] EXCEPT !.superseded = @ \/ S.donors[i].onHost = id]],
                   !.host = [i \in DOMAIN @ |-> [@[i] EXCEPT !.superseded = @ \/ S.host[i].id = id]]]
Left(S, r) == [S EXCEPT !.req[r].blocks = <<>>, !.req[r].len = 0, !.req[r].from = 0, !.req[r].need = 0]
ParkedAs(S, r, id, back, short) ==
    ToCount(AddDonor(Superseded(Left(S, r), S.req[r].pausedAs),
                     [id |-> id, of |-> r, len |-> S.req[r].len, blocks |-> S.req[r].blocks, back |-> back, superseded |-> FALSE, onHost |-> 0]),
            MaxSeqs, short)
Park(S, r, least, short) ==
    IF S.req[r].len > 0 /\ S.req[r].len >= least THEN ParkedAs(S, r, FreshId(S), least = 1 \/ S.req[r].reused, short) ELSE Left(S, r)
Finish(S, r, short) == Gone(Park(S, r, BT, short), r)

\* A paused request's history goes to a donor, even short of a block; one that yielded goes to the end of the line, one growth paused before it.
DonorLeft(S, id) == IF id \in Ids(S.donors) THEN id ELSE 0
Pause(S, r, yielded, short) ==
    LET id == FreshId(S)
        T == Park(S, r, 1, short)
    IN [T EXCEPT !.req[r].place = "paused", !.req[r].stalled = FALSE, !.req[r].donor = DonorLeft(T, id), !.req[r].pausedAs = DonorLeft(T, id),
                 !.line = IF yielded THEN Append(@, r) ELSE @]

\* leave: a waiting request whose client left takes its own donor with it where that holds less than a block.
Leave(S, r) ==
    Gone(IF S.req[r].donor \in Ids(S.donors) /\ S.donors[AtId(S.donors, S.req[r].donor)].len < BT
         THEN DropDonor(S, S.req[r].donor, FALSE, FALSE) ELSE S, r)

\* Those paused for another's growth, by first admission; the line of the queued and the yielded; the uncapped request paused longest.
Bumped(S) == ByAdmission(S, {r \in Requests : S.req[r].place = "paused" /\ r \notin Range(S.line)})
InLine(S) == Bumped(S) \o S.line
WaitingOf(paused) == IF paused = <<>> THEN {} ELSE {paused[1]}
Waiting(S) == WaitingOf(SelectSeq(InLine(S), LAMBDA r : S.req[r].place = "paused" /\ r \in Uncapped /\ ~S.req[r].cancel))

-----------------------------------------------------------------------------
\* The step an uncapped decoding request needs before its next token, 0 where none falls due.
Bad_Step(S, r) ==
    IF r \in Uncapped /\ Decoding(S, r) /\ BlocksFor(S.req[r].len) > S.req[r].need
    THEN BlocksFor(S.req[r].len + 1 + Growth) - S.req[r].need ELSE 0
Step(S, r) ==
    IF r \in Uncapped /\ Decoding(S, r) /\ BlocksFor(S.req[r].len + 1) > S.req[r].need
    THEN BlocksFor(S.req[r].len + 1 + Growth) - S.req[r].need ELSE 0
\* yields: the turn is over, the one waiting fits once r holds nothing, and r's history would be kept whole in host memory.
Yields(S, r, w, short) ==
    /\ HostCap > 0 /\ S.req[r].edge >= Turn
    /\ MakeRoom([NoGain(S) EXCEPT !.also = {r}], Ranked(S), FALSE, <<>>, Room(S) + Promised(S, r) + Cardinality(Freed(S, {}, {r}, {})), Entry(S, w)).enough
    /\ HostRoom(S, Whole(S.req[r].len), [cls |-> 2, at |-> Now(S)], short).why = "kept"
\* The requests growth may pause: uncapped and admitted after r, the latest first, each with what its donor would keep.
Bad_Later(S, r) ==
    LET rs == Reverse(ByAdmission(S, {x \in Active(S) : x \in Uncapped /\ x # r}))
    IN [i \in DOMAIN rs |-> [r |-> rs[i], kept |-> BlocksFor(IF S.req[rs[i]].fly THEN S.req[rs[i]].from ELSE S.req[rs[i]].len), flying |-> S.req[rs[i]].fly]]
Later(S, r) ==
    LET rs == Reverse(ByAdmission(S, {x \in Active(S) : x \in Uncapped /\ S.req[x].adm > S.req[r].adm}))
    IN [i \in DOMAIN rs |-> [r |-> rs[i], kept |-> BlocksFor(IF S.req[rs[i]].fly THEN S.req[rs[i]].from ELSE S.req[rs[i]].len), flying |-> S.req[rs[i]].fly]]
\* take: the donors, then the pauses, and the donor a pause left where the plan took it too.
EvictLeft(S, r, with, short) == IF with /\ S.req[r].donor # 0 THEN DropDonor(S, S.req[r].donor, TRUE, short) ELSE S
Take(S, t, short) == FoldLeft(LAMBDA T, p : EvictLeft(Pause(T, p.r, FALSE, short), p.r, p.with, short), Evict(S, Range(t.donors), short), t.paused)
Bad_Grown(S, r, t, short) ==
    IF ~t.enough THEN [S EXCEPT !.req[r].stalled = TRUE]
    ELSE LET T == Take(S, t, short) IN [T EXCEPT !.req[r].stalled = FALSE, !.req[r].need = @ + Step(S, r), !.req[r].edge = IF Waiting(T) = {} THEN 0 ELSE @ + 1]
Grown(S, r, t, short) ==
    IF ~t.enough \/ t.wait THEN [S EXCEPT !.req[r].stalled = TRUE]
    ELSE LET T == Take(S, t, short) IN [T EXCEPT !.req[r].stalled = FALSE, !.req[r].need = @ + Step(S, r), !.req[r].edge = IF Waiting(T) = {} THEN 0 ELSE Least(@ + 1, Turn)]
GrowOne(S, r, short) ==
    IF S.req[r].place # "active" THEN S
    ELSE IF S.req[r].fly \/ Step(S, r) = 0 THEN [S EXCEPT !.req[r].stalled = FALSE]
    ELSE IF \E w \in Waiting(S) : Yields(S, r, w, short) THEN Pause(S, r, TRUE, short)
    ELSE Grown(S, r, MakeRoom(NoGain(S), Ranked(S), FALSE, Later(S, r), Room(S), Step(S, r)), short)

-----------------------------------------------------------------------------
\* enter, first part: the holder that serves most; a host copy is promoted and the question asked again, a request finding no room for it
\* waits, at most its bound, and past it asks without that copy.  a = [S, skip, at, end].
Ask(a, r, short, sv) ==
    IF sv.kind # "host" THEN [a EXCEPT !.at = sv, !.end = "found"]
    ELSE IF a.S.host[AtId(a.S.host, sv.id)].copying THEN [a EXCEPT !.end = "wait"]
    ELSE LET p == Promote(a.S, sv.id, short)
         IN IF p.ok THEN [a EXCEPT !.S = p.S]
            ELSE IF a.S.req[r].wait = "late" THEN [a EXCEPT !.S = p.S, !.skip = @ \cup {sv.id}]
            ELSE [a EXCEPT !.S = [p.S EXCEPT !.req[r].wait = "yes"], !.end = "wait"]
Asked(S, r, short) ==
    FoldLeft(LAMBDA a, k : IF a.end # "more" THEN a ELSE Ask(a, r, short, Served(a.S, r, a.skip)),
             [S |-> S, skip |-> {}, at |-> [kind |-> "none", id |-> 0, n |-> 0], end |-> "more"], [k \in 1 .. Len(S.host) + 1 |-> k])

\* enter, second part: room for what the fork or the donor taken back does not give, and the admission.
Seated(S, r, len, blocks, id, n) ==
    [S EXCEPT !.req[r] = [@ EXCEPT !.place = "active", !.len = len, !.from = len, !.blocks = blocks, !.need = Entry(S, r), !.donor = 0, !.wait = "no",
                                   !.adm = IF @ = 0 THEN n ELSE @, !.edge = 1, !.reused = @ \/ (S.req[r].adm = 0 /\ len > 0)],
              !.line = SelectSeq(@, LAMBDA x : x # r)]
TakeBack(S, r, d, n) == Dropped(Seated(S, r, d.len, d.blocks, d.id, n), d.id)
Fork(S, r, d, shared, n) == Touch(Seated(S, r, shared, SubSeq(d.blocks, 1, shared \div BT), d.id, n), d.id)
Fresh(S, r, shares) == IF Entry(S, r) > shares THEN Entry(S, r) - shares ELSE 0
EnterPlan(S, r, d, shared, take) ==
    MakeRoom([S |-> S, keep |-> d.id, kept |-> IF take THEN 0 ELSE shared, take |-> take, also |-> {}], Ranked(S),
             take \/ (d.id # 0 /\ d.len - shared < BT), <<>>, Room(S), Fresh(S, r, IF take THEN Len(d.blocks) ELSE shared \div BT))
Entered(S, r, d, shared, take, t, short) ==
    IF ~t.enough THEN [ok |-> FALSE, S |-> S]
    ELSE LET T == Evict(S, Range(t.donors) \ {d.id}, short)
             n == Admissions(S) + 1
         IN [ok |-> TRUE,
             S |-> IF take THEN TakeBack(T, r, d, n) ELSE IF d.id = 0 THEN Seated(T, r, 0, <<>>, 0, n)
                   ELSE IF d.id \in Range(t.donors) THEN Dropped(Fork(T, r, d, shared, n), d.id) ELSE Fork(T, r, d, shared, n)]
NoDonor == [id |-> 0, len |-> 0, blocks |-> <<>>]
EnterWith(S, r, d, shared, take, short) == Entered(S, r, d, shared, take, EnterPlan(S, r, d, shared, take), short)
EnterAsked(a, r, short) ==
    IF a.end # "found" THEN [ok |-> FALSE, S |-> a.S]
    ELSE EnterWith(a.S, r, IF a.at.kind = "donor" THEN a.S.donors[AtId(a.S.donors, a.at.id)] ELSE NoDonor, a.at.n, FALSE, short)
Enter(S, r, short) ==
    IF S.req[r].donor # 0 /\ S.req[r].donor \in Ids(S.donors)
    THEN EnterWith(S, r, S.donors[AtId(S.donors, S.req[r].donor)], 0, TRUE, short)
    ELSE EnterAsked(Asked(S, r, short), r, short)

\* admit_waiting: the line in order, until one does not fit; one whose client left goes where it waits.
AdmitOne(a, r, short) ==
    IF ~a.ok \/ Cardinality(Active(a.S)) >= MaxSeqs THEN a
    ELSE IF a.S.req[r].cancel THEN [a EXCEPT !.S = Leave(@, r)]
    ELSE LET e == Enter(a.S, r, short) IN [S |-> e.S, ok |-> e.ok]
AdmitWaiting(S, short) == FoldLeft(LAMBDA a, r : AdmitOne(a, r, short), [S |-> S, ok |-> TRUE], InLine(S)).S

-----------------------------------------------------------------------------
\* The round's actions.  due: a pass ended, a request is ready to be read or admitted, or a client left.
Waits(S, r) == S.req[r].place \in {"queue", "paused"}
Bad_Due ==
    \/ \E i \in DOMAIN flights : flights[i].done
    \/ \E r \in Requests : s.req[r].place = "queue" /\ (s.req[r].wait # "yes" \/ s.req[r].cancel)
    \/ \E r \in Active(s) : ~s.req[r].fly
Due ==
    \/ \E i \in DOMAIN flights : flights[i].done
    \/ \E r \in Requests : Waits(s, r) /\ (s.req[r].wait # "yes" \/ s.req[r].cancel)
    \/ \E r \in Active(s) : ~s.req[r].fly
\* The sweep of waiting requests whose client left, then the passes whose devices are done retire, and what ended becomes a donor.
RetireOne(S, r) ==
    LET drawn == S.req[r].len = History(S, r)
    IN [S EXCEPT !.req[r].fly = FALSE, !.req[r].from = S.req[r].len, !.req[r].gen = IF drawn THEN @ + 1 ELSE @]
Ended(S, r) == S.req[r].place = "active" /\ ~S.req[r].fly /\ (S.req[r].gen = Reply(r) \/ S.req[r].cancel)
Retire ==
    /\ pc = "wait" /\ Due
    /\ \E short \in BOOLEAN :
        LET swept == FoldSet(LAMBDA r, S : Leave(S, r), s, {r \in Requests : Waits(s, r) /\ s.req[r].cancel})
            back == FoldLeft(LAMBDA S, f : IF f.done THEN FoldSet(LAMBDA r, T : RetireOne(T, r), S, f.who) ELSE S, swept, flights)
            over == FoldLeft(LAMBDA S, r : Finish(S, r, short), back, ByAdmission(back, {r \in Requests : Ended(back, r)}))
        IN s' = over
    /\ flights' = SelectSeq(flights, LAMBDA f : ~f.done)
    /\ pc' = IF Len(flights') < Slots THEN "grow" ELSE "wait"
    /\ UNCHANGED broken
Grow ==
    /\ pc = "grow" /\ pc' = "admit"
    /\ \E short \in BOOLEAN : s' = FoldLeft(LAMBDA S, r : GrowOne(S, r, short), s, ByAdmission(s, Active(s)))
    /\ UNCHANGED <<flights, broken>>
Admit ==
    /\ pc = "admit" /\ pc' = "form"
    /\ \E short \in BOOLEAN : s' = IF \E r \in Active(s) : s.req[r].stalled THEN s ELSE AdmitWaiting(s, short)
    /\ UNCHANGED <<flights, broken>>

\* A pass of every ready request, each with the blocks its rows take beyond those it holds.
Ready(S) == {r \in Active(S) : ~S.req[r].fly /\ ~S.req[r].stalled}
Rows(S, r) == Least(Ubatch, History(S, r) - S.req[r].len)
Grab(S, r) ==
    LET n == S.req[r].len + Rows(S, r)
        more == BlocksFor(n) - Held(S, r)
    IN [S EXCEPT !.req[r].len = n, !.req[r].from = S.req[r].len, !.req[r].fly = TRUE, !.req[r].blocks = @ \o TakeBlocks(FreeBlocks(S), more)]
Wants(S, r) == BlocksFor(S.req[r].len + Rows(S, r)) - Held(S, r)
Comes(S) == FoldSet(LAMBDA r, n : n + Wants(S, r), 0, Ready(S)) <= Cardinality(FreeBlocks(S))
Form ==
    /\ pc = "form" /\ pc' = "wait"
    /\ broken' = (broken \/ (Ready(s) = {} /\ flights = <<>> /\ Active(s) # {}) \/ ~Comes(s))
    /\ s' = IF Comes(s) THEN FoldLeft(Grab, s, ByAdmission(s, Ready(s))) ELSE s
    /\ flights' = IF Ready(s) # {} /\ Comes(s) THEN Append(flights, [who |-> Ready(s), done |-> FALSE]) ELSE flights

-----------------------------------------------------------------------------
\* Beside the round: a client sends its request or leaves, the devices finish the oldest pass that runs, a copy to host memory lands or
\* fails, and a wait for room meets its bound.
Submit(r) ==
    /\ pc = "wait" /\ s.req[r].place = "out"
    /\ s' = [s EXCEPT !.req[r].place = "queue", !.line = Append(@, r)]
    /\ UNCHANGED <<flights, pc, broken>>
Cancel(r) ==
    /\ r \in Cancels /\ s.req[r].place \in {"queue", "paused", "active"} /\ ~s.req[r].cancel
    /\ s' = [s EXCEPT !.req[r].cancel = TRUE]
    /\ UNCHANGED <<flights, pc, broken>>
PassDone ==
    /\ \E i \in DOMAIN flights :
        /\ ~flights[i].done /\ \A j \in 1 .. i - 1 : flights[j].done
        /\ flights' = [flights EXCEPT ![i].done = TRUE]
    /\ UNCHANGED <<s, pc, broken>>
CopyEnds(id) ==
    /\ pc = "wait" /\ \E i \in DOMAIN s.host : s.host[i].id = id /\ s.host[i].copying
    /\ \/ s' = [s EXCEPT !.host[AtId(s.host, id)].copying = FALSE]
       \/ s' = Swept(DropHost(s, {id}))
    /\ UNCHANGED <<flights, pc, broken>>
Bound(r) ==
    /\ s.req[r].wait = "yes"
    /\ s' = [s EXCEPT !.req[r].wait = "late"]
    /\ UNCHANGED <<flights, pc, broken>>
Over == pc = "wait" /\ (\A r \in Requests : s.req[r].place = "gone") /\ UNCHANGED vars

Round == Retire \/ Grow \/ Admit \/ Form
Next ==
    \/ Round \/ PassDone \/ Over
    \/ \E r \in Requests : Submit(r) \/ Cancel(r) \/ Bound(r)
    \/ \E id \in Ids(s.host) : CopyEnds(id)
\* The scheduler's thread goes on, the devices finish what they run, copies end and waits meet their bound.  A step that moves pc is one of
\* Round's, and CanRound is when one is enabled.
CanRound == pc # "wait" \/ (Due /\ Len(SelectSeq(flights, LAMBDA f : ~f.done)) < Slots)
Fairness ==
    /\ WF_pc(CanRound /\ pc' \in {"wait", "grow", "admit", "form"} \ {pc}) /\ WF_vars(PassDone)
    /\ SF_vars(\E id \in Ids(s.host) : CopyEnds(id)) /\ \A r \in Requests : WF_vars(Bound(r))
Spec == Init /\ [][Next]_vars /\ Fairness

-----------------------------------------------------------------------------
Holders == {[of |-> r, len |-> s.req[r].len, blocks |-> s.req[r].blocks] : r \in Active(s)}
           \cup {[of |-> d.of, len |-> d.len, blocks |-> d.blocks] : d \in Range(s.donors)}
\* No row is lost to a wrong sharing (cache.hpp enter, take_back, promote; history.hpp fork): every holder has the blocks of its rows and no
\* other, two holders share a block only at the same place and only where both fill it with the same text, the donors and the host copies
\* keep within their counts, and the order of use names each holder once and nothing else.
CacheSound ==
    /\ \A h \in Holders : Len(h.blocks) = BlocksFor(h.len) /\ IsInjective(h.blocks)
    /\ \A h, g \in Holders : \A i \in DOMAIN h.blocks, j \in DOMAIN g.blocks :
        h # g /\ h.blocks[i] = g.blocks[j] => i = j /\ i * BT <= Least(Agree[h.of][g.of], Least(h.len, g.len))
    /\ Len(s.donors) <= MaxSeqs /\ Cardinality(Active(s)) <= MaxSeqs /\ HostHeld(s) <= HostCap /\ s.pin = 0
    /\ IsInjective(s.lru) /\ Range(s.lru) = Ids(s.donors) \cup Ids(s.host) /\ Cardinality(Ids(s.donors)) = Len(s.donors)

\* What was promised is there (cache.hpp room, promised; policy.hpp make_room): the free blocks cover what every active request may still
\* claim, whatever was forked, evicted, put back, paused or taken back for another, so no pass comes short; and a round with active
\* requests and nothing in flight never forms an empty pass, which the scheduler would turn into the end of serving.
RoomKept == AllPromised(s) <= Cardinality(FreeBlocks(s)) /\ ~broken

\* Age protects (scheduler.hpp grow, policy.hpp Growth): a step takes an active request's blocks away only between its passes and only
\* from an uncapped one, and then either the request yielded its turn, and its whole blocks stay with a donor or in host memory, or an
\* older active request grew by it.
BumpedFor(r, q) == q \in Active(s) /\ s.req[q].adm < s.req[r].adm /\ s'.req[q].need > s.req[q].need
Saved(r, e) == e.of = r /\ e.len >= Whole(s.req[r].len)
OldestKeeps == [][\A r \in Active(s) : s'.req[r].place = "paused" =>
    /\ ~s.req[r].fly /\ r \in Uncapped
    /\ \/ /\ r \in Range(s'.line)
          /\ Whole(s.req[r].len) > 0 => \E e \in Range(s'.donors) \cup Range(s'.host) : Saved(r, e)
       \/ \E q \in Active(s) : BumpedFor(r, q)]_vars

\* Every request that is sent ends (scheduler.hpp run, grow, yields; policy.hpp admit_waiting): no request waits, stalls or is paused for
\* ever, two uncapped ones at the pool's edge included, whatever the copies to host memory and the clients do.
RequestsEnd == \A r \in Requests : s.req[r].place = "queue" ~> s.req[r].place = "gone"
=============================================================================
