------------------------------- MODULE Round -------------------------------
(***************************************************************************)
(* The scheduler's rounds with passes in flight over the stages of a       *)
(* pipelined model (server/scheduler.hpp: run, form, advance, collect,     *)
(* retire, fail_pass, abort_all), the stages' recorder threads             *)
(* (model/stage_lanes.hpp, Recorder, record, run_item, wake) and the calls *)
(* of the model they make (model/passes.hpp).                              *)
(*                                                                         *)
(* A pass is a slot's: its requests, the stages it has run and whether a   *)
(* stage's thread records it.  What a pass computes, which requests are    *)
(* ready and the service rule's choice among them are left open.  The      *)
(* scheduler's thread holds m_ from a look at its wake condition to the    *)
(* sleep, and while it admits; every step between is its own.              *)
(***************************************************************************)
EXTENDS Integers, Sequences, FiniteSets

CONSTANTS
    S,          \* the model's stages are 0..S - 1
    SlotCount,  \* slots_.size()
    Limit,      \* Plan::limit
    Threaded,   \* the stages with a recorder
    Always,     \* of those, the ones that record every pass there: a tensor group's, a stage that reads its rows
    Host,       \* the stages on the host
    Requests,
    MaxPasses,  \* bound: passes formed
    MaxItems,   \* bound: items queued
    Failures    \* whether a stage's recording and an item may fail

Stages == 0..S - 1
Slots == 1..SlotCount

ASSUME RoundAssumption ==
    /\ S \in Nat \ {0} /\ SlotCount \in Nat \ {0} /\ Limit \in 1..SlotCount
    /\ Threaded \subseteq Stages /\ Always \subseteq Threaded
    /\ Host \subseteq Stages \ Threaded
    /\ MaxPasses \in Nat /\ MaxItems \in Nat /\ Failures \in BOOLEAN

VARIABLES
    slot,       \* slots_: per slot, the pass in it
    formed,     \* formed_
    before,     \* formed_before_
    jobs,       \* jobs_posted_
    post,       \* per recorder, Post: the pass handed over, or NoPost
    ends,       \* per recorder, the ends not collected
    queued,     \* the items queued so far, counted for the bound alone
    items,      \* per recorder, the requests of the items, the one running first
    reports,    \* per recorder, the failed items not collected
    lane,       \* per recorder, where its thread is
    pc,         \* where the scheduler's thread is
    hand,       \* the ends collect holds of stage `at`
    at,         \* the stage collect is at
    todo,       \* the steps of round_steps, or the first stage of a new pass, still to advance
    hosts,      \* host: the host stages deferred
    cause,      \* why the recorders are made quiet, or the pass recorded inline
    acted,      \* acted_
    arrived,    \* arrivals_ # seen_
    stopping    \* stopping_

passes == <<slot, formed, before>>
lanes == <<post, ends, queued, items, reports, lane>>
sched == <<pc, hand, at, todo, hosts, cause, acted>>
vars == <<passes, jobs, lanes, sched, arrived, stopping>>

NoPost == [slot |-> 0, job |-> 0]
NoCause == [why |-> "none", slot |-> 0, request |-> {}, back |-> "look"]
Free == [live |-> FALSE, recording |-> FALSE, ran |-> 0, formed |-> 0, job |-> 0, members |-> {}, wants |-> FALSE, continues |-> FALSE]

Places == {"look", "drowse", "asleep", "collect", "steps", "inline", "quiet", "room", "admit",
           "form", "host", "end", "look2", "drowse2", "asleep2", "terminated", "done"}

Live == {k \in Slots : slot[k].live}
Recording(s) == \E k \in Live : slot[k].recording /\ slot[k].ran = s
\* Whether stage s's thread holds an item.
Busy(s) == s \in Threaded /\ items[s] # <<>>
Ended == \E s \in Threaded : ends[s] # <<>> \/ reports[s] # <<>>
Acting == \E k \in Live : ~slot[k].recording
FirstStageHeld == 0 \in Threaded /\ \E k \in Live : slot[k].ran = 0
InFlight(r) == \E k \in Live : r \in slot[k].members

\* continues: each pass of r in flight holds it alone, past its first stage,
\* not wanting its logits and formed before this round.
Continues(r) ==
    /\ InFlight(r)
    /\ \A k \in Live : r \in slot[k].members =>
        /\ slot[k].members = {r} /\ slot[k].ran > 0
        /\ ~slot[k].wants /\ slot[k].formed <= before

\* The stage with a recorder collect visits from s on, S when none is left.
NextLane(s) == CHOOSE t \in Stages \cup {S} :
    /\ t >= s /\ (t \in Threaded \/ t = S)
    /\ \A u \in Threaded : u >= s => t <= u

\* Every slot, counter, hand-over and place has its type.
TypeOK ==
    /\ slot \in [Slots -> [live : BOOLEAN, recording : BOOLEAN, ran : 0..S, formed : 0..MaxPasses,
                           job : Nat, members : SUBSET Requests, wants : BOOLEAN, continues : BOOLEAN]]
    /\ formed \in 0..MaxPasses /\ before \in 0..formed /\ jobs \in Nat
    /\ post \in [Threaded -> [slot : 0..SlotCount, job : Nat]]
    /\ ends \in [Threaded -> Seq([slot : Slots, job : 1..jobs, failed : BOOLEAN])]
    /\ items \in [Threaded -> Seq(Requests)] /\ reports \in [Threaded -> Seq(Requests)]
    /\ lane \in [Threaded -> {"idle", "record", "item", "wake", "gone"}]
    /\ queued \in 0..MaxItems
    /\ pc \in Places /\ at \in Stages \cup {S}
    /\ todo \subseteq Slots \X (0..S) /\ hosts \subseteq Slots \X Stages
    /\ acted \in BOOLEAN /\ arrived \in BOOLEAN /\ stopping \in BOOLEAN

Init ==
    /\ slot = [k \in Slots |-> Free] /\ formed = 0 /\ before = 0 /\ jobs = 0 /\ queued = 0
    /\ post = [s \in Threaded |-> NoPost]
    /\ ends = [s \in Threaded |-> <<>>] /\ items = [s \in Threaded |-> <<>>]
    /\ reports = [s \in Threaded |-> <<>>] /\ lane = [s \in Threaded |-> "idle"]
    /\ pc = "look" /\ hand = <<>> /\ at = NextLane(0) /\ todo = {} /\ hosts = {} /\ cause = NoCause
    /\ acted = FALSE /\ arrived = FALSE /\ stopping = FALSE

-----------------------------------------------------------------------------
\* The recorders' threads.  Items go first; an item's failure and every
\* recording's end are told to the round.
Quieting == pc = "quiet"
\* m_ is the scheduler's.
Locked == pc \in {"drowse", "drowse2", "admit"} \/ (pc = "quiet" /\ cause.why = "donor")

Woken(p) == CASE p = "asleep" -> "look" [] p = "asleep2" -> "look2" [] OTHER -> p

Take(s) ==
    /\ lane[s] = "idle" /\ (items[s] # <<>> \/ post[s] # NoPost)
    /\ lane' = [lane EXCEPT ![s] = IF items[s] # <<>> THEN "item" ELSE "record"]
    /\ UNCHANGED <<passes, jobs, post, ends, queued, items, reports, sched, arrived, stopping>>

ItemEnds(s, fails) ==
    /\ lane[s] = "item" /\ (fails => Failures)
    /\ items' = [items EXCEPT ![s] = Tail(@)]
    /\ reports' = IF fails THEN [reports EXCEPT ![s] = Append(@, Head(items[s]))] ELSE reports
    /\ lane' = [lane EXCEPT ![s] = IF fails THEN "wake" ELSE "idle"]
    /\ UNCHANGED <<passes, jobs, post, ends, queued, sched, arrived, stopping>>

Bad_RecordEnds(s, fails) ==
    /\ lane[s] = "record" /\ (fails => Failures)
    /\ post' = [post EXCEPT ![s] = NoPost]
    /\ ends' = [ends EXCEPT ![s] = Append(@, [slot |-> post'[s].slot, job |-> post'[s].job, failed |-> fails])]
    /\ lane' = [lane EXCEPT ![s] = "wake"]
    /\ UNCHANGED <<passes, jobs, queued, items, reports, sched, arrived, stopping>>

RecordEnds(s, fails) ==
    /\ lane[s] = "record" /\ (fails => Failures)
    /\ post' = [post EXCEPT ![s] = NoPost]
    /\ ends' = [ends EXCEPT ![s] = Append(@, [slot |-> post[s].slot, job |-> post[s].job, failed |-> fails])]
    /\ lane' = [lane EXCEPT ![s] = "wake"]
    /\ UNCHANGED <<passes, jobs, queued, items, reports, sched, arrived, stopping>>

Bad_Passable == TRUE
Bad_PassableLocked == ~Locked
\* The lock is passed through, so an end is not put between a look and its
\* sleep; not while the scheduler's thread waits for this very recorder.
Passable == Quieting \/ ~Locked

Wake(s) ==
    /\ lane[s] = "wake" /\ Passable
    /\ pc' = Woken(pc)
    /\ lane' = [lane EXCEPT ![s] = "idle"]
    /\ UNCHANGED <<passes, jobs, post, ends, queued, items, reports, hand, at, todo, hosts, cause, acted, arrived, stopping>>

\* ~StageLanes, once run has returned: a lane ends between two steps.
Leave(s) ==
    /\ pc = "done" /\ lane[s] = "idle"
    /\ lane' = [lane EXCEPT ![s] = "gone"]
    /\ UNCHANGED <<passes, jobs, post, ends, queued, items, reports, sched, arrived, stopping>>

-----------------------------------------------------------------------------
\* Clients.
Submit ==
    /\ ~Locked /\ ~arrived /\ ~stopping
    /\ arrived' = TRUE /\ pc' = Woken(pc)
    /\ UNCHANGED <<passes, jobs, lanes, hand, at, todo, hosts, cause, acted, stopping>>

Stop ==
    /\ ~Locked /\ ~stopping
    /\ stopping' = TRUE /\ pc' = Woken(pc)
    /\ UNCHANGED <<passes, jobs, lanes, hand, at, todo, hosts, cause, acted, arrived>>

-----------------------------------------------------------------------------
\* The round's waits.  A round has work while a request could be in a pass.
Working == formed < MaxPasses /\ \E r \in Requests : ~InFlight(r) \/ Continues(r)
Due == stopping \/ Ended \/ Acting \/ Working

Quiet(why, k, r, back) ==
    /\ pc' = "quiet"
    /\ cause' = [why |-> why, slot |-> k, request |-> r, back |-> back]

Look ==
    /\ pc = "look"
    /\ IF ~Due THEN pc' = "drowse" /\ UNCHANGED <<acted, arrived, cause>>
       ELSE IF stopping THEN Quiet("abort", 0, {}, "done") /\ UNCHANGED <<acted, arrived>>
       ELSE /\ pc' = "collect" /\ acted' = FALSE /\ arrived' = FALSE /\ UNCHANGED cause
    /\ UNCHANGED <<passes, jobs, lanes, hand, at, todo, hosts, stopping>>

\* The second wait, of a round that could do nothing while a stage records.
LookAgain ==
    /\ pc = "look2"
    /\ pc' = IF Ended \/ stopping \/ arrived THEN "look" ELSE "drowse2"
    /\ UNCHANGED <<passes, jobs, lanes, hand, at, todo, hosts, cause, acted, arrived, stopping>>

Sleep ==
    /\ pc \in {"drowse", "drowse2"}
    /\ pc' = IF pc = "drowse" THEN "asleep" ELSE "asleep2"
    /\ UNCHANGED <<passes, jobs, lanes, hand, at, todo, hosts, cause, acted, arrived, stopping>>

-----------------------------------------------------------------------------
\* The passes the model abandons with k's: the later ones of a prompt k holds.
Taken(k, inModel) == {j \in inModel \ {k} :
    slot[j].formed > slot[k].formed /\ \E r \in slot[k].members : slot[j].members = {r}}

Earliest(ks) == CHOOSE k \in ks : \A j \in ks : slot[k].formed <= slot[j].formed
Sharing(k) == {j \in Live \ {k} : slot[j].members \cap slot[k].members # {}}

Bad_Left(k, taken) == ~(Sharing(k) \subseteq taken)
\* The later pass the model is still to abandon does not take the rest of k's
\* prompt with it, which fail_pass throws for outside any handler.
Left(k, taken) ==
    LET later == Sharing(k)
        first == Earliest(later)
    IN  /\ later # {} /\ first \notin taken
        /\ ~(later \ {first} \subseteq Taken(first, Live \ ({k} \cup taken)))

Vacated(ks) == [k \in Slots |-> IF k \in ks THEN Free ELSE slot[k]]

\* fail_pass: the pass and its prompt's other passes leave their slots, and
\* its requests end.
FailPass(k, taken) ==
    IF Left(k, taken) THEN slot' = slot /\ pc' = "terminated"
    ELSE slot' = Vacated({k} \cup Sharing(k)) /\ pc' = cause.back

\* leave_flight: the passes holding a request, and those the model abandons
\* with each.
Leaving(rs) ==
    LET held == {k \in Live : slot[k].members \cap rs # {}}
    IN  held \cup UNION {Taken(k, Live) : k \in held}

Bad_Idle(s) == items[s] = <<>>
\* hold: no pass posted, no item waiting or running.
Idle(s) == post[s] = NoPost /\ items[s] = <<>>

Quieted ==
    /\ pc = "quiet" /\ \A s \in Threaded : Idle(s)
    /\ CASE cause.why = "abandon" -> FailPass(cause.slot, Taken(cause.slot, Live))
         [] cause.why = "undo" -> FailPass(cause.slot, {})
         [] cause.why = "leave" -> slot' = Vacated(Leaving(cause.request)) /\ pc' = cause.back
         [] cause.why = "donor" -> slot' = slot /\ pc' = cause.back
         [] cause.why = "abort" -> slot' = Vacated(Slots) /\ pc' = cause.back
    /\ cause' = NoCause
    /\ UNCHANGED <<formed, before, jobs, lanes, hand, at, todo, hosts, acted, arrived, stopping>>

-----------------------------------------------------------------------------
\* collect, stage by stage: what a recorder ends behind it waits for the next
\* round.
CollectTake ==
    /\ pc = "collect" /\ hand = <<>> /\ at # S
    /\ hand' = [i \in 1..Len(reports[at]) |-> [report |-> reports[at][i]]] \o ends[at]
    /\ ends' = [ends EXCEPT ![at] = <<>>] /\ reports' = [reports EXCEPT ![at] = <<>>]
    /\ at' = NextLane(at + 1)
    /\ UNCHANGED <<passes, jobs, post, queued, items, lane, pc, todo, hosts, cause, acted, arrived, stopping>>

CollectReport ==
    /\ pc = "collect" /\ hand # <<>> /\ "report" \in DOMAIN Head(hand)
    /\ hand' = Tail(hand) /\ acted' = TRUE
    /\ IF InFlight(Head(hand).report) THEN Quiet("leave", 0, {Head(hand).report}, "collect")
       ELSE UNCHANGED <<pc, cause>>
    /\ UNCHANGED <<passes, jobs, lanes, at, todo, hosts, arrived, stopping>>

Bad_Stale(e) == ~slot[e.slot].live \/ ~slot[e.slot].recording
\* The end of a recording whose pass was abandoned meanwhile is nobody's.
Stale(e) == ~slot[e.slot].live \/ ~slot[e.slot].recording \/ slot[e.slot].job # e.job

CollectEnd ==
    /\ pc = "collect" /\ hand # <<>> /\ "job" \in DOMAIN Head(hand)
    /\ hand' = Tail(hand)
    /\ LET e == Head(hand) IN
        IF Stale(e) THEN UNCHANGED <<slot, acted, pc, cause>>
        ELSE /\ acted' = TRUE
             /\ slot' = [slot EXCEPT ![e.slot].recording = FALSE,
                                     ![e.slot].ran = IF e.failed THEN @ ELSE @ + 1]
             /\ IF e.failed THEN Quiet("abandon", e.slot, {}, "collect") ELSE UNCHANGED <<pc, cause>>
    /\ UNCHANGED <<formed, before, jobs, lanes, at, todo, hosts, arrived, stopping>>

Waiting(s) == {k \in Live : slot[k].ran = s /\ ~slot[k].recording}

Bad_Steps == {a \in Slots \X Stages : a[1] \in Waiting(a[2]) /\ ~Recording(a[2])
                 /\ \A j \in Waiting(a[2]) : a[1] <= j}
\* round_steps: for a stage whose recorder is free, its oldest waiting pass.
Steps == {a \in Slots \X Stages : a[1] \in Waiting(a[2]) /\ ~Recording(a[2]) /\ a[1] = Earliest(Waiting(a[2]))}
\* And the passes past the last stage, to retire.
Finished == {a \in Live \X {S} : slot[a[1]].ran = S}

Collected ==
    /\ pc = "collect" /\ hand = <<>> /\ at = S
    /\ at' = NextLane(0) /\ before' = formed
    /\ todo' = Steps \cup Finished /\ pc' = "steps"
    /\ UNCHANGED <<slot, formed, jobs, lanes, hand, hosts, cause, acted, arrived, stopping>>

-----------------------------------------------------------------------------
\* The steps in their order: the last stage first, then the passes to retire,
\* the oldest first.
Later(a, b) == a[2] > b[2] \/ (a[2] = b[2] /\ slot[a[1]].formed <= slot[b[1]].formed)
NextStep(steps) ==
    LET stages == {a \in steps : a[2] < S}
        those == IF stages = {} THEN steps ELSE stages
    IN  CHOOSE a \in those : \A b \in those : Later(a, b)

Bad_Stands(a) == slot[a[1]].live /\ slot[a[1]].ran = a[2]
\* A failure may have emptied the slot, and a new pass taken it, since the
\* step was planned.
Stands(a) ==
    /\ slot[a[1]].live /\ slot[a[1]].ran = a[2]
    /\ (pc = "host" => a[2] = 0 \/ slot[a[1]].formed <= before)

Bad_Apart(s) == s \in Threaded /\ (s \in Always \/ Cardinality(Live) > 1)
\* The stage's thread records what would overlap another pass, and what comes
\* behind its items.
Apart(s) == s \in Threaded /\ (s \in Always \/ Cardinality(Live) > 1 \/ Busy(s))

Advancing == pc \in {"steps", "form", "host"} /\ todo # {}

\* A stage records one pass at a time.
Drop(a) ==
    /\ Advancing /\ a = NextStep(todo)
    /\ ~Stands(a) \/ (Apart(a[2]) /\ Recording(a[2]))
    /\ todo' = todo \ {a}
    /\ UNCHANGED <<passes, jobs, lanes, pc, hand, at, hosts, cause, acted, arrived, stopping>>

Defer(a) ==
    /\ Advancing /\ a = NextStep(todo) /\ Stands(a) /\ a[2] \in Host /\ pc # "host"
    /\ todo' = todo \ {a} /\ hosts' = hosts \cup {a}
    /\ UNCHANGED <<passes, jobs, lanes, pc, hand, at, cause, acted, arrived, stopping>>

\* advance, to the stage's thread.
Post(a) ==
    /\ Advancing /\ a = NextStep(todo) /\ Stands(a) /\ Apart(a[2]) /\ ~Recording(a[2])
    /\ todo' = todo \ {a} /\ acted' = TRUE
    /\ jobs' = jobs + 1
    /\ slot' = [slot EXCEPT ![a[1]].recording = TRUE, ![a[1]].job = jobs']
    /\ post' = [post EXCEPT ![a[2]] = [slot |-> a[1], job |-> jobs']]
    /\ UNCHANGED <<formed, before, ends, queued, items, reports, lane, pc, hand, at, hosts, cause, arrived, stopping>>

\* The stage's blocks cannot be taken.
PrepareFails(a) ==
    /\ Advancing /\ a = NextStep(todo) /\ Stands(a) /\ Apart(a[2]) /\ ~Recording(a[2]) /\ Failures
    /\ todo' = todo \ {a} /\ acted' = TRUE
    /\ Quiet("abandon", a[1], {}, pc)
    /\ UNCHANGED <<passes, jobs, lanes, hand, at, hosts, arrived, stopping>>

\* advance, inline.
Inline(a) ==
    /\ Advancing /\ a = NextStep(todo) /\ Stands(a) /\ a[2] < S
    /\ ~Apart(a[2]) /\ (a[2] \in Host => pc = "host")
    /\ todo' = todo \ {a} /\ acted' = TRUE /\ pc' = "inline"
    /\ cause' = [why |-> "inline", slot |-> a[1], request |-> {}, back |-> pc]
    /\ UNCHANGED <<passes, jobs, lanes, hand, at, hosts, arrived, stopping>>

InlineEnds(fails) ==
    /\ pc = "inline" /\ (fails => Failures)
    /\ IF fails THEN Quiet("undo", cause.slot, {}, cause.back) /\ UNCHANGED slot
       ELSE /\ slot' = [slot EXCEPT ![cause.slot].ran = @ + 1]
            /\ pc' = cause.back /\ cause' = NoCause
    /\ UNCHANGED <<formed, before, jobs, lanes, hand, at, todo, hosts, acted, arrived, stopping>>

Retire(a) ==
    /\ Advancing /\ a = NextStep(todo) /\ Stands(a) /\ a[2] = S
    /\ todo' = todo \ {a}
    /\ slot' = Vacated({a[1]})
    /\ UNCHANGED <<formed, before, jobs, lanes, pc, hand, at, hosts, cause, acted, arrived, stopping>>

\* The logits cannot be read, or a draw throws.
RetireFails(a) ==
    /\ Advancing /\ a = NextStep(todo) /\ Stands(a) /\ a[2] = S /\ Failures
    /\ todo' = todo \ {a}
    /\ Quiet("abandon", a[1], {}, pc)
    /\ UNCHANGED <<passes, jobs, lanes, hand, at, hosts, acted, arrived, stopping>>

\* The steps are done: room is made only in a free slot.
Stepped ==
    /\ pc = "steps" /\ todo = {}
    /\ IF Live # Slots THEN pc' = "room" /\ UNCHANGED <<todo, hosts>>
       ELSE pc' = "host" /\ todo' = hosts /\ hosts' = {}
    /\ UNCHANGED <<passes, jobs, lanes, hand, at, cause, acted, arrived, stopping>>

-----------------------------------------------------------------------------
\* Room: a job recalled from flight, device work of a request queued to a
\* stage's thread, and admission under the lock, which may drop a donor.
Recall(r) ==
    LET held == {k \in Live : r \in slot[k].members} IN
    /\ pc = "room"
    /\ \A k \in held : slot[k].members = {r} /\ ~slot[k].wants
    /\ \E k \in held : slot[k].continues
    /\ Quiet("leave", 0, {r}, "admit")
    /\ UNCHANGED <<passes, jobs, lanes, hand, at, todo, hosts, acted, arrived, stopping>>

DeferItem(s, r) ==
    /\ pc = "room" /\ ~InFlight(r) /\ queued < MaxItems
    /\ queued' = queued + 1
    /\ items' = [items EXCEPT ![s] = Append(@, r)]
    /\ pc' = "admit"
    /\ UNCHANGED <<passes, jobs, post, ends, reports, lane, hand, at, todo, hosts, cause, acted, arrived, stopping>>

Admit ==
    /\ pc = "room" /\ pc' = "admit"
    /\ UNCHANGED <<passes, jobs, lanes, hand, at, todo, hosts, cause, acted, arrived, stopping>>

Admitted ==
    /\ pc = "admit"
    /\ \/ Quiet("donor", 0, {}, "form")
       \/ pc' = "form" /\ UNCHANGED cause
    /\ UNCHANGED <<passes, jobs, lanes, hand, at, todo, hosts, acted, arrived, stopping>>

-----------------------------------------------------------------------------
FreeSlot == CHOOSE k \in Slots \ Live : \A j \in Slots \ Live : k <= j

\* A pass takes requests out of flight, or continues one alone.
Members(rs) == (\A r \in rs : ~InFlight(r)) \/ (\E r \in rs : rs = {r} /\ Continues(r))

\* form: the pass begun, its first stage to advance.
Form(rs, wants) ==
    /\ pc = "form" /\ todo = {} /\ formed < MaxPasses
    /\ Live # Slots /\ Cardinality(Live) < Limit /\ ~FirstStageHeld
    /\ Members(rs)
    /\ slot' = [slot EXCEPT ![FreeSlot] = [live |-> TRUE, recording |-> FALSE, ran |-> 0, formed |-> formed + 1,
                                            job |-> 0, members |-> rs, wants |-> wants,
                                            continues |-> \E r \in rs : InFlight(r)]]
    /\ formed' = formed + 1
    /\ todo' = {<<FreeSlot, 0>>}
    /\ UNCHANGED <<before, jobs, lanes, pc, hand, at, hosts, cause, acted, arrived, stopping>>

Formed ==
    /\ pc = "form" /\ todo = {}
    /\ pc' = "host" /\ todo' = hosts /\ hosts' = {}
    /\ UNCHANGED <<passes, jobs, lanes, hand, at, cause, acted, arrived, stopping>>

\* A pass the model refuses: run ends every active request and goes on.
FormFails ==
    /\ pc = "form" /\ todo = {} /\ Failures
    /\ Quiet("abort", 0, {}, "host") /\ hosts' = {}
    /\ UNCHANGED <<passes, jobs, lanes, hand, at, todo, acted, arrived, stopping>>

\* The round could do nothing while a stage records.
Rests == ~acted /\ \E k \in Live : slot[k].recording

EndRound ==
    /\ pc = "host" /\ todo = {}
    /\ pc' = IF Rests THEN "look2" ELSE "look"
    /\ UNCHANGED <<passes, jobs, lanes, hand, at, todo, hosts, cause, acted, arrived, stopping>>

-----------------------------------------------------------------------------
Advance ==
    \E a \in Slots \X (0..S) :
        Drop(a) \/ Defer(a) \/ Post(a) \/ PrepareFails(a) \/ Inline(a) \/ Retire(a) \/ RetireFails(a)
Scheduler ==
    \/ Look \/ LookAgain \/ Sleep \/ Quieted
    \/ CollectTake \/ CollectReport \/ CollectEnd \/ Collected
    \/ Advance \/ Stepped \/ Admit \/ Admitted \/ Formed \/ FormFails \/ EndRound
    \/ \E fails \in BOOLEAN : InlineEnds(fails)
    \/ \E r \in Requests : Recall(r)
    \/ \E s \in Threaded, r \in Requests : DeferItem(s, r)
    \/ \E rs \in SUBSET Requests \ {{}}, wants \in BOOLEAN : Form(rs, wants)
Recorder(s) ==
    \/ Take(s) \/ Wake(s) \/ Leave(s)
    \/ \E fails \in BOOLEAN : ItemEnds(s, fails) \/ RecordEnds(s, fails)
\* The loop and the recorders have ended, or the process has.
Over ==
    /\ pc = "terminated" \/ (pc = "done" /\ \A s \in Threaded : lane[s] = "gone")
    /\ UNCHANGED vars
Next == Scheduler \/ (\E s \in Threaded : Recorder(s)) \/ Submit \/ Stop \/ Over

\* Threads are scheduled; a lock a waker spins for is had at last, the
\* scheduler letting it go for every sleep and every round.
Fairness ==
    /\ WF_vars(Scheduler)
    /\ \A s \in Threaded : WF_vars(Take(s) \/ Leave(s)) /\ SF_vars(Wake(s))
    /\ \A s \in Threaded : WF_vars(\E fails \in BOOLEAN : ItemEnds(s, fails) \/ RecordEnds(s, fails))
Spec == Init /\ [][Next]_vars /\ Fairness

-----------------------------------------------------------------------------
\* A stage's thread records the pass the round thinks it does: no pass leaves
\* flight under the thread that works on its devices, and no end of an earlier
\* hand-over is taken for it.
RecordsItsPass ==
    \A s \in Threaded : post[s] # NoPost =>
        LET k == post[s].slot IN slot[k].live /\ slot[k].recording /\ slot[k].ran = s /\ slot[k].job = post[s].job

\* A stage the scheduler's thread records itself has an idle recorder: a
\* device takes one thread's calls at a time.
OneThreadAStage ==
    pc = "inline" /\ slot[cause.slot].ran \in Threaded =>
        LET s == slot[cause.slot].ran IN Idle(s) /\ lane[s] \notin {"record", "item"}

\* The passes run every stage in the order they were formed, one at a time, so
\* a continued prompt's rows are written in order.
FormationOrder ==
    \A j, k \in Live : slot[j].formed < slot[k].formed =>
        slot[j].ran >= slot[k].ran /\ (slot[j].ran = slot[k].ran => ~slot[k].recording)

\* A recording's failure ends its requests, and the scheduler's thread goes on.
FailsAlone == pc # "terminated"

\* No pass stays in flight: no failure ends the process over it (FailsAlone), no
\* wake is lost, and no two threads wait for each other.
PassesEnd == \A k \in Slots : slot[k].live ~> ~slot[k].live

\* The loop and every recorder end once stopped.
StopEnds == stopping ~> \/ pc = "done" /\ \A s \in Threaded : lane[s] = "gone"
                        \/ pc = "terminated"

\* The round's hand-overs: their types, what a stage's thread records, and that
\* nobody else works on that stage meanwhile.
HandOverSound == TypeOK /\ RecordsItsPass /\ OneThreadAStage
=============================================================================
