------------------------------ MODULE Exchange ------------------------------
(***************************************************************************)
(* A tensor group's sums over Vulkan devices                               *)
(* (backends/vulkan/vulkan_collective.hpp) and the one thread that makes   *)
(* the group's queue calls (VulkanSubmitter, with prepare, queued, made,   *)
(* wait_for, give_up and raise of VulkanBackend, vulkan_backend.cpp).      *)
(*                                                                         *)
(* The recording thread records passes of some sums each and hands their   *)
(* submissions over as jobs; the queue thread calls, or after a failure    *)
(* settles uncalled; every device runs its queue in order, behind its      *)
(* peers' fences.  Rows are the number of the sum they are of, and a       *)
(* member's residual is the sums it has gained, 0 for one of other rows.   *)
(***************************************************************************)
EXTENDS Integers, Sequences, FiniteSets, SequencesExt

CONSTANTS
    Settings,   \* records: members, passes, sums a pass, the large sums, failing calls (a bound), whether a record is split
    Ring,       \* kRing: a member's command buffers
    InFlight,   \* bound: passes recorded and not read
    Readers     \* how a pass's rows are read: "head" (pass_logits), "crossing" (receive)

VARIABLES
    setting,
    pc, at, turn, held,                 \* the recording thread: its place, pass and sum, member, and a job refused
    status, tickets, got,               \* per pass: how far it is, its submissions, the rows read
    parity,                             \* parity_
    last, open, waits,                  \* per member: tickets_.last(), the commands recorded, waits_
    made, good, lost,                   \* made_ticket_, good_ticket_, lost_
    jobs, q, failed, fails,             \* jobs_, the queue thread, failed_; calls failed, counted for the bound
    imported,                           \* what each member's wait_ semaphore for each peer holds: the peer's submission, or 0
    queue, timeline, mem                \* the devices: queued work, timeline value, memory

recorder == <<pc, at, turn, held, status, tickets, got, parity, last, open, waits>>
caller == <<jobs, q, failed, fails>>
ledger == <<made, good, lost>>
devices == <<queue, timeline, mem>>
vars == <<setting, recorder, caller, ledger, imported, devices>>

Members == 1..setting.members
Passes == 1..setting.passes
Sums == setting.sums
Peers(m) == Members \ {m}
SumOf(a) == (a.pass - 1) * Sums + a.sum
\* two_shot_crossover: from three members on, the sums of many rows.
TwoShots(k) == k \in setting.large /\ setting.members >= 3

Idle == [at |-> "idle", job |-> [work |-> <<>>, share |-> FALSE], called |-> {}, bad |-> FALSE]
Nowhere == [pass |-> 0, sum |-> 0, shot |-> 1]
Command(do, k, p) == [do |-> do, k |-> k, p |-> p]

Init ==
    /\ setting \in Settings
    /\ pc = "idle" /\ at = Nowhere /\ turn = 1 /\ held = [job |-> Idle.job, back |-> "raise"]
    /\ status = [p \in Passes |-> "none"] /\ tickets = [p \in Passes |-> [m \in Members |-> 0]]
    /\ got = [p \in Passes |-> {}] /\ parity = 0
    /\ last = [m \in Members |-> 0] /\ open = [m \in Members |-> <<>>] /\ waits = [m \in Members |-> {}]
    /\ made = last /\ good = last /\ lost = waits
    /\ jobs = <<>> /\ q = Idle /\ failed = FALSE /\ fails = 0
    /\ imported = [m \in Members |-> [t \in Members |-> 0]]
    /\ queue = open /\ timeline = last
    /\ mem = [partial |-> last, share |-> last, x |-> open,
              inbox |-> [p \in 0..1 |-> [m \in Members |-> [t \in Members |-> 0]]],
              gather |-> [p \in 0..1 |-> [m \in Members |-> [t \in Members |-> 0]]],
              host |-> [m \in Members |-> [p \in Passes |-> <<>>]]]

-----------------------------------------------------------------------------
\* The devices.  A sum's rows are right when every peer's are of that sum.
Gained(x, k, right) == Append(x, IF right THEN k ELSE 0)
Whole(inbox, m, k) == \A t \in Peers(m) : inbox[m][t] = k

Run(w, m, c) ==
    CASE c.do = "embed" -> [w EXCEPT !.x[m] = <<>>]
      [] c.do = "part" -> [w EXCEPT !.partial[m] = c.k]
      [] c.do = "push" -> [w EXCEPT !.inbox[c.p] = [t \in Members |-> IF t = m THEN @[t] ELSE [@[t] EXCEPT ![m] = w.partial[m]]]]
      [] c.do = "sum" -> [w EXCEPT !.x[m] = Gained(@, c.k, Whole(w.inbox[c.p], m, c.k) /\ w.partial[m] = c.k)]
      [] c.do = "share" ->
            LET s == IF Whole(w.inbox[c.p], m, c.k) /\ w.partial[m] = c.k THEN c.k ELSE 0
            IN  [w EXCEPT !.share[m] = s, !.gather[c.p] = [t \in Members |-> IF t = m THEN @[t] ELSE [@[t] EXCEPT ![m] = s]]]
      [] c.do = "gathered" -> [w EXCEPT !.x[m] = Gained(@, c.k, Whole(w.gather[c.p], m, c.k) /\ w.share[m] = c.k)]
      [] c.do = "out" -> [w EXCEPT !.host[m][c.k] = w.x[m]]

\* A device runs the next submission of its queue once its peers' fences are signalled.
Execute(m) ==
    /\ queue[m] # <<>>
    /\ LET s == Head(queue[m]) IN
        /\ \A f \in s.fences : f.ticket > 0 /\ timeline[f.peer] >= f.ticket
        /\ mem' = FoldLeft(LAMBDA w, c : Run(w, m, c), mem, s.cmds)
        /\ timeline' = [timeline EXCEPT ![m] = s.ticket]
    /\ queue' = [queue EXCEPT ![m] = Tail(@)]
    /\ UNCHANGED <<setting, recorder, caller, ledger, imported>>

-----------------------------------------------------------------------------
\* The queue thread (loop, exchange_calls).
Lost(work) == [m \in Members |-> IF m \in DOMAIN work THEN lost[m] \cup {work[m].ticket} ELSE lost[m]]
Bad_MadeAs(work) == made
MadeAs(work) == [m \in Members |-> IF m \in DOMAIN work THEN work[m].ticket ELSE made[m]]

Bad_Take ==
    /\ q.at = "idle" /\ jobs # <<>>
    /\ jobs' = Tail(jobs)
    /\ q' = [Idle EXCEPT !.at = "call", !.job = Head(jobs)]
    /\ UNCHANGED <<setting, recorder, failed, fails, ledger, imported, devices>>

Take ==
    /\ q.at = "idle" /\ jobs # <<>>
    /\ jobs' = Tail(jobs)
    /\ IF failed
       THEN /\ made' = MadeAs(Head(jobs).work) /\ lost' = Lost(Head(jobs).work) /\ UNCHANGED q
       ELSE /\ q' = [Idle EXCEPT !.at = "call", !.job = Head(jobs)] /\ UNCHANGED <<made, lost>>
    /\ UNCHANGED <<setting, recorder, failed, fails, good, imported, devices>>

\* vkQueueSubmit, and of an exchange the export of the member's fence, each member's call by a thread of its own.
Call(m, result) ==
    /\ q.at = "call" /\ m \in DOMAIN q.job.work \ q.called
    /\ (result = "export fails" => q.job.share)
    /\ (result # "made" => fails < setting.fails)
    /\ fails' = IF result = "made" THEN fails ELSE fails + 1
    /\ q' = [q EXCEPT !.called = @ \cup {m}, !.bad = @ \/ result # "made"]
    /\ LET w == q.job.work[m] IN
        IF result = "refused" THEN UNCHANGED <<queue, made, good, imported>>
        ELSE /\ queue' = [queue EXCEPT ![m] = Append(@, [ticket |-> w.ticket, cmds |-> w.cmds,
                             fences |-> {[peer |-> t, ticket |-> imported[m][t]] : t \in w.waits}])]
             /\ imported' = [imported EXCEPT ![m] = [t \in Members |-> IF t \in w.waits THEN 0 ELSE @[t]]]
             /\ made' = [made EXCEPT ![m] = w.ticket] /\ good' = [good EXCEPT ![m] = w.ticket]
    /\ UNCHANGED <<setting, recorder, jobs, failed, lost, timeline, mem>>

\* The peers' imports, some of which may fail; a job that failed is told before its tickets are settled.
Called(fail) ==
    /\ q.at = "call" /\ q.called = DOMAIN q.job.work
    /\ (fail => q.job.share /\ ~q.bad /\ fails < setting.fails)
    /\ fails' = IF fail THEN fails + 1 ELSE fails
    /\ IF q.bad \/ fail
       THEN failed' = TRUE /\ q' = [q EXCEPT !.at = "settle"] /\ UNCHANGED imported
       ELSE /\ q' = Idle /\ UNCHANGED failed
            /\ imported' = IF ~q.job.share THEN imported
                           ELSE [t \in Members |-> [m \in Members |-> IF m = t THEN 0 ELSE q.job.work[m].ticket]]
    /\ UNCHANGED <<setting, recorder, jobs, ledger, devices>>

Settle ==
    /\ q.at = "settle" /\ q' = Idle
    /\ made' = MadeAs(q.job.work) /\ lost' = Lost(q.job.work)
    /\ UNCHANGED <<setting, recorder, jobs, failed, fails, good, imported, devices>>

QueueThread ==
    \/ Take \/ Settle \/ \E fail \in BOOLEAN : Called(fail)
    \/ \E m \in Members, result \in {"made", "refused", "export fails"} : Call(m, result)

-----------------------------------------------------------------------------
\* The recording thread.  Waits (wait_for, with TicketLedger) and hand-overs
\* (VulkanSubmitter::run) are its meetings with the queue thread.
\* A ticket's call is made or given up, and the last work queued up to it done.
Settled(m, t) == made[m] >= t /\ timeline[m] >= (IF good[m] < t THEN good[m] ELSE t)
\* open: the next command buffer's last submission is over.
RingFree(m) == open[m] # <<>> \/ Settled(m, last[m] + 1 - Ring)
AllJobsRan == jobs = <<>> /\ q = Idle

Submission(m) == [ticket |-> last[m] + 1, cmds |-> open[m], waits |-> waits[m]]
FlushOf(m) == [work |-> [t \in {m} |-> Submission(m)], share |-> FALSE]
Ended(m) == last' = [last EXCEPT ![m] = @ + 1] /\ open' = [open EXCEPT ![m] = <<>>] /\ waits' = [waits EXCEPT ![m] = {}]

\* VulkanSubmitter::run: the job is queued, or refused where a failure is not yet given out.
HandOver(job, back, next) ==
    /\ held' = [job |-> job, back |-> back]
    /\ pc' = IF failed THEN "refused" ELSE next
    /\ jobs' = IF failed THEN jobs ELSE Append(jobs, job)

Begin ==
    /\ pc = "idle" /\ Cardinality({p \in Passes : status[p] = "recorded"}) < InFlight
    /\ \E p \in Passes :
        /\ status[p] = "none" /\ \A o \in 1..p - 1 : status[o] # "none"
        /\ status' = [status EXCEPT ![p] = "begun"] /\ at' = [pass |-> p, sum |-> 1, shot |-> 1]
    /\ \A m \in Members : RingFree(m)
    /\ pc' = "record" /\ open' = [m \in Members |-> <<Command("embed", 0, 0)>>]
    /\ UNCHANGED <<setting, turn, held, tickets, got, parity, last, waits, caller, ledger, imported, devices>>

\* A record that reaches the chunk's limit submits what it holds.
Splits(m) ==
    /\ pc = "record" /\ setting.splits /\ open[m] # <<>> /\ HandOver(FlushOf(m), "raise", "record") /\ Ended(m)
    /\ UNCHANGED <<setting, at, turn, status, tickets, got, parity, q, failed, fails, ledger, imported, devices>>

\* What a sum records before an exchange, and after it.
Toward(k, p) == IF at.shot = 1 THEN <<Command("part", k, p), Command("push", k, p)>> ELSE <<>>
After(k, p) == <<Command(IF at.shot = 2 THEN "gathered" ELSE IF TwoShots(k) THEN "share" ELSE "sum", k, p)>>
LastOfSum(k) == at.shot = 2 \/ ~TwoShots(k)
Bad_NextParity == parity
NextParity == IF at.shot = 1 THEN 1 - parity ELSE parity
Onward(k) == IF ~LastOfSum(k) THEN [at EXCEPT !.shot = 2] ELSE [at EXCEPT !.sum = @ + 1, !.shot = 1]
PassOver(k) == LastOfSum(k) /\ at.sum = Sums
\* sum, two_shots and exchange; behind the pass's last sum its rows go out.
Exchange ==
    /\ pc = "record" /\ \A m \in Members : RingFree(m)
    /\ LET k == SumOf(at)
           p == IF at.shot = 1 THEN parity ELSE 1 - parity
           work == [m \in Members |-> [Submission(m) EXCEPT !.cmds = @ \o Toward(k, p)]]
           behind == After(k, p) \o (IF PassOver(k) THEN <<Command("out", at.pass, 0)>> ELSE <<>>)
       IN  /\ HandOver([work |-> work, share |-> TRUE], "raise", IF PassOver(k) THEN "submit" ELSE "record")
           /\ open' = [m \in Members |-> IF failed THEN <<>> ELSE behind]
           /\ at' = Onward(k)
    /\ last' = [m \in Members |-> last[m] + 1] /\ waits' = [m \in Members |-> Peers(m)]
    /\ parity' = NextParity /\ turn' = 1
    /\ UNCHANGED <<setting, status, tickets, got, q, failed, fails, ledger, imported, devices>>

\* stage_submit: each member's submission, in turn.
Submit ==
    /\ pc = "submit" /\ HandOver(FlushOf(turn), "raise", IF turn = setting.members THEN "idle" ELSE "submit") /\ Ended(turn)
    /\ tickets' = [tickets EXCEPT ![at.pass][turn] = last'[turn]]
    /\ status' = IF ~failed /\ turn = setting.members THEN [status EXCEPT ![at.pass] = "recorded"] ELSE status
    /\ turn' = turn + 1
    /\ UNCHANGED <<setting, at, got, parity, q, failed, fails, ledger, imported, devices>>

\* The refused job's tickets are settled on this thread, beside the queue thread's settling of the jobs before it.
Refused ==
    /\ pc = "refused" /\ pc' = held.back
    /\ made' = MadeAs(held.job.work) /\ lost' = Lost(held.job.work)
    /\ UNCHANGED <<setting, at, turn, held, status, tickets, got, parity, last, open, waits, caller, good, imported, devices>>

\* raise: once the jobs handed over are settled the failure is given out, and the collective recovers.
GiveOut ==
    /\ pc = "raise" /\ AllJobsRan
    /\ failed' = FALSE /\ pc' = "recover" /\ turn' = 1
    /\ UNCHANGED <<setting, at, held, status, tickets, got, parity, last, open, waits, jobs, q, fails, ledger, imported, devices>>

\* give_up, a member at a time: another failure in between ends the process.
GiveUp ==
    /\ pc = "recover"
    /\ IF open[turn] = <<>>
       THEN pc' = "recovering" /\ waits' = [waits EXCEPT ![turn] = {}] /\ UNCHANGED <<held, jobs, last, open>>
       ELSE /\ HandOver([FlushOf(turn) EXCEPT !.work[turn].waits = {}], "aborted", "recovering") /\ Ended(turn)
    /\ UNCHANGED <<setting, at, turn, status, tickets, got, parity, q, failed, fails, ledger, imported, devices>>
NextMember(here, over) ==
    IF turn < setting.members THEN pc' = here /\ turn' = turn + 1 ELSE pc' = over /\ turn' = 1
GivenUp ==
    /\ pc = "recovering" /\ Settled(turn, last[turn])
    /\ good' = [good EXCEPT ![turn] = last[turn]]
    /\ timeline' = [timeline EXCEPT ![turn] = last[turn]]
    /\ NextMember("recover", "drain")
    /\ imported' = IF turn = setting.members THEN [m \in Members |-> [t \in Members |-> 0]] ELSE imported
    /\ UNCHANGED <<setting, at, held, status, tickets, got, parity, last, open, waits, caller, made, lost, queue, mem>>

\* A failed pass: every member drained (release, retire), what it holds submitted or given up, a failure kept for the next hand-over.
Drain ==
    /\ pc = "drain"
    /\ IF open[turn] = <<>> /\ waits[turn] = {}
       THEN pc' = "draining" /\ UNCHANGED <<held, jobs, last, open, waits>>
       ELSE HandOver(FlushOf(turn), "draining", "draining") /\ Ended(turn)
    /\ UNCHANGED <<setting, at, turn, status, tickets, got, parity, q, failed, fails, ledger, imported, devices>>
Drained ==
    /\ pc = "draining" /\ Settled(turn, last[turn])
    /\ NextMember("drain", "idle")
    /\ status' = IF turn = setting.members THEN [status EXCEPT ![at.pass] = "failed"] ELSE status
    /\ UNCHANGED <<setting, at, held, tickets, got, parity, last, open, waits, caller, ledger, imported, devices>>

\* A pass's rows are read once its submissions are over: the head's of every
\* member, unless one was given up (pass_logits); at a crossing the first
\* member's (receive).
Read(reader) ==
    /\ pc = "idle"
    /\ \E p \in Passes :
        LET from == IF reader = "head" THEN Members ELSE {1}
        IN  /\ status[p] = "recorded" /\ \A m \in from : Settled(m, tickets[p][m])
            /\ at' = [Nowhere EXCEPT !.pass = p] /\ turn' = 1
            /\ IF reader = "head" /\ \E m \in from : tickets[p][m] \in lost[m]
               THEN /\ status' = [status EXCEPT ![p] = "begun"] /\ pc' = (IF failed THEN "raise" ELSE "drain") /\ UNCHANGED got
               ELSE /\ status' = [status EXCEPT ![p] = "read"] /\ UNCHANGED pc
                    /\ got' = [got EXCEPT ![p] = {mem.host[m][p] : m \in from}]
    /\ UNCHANGED <<setting, held, tickets, parity, last, open, waits, caller, ledger, imported, devices>>

RecordingThread ==
    \/ Begin \/ Exchange \/ Submit \/ Refused \/ GiveOut \/ GiveUp \/ GivenUp \/ Drain \/ Drained
    \/ \E m \in Members : Splits(m)
    \/ \E reader \in Readers : Read(reader)

\* A ticket was given up by this thread before an earlier one by the queue's: made_ticket_ stays at the earlier, and nobody wakes who waits for it.
Forgotten(m, t) == made[m] < t /\ t \in lost[m]
Hung == AllJobsRan /\ pc \in {"recovering", "draining"} /\ Forgotten(turn, last[turn])

Next == RecordingThread \/ QueueThread \/ \E m \in Members : Execute(m)

\* Each thread goes on, and each device runs what it can.
Spec ==
    /\ Init /\ [][Next]_vars
    /\ WF_vars(RecordingThread) /\ WF_vars(QueueThread) /\ \A m \in 1..3 : WF_vars(m \in Members /\ Execute(m))

-----------------------------------------------------------------------------
\* Rows read of a pass are the residual of all its sums, in order, on every
\* member: no inbox is written before its owner has read it, no submission
\* runs ahead of a peer's, and no result of one given up is read.
PassSums(p) == [i \in 1..Sums |-> (p - 1) * Sums + i]
ReadsWhole == \A p \in Passes : status[p] = "read" => got[p] = {PassSums(p)}

\* Every pass begun is read or fails, whatever call of the queue fails, but for
\* a second failure while it recovers and the hang NoWaiterHangs is about.
PassesSettle == \A p \in 1..3 : p \in Passes /\ status[p] = "begun" ~> p \notin Passes \/ status[p] \in {"read", "failed"} \/ pc = "aborted" \/ Hung

\* A call that fails settles its own tickets and every later job's, so no
\* waiter hangs (vulkan_backend.cpp, VulkanSubmitter): who waits for a member's
\* last ticket, to recover or to drain it, is woken.
Waiting == pc \in {"recovering", "draining"}
NoWaiterHangs == Waiting ~> ~Waiting
=============================================================================
