---------------------------- MODULE Round_proofs ----------------------------
(***************************************************************************)
(* The passes in flight of Round, for every model, whichever stages have a *)
(* thread or are on the host, and whatever fails: they run every stage in  *)
(* the order they were formed, one at a time; each stage's thread records  *)
(* the pass the round thinks it does; and no two threads work on one stage.*)
(*                                                                         *)
(* The round plans its steps ahead of them and a slot may be emptied and   *)
(* taken again between, so the invariant says what a planned step still    *)
(* promises when it comes up: of a pass there since the plan, that no      *)
(* earlier pass is left at its stage (Planned); of one formed since, that  *)
(* the first stage is its own or that the earlier ones stand before it     *)
(* (First).                                                                *)
(***************************************************************************)
EXTENDS Round, SequenceLemmas, FiniteSetTheorems, SequenceTheorems, TLAPS

\* What the scheduler's thread goes back to once an inline recording or the wait for quiet recorders is over.
Phase == IF pc \in {"inline", "quiet"} THEN cause.back ELSE pc

EndOf == [slot : Slots, job : 1..jobs, failed : BOOLEAN]
Told == [report : Requests] \cup EndOf

Causes == [why : {"none", "inline", "abandon", "undo", "leave", "donor", "abort"}, slot : 0..SlotCount,
           request : SUBSET Requests, back : Places]

Typed ==
    /\ TypeOK
    /\ cause \in Causes
    /\ hand \in Seq(Told) /\ at \in Threaded \cup {S}
    /\ \A k \in Slots : slot[k].formed <= formed

\* Every hand-over has a job of its own, which is nobody's once its end is told.
Untold(q) == \A i \in DOMAIN q : "job" \in DOMAIN q[i] => \A s \in Threaded : post[s] # NoPost => post[s].job # q[i].job
Handed ==
    /\ \A s \in Threaded : post[s] # NoPost => post[s].slot \in Slots /\ post[s].job \in 1..jobs
    /\ \A s, t \in Threaded : post[s] # NoPost /\ post[t] # NoPost /\ post[s].job = post[t].job => s = t
    /\ \A s \in Threaded : (lane[s] = "record" => post[s] # NoPost) /\ (lane[s] = "item" => items[s] # <<>>)
    /\ \A s \in Threaded : Untold(ends[s])
    /\ Untold(hand)
    /\ \A k \in Live : slot[k].recording => slot[k].ran \in Threaded

\* Nobody earlier is at stage s: k is next there.
Foremost(k, s) == \A j \in Live : slot[j].formed < slot[k].formed => slot[j].ran > s

Waits ==
    /\ pc = "inline" =>
        /\ cause.why = "inline" /\ cause.slot \in Live /\ ~slot[cause.slot].recording /\ slot[cause.slot].ran < S
        /\ cause.back \in {"steps", "form", "host"} /\ Foremost(cause.slot, slot[cause.slot].ran)
    /\ pc = "quiet" =>
        /\ cause.why \in {"abandon", "undo", "leave", "donor", "abort"}
        /\ cause.why \in {"abandon", "undo"} => cause.slot \in Slots
        /\ cause.back \in {"done", "collect", "admit", "form", "host", "steps"}

Phases ==
    /\ todo # {} => Phase \in {"steps", "form", "host"}
    /\ hosts # {} => Phase \in {"steps", "room", "admit", "form"}
    /\ Phase = "steps" => before = formed
    /\ \A a \in hosts : a[2] \in Host
    /\ Phase = "host" => \A a \in todo : a[2] \in Host
    /\ Phase = "form" => \A a, b \in todo : a = b /\ a[2] = 0

Planned ==
    /\ \A a \in todo : slot[a[1]].live /\ slot[a[1]].ran = a[2] => ~slot[a[1]].recording
    /\ \A a \in todo \cup hosts : slot[a[1]].live /\ slot[a[1]].formed <= before =>
        /\ a[2] <= slot[a[1]].ran
        /\ a[2] = slot[a[1]].ran /\ a[2] < S => Foremost(a[1], a[2])

\* A thread of the first stage has one pass there at most; without one, a pass leaves it within the round.
First ==
    IF 0 \in Threaded THEN \A j, k \in Live : slot[j].ran = 0 /\ slot[k].ran = 0 => j = k
    ELSE \A k \in Live : slot[k].ran = 0 =>
            \/ <<k, 0>> \in todo \cup hosts
            \/ pc \in {"inline", "quiet"} /\ cause.why \in {"inline", "undo"} /\ cause.slot = k
            \/ pc = "quiet" /\ cause.why = "abort"

\* The threads' hand-overs, and the way of the passes, which a failure that
\* ends the process leaves as it was.
Handing == RecordsItsPass /\ OneThreadAStage /\ Handed
Flow == FormationOrder /\ (pc # "terminated" => Waits /\ Phases /\ Planned /\ First)

IInv == Typed /\ Handing /\ Flow
-----------------------------------------------------------------------------
\* The least of a set of naturals a function gives.
LEMMA LeastOf ==
    ASSUME NEW T, T # {}, NEW f \in [T -> Nat]
    PROVE  \E x \in T : \A y \in T : f[x] <= f[y]
<1> DEFINE N == {f[x] : x \in T}
<1>1. PICK n \in N : \A m \in N : n <= m
  <2>1. N \in SUBSET Nat /\ N # {} OBVIOUS
  <2> HIDE DEF N
  <2> QED BY <2>1, LeastNat
<1> QED BY <1>1

LEMMA LaneIs ==
    ASSUME NEW s \in 0..S
    PROVE  NextLane(s) \in Threaded \cup {S}
<1> DEFINE T == {t \in Threaded \cup {S} : t >= s}
<1>1. T \in SUBSET Nat /\ T # {}
  <2>1. S \in Nat /\ S >= s /\ Threaded \subseteq 0..S - 1 BY RoundAssumption DEF Stages
  <2>2. S \in T BY <2>1
  <2>3. \A t \in Threaded : t \in Nat BY <2>1
  <2> QED BY <2>1, <2>2, <2>3
<1>2. PICK t \in T : \A u \in T : t <= u
  <2> HIDE DEF T
  <2> QED BY <1>1, LeastNat
<1>3. \E u \in Stages \cup {S} : u >= s /\ (u \in Threaded \/ u = S) /\ \A v \in Threaded : v >= s => u <= v
  BY <1>2, RoundAssumption DEF Stages
<1> QED BY <1>3 DEF NextLane

LEMMA FreeIs ==
    ASSUME Live # Slots
    PROVE  FreeSlot \in Slots /\ FreeSlot \notin Live
<1>1. Slots \ Live \in SUBSET Nat /\ Slots \ Live # {} BY RoundAssumption DEF Slots, Live
<1>2. \E k \in Slots \ Live : \A j \in Slots \ Live : k <= j BY <1>1, LeastNat
<1> QED BY <1>2 DEF FreeSlot

LEMMA EarliestIs ==
    ASSUME TypeOK, NEW ks \in SUBSET Slots, ks # {}
    PROVE  Earliest(ks) \in ks /\ \A j \in ks : slot[Earliest(ks)].formed <= slot[j].formed
<1>1. \A k \in ks : slot[k].formed \in Nat BY RoundAssumption DEF TypeOK
<1>2. \E k \in ks : \A j \in ks : slot[k].formed <= slot[j].formed
  <2> DEFINE f == [k \in ks |-> slot[k].formed]
  <2>1. f \in [ks -> Nat] BY <1>1
  <2> HIDE DEF f
  <2>2. \E k \in ks : \A j \in ks : f[k] <= f[j] BY <2>1, LeastOf
  <2> QED BY <2>2 DEF f
<1> QED BY <1>2 DEF Earliest

\* The next step is one of those planned, and of the last stage's, the oldest pass's.
LEMMA NextIs ==
    ASSUME TypeOK, todo # {}
    PROVE  /\ NextStep(todo) \in todo
           /\ \A b \in todo : NextStep(todo)[2] < S /\ b[2] < S => Later(NextStep(todo), b)
<1> DEFINE stages == {a \in todo : a[2] < S}
           those == IF stages = {} THEN todo ELSE stages
<1>1. those \subseteq todo /\ those # {} OBVIOUS
<1>2. \A a \in todo : a[1] \in Slots /\ a[2] \in 0..S /\ slot[a[1]].formed \in Nat BY RoundAssumption DEF TypeOK
<1>3. PICK x \in those : \A y \in those : x[2] >= y[2]
  <2>1. \A a \in those : S - a[2] \in Nat BY <1>1, <1>2, RoundAssumption
  <2>2. \E x \in those : \A y \in those : S - x[2] <= S - y[2]
    <3> DEFINE g == [a \in those |-> S - a[2]]
    <3>1. g \in [those -> Nat] BY <2>1
    <3> HIDE DEF those, g
    <3>2. \E x \in those : \A y \in those : g[x] <= g[y] BY <1>1, <3>1, LeastOf
    <3> QED BY <3>2 DEF g
  <2> HIDE DEF those
  <2> QED BY <1>1, <1>2, <2>2, RoundAssumption
<1> DEFINE last == {a \in those : a[2] = x[2]}
<1>4. PICK z \in last : \A y \in last : slot[z[1]].formed <= slot[y[1]].formed
  <2> DEFINE g == [a \in last |-> slot[a[1]].formed]
  <2>1. g \in [last -> Nat] BY <1>1, <1>2
  <2>2. last # {} BY <1>3
  <2> HIDE DEF last, g
  <2>3. \E u \in last : \A y \in last : g[u] <= g[y] BY <2>1, <2>2, LeastOf
  <2> QED BY <2>3 DEF g
<1>5. \A b \in those : Later(z, b)
  <2>1. TAKE b \in those
  <2>2. z[2] = x[2] /\ x[2] >= b[2] /\ (b[2] = x[2] => b \in last) BY <1>3, <1>4
  <2>3. z[2] \in 0..S /\ b[2] \in 0..S BY <1>1, <1>2, <1>4
  <2> HIDE DEF last, those
  <2> QED BY <1>4, <2>2, <2>3 DEF Later
<1>6. NextStep(todo) \in those /\ \A b \in those : Later(NextStep(todo), b)
  <2>1. z \in those BY <1>4
  <2>2. NextStep(todo) = CHOOSE a \in those : \A b \in those : Later(a, b) BY DEF NextStep
  <2> HIDE DEF those
  <2> QED BY <1>5, <2>1, <2>2
<1> QED BY <1>6

\* A step that comes up: its pass is the next at its stage, and nobody records it.
LEMMA StandsForemost ==
    ASSUME IInv, NEW a \in Slots \X (0..S), Advancing, a = NextStep(todo), Stands(a)
    PROVE  /\ a \in todo /\ a[1] \in Live /\ slot[a[1]].ran = a[2] /\ ~slot[a[1]].recording
           /\ a[2] < S /\ (a[2] \in Host => pc = "host") => Foremost(a[1], a[2])
<1> DEFINE k == a[1]
           s == a[2]
<1>1. TypeOK /\ Flow /\ pc \in {"steps", "form", "host"} /\ todo # {} BY DEF IInv, Typed, Advancing
<1>2. a \in todo BY <1>1, NextIs
<1>3. k \in Slots /\ s \in 0..S /\ k \in Live /\ slot[k].ran = s BY DEF Stands, Live
<1>4. Phases /\ Planned /\ First /\ Phase = pc BY <1>1 DEF Flow, Phase
<1>5. ~slot[k].recording BY <1>2, <1>3, <1>4 DEF Planned, Live
<1>6. ASSUME s < S, s \in Host => pc = "host", NEW j \in Live, slot[j].formed < slot[k].formed PROVE slot[j].ran > s
  <2>1. /\ j \in Slots /\ slot[j].live /\ slot[j].ran \in 0..S /\ slot[j].formed \in Nat /\ slot[k].formed \in Nat
        /\ before \in Nat /\ formed \in Nat /\ slot[k].formed <= formed
    BY <1>1, <1>3, RoundAssumption DEF TypeOK, Live, IInv, Typed
  <2>2. CASE slot[k].formed <= before
    BY <1>2, <1>3, <1>4, <1>6, <2>2 DEF Planned, Foremost, Live
  <2>3. CASE slot[k].formed > before
    <3>1. pc # "steps" BY <1>4, <2>1, <2>3 DEF Phases
    <3>2. s = 0
      <4>1. CASE pc = "form" BY <1>2, <1>4, <4>1 DEF Phases
      <4>2. CASE pc = "host" BY <2>1, <2>3, <4>2 DEF Stands
      <4> QED BY <1>1, <3>1, <4>1, <4>2
    <3>3. SUFFICES ASSUME slot[j].ran = 0 PROVE FALSE BY <2>1, <3>2, RoundAssumption
    <3>4. j # k BY <1>6, <2>1
    <3>5. 0 \notin Threaded BY <1>3, <1>4, <3>2, <3>3, <3>4 DEF First
    <3>6. <<j, 0>> \in todo \cup hosts BY <1>1, <1>4, <3>3, <3>5 DEF First
    <3>7. CASE pc = "form"
      <4>1. <<j, 0>> \notin hosts BY <1>4, <1>6, <3>2, <3>7 DEF Phases
      <4>2. a = <<j, 0>> BY <1>2, <1>4, <3>6, <3>7, <4>1 DEF Phases
      <4> QED BY <3>4, <4>2
    <3>8. CASE pc = "host"
      <4>1. <<j, 0>> \in todo BY <1>4, <3>6, <3>8 DEF Phases
      <4>2. Later(a, <<j, 0>>) BY <1>1, <1>6, <3>2, <4>1, NextIs, RoundAssumption
      <4> QED BY <1>6, <2>1, <3>2, <4>2 DEF Later
    <3> QED BY <1>1, <3>1, <3>7, <3>8
  <2> QED BY <2>1, <2>2, <2>3
<1> QED BY <1>2, <1>3, <1>5, <1>6 DEF Foremost

-----------------------------------------------------------------------------
\* Steps that leave the passes, or the hand-overs, as they are.
LEMMA FlowKept ==
    ASSUME Flow, UNCHANGED <<slot, formed, before, todo, hosts, cause>>, pc' \in {pc, Woken(pc)}
    PROVE  Flow'
<1>1. pc' = pc \/ (pc \in {"asleep", "asleep2"} /\ pc' \in {"look", "look2"}) BY DEF Woken
<1>2. Live' = Live BY DEF Live
<1>3. FormationOrder' BY <1>2 DEF Flow, FormationOrder
<1>4. CASE pc' = pc
  <2>1. Phase' = Phase BY <1>4 DEF Phase
  <2>2. (Waits /\ Phases /\ Planned /\ First) => (Waits /\ Phases /\ Planned /\ First)'
    BY <1>2, <1>4, <2>1 DEF Waits, Phases, Planned, First, Foremost, Live
  <2> QED BY <1>3, <1>4, <2>2 DEF Flow
<1>5. CASE pc \in {"asleep", "asleep2"} /\ pc' \in {"look", "look2"}
  <2>1. Phase = pc /\ Phase' = pc' /\ pc # "terminated" BY <1>5 DEF Phase
  <2>2. todo = {} /\ hosts = {} BY <1>5, <2>1 DEF Flow, Phases
  <2>3. (Waits /\ Phases /\ Planned /\ First)'
    BY <1>2, <1>5, <2>1, <2>2 DEF Flow, Waits, Phases, Planned, First, Foremost, Live
  <2> QED BY <1>3, <2>3 DEF Flow
<1> QED BY <1>1, <1>4, <1>5

LEMMA HandingKept ==
    ASSUME Handing, UNCHANGED <<slot, jobs, post, ends, items, lane, hand>>, pc' = "inline" => pc = "inline" /\ cause' = cause
    PROVE  Handing'
<1>1. Live' = Live BY DEF Live
<1> QED BY <1>1 DEF Handing, RecordsItsPass, OneThreadAStage, Handed, Untold, Idle, Live

LEMMA TypedKept ==
    ASSUME Typed, UNCHANGED <<slot, formed, jobs, post, ends, items, reports, lane, queued, hand>>,
           before' \in 0..formed, pc' \in Places, at' \in Threaded \cup {S}, cause' \in Causes,
           todo' \subseteq Slots \X (0..S), hosts' \subseteq Slots \X Stages, <<acted', arrived', stopping'>> \in BOOLEAN \X BOOLEAN \X BOOLEAN
    PROVE  Typed'
<1>1. Told' = Told /\ EndOf' = EndOf /\ Causes' = Causes BY DEF Told, EndOf, Causes
<1>2. at' \in Stages \cup {S} BY RoundAssumption
<1> QED BY <1>1, <1>2 DEF Typed, TypeOK

-----------------------------------------------------------------------------
\* The stages' threads and the clients.
LEMMA TakeKeeps ==
    ASSUME IInv, NEW s \in Threaded, Take(s)
    PROVE  IInv'
<1> USE DEF Take, passes, sched
<1>1. Typed' BY DEF IInv, Typed, TypeOK, Told, EndOf
<1>2. Flow' BY FlowKept DEF IInv
<1>3. Live' = Live BY DEF Live
<1>4. RecordsItsPass' BY DEF IInv, Handing, RecordsItsPass
<1>5. OneThreadAStage' BY DEF IInv, Handing, OneThreadAStage, Idle, Typed, TypeOK
<1>6. Handed'
  <2>1. \A t \in Threaded : (lane'[t] = "record" => post'[t] # NoPost) /\ (lane'[t] = "item" => items'[t] # <<>>)
    <3>1. TAKE t \in Threaded
    <3>2. CASE t = s
      <4>1. lane'[s] = IF items[s] # <<>> THEN "item" ELSE "record" BY DEF IInv, Typed, TypeOK
      <4> QED BY <3>2, <4>1
    <3>3. CASE t # s BY <3>3 DEF IInv, Handing, Handed, Typed, TypeOK
    <3> QED BY <3>2, <3>3
  <2>2. (\A t \in Threaded : Untold(ends[t])') /\ Untold(hand)' BY DEF IInv, Handing, Handed, Untold
  <2> QED BY <1>3, <2>1, <2>2 DEF IInv, Handing, Handed
<1> QED BY <1>1, <1>2, <1>4, <1>5, <1>6 DEF IInv, Handing

LEMMA ItemEndsKeeps ==
    ASSUME IInv, NEW s \in Threaded, NEW fails \in BOOLEAN, ItemEnds(s, fails)
    PROVE  IInv'
<1> USE DEF ItemEnds, passes, sched
<1>0. items[s] \in Seq(Requests) /\ items[s] # <<>> BY DEF IInv, Handing, Handed, Typed, TypeOK
<1>1. Typed'
  <2>1. Tail(items[s]) \in Seq(Requests) /\ Append(reports[s], Head(items[s])) \in Seq(Requests)
    BY <1>0 DEF IInv, Typed, TypeOK
  <2> QED BY <2>1 DEF IInv, Typed, TypeOK, Told, EndOf
<1>2. Flow' BY FlowKept DEF IInv
<1>3. Live' = Live BY DEF Live
<1>4. RecordsItsPass' BY DEF IInv, Handing, RecordsItsPass
<1>5. OneThreadAStage' BY DEF IInv, Handing, OneThreadAStage, Idle, Typed, TypeOK
<1>6. Handed' BY <1>3 DEF IInv, Handing, Handed, Untold, Live, Typed, TypeOK
<1> QED BY <1>1, <1>2, <1>4, <1>5, <1>6 DEF IInv, Handing

LEMMA RecordEndsKeeps ==
    ASSUME IInv, NEW s \in Threaded, NEW fails \in BOOLEAN, RecordEnds(s, fails)
    PROVE  IInv'
<1> USE DEF RecordEnds, passes, sched
<1> DEFINE e == [slot |-> post[s].slot, job |-> post[s].job, failed |-> fails]
<1>0. post[s] # NoPost /\ e \in EndOf BY DEF IInv, Handing, Handed, EndOf
<1>a. ends[s] \in Seq(EndOf) BY DEF IInv, Typed, TypeOK, EndOf
<1>b. Append(ends[s], e) \in Seq(EndOf) BY <1>0, <1>a
<1>c. e.job = post[s].job OBVIOUS
<1>d. ends' = [ends EXCEPT ![s] = Append(ends[s], e)] OBVIOUS
<1> HIDE DEF e
<1>1. Typed'
  <2>1. ends' \in [Threaded -> Seq(EndOf)] BY <1>b, <1>d DEF IInv, Typed, TypeOK, EndOf
  <2>2. post' \in [Threaded -> [slot : 0..SlotCount, job : Nat]] BY RoundAssumption DEF IInv, Typed, TypeOK, NoPost
  <2>3. lane' \in [Threaded -> {"idle", "record", "item", "wake", "gone"}] BY DEF IInv, Typed, TypeOK
  <2>4. Told' = Told /\ EndOf' = EndOf BY DEF Told, EndOf
  <2> QED BY <2>1, <2>2, <2>3, <2>4 DEF IInv, Typed, TypeOK, EndOf
<1>2. Flow' BY FlowKept DEF IInv
<1>3. Live' = Live BY DEF Live
<1>4. RecordsItsPass' BY DEF IInv, Handing, RecordsItsPass, Typed, TypeOK
<1>5. OneThreadAStage' BY DEF IInv, Handing, OneThreadAStage, Idle, Typed, TypeOK
<1>6. Handed'
  <2>1. \A t \in Threaded : post'[t] # NoPost => t # s /\ post'[t] = post[t] BY DEF IInv, Typed, TypeOK
  <2>2. \A t \in Threaded : Untold(ends[t]) /\ Untold(hand) BY DEF IInv, Handing, Handed
  <2>3. \A t \in Threaded : t # s => ends'[t] = ends[t] BY <1>d DEF IInv, Typed, TypeOK
  <2>4. \A t \in Threaded : t # s => Untold(ends[t])' BY <2>1, <2>2, <2>3 DEF Untold
  <2>5. Untold(hand)' BY <2>1, <2>2 DEF Untold
  <2>6. Untold(ends[s])'
    <3>1. ends'[s] = Append(ends[s], e) BY <1>d DEF IInv, Typed, TypeOK
    <3>2. DOMAIN ends'[s] = 1..Len(ends[s]) + 1 /\ (\A i \in 1..Len(ends[s]) : ends'[s][i] = ends[s][i] /\ i \in DOMAIN ends[s]) /\ ends'[s][Len(ends[s]) + 1] = e
      BY <1>0, <1>a, <3>1
    <3>3. SUFFICES ASSUME NEW i \in DOMAIN ends'[s], "job" \in DOMAIN ends'[s][i], NEW t \in Threaded, post'[t] # NoPost
                   PROVE post'[t].job # ends'[s][i].job
      BY DEF Untold
    <3>4. CASE i \in 1..Len(ends[s]) BY <2>1, <2>2, <3>2, <3>3, <3>4 DEF Untold
    <3>5. CASE i = Len(ends[s]) + 1
      <4>1. ends'[s][i].job = post[s].job BY <1>c, <3>2, <3>5
      <4>2. post'[t].job # post[s].job BY <1>0, <2>1, <3>3 DEF IInv, Handing, Handed
      <4> QED BY <4>1, <4>2
    <3>6. Len(ends[s]) \in Nat BY <1>a
    <3> QED BY <3>2, <3>4, <3>5, <3>6
  <2>7. /\ \A t \in Threaded : post'[t] # NoPost => post'[t].slot \in Slots /\ post'[t].job \in 1..jobs'
        /\ \A t, u \in Threaded : post'[t] # NoPost /\ post'[u] # NoPost /\ post'[t].job = post'[u].job => t = u
        /\ \A t \in Threaded : (lane'[t] = "record" => post'[t] # NoPost) /\ (lane'[t] = "item" => items'[t] # <<>>)
        /\ \A k \in Live' : slot'[k].recording => slot'[k].ran \in Threaded
    BY <1>3, <2>1 DEF IInv, Handing, Handed, Typed, TypeOK
  <2>8. \A t \in Threaded : Untold(ends[t])' BY <2>4, <2>6
  <2> QED BY <2>5, <2>7, <2>8 DEF Handed
<1> QED BY <1>1, <1>2, <1>4, <1>5, <1>6 DEF IInv, Handing

LEMMA WakeKeeps ==
    ASSUME IInv, NEW s \in Threaded, Wake(s)
    PROVE  IInv'
<1> USE DEF Wake, passes
<1>1. Typed'
  <2>1. pc' \in Places
    <3>1. pc \in Places BY DEF IInv, Typed, TypeOK
    <3> QED BY <3>1 DEF Woken, Places
  <2>2. lane' \in [Threaded -> {"idle", "record", "item", "wake", "gone"}] BY DEF IInv, Typed, TypeOK
  <2>3. Told' = Told /\ EndOf' = EndOf BY DEF Told, EndOf
  <2> QED BY <2>1, <2>2, <2>3 DEF IInv, Typed, TypeOK
<1>2. Flow' BY FlowKept DEF IInv
<1>3. Live' = Live BY DEF Live
<1>4. RecordsItsPass' BY DEF IInv, Handing, RecordsItsPass
<1>5. OneThreadAStage' BY DEF IInv, Handing, OneThreadAStage, Idle, Typed, TypeOK, Woken
<1>6. Handed' BY <1>3 DEF IInv, Handing, Handed, Untold, Live, Typed, TypeOK
<1> QED BY <1>1, <1>2, <1>4, <1>5, <1>6 DEF IInv, Handing

LEMMA LeaveKeeps ==
    ASSUME IInv, NEW s \in Threaded, Leave(s)
    PROVE  IInv'
<1> USE DEF Leave, passes, sched
<1>1. Typed' BY DEF IInv, Typed, TypeOK, Told, EndOf
<1>2. Flow' BY FlowKept DEF IInv
<1>3. Live' = Live BY DEF Live
<1>4. RecordsItsPass' BY DEF IInv, Handing, RecordsItsPass
<1>5. OneThreadAStage' BY DEF IInv, Handing, OneThreadAStage, Idle, Typed, TypeOK
<1>6. Handed' BY <1>3 DEF IInv, Handing, Handed, Untold, Live, Typed, TypeOK
<1> QED BY <1>1, <1>2, <1>4, <1>5, <1>6 DEF IInv, Handing

LEMMA ClientKeeps ==
    ASSUME IInv, Submit \/ Stop
    PROVE  IInv'
<1> USE DEF Submit, Stop, passes, lanes
<1>1. Typed' BY DEF IInv, Typed, TypeOK, Told, EndOf, Woken, Places
<1>2. Flow' BY FlowKept DEF IInv
<1>3. pc' = "inline" => pc = "inline" BY DEF Woken
<1>4. Handing' BY <1>3, HandingKept DEF IInv
<1> QED BY <1>1, <1>2, <1>4 DEF IInv

-----------------------------------------------------------------------------
\* The round's waits, its collection and its room, which move no pass.
LEMMA LookKeeps ==
    ASSUME IInv, Look
    PROVE  IInv'
<1> USE DEF Look, passes, lanes
<1>1. Typed'
  <2>1. /\ before \in 0..formed /\ pc \in Places /\ at \in Threaded \cup {S} /\ cause \in Causes
        /\ todo \subseteq Slots \X (0..S) /\ hosts \subseteq Slots \X Stages /\ acted \in BOOLEAN /\ arrived \in BOOLEAN /\ stopping \in BOOLEAN
    BY DEF IInv, Typed, TypeOK
  <2>2. cause' \in Causes /\ pc' \in Places /\ todo' \subseteq Slots \X (0..S) /\ hosts' \subseteq Slots \X Stages
    BY <2>1, RoundAssumption DEF Causes, Quiet, Places, Stages
  <2> QED BY <2>1, <2>2, TypedKept DEF IInv
<1>2. Handing'
  <2>1. pc' = "inline" => pc = "inline" /\ cause' = cause BY DEF Quiet
  <2> QED BY <2>1, HandingKept DEF IInv
<1>3. FormationOrder' BY DEF IInv, Flow, FormationOrder, Live
<1>4. (Waits /\ Phases)' BY DEF IInv, Flow, Waits, Phases, Phase, Foremost, Live, Quiet
<1>5. (Planned /\ First)' BY DEF IInv, Flow, Phases, Phase, Planned, First, Foremost, Live, Quiet
<1> QED BY <1>1, <1>2, <1>3, <1>4, <1>5 DEF IInv, Flow

LEMMA RestKeeps ==
    ASSUME IInv, LookAgain \/ Sleep \/ EndRound
    PROVE  IInv'
<1> USE DEF LookAgain, Sleep, EndRound, passes, lanes
<1>1. Typed'
  <2>1. /\ before \in 0..formed /\ pc \in Places /\ at \in Threaded \cup {S} /\ cause \in Causes
        /\ todo \subseteq Slots \X (0..S) /\ hosts \subseteq Slots \X Stages /\ acted \in BOOLEAN /\ arrived \in BOOLEAN /\ stopping \in BOOLEAN
    BY DEF IInv, Typed, TypeOK
  <2>2. cause' \in Causes /\ pc' \in Places /\ todo' \subseteq Slots \X (0..S) /\ hosts' \subseteq Slots \X Stages
    BY <2>1, RoundAssumption DEF Causes, Quiet, Places, Stages
  <2> QED BY <2>1, <2>2, TypedKept DEF IInv
<1>2. Handing'
  <2>1. pc' = "inline" => pc = "inline" /\ cause' = cause BY DEF Quiet
  <2> QED BY <2>1, HandingKept DEF IInv
<1>3. FormationOrder' BY DEF IInv, Flow, FormationOrder, Live
<1>4. (Waits /\ Phases)' BY DEF IInv, Flow, Waits, Phases, Phase, Foremost, Live, Quiet
<1>5. (Planned /\ First)' BY DEF IInv, Flow, Phases, Phase, Planned, First, Foremost, Live, Quiet
<1> QED BY <1>1, <1>2, <1>3, <1>4, <1>5 DEF IInv, Flow

LEMMA SteppedKeeps ==
    ASSUME IInv, Stepped \/ Formed \/ Admit
    PROVE  IInv'
<1> USE DEF Stepped, Formed, Admit, passes, lanes
<1>1. Typed'
  <2>1. /\ before \in 0..formed /\ pc \in Places /\ at \in Threaded \cup {S} /\ cause \in Causes
        /\ todo \subseteq Slots \X (0..S) /\ hosts \subseteq Slots \X Stages /\ acted \in BOOLEAN /\ arrived \in BOOLEAN /\ stopping \in BOOLEAN
    BY DEF IInv, Typed, TypeOK
  <2>2. cause' \in Causes /\ pc' \in Places /\ todo' \subseteq Slots \X (0..S) /\ hosts' \subseteq Slots \X Stages
    BY <2>1, RoundAssumption DEF Causes, Quiet, Places, Stages
  <2> QED BY <2>1, <2>2, TypedKept DEF IInv
<1>2. Handing'
  <2>1. pc' = "inline" => pc = "inline" /\ cause' = cause BY DEF Quiet
  <2> QED BY <2>1, HandingKept DEF IInv
<1>3. FormationOrder' BY DEF IInv, Flow, FormationOrder, Live
<1>4. (Waits /\ Phases)' BY DEF IInv, Flow, Waits, Phases, Phase, Foremost, Live, Quiet
<1>5. (Planned /\ First)'
  <2>1. Live' = Live /\ pc' # "inline" /\ pc' # "quiet" /\ pc # "inline" /\ pc # "quiet" BY DEF Live
  <2>2. todo' \cup hosts' = todo \cup hosts /\ todo' \subseteq todo \cup hosts OBVIOUS
  <2>3. \A a \in todo' : slot[a[1]].live /\ slot[a[1]].ran = a[2] => ~slot[a[1]].recording
    <3>1. CASE todo' = todo BY <3>1 DEF IInv, Flow, Planned
    <3>2. CASE todo' = hosts
      <4>1. \A a \in hosts : a[1] \in Slots /\ a[2] \notin Threaded BY RoundAssumption DEF IInv, Flow, Phases, Typed, TypeOK
      <4> QED BY <3>2, <4>1 DEF IInv, Handing, Handed, Live
    <3> QED BY <3>1, <3>2
  <2>4. Planned' BY <2>1, <2>2, <2>3 DEF IInv, Flow, Planned, Foremost
  <2>5. First' BY <2>1, <2>2 DEF IInv, Flow, First
  <2> QED BY <2>4, <2>5
<1> QED BY <1>1, <1>2, <1>3, <1>4, <1>5 DEF IInv, Flow

LEMMA AdmittedKeeps ==
    ASSUME IInv, Admitted
    PROVE  IInv'
<1> USE DEF Admitted, passes, lanes
<1>1. Typed'
  <2>1. /\ before \in 0..formed /\ pc \in Places /\ at \in Threaded \cup {S} /\ cause \in Causes
        /\ todo \subseteq Slots \X (0..S) /\ hosts \subseteq Slots \X Stages /\ acted \in BOOLEAN /\ arrived \in BOOLEAN /\ stopping \in BOOLEAN
    BY DEF IInv, Typed, TypeOK
  <2>2. cause' \in Causes /\ pc' \in Places /\ todo' \subseteq Slots \X (0..S) /\ hosts' \subseteq Slots \X Stages
    BY <2>1, RoundAssumption DEF Causes, Quiet, Places, Stages
  <2> QED BY <2>1, <2>2, TypedKept DEF IInv
<1>2. Handing'
  <2>1. pc' = "inline" => pc = "inline" /\ cause' = cause BY DEF Quiet
  <2> QED BY <2>1, HandingKept DEF IInv
<1>3. FormationOrder' BY DEF IInv, Flow, FormationOrder, Live
<1>4. (Waits /\ Phases)' BY DEF IInv, Flow, Waits, Phases, Phase, Foremost, Live, Quiet
<1>5. (Planned /\ First)' BY DEF IInv, Flow, Phases, Phase, Planned, First, Foremost, Live, Quiet
<1> QED BY <1>1, <1>2, <1>3, <1>4, <1>5 DEF IInv, Flow

LEMMA RecallKeeps ==
    ASSUME IInv, NEW r \in Requests, Recall(r)
    PROVE  IInv'
<1> USE DEF Recall, passes, lanes
<1>1. Typed'
  <2>1. /\ before \in 0..formed /\ pc \in Places /\ at \in Threaded \cup {S} /\ cause \in Causes
        /\ todo \subseteq Slots \X (0..S) /\ hosts \subseteq Slots \X Stages /\ acted \in BOOLEAN /\ arrived \in BOOLEAN /\ stopping \in BOOLEAN
    BY DEF IInv, Typed, TypeOK
  <2>2. cause' \in Causes /\ pc' \in Places /\ todo' \subseteq Slots \X (0..S) /\ hosts' \subseteq Slots \X Stages
    BY <2>1, RoundAssumption DEF Causes, Quiet, Places, Stages
  <2> QED BY <2>1, <2>2, TypedKept DEF IInv
<1>2. Handing'
  <2>1. pc' = "inline" => pc = "inline" /\ cause' = cause BY DEF Quiet
  <2> QED BY <2>1, HandingKept DEF IInv
<1>3. FormationOrder' BY DEF IInv, Flow, FormationOrder, Live
<1>4. (Waits /\ Phases)' BY DEF IInv, Flow, Waits, Phases, Phase, Foremost, Live, Quiet
<1>5. (Planned /\ First)' BY DEF IInv, Flow, Phases, Phase, Planned, First, Foremost, Live, Quiet
<1> QED BY <1>1, <1>2, <1>3, <1>4, <1>5 DEF IInv, Flow

LEMMA FormFailsKeeps ==
    ASSUME IInv, FormFails
    PROVE  IInv'
<1> USE DEF FormFails, passes, lanes
<1>1. Typed'
  <2>1. /\ before \in 0..formed /\ pc \in Places /\ at \in Threaded \cup {S} /\ cause \in Causes
        /\ todo \subseteq Slots \X (0..S) /\ hosts \subseteq Slots \X Stages /\ acted \in BOOLEAN /\ arrived \in BOOLEAN /\ stopping \in BOOLEAN
    BY DEF IInv, Typed, TypeOK
  <2>2. cause' \in Causes /\ pc' \in Places /\ todo' \subseteq Slots \X (0..S) /\ hosts' \subseteq Slots \X Stages
    BY <2>1, RoundAssumption DEF Causes, Quiet, Places, Stages
  <2> QED BY <2>1, <2>2, TypedKept DEF IInv
<1>2. Handing'
  <2>1. pc' = "inline" => pc = "inline" /\ cause' = cause BY DEF Quiet
  <2> QED BY <2>1, HandingKept DEF IInv
<1>3. FormationOrder' BY DEF IInv, Flow, FormationOrder, Live
<1>4. (Waits /\ Phases)' BY DEF IInv, Flow, Waits, Phases, Phase, Foremost, Live, Quiet
<1>5. (Planned /\ First)' BY DEF IInv, Flow, Phases, Phase, Planned, First, Foremost, Live, Quiet
<1> QED BY <1>1, <1>2, <1>3, <1>4, <1>5 DEF IInv, Flow

-----------------------------------------------------------------------------
\* collect: what a thread tells goes through the scheduler's hands one by one.
LEMMA CollectTakeKeeps ==
    ASSUME IInv, CollectTake
    PROVE  IInv'
<1> USE DEF CollectTake, passes
<1> DEFINE told == [i \in 1..Len(reports[at]) |-> [report |-> reports[at][i]]]
           m == Len(reports[at])
           n == Len(ends[at])
<1>1. at \in Threaded /\ reports[at] \in Seq(Requests) /\ ends[at] \in Seq(EndOf) BY DEF IInv, Typed, TypeOK, EndOf
<1>2. told \in Seq(Told) /\ Len(told) = m /\ m \in Nat /\ n \in Nat
  <2>1. m \in Nat /\ \A i \in 1..m : reports[at][i] \in Requests BY <1>1
  <2>2. told \in [1..m -> Told] BY <2>1 DEF Told
  <2>3. n \in Nat BY <1>1
  <2> HIDE DEF told, m, n
  <2> QED BY <2>1, <2>2, <2>3
<1>3. ends[at] \in Seq(Told) BY <1>1 DEF Told
<1>4. hand' = told \o ends[at] OBVIOUS
<1>5. /\ hand' \in Seq(Told) /\ Len(hand') = m + n
      /\ \A i \in 1..m : hand'[i] = told[i]
      /\ \A i \in m + 1..m + n : hand'[i] = ends[at][i - m] /\ i - m \in 1..n
  <2>1. Len(hand') = m + n /\ \A i \in 1..m + n : hand'[i] = IF i <= m THEN told[i] ELSE ends[at][i - m]
    <3>1. Len(ends[at]) = n OBVIOUS
    <3> HIDE DEF told, m, n
    <3>2. /\ Len(told \o ends[at]) = Len(told) + Len(ends[at])
          /\ \A i \in 1..Len(told) + Len(ends[at]) : (told \o ends[at])[i] = IF i <= Len(told) THEN told[i] ELSE ends[at][i - Len(told)]
      BY ONLY <1>2, <1>3, ConcatProperties
    <3> QED BY ONLY <1>2, <1>4, <3>1, <3>2
  <2>2. hand' \in Seq(Told) BY <1>2, <1>3, <1>4
  <2> HIDE DEF told, m, n
  <2>3. \A i \in m + 1..m + n : i \in 1..m + n /\ ~(i <= m) /\ i - m \in 1..n BY <1>2
  <2>4. \A i \in 1..m : i \in 1..m + n /\ i <= m BY <1>2
  <2> QED BY <2>1, <2>2, <2>3, <2>4
<1>6. \A i \in 1..m : "job" \notin DOMAIN told[i] OBVIOUS
<1> HIDE DEF told, m, n
<1>7. Typed'
  <2>1. NextLane(at + 1) \in Threaded \cup {S}
    <3>1. at + 1 \in 0..S BY <1>1, RoundAssumption DEF Stages
    <3> QED BY <3>1, LaneIs
  <2>2. ends' \in [Threaded -> Seq(EndOf)] /\ reports' \in [Threaded -> Seq(Requests)]
    <3>1. <<>> \in Seq(EndOf) /\ <<>> \in Seq(Requests) OBVIOUS
    <3> QED BY <3>1 DEF IInv, Typed, TypeOK, EndOf
  <2>3. at' \in Threaded \cup {S} /\ at' \in Stages \cup {S} BY <2>1, RoundAssumption
  <2>4. Told' = Told /\ EndOf' = EndOf /\ Causes' = Causes BY DEF Told, EndOf, Causes
  <2> QED BY <1>5, <2>2, <2>3, <2>4 DEF IInv, Typed, TypeOK, EndOf
<1>8. Untold(hand)'
  <2>1. SUFFICES ASSUME NEW i \in DOMAIN hand', "job" \in DOMAIN hand'[i], NEW s \in Threaded, post[s] # NoPost
                 PROVE post[s].job # hand'[i].job
    BY DEF Untold
  <2>2. DOMAIN hand' = 1..m + n BY <1>5
  <2>3. i \in m + 1..m + n
    <3>1. i \notin 1..m BY <1>5, <1>6, <2>1
    <3> QED BY <1>2, <2>2, <3>1
  <2>4. Untold(ends[at]) /\ DOMAIN ends[at] = 1..n BY <1>1 DEF IInv, Handing, Handed, n
  <2> QED BY <1>5, <2>1, <2>3, <2>4 DEF Untold
<1>9. \A t \in Threaded : Untold(ends[t])'
  <2>1. TAKE t \in Threaded
  <2>2. ends'[t] = ends[t] \/ ends'[t] = <<>> BY DEF IInv, Typed, TypeOK
  <2>3. Untold(ends[t]) BY DEF IInv, Handing, Handed
  <2> QED BY <2>2, <2>3 DEF Untold
<1>10. Live' = Live BY DEF Live
<1>11. Handing'
  <2>1. RecordsItsPass' BY DEF IInv, Handing, RecordsItsPass
  <2>2. OneThreadAStage' BY DEF IInv, Handing, OneThreadAStage, Idle
  <2>3. Handed' BY <1>8, <1>9, <1>10 DEF IInv, Handing, Handed, Live
  <2> QED BY <2>1, <2>2, <2>3 DEF Handing
<1>12. Flow' BY FlowKept DEF IInv
<1> QED BY <1>7, <1>11, <1>12 DEF IInv

\* The hand, its first taken.
LEMMA HandTail ==
    ASSUME IInv, hand # <<>>, post' = post \/ post' = [s \in Threaded |-> NoPost], hand' = Tail(hand)
    PROVE  Head(hand) \in Told /\ hand' \in Seq(Told) /\ Untold(hand)'
<1>1. hand \in Seq(Told) /\ Untold(hand) BY DEF IInv, Typed, Handing, Handed
<1>2. Head(hand) \in Told /\ hand' \in Seq(Told) /\ Len(hand') = Len(hand) - 1 /\ \A i \in 1..Len(hand) - 1 : hand'[i] = hand[i + 1]
  BY <1>1
<1>3. Len(hand) \in Nat /\ DOMAIN hand = 1..Len(hand) /\ DOMAIN hand' = 1..Len(hand) - 1 BY <1>1, <1>2
<1>4. \A i \in 1..Len(hand) - 1 : i + 1 \in 1..Len(hand) BY <1>3
<1>5. Untold(hand)' BY <1>1, <1>2, <1>3, <1>4 DEF Untold
<1> QED BY <1>2, <1>5

LEMMA CollectReportKeeps ==
    ASSUME IInv, CollectReport
    PROVE  IInv'
<1> USE DEF CollectReport, passes, lanes
<1>1. Head(hand) \in Told /\ hand' \in Seq(Told) /\ Untold(hand)' BY HandTail
<1>2. Head(hand).report \in Requests BY <1>1 DEF Told, EndOf
<1>3. cause' \in Causes /\ pc' \in {"collect", "quiet"}
  <2>1. {Head(hand).report} \in SUBSET Requests BY <1>2
  <2> QED BY <2>1, RoundAssumption DEF IInv, Typed, Causes, Quiet, Places
<1>4. Typed'
  <2>1. Told' = Told /\ EndOf' = EndOf /\ Causes' = Causes BY DEF Told, EndOf, Causes
  <2>2. pc' \in Places BY <1>3 DEF Places
  <2> QED BY <1>1, <1>3, <2>1, <2>2 DEF IInv, Typed, TypeOK
<1>5. Live' = Live BY DEF Live
<1>6. Handing'
  <2>1. RecordsItsPass' BY DEF IInv, Handing, RecordsItsPass
  <2>2. OneThreadAStage' BY <1>3 DEF OneThreadAStage
  <2>3. Handed' BY <1>1, <1>5 DEF IInv, Handing, Handed, Untold, Live
  <2> QED BY <2>1, <2>2, <2>3 DEF Handing
<1>7. FormationOrder' BY DEF IInv, Flow, FormationOrder, Live
<1>8. (Waits /\ Phases)' BY DEF IInv, Flow, Waits, Phases, Phase, Foremost, Live, Quiet
<1>9. (Planned /\ First)' BY DEF IInv, Flow, Phases, Phase, Planned, First, Foremost, Live, Quiet
<1> QED BY <1>4, <1>6, <1>7, <1>8, <1>9 DEF IInv, Flow

\* What the round plans: the oldest pass at a stage is the first there.
LEMMA CollectedKeeps ==
    ASSUME IInv, Collected
    PROVE  IInv'
<1> USE DEF Collected, lanes
<1>0. TypeOK /\ todo = {} /\ hosts = {} /\ Phase = "collect"
  <2>1. Phase = "collect" BY DEF Phase
  <2> QED BY <2>1 DEF IInv, Typed, Flow, Phases
<1>1. \A a \in Steps : /\ a[1] \in Live /\ slot[a[1]].ran = a[2] /\ ~slot[a[1]].recording /\ a \in Slots \X Stages
                       /\ Foremost(a[1], a[2])
  <2>1. TAKE a \in Steps
  <2> DEFINE k == a[1]
             s == a[2]
  <2>2. a \in Slots \X Stages /\ k \in Waiting(s) /\ ~Recording(s) /\ k = Earliest(Waiting(s)) BY DEF Steps
  <2>3. \A j \in Waiting(s) : slot[k].formed <= slot[j].formed
    <3>1. Waiting(s) \in SUBSET Slots /\ Waiting(s) # {} BY <2>2 DEF Waiting, Live
    <3>2. \A j \in Waiting(s) : slot[Earliest(Waiting(s))].formed <= slot[j].formed BY <1>0, <3>1, EarliestIs
    <3> QED BY <2>2, <3>2
  <2>4. ASSUME NEW j \in Live, slot[j].formed < slot[k].formed PROVE slot[j].ran > s
    <3>1. k \in Live /\ slot[k].ran = s BY <2>2 DEF Waiting
    <3>2. slot[j].ran \in Nat /\ s \in Nat /\ slot[j].formed \in Nat /\ slot[k].formed \in Nat
      <4>1. j \in Slots /\ k \in Slots BY <2>2 DEF Live
      <4>2. \A l \in Slots : slot[l].ran \in 0..S /\ slot[l].formed \in 0..MaxPasses BY <1>0 DEF TypeOK
      <4>3. slot[k].ran = s BY <3>1
      <4> HIDE DEF k, s
      <4> QED BY <4>1, <4>2, <4>3, RoundAssumption
    <3>a. slot[j].ran >= s BY <2>4, <3>1 DEF IInv, Flow, FormationOrder
    <3>3. j \notin Waiting(s)
      <4> HIDE DEF k, s
      <4> QED BY <2>3, <2>4, <3>2
    <3>4. slot[j].ran # s BY <2>2, <3>3 DEF Waiting, Recording
    <3> HIDE DEF k, s
    <3> QED BY <3>2, <3>4, <3>a
  <2> QED BY <2>2, <2>4 DEF Waiting, Foremost
<1>2. \A a \in Finished : a[1] \in Live /\ slot[a[1]].ran = S /\ ~slot[a[1]].recording /\ a[2] = S /\ a \in Slots \X (0..S)
  <2>1. \A k \in Live : slot[k].ran = S => ~slot[k].recording BY RoundAssumption DEF IInv, Handing, Handed, Stages
  <2>2. S \in 0..S BY RoundAssumption
  <2> QED BY <2>1, <2>2 DEF Finished, Live
<1>3. Live' = Live /\ pc' = "steps" /\ before' = formed /\ todo' = Steps \cup Finished /\ hosts' = {} BY <1>0 DEF Live
<1>4. Typed'
  <2>1. todo' \subseteq Slots \X (0..S)
    <3>1. Stages \subseteq 0..S BY RoundAssumption DEF Stages
    <3>2. \A a \in Steps : a \in Slots \X (0..S) BY <1>1, <3>1
    <3> QED BY <1>2, <1>3, <3>2
  <2>2. NextLane(0) \in Threaded \cup {S}
    <3>1. 0 \in 0..S BY RoundAssumption
    <3> QED BY <3>1, LaneIs
  <2>3. before' \in 0..formed BY <1>0, RoundAssumption DEF TypeOK
  <2>4. pc' \in Places BY DEF Places
  <2> QED BY <2>1, <2>2, <2>3, <2>4, TypedKept DEF IInv, Typed, TypeOK
<1>5. Handing' BY HandingKept DEF IInv
<1>6. FormationOrder' BY DEF IInv, Flow, FormationOrder, Live
<1>7. (Waits /\ Phases)' BY <1>3 DEF Waits, Phases, Phase
<1>8. Planned'
  <2>1. \A a \in todo' : /\ a[2] <= slot[a[1]].ran /\ ~slot[a[1]].recording
                         /\ a[2] < S => Foremost(a[1], a[2])
    <3>1. \A a \in Steps : a[2] <= slot[a[1]].ran BY <1>1, RoundAssumption DEF Stages
    <3>2. \A a \in Finished : a[2] <= slot[a[1]].ran /\ ~(a[2] < S) BY <1>2, RoundAssumption
    <3> QED BY <1>1, <1>2, <1>3, <3>1, <3>2
  <2>2. \A k, s : Foremost(k, s)' = Foremost(k, s) BY <1>3 DEF Foremost
  <2> QED BY <1>3, <2>1, <2>2 DEF Planned
<1>9. First' BY <1>0, <1>3 DEF IInv, Flow, First
<1> QED BY <1>4, <1>5, <1>6, <1>7, <1>8, <1>9 DEF IInv, Flow

\* An item joins a thread's queue while the scheduler's thread records nothing itself.
LEMMA DeferItemKeeps ==
    ASSUME IInv, NEW s \in Threaded, NEW r \in Requests, DeferItem(s, r)
    PROVE  IInv'
<1> USE DEF DeferItem, passes
<1>1. Append(items[s], r) \in Seq(Requests) /\ Append(items[s], r) # <<>>
  <2>1. items[s] \in Seq(Requests) BY DEF IInv, Typed, TypeOK
  <2>2. Append(items[s], r) \in Seq(Requests) /\ Len(Append(items[s], r)) = Len(items[s]) + 1 /\ Len(items[s]) \in Nat BY <2>1
  <2> QED BY <2>2
<1>2. Typed'
  <2>1. items' \in [Threaded -> Seq(Requests)] BY <1>1 DEF IInv, Typed, TypeOK
  <2>2. queued' \in 0..MaxItems BY RoundAssumption DEF IInv, Typed, TypeOK
  <2>3. Told' = Told /\ EndOf' = EndOf /\ Causes' = Causes BY DEF Told, EndOf, Causes
  <2>4. pc' \in Places BY DEF Places
  <2> QED BY <2>1, <2>2, <2>3, <2>4 DEF IInv, Typed, TypeOK
<1>3. Live' = Live BY DEF Live
<1>4. Handing'
  <2>1. RecordsItsPass' BY DEF IInv, Handing, RecordsItsPass
  <2>2. OneThreadAStage' BY DEF OneThreadAStage
  <2>3. Handed' BY <1>1, <1>3 DEF IInv, Handing, Handed, Untold, Live, Typed, TypeOK
  <2> QED BY <2>1, <2>2, <2>3 DEF Handing
<1>5. FormationOrder' BY DEF IInv, Flow, FormationOrder, Live
<1>6. (Waits /\ Phases)' BY DEF IInv, Flow, Waits, Phases, Phase, Foremost, Live
<1>7. (Planned /\ First)' BY DEF IInv, Flow, Phases, Phase, Planned, First, Foremost, Live
<1> QED BY <1>2, <1>4, <1>5, <1>6, <1>7 DEF IInv, Flow

-----------------------------------------------------------------------------
\* The steps in their order.  One taken from the plan is nobody else's.
LEMMA StepIs ==
    ASSUME IInv, NEW a \in Slots \X (0..S), Advancing, a = NextStep(todo)
    PROVE  /\ a \in todo /\ pc \in {"steps", "form", "host"} /\ Phase = pc
           /\ Waits /\ Phases /\ Planned /\ First /\ FormationOrder
<1>1. pc \in {"steps", "form", "host"} /\ todo # {} /\ TypeOK BY DEF Advancing, IInv, Typed
<1>2. a \in todo BY <1>1, NextIs
<1> QED BY <1>1, <1>2 DEF IInv, Flow, Phase

LEMMA DropKeeps ==
    ASSUME IInv, NEW a \in Slots \X (0..S), Drop(a)
    PROVE  IInv'
<1> USE DEF Drop, passes, lanes
<1>1. /\ a \in todo /\ pc \in {"steps", "form", "host"} /\ Phase = pc
      /\ Waits /\ Phases /\ Planned /\ First /\ FormationOrder
  BY StepIs
<1>2. Typed'
  <2>1. /\ before \in 0..formed /\ pc \in Places /\ at \in Threaded \cup {S} /\ cause \in Causes
        /\ todo \subseteq Slots \X (0..S) /\ hosts \subseteq Slots \X Stages /\ acted \in BOOLEAN /\ arrived \in BOOLEAN /\ stopping \in BOOLEAN
    BY DEF IInv, Typed, TypeOK
  <2> QED BY <2>1, TypedKept DEF IInv
<1>3. Handing' BY HandingKept DEF IInv
<1>4. FormationOrder' BY DEF IInv, Flow, FormationOrder, Live
<1>5. (Waits /\ Phases)' BY <1>1 DEF Waits, Phases, Phase
<1>6. Planned' BY <1>1 DEF Planned, Foremost, Live
<1>7. First'
  <2>1. Live' = Live BY DEF Live
  <2>2. CASE 0 \in Threaded BY <1>1, <2>1, <2>2 DEF First
  <2>3. CASE 0 \notin Threaded
    <3>1. ASSUME NEW k \in Live, slot[k].ran = 0 PROVE <<k, 0>> \in todo \cup hosts /\ <<k, 0>> # a
      <4>1. <<k, 0>> \in todo \cup hosts BY <1>1, <2>3, <3>1 DEF First
      <4>2. ASSUME a = <<k, 0>> PROVE FALSE
        <5>1. Stands(a) BY <3>1, <4>2 DEF Stands, Live
        <5>2. ~Apart(a[2]) BY <2>3, <4>2 DEF Apart
        <5> QED BY <5>1, <5>2
      <4> QED BY <4>1, <4>2
    <3> QED BY <2>1, <2>3, <3>1 DEF First
  <2> QED BY <2>2, <2>3
<1> QED BY <1>2, <1>3, <1>4, <1>5, <1>6, <1>7 DEF IInv, Flow

LEMMA DeferKeeps ==
    ASSUME IInv, NEW a \in Slots \X (0..S), Defer(a)
    PROVE  IInv'
<1> USE DEF Defer, passes, lanes
<1>1. /\ a \in todo /\ pc \in {"steps", "form", "host"} /\ Phase = pc
      /\ Waits /\ Phases /\ Planned /\ First /\ FormationOrder
  BY StepIs
<1>2. Typed'
  <2>1. /\ before \in 0..formed /\ pc \in Places /\ at \in Threaded \cup {S} /\ cause \in Causes
        /\ todo \subseteq Slots \X (0..S) /\ hosts \subseteq Slots \X Stages /\ acted \in BOOLEAN /\ arrived \in BOOLEAN /\ stopping \in BOOLEAN
    BY DEF IInv, Typed, TypeOK
  <2>2. a \in Slots \X Stages BY RoundAssumption
  <2> QED BY <2>1, <2>2, TypedKept DEF IInv
<1>3. Handing' BY HandingKept DEF IInv
<1>4. FormationOrder' BY DEF IInv, Flow, FormationOrder, Live
<1>5. (Waits /\ Phases)' BY <1>1 DEF Waits, Phases, Phase
<1>6. todo' \cup hosts' = todo \cup hosts /\ todo' \subseteq todo BY <1>1
<1>7. Planned' BY <1>1, <1>6 DEF Planned, Foremost, Live
<1>8. First' BY <1>1, <1>6 DEF First, Live
<1> QED BY <1>2, <1>3, <1>4, <1>5, <1>7, <1>8 DEF IInv, Flow

LEMMA StepFailsKeeps ==
    ASSUME IInv, NEW a \in Slots \X (0..S), PrepareFails(a) \/ RetireFails(a)
    PROVE  IInv'
<1> USE DEF PrepareFails, RetireFails, passes, lanes
<1>1. /\ a \in todo /\ pc \in {"steps", "form", "host"} /\ Phase = pc
      /\ Waits /\ Phases /\ Planned /\ First /\ FormationOrder
  BY StepIs
<1>a. /\ pc' = "quiet" /\ cause' = [why |-> "abandon", slot |-> a[1], request |-> {}, back |-> pc]
      /\ todo' = todo \ {a} /\ UNCHANGED <<slot, formed, before, hosts>>
  BY DEF Quiet
<1>2. Typed'
  <2>1. /\ before \in 0..formed /\ pc \in Places /\ at \in Threaded \cup {S} /\ cause \in Causes
        /\ todo \subseteq Slots \X (0..S) /\ hosts \subseteq Slots \X Stages /\ acted \in BOOLEAN /\ arrived \in BOOLEAN /\ stopping \in BOOLEAN
    BY DEF IInv, Typed, TypeOK
  <2>2. cause' \in Causes BY <1>a, <2>1 DEF Causes, Slots
  <2>3. pc' \in Places BY <1>a DEF Places
  <2> QED BY <2>1, <2>2, <2>3, TypedKept DEF IInv
<1>3. Handing' BY <1>a, HandingKept DEF IInv
<1>4. Live' = Live BY DEF Live
<1>5. FormationOrder' BY <1>1, <1>4 DEF FormationOrder
<1>6. (Waits /\ Phases)' BY <1>1, <1>a DEF Waits, Phases, Phase
<1>7. Planned' BY <1>1, <1>4, <1>a DEF Planned, Foremost
<1>8. First'
  <2>1. a[2] \in Threaded \/ a[2] = S BY DEF Apart
  <2>2. a[2] = 0 => 0 \in Threaded BY <2>1, RoundAssumption
  <2> QED BY <1>1, <1>4, <1>a, <2>2 DEF First
<1> QED BY <1>2, <1>3, <1>5, <1>6, <1>7, <1>8 DEF IInv, Flow

\* The scheduler's thread records a stage itself only where no other pass is about.
LEMMA InlineKeeps ==
    ASSUME IInv, NEW a \in Slots \X (0..S), Inline(a)
    PROVE  IInv'
<1> USE DEF Inline, passes, lanes
<1>1. /\ a \in todo /\ pc \in {"steps", "form", "host"} /\ Phase = pc
      /\ Waits /\ Phases /\ Planned /\ First /\ FormationOrder
  BY StepIs
<1>a. a[1] \in Live /\ slot[a[1]].ran = a[2] /\ ~slot[a[1]].recording /\ Foremost(a[1], a[2]) BY StandsForemost
<1>2. Typed'
  <2>1. /\ before \in 0..formed /\ pc \in Places /\ at \in Threaded \cup {S} /\ cause \in Causes
        /\ todo \subseteq Slots \X (0..S) /\ hosts \subseteq Slots \X Stages /\ acted \in BOOLEAN /\ arrived \in BOOLEAN /\ stopping \in BOOLEAN
    BY DEF IInv, Typed, TypeOK
  <2>2. cause' \in Causes BY <2>1 DEF Causes, Slots
  <2>3. pc' \in Places BY DEF Places
  <2> QED BY <2>1, <2>2, <2>3, TypedKept DEF IInv
<1>3. Live' = Live BY DEF Live
<1>4. OneThreadAStage'
  <2>1. SUFFICES ASSUME a[2] \in Threaded PROVE Idle(a[2]) /\ lane[a[2]] \notin {"record", "item"}
    BY <1>a DEF OneThreadAStage, Idle
  <2>2. ~(Cardinality(Live) > 1) /\ items[a[2]] = <<>> BY <2>1 DEF Apart, Busy
  <2>3. Live = {a[1]}
    <3>1. Live \subseteq Slots /\ IsFiniteSet(Slots)
      <4>1. IsFiniteSet(1..SlotCount) BY RoundAssumption, FS_Interval
      <4> QED BY <4>1 DEF Live, Slots
    <3>2. IsFiniteSet(Live) BY <3>1, FS_Subset
    <3>3. ASSUME NEW j \in Live, j # a[1] PROVE FALSE
      <4>1. {j, a[1]} \subseteq Live BY <1>a
      <4>2. Cardinality({j, a[1]}) <= Cardinality(Live) BY <3>2, <4>1, FS_Subset
      <4>3. Cardinality({j, a[1]}) = 2
        <5>1. {j, a[1]} = {a[1]} \cup {j} /\ j \notin {a[1]} BY <3>3
        <5>2. IsFiniteSet({a[1]}) /\ Cardinality({a[1]}) = 1 BY FS_Singleton
        <5>3. Cardinality({a[1]} \cup {j}) = Cardinality({a[1]}) + 1 BY <5>1, <5>2, FS_AddElement
        <5> QED BY <5>1, <5>2, <5>3
      <4>4. Cardinality(Live) \in Nat BY <3>2, FS_CardinalityType
      <4> QED BY <2>2, <4>2, <4>3, <4>4
    <3> QED BY <1>a, <3>3
  <2>4. post[a[2]] = NoPost
    <3>1. SUFFICES ASSUME post[a[2]] # NoPost PROVE FALSE OBVIOUS
    <3>2. post[a[2]].slot \in Live /\ slot[post[a[2]].slot].recording
      BY <2>1, <3>1 DEF IInv, Handing, RecordsItsPass, Handed, Live
    <3> QED BY <1>a, <2>3, <3>2
  <2>5. lane[a[2]] \notin {"record", "item"} BY <2>1, <2>2, <2>4 DEF IInv, Handing, Handed
  <2> QED BY <2>2, <2>4, <2>5 DEF Idle
<1>5. Handing'
  <2>1. RecordsItsPass' BY DEF IInv, Handing, RecordsItsPass
  <2>2. Handed' BY <1>3 DEF IInv, Handing, Handed, Untold, Live
  <2> QED BY <1>4, <2>1, <2>2 DEF Handing
<1>6. FormationOrder' BY <1>1, <1>3 DEF FormationOrder
<1>7. (Waits /\ Phases)' BY <1>1, <1>3, <1>a DEF Waits, Phases, Phase, Foremost
<1>8. Planned' BY <1>1, <1>3 DEF Planned, Foremost
<1>9. First' BY <1>1, <1>3 DEF First
<1> QED BY <1>2, <1>5, <1>6, <1>7, <1>8, <1>9 DEF IInv, Flow

-----------------------------------------------------------------------------
\* Steps that move a pass.
SlotOf == [live : BOOLEAN, recording : BOOLEAN, ran : 0..S, formed : 0..MaxPasses,
           job : Nat, members : SUBSET Requests, wants : BOOLEAN, continues : BOOLEAN]

LEMMA SlotTyped ==
    ASSUME IInv
    PROVE  /\ slot \in [Slots -> SlotOf] /\ Live \subseteq Slots
           /\ \A k \in Slots : slot[k].ran \in Nat /\ slot[k].ran \in 0..S /\ slot[k].formed \in Nat /\ slot[k].formed <= formed
           /\ S \in Nat /\ 0 < S /\ before \in Nat /\ formed \in Nat /\ before <= formed /\ MaxPasses \in Nat
           /\ Threaded \subseteq 0..S - 1 /\ Host \cap Threaded = {} /\ S \notin Threaded
<1>1. slot \in [Slots -> SlotOf] /\ before \in 0..formed /\ formed \in 0..MaxPasses BY DEF IInv, Typed, TypeOK, SlotOf
<1>2. S \in Nat /\ 0 < S /\ MaxPasses \in Nat /\ Threaded \subseteq 0..S - 1 /\ Host \cap Threaded = {}
  BY RoundAssumption DEF Stages
<1>3. \A k \in Slots : slot[k].ran \in 0..S /\ slot[k].formed \in 0..MaxPasses BY <1>1 DEF SlotOf
<1>4. \A k \in Slots : slot[k].formed <= formed BY DEF IInv, Typed
<1>5. \A n \in 0..S : n \in Nat BY <1>2
<1>6. \A n \in 0..MaxPasses : n \in Nat BY <1>2
<1>7. before \in Nat /\ formed \in Nat /\ before <= formed BY <1>1, <1>2
<1>8. S \notin Threaded BY <1>2
<1> QED BY <1>1, <1>2, <1>3, <1>4, <1>5, <1>6, <1>7, <1>8 DEF Live

\* Slots emptied: the passes left stand as they stood.
LEMMA Vacating ==
    ASSUME IInv, NEW ks \in SUBSET Slots, slot' = Vacated(ks), UNCHANGED <<formed, before>>
    PROVE  /\ slot' \in [Slots -> SlotOf] /\ Live' = Live \ ks /\ (\A k \in Live' : slot'[k] = slot[k])
           /\ \A k \in Slots : slot'[k].formed <= formed
           /\ FormationOrder'
<1>1. slot \in [Slots -> SlotOf] /\ Free \in SlotOf /\ ~Free.live /\ Free.formed = 0
  BY SlotTyped DEF Free, SlotOf
<1>2. \A k \in Slots : slot'[k] = IF k \in ks THEN Free ELSE slot[k] BY DEF Vacated
<1>3. slot' \in [Slots -> SlotOf] BY <1>1 DEF Vacated
<1>4. Live' = Live \ ks BY <1>1, <1>2 DEF Live
<1>5. \A k \in Live' : slot'[k] = slot[k] BY <1>2, <1>4 DEF Live
<1>6. \A k \in Slots : slot'[k].formed <= formed BY <1>1, <1>2, SlotTyped
<1>7. FormationOrder' BY <1>4, <1>5 DEF IInv, Flow, FormationOrder
<1> QED BY <1>3, <1>4, <1>5, <1>6, <1>7

\* What the plan and the first stage promise of the passes left.
LEMMA PlannedLess ==
    ASSUME Planned, NEW ks, Live' = Live \ ks, \A k \in Live' : slot'[k] = slot[k], before' = before,
           slot \in [Slots -> SlotOf], slot' \in [Slots -> SlotOf],
           todo' \subseteq todo, todo' \cup hosts' \subseteq todo \cup hosts, todo \cup hosts \subseteq Slots \X (0..S)
    PROVE  Planned'
<1>1. \A a \in todo \cup hosts : slot'[a[1]].live => a[1] \in Live /\ a[1] \in Live' /\ slot'[a[1]] = slot[a[1]] /\ slot[a[1]].live
  BY DEF Live
<1>2. \A k, s : k \in Live' => (Foremost(k, s) => Foremost(k, s)') BY DEF Foremost
<1> QED BY <1>1, <1>2 DEF Planned

LEMMA RetireKeeps ==
    ASSUME IInv, NEW a \in Slots \X (0..S), Retire(a)
    PROVE  IInv'
<1> USE DEF Retire, lanes
<1>1. /\ a \in todo /\ pc \in {"steps", "form", "host"} /\ Phase = pc
      /\ Waits /\ Phases /\ Planned /\ First /\ FormationOrder
  BY StepIs
<1>a. a[1] \in Live /\ slot[a[1]].ran = S /\ ~slot[a[1]].recording BY StandsForemost
<1>b. /\ slot' \in [Slots -> SlotOf] /\ Live' = Live \ {a[1]} /\ (\A k \in Live' : slot'[k] = slot[k])
      /\ \A k \in Slots : slot'[k].formed <= formed
      /\ FormationOrder'
  <2>1. {a[1]} \in SUBSET Slots OBVIOUS
  <2> QED BY <2>1, Vacating
<1>2. Typed'
  <2>1. Told' = Told /\ EndOf' = EndOf /\ Causes' = Causes BY DEF Told, EndOf, Causes
  <2>2. todo' \subseteq Slots \X (0..S) BY DEF IInv, Typed, TypeOK
  <2> QED BY <1>b, <2>1, <2>2 DEF IInv, Typed, TypeOK, SlotOf
<1>3. Handing'
  <2>1. RecordsItsPass'
    <3>1. SUFFICES ASSUME NEW s \in Threaded, post[s] # NoPost
                   PROVE /\ slot'[post[s].slot].live /\ slot'[post[s].slot].recording
                         /\ slot'[post[s].slot].ran = s /\ slot'[post[s].slot].job = post[s].job
      BY DEF RecordsItsPass
    <3>2. /\ slot[post[s].slot].live /\ slot[post[s].slot].recording
          /\ slot[post[s].slot].ran = s /\ slot[post[s].slot].job = post[s].job /\ post[s].slot \in Slots
      BY <3>1 DEF IInv, Handing, RecordsItsPass, Handed
    <3>3. post[s].slot # a[1] BY <1>a, <3>2
    <3>4. post[s].slot \in Live' BY <1>b, <3>2, <3>3 DEF Live
    <3> QED BY <1>b, <3>2, <3>4
  <2>2. OneThreadAStage' BY <1>1 DEF OneThreadAStage
  <2>3. Handed' BY <1>b DEF IInv, Handing, Handed, Untold
  <2> QED BY <2>1, <2>2, <2>3 DEF Handing
<1>4. (Waits /\ Phases)' BY <1>1 DEF Waits, Phases, Phase
<1>5. Planned'
  <2>1. todo \cup hosts \subseteq Slots \X (0..S) BY RoundAssumption DEF IInv, Typed, TypeOK, Stages
  <2> QED BY <1>1, <1>b, <2>1, SlotTyped, PlannedLess
<1>6. First'
  <2>1. \A k : a # <<k, 0>> BY SlotTyped
  <2>2. CASE 0 \in Threaded
    <3>1. ASSUME NEW j \in Live', NEW k \in Live', slot'[j].ran = 0, slot'[k].ran = 0 PROVE j = k
      <4>1. j \in Live /\ k \in Live /\ slot[j].ran = 0 /\ slot[k].ran = 0 BY <1>b, <3>1
      <4> QED BY <1>1, <2>2, <4>1 DEF First
    <3> QED BY <2>2, <3>1 DEF First
  <2>3. CASE 0 \notin Threaded
    <3>1. ASSUME NEW k \in Live', slot'[k].ran = 0 PROVE <<k, 0>> \in todo' \cup hosts'
      <4>1. k \in Live /\ slot[k].ran = 0 BY <1>b, <3>1
      <4>2. <<k, 0>> \in todo \cup hosts BY <1>1, <2>3, <4>1 DEF First
      <4> QED BY <2>1, <4>2
    <3> QED BY <2>3, <3>1 DEF First
  <2> QED BY <2>2, <2>3
<1> QED BY <1>2, <1>3, <1>4, <1>5, <1>6, <1>b DEF IInv, Flow

\* The recorders quiet, passes leave flight under nobody's hands.
LEMMA QuietedKeeps ==
    ASSUME IInv, Quieted
    PROVE  IInv'
<1> USE DEF Quieted, lanes
<1>1. /\ pc = "quiet" /\ Phase = cause.back /\ Waits /\ Phases /\ Planned /\ First /\ cause \in Causes
      /\ cause.back \in {"done", "collect", "admit", "form", "host", "steps"}
  <2>1. Waits /\ Phases /\ Planned /\ First /\ cause \in Causes BY DEF IInv, Flow, Typed
  <2> QED BY <2>1 DEF Waits, Phase
<1>2. PICK ks \in SUBSET Slots : slot' = Vacated(ks) /\ \/ pc' = "terminated"
                                                        \/ /\ pc' = cause.back
                                                           /\ cause.why = "undo" => cause.slot \in ks
                                                           /\ cause.why = "abort" => ks = Slots
  <2>1. slot = Vacated({})
    <3>1. slot \in [Slots -> SlotOf] BY SlotTyped
    <3> QED BY <3>1 DEF Vacated
  <2>2. ASSUME NEW taken, FailPass(cause.slot, taken), cause.why \in {"abandon", "undo"}
        PROVE \E ks \in SUBSET Slots : slot' = Vacated(ks) /\ (pc' = "terminated" \/ (pc' = cause.back /\ cause.slot \in ks))
    <3>1. CASE Left(cause.slot, taken) BY <2>1, <2>2, <3>1 DEF FailPass
    <3>2. CASE ~Left(cause.slot, taken)
      <4>1. slot' = Vacated({cause.slot} \cup Sharing(cause.slot)) /\ pc' = cause.back BY <2>2, <3>2 DEF FailPass
      <4>2. {cause.slot} \cup Sharing(cause.slot) \in SUBSET Slots BY <1>1, <2>2 DEF Sharing, Live, Waits
      <4> QED BY <4>1, <4>2
    <3> QED BY <3>1, <3>2
  <2>3. CASE cause.why = "abandon" BY <2>2, <2>3
  <2>4. CASE cause.why = "undo" BY <2>2, <2>4
  <2>5. CASE cause.why = "leave"
    <3>1. Leaving(cause.request) \in SUBSET Slots BY DEF Leaving, Taken, Live
    <3> QED BY <2>5, <3>1
  <2>6. CASE cause.why = "donor" BY <2>1, <2>6
  <2>7. CASE cause.why = "abort" BY <2>7
  <2> QED BY <1>1, <2>3, <2>4, <2>5, <2>6, <2>7 DEF Waits
<1>3. /\ slot' \in [Slots -> SlotOf] /\ Live' = Live \ ks /\ (\A k \in Live' : slot'[k] = slot[k])
      /\ \A k \in Slots : slot'[k].formed <= formed
      /\ FormationOrder'
  BY <1>2, Vacating
<1>4. Typed'
  <2>1. Told' = Told /\ EndOf' = EndOf /\ Causes' = Causes BY DEF Told, EndOf, Causes
  <2>2. pc' \in Places BY <1>1, <1>2 DEF Places
  <2>3. cause' \in Causes BY RoundAssumption DEF Causes, NoCause, Places
  <2> QED BY <1>3, <2>1, <2>2, <2>3 DEF IInv, Typed, TypeOK, SlotOf
<1>5. Handing'
  <2>1. RecordsItsPass' BY DEF RecordsItsPass, Idle
  <2>2. OneThreadAStage' BY <1>1, <1>2 DEF OneThreadAStage
  <2>3. Handed' BY <1>3 DEF IInv, Handing, Handed, Untold
  <2> QED BY <2>1, <2>2, <2>3 DEF Handing
<1>6. ASSUME pc' # "terminated" PROVE (Waits /\ Phases /\ Planned /\ First)'
  <2>1. Phase' = Phase /\ pc' = cause.back BY <1>1, <1>2, <1>6 DEF Phase
  <2>2. (Waits /\ Phases)' BY <1>1, <2>1 DEF Waits, Phases
  <2>3. Planned'
    <3>1. todo \cup hosts \subseteq Slots \X (0..S) BY RoundAssumption DEF IInv, Typed, TypeOK, Stages
    <3> QED BY <1>1, <1>3, <3>1, SlotTyped, PlannedLess
  <2>4. First'
    <3>1. CASE 0 \in Threaded BY <1>1, <1>3, <3>1 DEF First
    <3>2. CASE 0 \notin Threaded
      <4>1. ASSUME NEW k \in Live', slot'[k].ran = 0 PROVE <<k, 0>> \in todo' \cup hosts'
        <5>1. k \in Live /\ k \notin ks /\ slot[k].ran = 0 BY <1>3, <4>1
        <5>2. cause.why # "abort" BY <1>2, <1>6, <5>1 DEF Live
        <5>3. ~(cause.why \in {"inline", "undo"} /\ cause.slot = k) BY <1>1, <1>2, <1>6, <5>1 DEF Waits
        <5> QED BY <1>1, <3>2, <5>1, <5>2, <5>3 DEF First
      <4> QED BY <3>2, <4>1 DEF First
    <3> QED BY <3>1, <3>2
  <2> QED BY <2>2, <2>3, <2>4
<1> QED BY <1>3, <1>4, <1>5, <1>6 DEF IInv, Flow

\* A pass a stage further: the ones behind it wait as they did.
LEMMA Further ==
    ASSUME IInv, NEW k \in Live, slot[k].ran < S, Foremost(k, slot[k].ran),
           slot' = [slot EXCEPT ![k].recording = FALSE, ![k].ran = slot[k].ran + 1], UNCHANGED <<formed, before>>
    PROVE  /\ slot' \in [Slots -> SlotOf] /\ Live' = Live /\ \A j \in Slots : slot'[j].formed = slot[j].formed
           /\ FormationOrder'
           /\ slot'[k].ran = slot[k].ran + 1 /\ ~slot'[k].recording /\ \A j \in Slots : j # k => slot'[j] = slot[j]
           /\ \A j \in Live : \A s \in 0..S : Foremost(j, s) => Foremost(j, s)'
<1>1. /\ slot \in [Slots -> SlotOf] /\ k \in Slots /\ slot[k].ran \in Nat /\ S \in Nat /\ \A j \in Slots : slot[j].ran \in Nat
  BY SlotTyped
<1>2. slot[k].ran + 1 \in 0..S BY <1>1
<1>3. slot' \in [Slots -> SlotOf] BY <1>1, <1>2 DEF SlotOf
<1>4. \A j \in Slots : /\ slot'[j].formed = slot[j].formed /\ slot'[j].live = slot[j].live
                       /\ j # k => slot'[j] = slot[j]
  BY <1>1 DEF SlotOf
<1>a. slot'[k].ran = slot[k].ran + 1 /\ ~slot'[k].recording BY <1>1 DEF SlotOf
<1>5. Live' = Live BY <1>4 DEF Live
<1>6. FormationOrder'
  <2>1. SUFFICES ASSUME NEW i \in Live, NEW j \in Live, slot[i].formed < slot[j].formed
                 PROVE  slot'[i].ran >= slot'[j].ran /\ (slot'[i].ran = slot'[j].ran => ~slot'[j].recording)
    BY <1>4, <1>5 DEF FormationOrder, Live
  <2>2. slot[i].ran >= slot[j].ran /\ (slot[i].ran = slot[j].ran => ~slot[j].recording)
    BY <2>1 DEF IInv, Flow, FormationOrder
  <2>3. i \in Slots /\ j \in Slots /\ slot[i].ran \in Nat /\ slot[j].ran \in Nat BY <1>1 DEF Live
  <2>4. i # j BY <2>1, SlotTyped, <2>3
  <2>5. CASE j = k
    <3>1. slot[i].ran > slot[k].ran BY <2>1, <2>5 DEF Foremost
    <3> QED BY <1>1, <1>4, <1>a, <2>3, <2>4, <2>5, <3>1
  <2>6. CASE i = k
    <3>1. slot'[i].ran = slot[i].ran + 1 /\ slot'[j] = slot[j] BY <1>4, <1>a, <2>3, <2>4, <2>6
    <3>2. slot[i].ran + 1 > slot[j].ran BY <2>2, <2>3
    <3> QED BY <2>3, <3>1, <3>2
  <2>7. CASE i # k /\ j # k BY <1>4, <2>2, <2>3, <2>7
  <2> QED BY <2>5, <2>6, <2>7
<1>7. ASSUME NEW j \in Live, NEW s \in 0..S, Foremost(j, s) PROVE Foremost(j, s)'
  <2>1. SUFFICES ASSUME NEW i \in Live, slot[i].formed < slot[j].formed PROVE slot'[i].ran > s
    BY <1>4, <1>5 DEF Foremost, Live
  <2>2. slot[i].ran > s BY <1>7, <2>1 DEF Foremost
  <2>3. i \in Slots BY DEF Live
  <2>4. CASE i = k
    <3>1. slot'[i].ran = slot[i].ran + 1 BY <1>a, <2>4
    <3>2. slot[i].ran \in Nat BY <1>1, <2>3
    <3> QED BY <2>2, <3>1, <3>2
  <2>5. CASE i # k BY <1>4, <2>2, <2>3, <2>5
  <2> QED BY <2>4, <2>5
<1> QED BY <1>3, <1>4, <1>5, <1>6, <1>7, <1>a

LEMMA InlineEndsKeeps ==
    ASSUME IInv, NEW fails \in BOOLEAN, InlineEnds(fails)
    PROVE  IInv'
<1> USE DEF InlineEnds, lanes
<1> DEFINE k == cause.slot
<1>1. /\ pc = "inline" /\ cause.why = "inline" /\ k \in Live /\ ~slot[k].recording /\ slot[k].ran < S
      /\ cause.back \in {"steps", "form", "host"} /\ Foremost(k, slot[k].ran) /\ Phase = cause.back /\ k \in Slots
  <2>1. pc = "inline" /\ Waits BY DEF IInv, Flow
  <2> QED BY <2>1 DEF Waits, Phase, Live
<1>2. Phases /\ Planned /\ First /\ FormationOrder /\ cause \in Causes BY <1>1 DEF IInv, Flow, Typed
<1>3. Told' = Told /\ EndOf' = EndOf /\ Causes' = Causes BY DEF Told, EndOf, Causes
<1>4. CASE fails
  <2>1. /\ pc' = "quiet" /\ cause' = [why |-> "undo", slot |-> k, request |-> {}, back |-> cause.back]
        /\ UNCHANGED <<slot, formed, before, jobs, todo, hosts>>
    BY <1>4 DEF Quiet
  <2>2. Typed'
    <3>1. cause' \in Causes BY <1>2, <2>1 DEF Causes
    <3>2. pc' \in Places BY <2>1 DEF Places
    <3> QED BY <3>1, <3>2, <1>3, <2>1 DEF IInv, Typed, TypeOK
  <2>3. Handing' BY <2>1, HandingKept DEF IInv
  <2>4. Live' = Live BY <2>1 DEF Live
  <2>5. FormationOrder' BY <1>2, <2>1, <2>4 DEF FormationOrder
  <2>6. (Waits /\ Phases)' BY <1>1, <1>2, <2>1 DEF Waits, Phases, Phase
  <2>7. Planned' BY <1>2, <2>1, <2>4 DEF Planned, Foremost
  <2>8. First' BY <1>1, <1>2, <2>1, <2>4 DEF First
  <2> QED BY <2>2, <2>3, <2>5, <2>6, <2>7, <2>8 DEF IInv, Flow
<1>5. CASE ~fails
  <2>1. /\ slot' = [slot EXCEPT ![k].ran = slot[k].ran + 1] /\ pc' = cause.back /\ cause' = NoCause
        /\ UNCHANGED <<formed, before, jobs, todo, hosts>>
    BY <1>5
  <2>2. slot' = [slot EXCEPT ![k].recording = FALSE, ![k].ran = slot[k].ran + 1]
    <3>1. slot[k].recording = FALSE /\ slot \in [Slots -> SlotOf] BY <1>1, SlotTyped DEF SlotOf
    <3> QED BY <1>1, <2>1, <3>1 DEF SlotOf
  <2>3. /\ slot' \in [Slots -> SlotOf] /\ Live' = Live /\ \A j \in Slots : slot'[j].formed = slot[j].formed
        /\ FormationOrder'
        /\ slot'[k].ran = slot[k].ran + 1 /\ ~slot'[k].recording /\ \A j \in Slots : j # k => slot'[j] = slot[j]
        /\ \A j \in Live : \A s \in 0..S : Foremost(j, s) => Foremost(j, s)'
    BY <1>1, <2>1, <2>2, Further
  <2>4. Typed'
    <3>1. cause' \in Causes BY <2>1, RoundAssumption DEF Causes, NoCause, Places
    <3>2. pc' \in Places BY <1>1, <2>1 DEF Places
    <3>3. \A j \in Slots : slot'[j].formed <= formed' BY <2>1, <2>3 DEF IInv, Typed
    <3>4. slot' \in [Slots -> SlotOf] BY <2>3
    <3> HIDE DEF InlineEnds
    <3>5. UNCHANGED <<hand, at, acted, arrived, stopping, post, ends, queued, items, reports, lane>> BY DEF InlineEnds
    <3> QED BY <3>1, <3>2, <3>3, <3>4, <3>5, <1>3, <2>1 DEF IInv, Typed, TypeOK, SlotOf
  <2>5. Handing'
    <3>1. RecordsItsPass'
      <4>1. SUFFICES ASSUME NEW s \in Threaded, post[s] # NoPost
                     PROVE /\ slot'[post[s].slot].live /\ slot'[post[s].slot].recording
                           /\ slot'[post[s].slot].ran = s /\ slot'[post[s].slot].job = post[s].job
        BY DEF RecordsItsPass
      <4>2. /\ slot[post[s].slot].live /\ slot[post[s].slot].recording
            /\ slot[post[s].slot].ran = s /\ slot[post[s].slot].job = post[s].job /\ post[s].slot \in Slots
        BY <4>1 DEF IInv, Handing, RecordsItsPass, Handed
      <4>3. post[s].slot # k BY <1>1, <4>2
      <4> QED BY <2>3, <4>2, <4>3
    <3>2. OneThreadAStage' BY <1>1, <2>1 DEF OneThreadAStage
    <3>3. Handed'
      <4>1. \A j \in Live' : slot'[j].recording => slot'[j].ran \in Threaded BY <2>3 DEF IInv, Handing, Handed, Live
      <4> QED BY <2>1, <4>1 DEF IInv, Handing, Handed, Untold
    <3> QED BY <3>1, <3>2, <3>3 DEF Handing
  <2>6. Phase' = Phase BY <1>1, <2>1 DEF Phase
  <2>7. (Waits /\ Phases)' BY <1>1, <1>2, <2>1, <2>6 DEF Waits, Phases
  <2>8. Planned'
    <3>1. \A j \in Slots : slot[j].ran \in Nat BY SlotTyped
    <3>2. \A a \in todo \cup hosts : a[1] \in Slots /\ a[2] \in 0..S /\ a[2] \in Nat
      <4>1. todo \subseteq Slots \X (0..S) /\ hosts \subseteq Slots \X Stages BY DEF IInv, Typed, TypeOK
      <4>2. Stages \subseteq 0..S /\ \A n \in 0..S : n \in Nat BY RoundAssumption DEF Stages
      <4> QED BY <4>1, <4>2
    <3>3. ASSUME NEW a \in todo \cup hosts, slot'[a[1]].live
          PROVE  /\ a \in todo /\ slot'[a[1]].ran = a[2] => ~slot'[a[1]].recording
                 /\ slot'[a[1]].formed <= before => /\ a[2] <= slot'[a[1]].ran
                                                    /\ a[2] = slot'[a[1]].ran /\ a[2] < S => Foremost(a[1], a[2])'
      <4>1. slot[a[1]].live /\ a[1] \in Live /\ slot'[a[1]].formed = slot[a[1]].formed BY <2>3, <3>2, <3>3 DEF Live
      <4>2. CASE a[1] = k
        <5>1. slot[k].formed <= before => a[2] <= slot[k].ran BY <1>2, <3>3, <4>1, <4>2 DEF Planned
        <5>2. slot'[k].formed <= before => a[2] < slot'[k].ran BY <1>1, <2>3, <3>1, <3>2, <4>1, <4>2, <5>1
        <5>3. slot'[k].ran \in Nat BY <1>1, <2>3, <3>1
        <5> QED BY <2>3, <3>2, <4>2, <5>2, <5>3
      <4>3. CASE a[1] # k
        <5>1. slot'[a[1]] = slot[a[1]] BY <2>3, <3>2, <4>3
        <5> QED BY <1>2, <2>3, <3>2, <3>3, <4>1, <5>1 DEF Planned
      <4> QED BY <4>2, <4>3
    <3> QED BY <2>1, <3>3 DEF Planned
  <2>9. First'
    <3>1. ASSUME NEW j \in Live, slot'[j].ran = 0 PROVE j # k /\ slot[j].ran = 0
      <4>1. slot[k].ran \in Nat /\ j \in Slots BY <1>1, SlotTyped
      <4>2. j # k BY <2>3, <3>1, <4>1
      <4> QED BY <2>3, <3>1, <4>1, <4>2
    <3>2. CASE 0 \in Threaded BY <1>2, <2>3, <3>1, <3>2 DEF First
    <3>3. CASE 0 \notin Threaded
      <4>1. ASSUME NEW j \in Live, slot'[j].ran = 0 PROVE <<j, 0>> \in todo' \cup hosts'
        BY <1>1, <1>2, <2>1, <3>1, <3>3, <4>1 DEF First
      <4> QED BY <2>3, <3>3, <4>1 DEF First
    <3> QED BY <3>2, <3>3
  <2> QED BY <2>3, <2>4, <2>5, <2>7, <2>8, <2>9 DEF IInv, Flow
<1> QED BY <1>4, <1>5

\* The end of a recording moves the pass it is about, whose hand-over is over.
LEMMA CollectEndKeeps ==
    ASSUME IInv, CollectEnd
    PROVE  IInv'
<1> USE DEF CollectEnd, lanes
<1> DEFINE e == Head(hand)
           k == e.slot
<1>1. e \in Told /\ hand' \in Seq(Told) BY HandTail
<1>2. e \in EndOf /\ k \in Slots
  <2>1. e \notin [report : Requests] OBVIOUS
  <2>2. e \in EndOf BY <1>1, <2>1 DEF Told
  <2> QED BY <2>2 DEF EndOf
<1>3. Untold(hand)' BY HandTail
<1>4. Phase = "collect" /\ pc = "collect" /\ todo = {} /\ hosts = {} /\ Planned /\ First /\ FormationOrder
  <2>1. pc = "collect" OBVIOUS
  <2> QED BY <2>1 DEF IInv, Flow, Phases, Phase
<1>5. Told' = Told /\ EndOf' = EndOf /\ Causes' = Causes BY DEF Told, EndOf, Causes
<1>6. ASSUME NEW s \in Threaded, post[s] # NoPost, slot[k].job = e.job PROVE post[s].slot # k
  <2>1. post[s].job # e.job
    <3>1. hand # <<>> /\ hand \in Seq(Told) /\ Untold(hand) BY DEF IInv, Typed, Handing, Handed
    <3>2. 1 \in DOMAIN hand /\ hand[1] = e BY <3>1
    <3> QED BY <1>6, <3>1, <3>2 DEF Untold
  <2> QED BY <1>6, <2>1 DEF IInv, Handing, RecordsItsPass
<1>7. UNCHANGED <<formed, before, jobs, post, ends, queued, items, reports, lane, at, todo, hosts, arrived, stopping>> OBVIOUS
<1>8. CASE Stale(e)
  <2>1. UNCHANGED <<slot, acted, pc, cause>> BY <1>8
  <2> HIDE DEF CollectEnd
  <2>2. Typed' BY <1>1, <1>5, <1>7, <2>1 DEF IInv, Typed, TypeOK
  <2>3. Live' = Live BY <2>1 DEF Live
  <2>4. Handing'
    <3>1. RecordsItsPass' BY <1>7, <2>1 DEF IInv, Handing, RecordsItsPass
    <3>2. OneThreadAStage' BY <1>4, <2>1 DEF OneThreadAStage
    <3>3. Handed' BY <1>3, <1>7, <2>1, <2>3 DEF IInv, Handing, Handed, Untold
    <3> QED BY <3>1, <3>2, <3>3 DEF Handing
  <2>5. Flow' BY <1>7, <2>1, FlowKept DEF IInv
  <2> QED BY <2>2, <2>4, <2>5 DEF IInv
<1>9. CASE ~Stale(e)
  <2>1. k \in Live /\ slot[k].recording /\ slot[k].job = e.job BY <1>2, <1>9 DEF Stale, Live
  <2>2. slot[k].ran \in Threaded /\ slot[k].ran < S /\ slot[k].ran \in Nat
    <3>1. slot[k].ran \in Threaded BY <2>1 DEF IInv, Handing, Handed
    <3> QED BY <3>1, SlotTyped
  <2>3. Foremost(k, slot[k].ran)
    <3>1. SUFFICES ASSUME NEW j \in Live, slot[j].formed < slot[k].formed PROVE slot[j].ran > slot[k].ran BY DEF Foremost
    <3>2. slot[j].ran >= slot[k].ran /\ slot[j].ran # slot[k].ran BY <1>4, <2>1, <3>1 DEF FormationOrder
    <3>3. slot[j].ran \in Nat BY SlotTyped
    <3> HIDE DEF k
    <3> QED BY <2>2, <3>2, <3>3
  <2>4. slot' = [slot EXCEPT ![k].recording = FALSE, ![k].ran = IF e.failed THEN slot[k].ran ELSE slot[k].ran + 1] /\ acted' = TRUE
    BY <1>9
  <2>5. /\ slot' \in [Slots -> SlotOf] /\ Live' = Live /\ FormationOrder'
        /\ ~slot'[k].recording /\ (\A j \in Slots : j # k => slot'[j] = slot[j])
        /\ (\A j \in Slots : slot'[j].formed = slot[j].formed) /\ slot'[k].ran >= slot[k].ran
    <3>1. CASE ~e.failed
      <4>1. slot' = [slot EXCEPT ![k].recording = FALSE, ![k].ran = slot[k].ran + 1] BY <2>4, <3>1
      <4>2. UNCHANGED <<formed, before>> BY <1>7
      <4> HIDE DEF CollectEnd, k, e
      <4>3. /\ slot' \in [Slots -> SlotOf] /\ Live' = Live /\ \A j \in Slots : slot'[j].formed = slot[j].formed
            /\ FormationOrder'
            /\ slot'[k].ran = slot[k].ran + 1 /\ ~slot'[k].recording /\ \A j \in Slots : j # k => slot'[j] = slot[j]
        BY <2>1, <2>2, <2>3, <4>1, <4>2, Further
      <4>4. slot'[k].ran >= slot[k].ran BY <2>2, <4>3
      <4> QED BY <4>3, <4>4
    <3>2. CASE e.failed
      <4>1. slot' = [slot EXCEPT ![k].recording = FALSE, ![k].ran = slot[k].ran] /\ slot \in [Slots -> SlotOf] BY <2>4, <3>2, SlotTyped
      <4> HIDE DEF CollectEnd, k, e
      <4>2. slot' \in [Slots -> SlotOf] BY <1>2, <4>1 DEF SlotOf
      <4>3. \A j \in Slots : /\ slot'[j].formed = slot[j].formed /\ slot'[j].live = slot[j].live /\ slot'[j].ran = slot[j].ran
                             /\ j # k => slot'[j] = slot[j]
        BY <1>2, <4>1 DEF SlotOf
      <4>4. ~slot'[k].recording /\ slot'[k].ran = slot[k].ran BY <1>2, <4>1 DEF SlotOf
      <4>5. Live' = Live BY <4>3 DEF Live
      <4>6. FormationOrder' BY <1>4, <4>3, <4>4, <4>5 DEF FormationOrder, Live
      <4>7. slot'[k].ran >= slot[k].ran BY <2>2, <4>4
      <4> QED BY <4>2, <4>3, <4>4, <4>5, <4>6, <4>7
    <3> QED BY <3>1, <3>2
  <2>6. \/ pc' = pc /\ cause' = cause
        \/ pc' = "quiet" /\ cause' = [why |-> "abandon", slot |-> k, request |-> {}, back |-> "collect"]
    BY <1>9 DEF Quiet
  <2> HIDE DEF CollectEnd, k, e
  <2>7. Typed'
    <3>1. cause' \in Causes
      <4>1. cause \in Causes BY DEF IInv, Typed
      <4> QED BY <1>2, <2>6, <4>1 DEF Causes, Slots, Places
    <3>2. pc' \in Places BY <1>4, <2>6 DEF Places
    <3>3. \A j \in Slots : slot'[j].formed <= formed' BY <1>7, <2>5, SlotTyped
    <3> QED BY <1>1, <1>5, <1>7, <2>4, <2>5, <3>1, <3>2, <3>3 DEF IInv, Typed, TypeOK, SlotOf
  <2>8. Handing'
    <3>1. RecordsItsPass'
      <4>1. SUFFICES ASSUME NEW s \in Threaded, post[s] # NoPost
                     PROVE /\ slot'[post[s].slot].live /\ slot'[post[s].slot].recording
                           /\ slot'[post[s].slot].ran = s /\ slot'[post[s].slot].job = post[s].job
        BY <1>7 DEF RecordsItsPass
      <4>2. /\ slot[post[s].slot].live /\ slot[post[s].slot].recording
            /\ slot[post[s].slot].ran = s /\ slot[post[s].slot].job = post[s].job /\ post[s].slot \in Slots
        BY <4>1 DEF IInv, Handing, RecordsItsPass, Handed
      <4>3. post[s].slot # k BY <1>6, <2>1, <4>1
      <4> QED BY <2>5, <4>2, <4>3
    <3>2. OneThreadAStage' BY <1>4, <2>6 DEF OneThreadAStage
    <3>3. Handed'
      <4>1. \A j \in Live' : slot'[j].recording => slot'[j].ran \in Threaded BY <2>5 DEF IInv, Handing, Handed, Live
      <4> QED BY <1>3, <1>7, <4>1 DEF IInv, Handing, Handed, Untold
    <3> QED BY <3>1, <3>2, <3>3 DEF Handing
  <2>9. (Waits /\ Phases)'
    <3>1. pc' # "inline" /\ Phase' = "collect" BY <1>4, <2>6 DEF Phase
    <3>2. Waits' BY <1>2, <1>4, <2>6 DEF Waits
    <3>3. Phases' BY <1>4, <1>7, <3>1 DEF Phases
    <3> QED BY <3>2, <3>3
  <2>10. Planned' BY <1>4, <1>7 DEF Planned
  <2>11. First'
    <3>1. ASSUME NEW j \in Live, slot'[j].ran = 0 PROVE slot[j].ran = 0
      <4>1. j \in Slots /\ slot[j].ran \in Nat BY SlotTyped
      <4>2. CASE j = k BY <2>2, <2>5, <3>1, <4>2, <4>1
      <4>3. CASE j # k BY <2>5, <3>1, <4>1, <4>3
      <4> QED BY <4>2, <4>3
    <3>2. CASE 0 \in Threaded BY <1>4, <2>5, <3>1, <3>2 DEF First
    <3>3. CASE 0 \notin Threaded
      <4>1. ASSUME NEW j \in Live, slot'[j].ran = 0 PROVE FALSE BY <1>4, <3>1, <3>3, <4>1 DEF First
      <4> QED BY <2>5, <3>3, <4>1 DEF First
    <3> QED BY <3>2, <3>3
  <2> QED BY <2>5, <2>7, <2>8, <2>9, <2>10, <2>11 DEF IInv, Flow
<1> QED BY <1>8, <1>9

\* A hand-over finds its stage's thread without one, and takes the next job.
LEMMA PostKeeps ==
    ASSUME IInv, NEW a \in Slots \X (0..S), Post(a)
    PROVE  IInv'
<1> USE DEF Post
<1> DEFINE k == a[1]
           s == a[2]
<1>1. /\ a \in todo /\ pc \in {"steps", "form", "host"} /\ Phase = pc
      /\ Waits /\ Phases /\ Planned /\ First /\ FormationOrder
  BY StepIs
<1>2. s \in Threaded /\ s < S /\ s \notin Host BY SlotTyped DEF Apart
<1>3. k \in Slots /\ k \in Live /\ slot[k].ran = s /\ ~slot[k].recording /\ Foremost(k, s) BY <1>2, StandsForemost
<1>4. post[s] = NoPost
  <2>1. SUFFICES ASSUME post[s] # NoPost PROVE FALSE OBVIOUS
  <2>2. post[s].slot \in Live /\ slot[post[s].slot].recording /\ slot[post[s].slot].ran = s
    BY <1>2, <2>1 DEF IInv, Handing, RecordsItsPass, Handed, Live
  <2> QED BY <2>2 DEF Recording
<1>5. /\ slot' = [slot EXCEPT ![k].recording = TRUE, ![k].job = jobs + 1] /\ jobs' = jobs + 1 /\ jobs \in Nat
      /\ post' = [post EXCEPT ![s] = [slot |-> k, job |-> jobs + 1]] /\ todo' = todo \ {a} /\ acted' = TRUE
      /\ UNCHANGED <<formed, before, ends, queued, items, reports, lane, pc, hand, at, hosts, cause, arrived, stopping>>
  BY DEF IInv, Typed, TypeOK
<1>6. a \in Slots \X (0..S) /\ a = <<k, s>> OBVIOUS
<1> HIDE DEF Post, k, s
<1>7. slot \in [Slots -> SlotOf] BY SlotTyped
<1>8. slot' \in [Slots -> SlotOf]
  <2>1. slot[k] \in SlotOf /\ jobs + 1 \in Nat BY <1>3, <1>5, <1>7
  <2>2. [slot[k] EXCEPT !.recording = TRUE, !.job = jobs + 1] \in SlotOf BY <2>1 DEF SlotOf
  <2>3. slot' = [slot EXCEPT ![k] = [slot[k] EXCEPT !.recording = TRUE, !.job = jobs + 1]] BY <1>5
  <2> QED BY <1>3, <1>7, <2>2, <2>3
<1>9. /\ \A j \in Slots : /\ slot'[j].live = slot[j].live /\ slot'[j].ran = slot[j].ran /\ slot'[j].formed = slot[j].formed
                          /\ j # k => slot'[j] = slot[j]
      /\ slot'[k].recording /\ slot'[k].job = jobs + 1
  BY <1>3, <1>5, <1>7 DEF SlotOf
<1>10. Live' = Live BY <1>9 DEF Live
<1>11. \A t \in Threaded : post'[t] = IF t = s THEN [slot |-> k, job |-> jobs + 1] ELSE post[t]
  BY <1>5 DEF IInv, Typed, TypeOK
<1>12. Typed'
  <2>1. EndOf \subseteq EndOf' /\ Causes' = Causes
    <3>1. 1..jobs \subseteq 1..jobs + 1 BY <1>5
    <3> QED BY <1>5, <3>1 DEF EndOf, Causes
  <2>2. Told \subseteq Told' BY <2>1 DEF Told
  <2>3. hand' \in Seq(Told')
    <3>1. hand \in Seq(Told) BY DEF IInv, Typed
    <3> QED BY <1>5, <2>2, <3>1
  <2>4. ends' \in [Threaded -> Seq(EndOf')]
    <3>1. ends \in [Threaded -> Seq(EndOf)] BY DEF IInv, Typed, TypeOK, EndOf
    <3>2. Seq(EndOf) \subseteq Seq(EndOf') BY <2>1
    <3> QED BY <1>5, <3>1, <3>2
  <2>5. post' \in [Threaded -> [slot : 0..SlotCount, job : Nat]]
    <3>1. [slot |-> k, job |-> jobs + 1] \in [slot : 0..SlotCount, job : Nat] BY <1>3, <1>5, RoundAssumption DEF Slots
    <3>2. post \in [Threaded -> [slot : 0..SlotCount, job : Nat]] BY DEF IInv, Typed, TypeOK
    <3> QED BY <1>5, <3>1, <3>2
  <2>6. \A j \in Slots : slot'[j].formed <= formed' BY <1>5, <1>9, SlotTyped
  <2>7. TypeOK'
    <3>1. jobs' \in Nat BY <1>5
    <3> QED BY <1>5, <1>8, <2>4, <2>5, <3>1 DEF IInv, Typed, TypeOK, SlotOf, EndOf
  <2>8. hand' \in Seq(Told)' BY <2>3
  <2>9. cause' \in Causes' /\ at' \in Threaded \cup {S} BY <1>5, <2>1 DEF IInv, Typed
  <2> QED BY <2>6, <2>7, <2>8, <2>9 DEF Typed
<1>13. Handing'
  <2>1. RecordsItsPass'
    <3>1. SUFFICES ASSUME NEW t \in Threaded, post'[t] # NoPost
                   PROVE /\ slot'[post'[t].slot].live /\ slot'[post'[t].slot].recording
                         /\ slot'[post'[t].slot].ran = t /\ slot'[post'[t].slot].job = post'[t].job
      BY DEF RecordsItsPass
    <3>2. CASE t = s
      <4>1. post'[t].slot = k /\ post'[t].job = jobs + 1 BY <1>11, <3>2
      <4>2. slot'[k].live BY <1>3, <1>9 DEF Live
      <4> QED BY <1>3, <1>9, <3>2, <4>1, <4>2
    <3>3. CASE t # s
      <4>1. post'[t] = post[t] BY <1>11, <3>3
      <4>2. /\ slot[post[t].slot].live /\ slot[post[t].slot].recording
            /\ slot[post[t].slot].ran = t /\ slot[post[t].slot].job = post[t].job /\ post[t].slot \in Slots
        BY <3>1, <4>1 DEF IInv, Handing, RecordsItsPass, Handed
      <4>3. post[t].slot # k BY <1>3, <4>2
      <4> QED BY <1>9, <4>1, <4>2, <4>3
    <3> QED BY <3>2, <3>3
  <2>2. OneThreadAStage' BY <1>1, <1>5 DEF OneThreadAStage
  <2>3. \A t \in Threaded : post[t] # NoPost => post[t].job \in 1..jobs /\ post[t].job # jobs + 1
    <3>1. \A n \in 1..jobs : n # jobs + 1 BY <1>5
    <3> QED BY <3>1 DEF IInv, Handing, Handed
  <2>4. \A t \in Threaded : post'[t] # NoPost => post'[t].slot \in Slots /\ post'[t].job \in 1..jobs'
    <3>1. jobs + 1 \in 1..jobs' /\ 1..jobs \subseteq 1..jobs' BY <1>5
    <3>2. TAKE t \in Threaded
    <3>3. CASE t = s
      <4>1. post'[t].slot = k /\ post'[t].job = jobs + 1 BY <1>11, <3>3
      <4> QED BY <1>3, <3>1, <4>1
    <3>4. CASE t # s BY <1>11, <3>1, <3>4 DEF IInv, Handing, Handed
    <3> QED BY <3>3, <3>4
  <2>5. \A t, u \in Threaded : post'[t] # NoPost /\ post'[u] # NoPost /\ post'[t].job = post'[u].job => t = u
    <3>1. TAKE t, u \in Threaded
    <3>2. CASE t # s /\ u # s BY <1>11, <3>2 DEF IInv, Handing, Handed
    <3>3. CASE t = s /\ u # s
      <4>1. post'[t].job = jobs + 1 /\ post'[u] = post[u] BY <1>11, <3>3
      <4> QED BY <2>3, <4>1
    <3>4. CASE t # s /\ u = s
      <4>1. post'[u].job = jobs + 1 /\ post'[t] = post[t] BY <1>11, <3>4
      <4> QED BY <2>3, <4>1
    <3> QED BY <3>2, <3>3, <3>4
  <2>6. ASSUME NEW q \in Seq(Told), Untold(q) PROVE Untold(q)'
    <3>1. SUFFICES ASSUME NEW i \in DOMAIN q, "job" \in DOMAIN q[i], NEW t \in Threaded, post'[t] # NoPost
                   PROVE post'[t].job # q[i].job
      BY DEF Untold
    <3>2. CASE t # s BY <1>11, <2>6, <3>1, <3>2 DEF Untold
    <3>3. CASE t = s
      <4>1. q[i] \in Told BY <3>1
      <4>2. q[i] \notin [report : Requests] BY <3>1
      <4>3. q[i].job \in 1..jobs BY <4>1, <4>2 DEF Told, EndOf
      <4>4. post'[t].job = jobs + 1 BY <1>11, <3>3
      <4> QED BY <1>5, <4>3, <4>4
    <3> QED BY <3>2, <3>3
  <2>7. (\A t \in Threaded : Untold(ends[t])') /\ Untold(hand)'
    <3>1. hand \in Seq(Told) /\ hand' = hand BY <1>5 DEF IInv, Typed
    <3>2. ends' = ends BY <1>5
    <3>3. \A t \in Threaded : ends[t] \in Seq(Told)
      <4>1. Seq(EndOf) \subseteq Seq(Told) BY DEF Told
      <4> QED BY <4>1 DEF IInv, Typed, TypeOK, EndOf
    <3>4. (\A t \in Threaded : Untold(ends[t])) /\ Untold(hand) BY DEF IInv, Handing, Handed
    <3>5. \A q \in Seq(Told) : Untold(q) => \A i \in DOMAIN q : "job" \in DOMAIN q[i] => \A t \in Threaded : post'[t] # NoPost => post'[t].job # q[i].job
      BY <2>6 DEF Untold
    <3> QED BY <3>1, <3>2, <3>3, <3>4, <3>5 DEF Untold
  <2>8. \A t \in Threaded : (lane'[t] = "record" => post'[t] # NoPost) /\ (lane'[t] = "item" => items'[t] # <<>>)
    <3>1. jobs + 1 # 0 BY <1>5
    <3>2. [slot |-> k, job |-> jobs + 1] # NoPost BY <3>1 DEF NoPost
    <3> QED BY <1>5, <1>11, <3>2 DEF IInv, Handing, Handed
  <2>9. \A j \in Live' : slot'[j].recording => slot'[j].ran \in Threaded
    BY <1>2, <1>3, <1>9, <1>10 DEF IInv, Handing, Handed, Live
  <2> QED BY <2>1, <2>2, <2>4, <2>5, <2>7, <2>8, <2>9 DEF Handing, Handed
<1>14. FormationOrder'
  <2>1. SUFFICES ASSUME NEW i \in Live, NEW j \in Live, slot[i].formed < slot[j].formed
                 PROVE  slot'[i].ran >= slot'[j].ran /\ (slot'[i].ran = slot'[j].ran => ~slot'[j].recording)
    BY <1>9, <1>10 DEF FormationOrder, Live
  <2>2. slot[i].ran >= slot[j].ran /\ (slot[i].ran = slot[j].ran => ~slot[j].recording) BY <1>1, <2>1 DEF FormationOrder
  <2>3. i \in Slots /\ j \in Slots /\ slot[i].ran \in Nat /\ slot[j].ran \in Nat BY SlotTyped
  <2>4. CASE j = k
    <3>1. slot[i].ran > s BY <1>3, <2>1, <2>4 DEF Foremost
    <3> QED BY <1>3, <1>9, <2>2, <2>3, <2>4, <3>1
  <2>5. CASE j # k BY <1>9, <2>2, <2>3, <2>5
  <2> QED BY <2>4, <2>5
<1>15. (Waits /\ Phases)' BY <1>1, <1>5 DEF Waits, Phases, Phase
<1>16. todo \subseteq Slots \X (0..S) /\ hosts \subseteq Slots \X (0..S)
  <2>1. todo \subseteq Slots \X (0..S) /\ hosts \subseteq Slots \X Stages BY DEF IInv, Typed, TypeOK
  <2>2. Stages \subseteq 0..S BY RoundAssumption DEF Stages
  <2> QED BY <2>1, <2>2
<1>17. Planned'
  <2>1. \A b \in todo' : slot'[b[1]].live /\ slot'[b[1]].ran = b[2] => ~slot'[b[1]].recording
    <3>1. TAKE b \in todo'
    <3>2. b \in todo /\ b # a /\ b[1] \in Slots /\ b = <<b[1], b[2]>> BY <1>5, <1>16
    <3>3. CASE b[1] = k BY <1>3, <1>6, <1>9, <3>2, <3>3
    <3>4. CASE b[1] # k BY <1>1, <1>9, <3>2, <3>4 DEF Planned
    <3> QED BY <3>3, <3>4
  <2>2. \A j \in Live, t \in 0..S : Foremost(j, t) => Foremost(j, t)' BY <1>9, <1>10 DEF Foremost, Live
  <2>3. \A b \in todo' \cup hosts' : slot'[b[1]].live /\ slot'[b[1]].formed <= before' =>
          b[2] <= slot'[b[1]].ran /\ (b[2] = slot'[b[1]].ran /\ b[2] < S => Foremost(b[1], b[2])')
    <3>1. TAKE b \in todo' \cup hosts'
    <3>2. b \in todo \cup hosts /\ b[1] \in Slots /\ b[2] \in 0..S BY <1>5, <1>16
    <3>3. slot[b[1]].live => b[1] \in Live BY <3>2 DEF Live
    <3> QED BY <1>1, <1>5, <1>9, <2>2, <3>2, <3>3 DEF Planned
  <2> QED BY <2>1, <2>3 DEF Planned
<1>18. First'
  <2>1. \A j \in Live : slot'[j].ran = slot[j].ran BY <1>9 DEF Live
  <2>2. CASE 0 \in Threaded BY <1>1, <1>10, <2>1, <2>2 DEF First
  <2>3. CASE 0 \notin Threaded
    <3>1. \A j : <<j, 0>> # a BY <1>2, <1>6, <2>3
    <3>2. \A j \in Live : slot[j].ran = 0 => <<j, 0>> \in todo \cup hosts BY <1>1, <2>3 DEF First
    <3> QED BY <1>5, <1>10, <2>1, <2>3, <3>1, <3>2 DEF First
  <2> QED BY <2>2, <2>3
<1> QED BY <1>12, <1>13, <1>14, <1>15, <1>17, <1>18 DEF IInv, Flow

\* A new pass is behind every other, and the first stage is its own.
LEMMA FormKeeps ==
    ASSUME IInv, NEW rs \in SUBSET Requests, NEW wants \in BOOLEAN, Form(rs, wants)
    PROVE  IInv'
<1> USE DEF Form, lanes
<1> DEFINE k == FreeSlot
           new == [live |-> TRUE, recording |-> FALSE, ran |-> 0, formed |-> formed + 1,
                   job |-> 0, members |-> rs, wants |-> wants, continues |-> \E r \in rs : InFlight(r)]
<1>1. pc = "form" /\ Phase = "form" /\ todo = {} /\ Waits /\ Phases /\ Planned /\ First /\ FormationOrder
  <2>1. pc = "form" OBVIOUS
  <2> QED BY <2>1 DEF IInv, Flow, Phase
<1>2. k \in Slots /\ k \notin Live BY FreeIs
<1>3. /\ slot' = [slot EXCEPT ![k] = new] /\ formed' = formed + 1 /\ formed + 1 \in 0..MaxPasses /\ todo' = {<<k, 0>>}
      /\ UNCHANGED <<before, jobs, post, ends, queued, items, reports, lane, pc, hand, at, hosts, cause, acted, arrived, stopping>>
  BY SlotTyped
<1>a. ~FirstStageHeld OBVIOUS
<1>4. slot \in [Slots -> SlotOf] BY SlotTyped
<1>5. new \in SlotOf BY <1>3, SlotTyped DEF SlotOf
<1>6. new.live /\ ~new.recording /\ new.ran = 0 /\ new.formed = formed + 1 OBVIOUS
<1> HIDE DEF Form, k, new
<1>7. slot' \in [Slots -> SlotOf] /\ slot'[k] = new /\ \A j \in Slots : j # k => slot'[j] = slot[j] BY <1>2, <1>3, <1>4, <1>5
<1>8. Live' = Live \cup {k} BY <1>2, <1>6, <1>7 DEF Live
<1>9. \A j \in Live : j \in Slots /\ j # k /\ slot'[j] = slot[j] /\ slot[j].formed < formed + 1 /\ slot[j].formed \in Nat /\ slot[j].ran \in Nat
  <2>1. TAKE j \in Live
  <2>2. j \in Slots /\ j # k BY <1>2 DEF Live
  <2>3. slot[j].formed < formed + 1 /\ slot[j].formed \in Nat /\ slot[j].ran \in Nat BY <2>2, SlotTyped
  <2> QED BY <1>7, <2>2, <2>3
<1>10. Typed'
  <2>1. Told' = Told /\ EndOf' = EndOf /\ Causes' = Causes BY <1>3 DEF Told, EndOf, Causes
  <2>2. before' \in 0..formed' /\ formed' \in 0..MaxPasses BY <1>3, SlotTyped
  <2>3. todo' \subseteq Slots \X (0..S) BY <1>2, <1>3, SlotTyped
  <2>4. \A j \in Slots : slot'[j].formed <= formed'
    <3>1. TAKE j \in Slots
    <3>2. formed \in Nat /\ slot[j].formed \in Nat /\ slot[j].formed <= formed BY SlotTyped
    <3>3. CASE j = k BY <1>3, <1>6, <1>7, <3>2, <3>3
    <3>4. CASE j # k BY <1>3, <1>7, <3>2, <3>4
    <3> QED BY <3>3, <3>4
  <2> QED BY <1>3, <1>7, <2>1, <2>2, <2>3, <2>4 DEF IInv, Typed, TypeOK, SlotOf
<1>11. Handing'
  <2>1. RecordsItsPass'
    <3>1. SUFFICES ASSUME NEW s \in Threaded, post[s] # NoPost
                   PROVE /\ slot'[post[s].slot].live /\ slot'[post[s].slot].recording
                         /\ slot'[post[s].slot].ran = s /\ slot'[post[s].slot].job = post[s].job
      BY <1>3 DEF RecordsItsPass
    <3>2. /\ slot[post[s].slot].live /\ slot[post[s].slot].recording
          /\ slot[post[s].slot].ran = s /\ slot[post[s].slot].job = post[s].job /\ post[s].slot \in Live
      BY <3>1 DEF IInv, Handing, RecordsItsPass, Handed, Live
    <3> QED BY <1>9, <3>2
  <2>2. OneThreadAStage' BY <1>1, <1>3 DEF OneThreadAStage
  <2>3. \A j \in Live' : slot'[j].recording => slot'[j].ran \in Threaded BY <1>6, <1>7, <1>8, <1>9 DEF IInv, Handing, Handed
  <2>4. Handed' BY <1>3, <2>3 DEF IInv, Handing, Handed, Untold
  <2> QED BY <2>1, <2>2, <2>4 DEF Handing
<1>12. formed \in Nat /\ before \in Nat /\ before <= formed /\ slot'[k].formed = formed + 1 BY <1>6, <1>7, SlotTyped
<1>13. FormationOrder'
  <2>1. SUFFICES ASSUME NEW i \in Live', NEW j \in Live', slot'[i].formed < slot'[j].formed
                 PROVE  slot'[i].ran >= slot'[j].ran /\ (slot'[i].ran = slot'[j].ran => ~slot'[j].recording)
    BY DEF FormationOrder
  <2>2. i # k
    <3>1. SUFFICES ASSUME i = k PROVE FALSE OBVIOUS
    <3>2. CASE j = k BY <1>12, <2>1, <3>1, <3>2
    <3>3. CASE j \in Live BY <1>9, <1>12, <2>1, <3>1, <3>3
    <3> QED BY <1>8, <3>2, <3>3
  <2>3. i \in Live /\ slot'[i] = slot[i] /\ slot[i].ran \in Nat BY <1>8, <1>9, <2>2
  <2>4. CASE j = k
    <3>1. slot'[j].ran = 0 /\ ~slot'[j].recording BY <1>6, <1>7, <2>4
    <3> QED BY <2>3, <3>1
  <2>5. CASE j \in Live BY <1>1, <1>9, <2>1, <2>3, <2>5 DEF FormationOrder
  <2> QED BY <1>8, <2>4, <2>5
<1>14. (Waits /\ Phases)' BY <1>1, <1>3 DEF Waits, Phases, Phase
<1>15. Planned'
  <2>1. \A a \in todo' : ~slot'[a[1]].recording BY <1>3, <1>6, <1>7
  <2>2. ~(slot'[k].formed <= before') BY <1>3, <1>12
  <2>3. ASSUME NEW a \in hosts, a[1] # k, slot'[a[1]].live, slot'[a[1]].formed <= before
        PROVE  a[2] <= slot'[a[1]].ran /\ (a[2] = slot'[a[1]].ran /\ a[2] < S => Foremost(a[1], a[2])')
    <3>1. a[1] \in Slots BY DEF IInv, Typed, TypeOK
    <3>2. a[1] \in Live /\ slot[a[1]].live /\ slot'[a[1]] = slot[a[1]] BY <1>7, <2>3, <3>1 DEF Live
    <3>3. a[2] <= slot[a[1]].ran /\ (a[2] = slot[a[1]].ran /\ a[2] < S => Foremost(a[1], a[2])) BY <1>1, <2>3, <3>2 DEF Planned
    <3>4. ASSUME Foremost(a[1], a[2]) PROVE Foremost(a[1], a[2])'
      <4>1. SUFFICES ASSUME NEW j \in Live', slot'[j].formed < slot'[a[1]].formed PROVE slot'[j].ran > a[2] BY DEF Foremost
      <4>2. j # k BY <1>9, <1>12, <3>2, <4>1
      <4>3. j \in Live /\ slot'[j] = slot[j] BY <1>8, <1>9, <4>2
      <4> QED BY <3>2, <3>4, <4>1, <4>3 DEF Foremost
    <3> QED BY <3>2, <3>3, <3>4
  <2> QED BY <1>3, <2>1, <2>2, <2>3 DEF Planned
<1>16. First'
  <2>1. CASE 0 \in Threaded
    <3>1. \A j \in Live : slot[j].ran # 0 BY <1>a, <2>1 DEF FirstStageHeld
    <3> QED BY <1>8, <1>9, <2>1, <3>1 DEF First
  <2>2. CASE 0 \notin Threaded
    <3>1. ASSUME NEW j \in Live', slot'[j].ran = 0 PROVE <<j, 0>> \in todo' \cup hosts'
      <4>1. CASE j = k BY <1>3, <4>1
      <4>2. CASE j \in Live
        <5>1. slot[j].ran = 0 BY <1>9, <3>1, <4>2
        <5>2. <<j, 0>> \in todo \cup hosts BY <1>1, <2>2, <4>2, <5>1 DEF First
        <5> QED BY <1>1, <1>3, <5>2
      <4> QED BY <1>8, <4>1, <4>2
    <3> QED BY <2>2, <3>1 DEF First
  <2> QED BY <2>1, <2>2
<1> QED BY <1>10, <1>11, <1>13, <1>14, <1>15, <1>16 DEF IInv, Flow

-----------------------------------------------------------------------------
LEMMA InitHolds == Init => IInv
<1> SUFFICES ASSUME Init PROVE IInv OBVIOUS
<1> USE DEF Init
<1>1. Live = {} BY DEF Live, Free
<1>2. NextLane(0) \in Threaded \cup {S}
  <2>1. 0 \in 0..S BY RoundAssumption
  <2> QED BY <2>1, LaneIs
<1>3. slot \in [Slots -> SlotOf] BY RoundAssumption DEF Free, SlotOf
<1>4. Typed
  <2>1. \A k \in Slots : slot[k].formed <= formed BY DEF Free
  <2>2. cause \in Causes BY RoundAssumption DEF Causes, NoCause, Places
  <2>3. at \in Threaded \cup {S} /\ at \in Stages \cup {S} BY <1>2, RoundAssumption
  <2>4. post \in [Threaded -> [slot : 0..SlotCount, job : Nat]] BY RoundAssumption DEF NoPost
  <2>5. hand \in Seq(Told) /\ ends \in [Threaded -> Seq(EndOf)] /\ items \in [Threaded -> Seq(Requests)] /\ reports \in [Threaded -> Seq(Requests)]
    OBVIOUS
  <2>6. formed \in 0..MaxPasses /\ before \in 0..formed /\ queued \in 0..MaxItems BY RoundAssumption
  <2> QED BY <1>3, <2>1, <2>2, <2>3, <2>4, <2>5, <2>6 DEF Typed, TypeOK, SlotOf, EndOf, Places
<1>5. Handing
  <2>1. \A s \in Threaded : post[s] = NoPost /\ ends[s] = <<>> /\ lane[s] = "idle" OBVIOUS
  <2> QED BY <1>1, <2>1 DEF Handing, RecordsItsPass, OneThreadAStage, Handed, Untold
<1>6. FormationOrder BY <1>1 DEF FormationOrder
<1>7. Waits /\ Phases /\ Planned /\ First BY <1>1 DEF Waits, Phases, Phase, Planned, First
<1> QED BY <1>4, <1>5, <1>6, <1>7 DEF IInv, Flow

LEMMA NextKeeps == IInv /\ [Next]_vars => IInv'
<1> SUFFICES ASSUME IInv, [Next]_vars PROVE IInv' OBVIOUS
<1>1. CASE Scheduler
  <2>1. CASE Look \/ LookAgain \/ Sleep \/ EndRound \/ Quieted BY <2>1, LookKeeps, RestKeeps, QuietedKeeps
  <2>2. CASE CollectTake \/ CollectReport \/ CollectEnd \/ Collected
    BY <2>2, CollectTakeKeeps, CollectReportKeeps, CollectEndKeeps, CollectedKeeps
  <2>3. CASE Stepped \/ Admit \/ Admitted \/ Formed \/ FormFails BY <2>3, SteppedKeeps, AdmittedKeeps, FormFailsKeeps
  <2>4. ASSUME NEW a \in Slots \X (0..S),
               Drop(a) \/ Defer(a) \/ Post(a) \/ PrepareFails(a) \/ Inline(a) \/ Retire(a) \/ RetireFails(a)
        PROVE  IInv'
    BY <2>4, DropKeeps, DeferKeeps, PostKeeps, StepFailsKeeps, InlineKeeps, RetireKeeps
  <2>5. CASE \E fails \in BOOLEAN : InlineEnds(fails) BY <2>5, InlineEndsKeeps
  <2>6. CASE \E r \in Requests : Recall(r) BY <2>6, RecallKeeps
  <2>7. CASE \E s \in Threaded, r \in Requests : DeferItem(s, r) BY <2>7, DeferItemKeeps
  <2>8. CASE \E rs \in SUBSET Requests \ {{}}, wants \in BOOLEAN : Form(rs, wants) BY <2>8, FormKeeps
  <2> QED BY <1>1, <2>1, <2>2, <2>3, <2>4, <2>5, <2>6, <2>7, <2>8 DEF Scheduler, Advance
<1>2. ASSUME NEW s \in Threaded, Recorder(s) PROVE IInv'
  BY <1>2, TakeKeeps, WakeKeeps, LeaveKeeps, ItemEndsKeeps, RecordEndsKeeps DEF Recorder
<1>3. CASE Submit \/ Stop BY <1>3, ClientKeeps
<1>4. CASE UNCHANGED vars
  <2>1. Typed' BY <1>4 DEF vars, passes, lanes, sched, IInv, Typed, TypeOK, Told, EndOf, Causes
  <2>2. Handing' BY <1>4, HandingKept DEF vars, passes, lanes, sched, IInv
  <2>3. Flow' BY <1>4, FlowKept DEF vars, passes, lanes, sched, IInv
  <2> QED BY <2>1, <2>2, <2>3 DEF IInv
<1> QED BY <1>1, <1>2, <1>3, <1>4 DEF Next, Over

LEMMA InvariantHolds == Spec => []IInv
  BY InitHolds, NextKeeps, PTL DEF Spec

\* The passes in flight run every stage in the order they were formed, one at a
\* time, so a continued prompt's rows are written in order: whichever slots they
\* take, whichever stages have a thread or wait for the round's end, and
\* whatever fails or leaves between (round_steps, advance, fail_pass).
THEOREM RoundFormationOrder == Spec => []FormationOrder
<1>1. IInv => FormationOrder BY DEF IInv, Flow
<1> QED BY <1>1, InvariantHolds, PTL

\* A stage's thread records the pass the round thinks it does, no end of an
\* earlier hand-over is taken for it, and the scheduler's thread never records a
\* stage that its own thread is at work on (advance, collect, hold).
THEOREM RoundHandsOver == Spec => []HandOverSound
<1>1. IInv => HandOverSound BY DEF IInv, Typed, Handing, HandOverSound
<1> QED BY <1>1, InvariantHolds, PTL
=============================================================================
