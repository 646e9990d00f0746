------------------------------- MODULE Service -------------------------------
(***************************************************************************)
(* The service rule (Scheduler::plan, form_round and form in scheduler.hpp, *)
(* with the free functions of policy.hpp it calls): which passes a round     *)
(* forms of the replies that decode, the prompts that are read and the jobs, *)
(* by prices it learns meanwhile.                                            *)
(*                                                                           *)
(* A round is two steps of the scheduler's thread, since nothing else reads  *)
(* or writes what it decides by: every stage records its oldest pass and the *)
(* passes past their last stage retire, then the new ones are formed.        *)
(* Requests arrive between rounds, and whenever time passes the prompt       *)
(* longest without rows comes to its wait bound.  Costs are fixed along a    *)
(* behaviour and equal at every stage, and a pass is measured as it retires. *)
(*                                                                           *)
(* Left out: drafts and images, rows a resume computes again, a slice's stop *)
(* at a checkpoint or a class, stages recorded by threads of their own.      *)
(***************************************************************************)
EXTENDS Integers, FiniteSets, SequencesExt

CONSTANTS
    Requests, NoQuick,          \* the requests, and none of them
    Ubatch, PieceStep,          \* most rows a pass, kPieceStep
    TokenGap, MaxStepGap,       \* the step gap a token may take at the objective's rate, kMaxStepGapMs
    Settings,                   \* [stages, slots, columns, decode, fixed, row, jobs, stalls]: the placement, the costs at a stage, the jobs, and how many rounds may have replies that cannot grow
    MaxPrompt                   \* bound: the rows of a prompt

Table == INSTANCE Prices

VARIABLES
    active,     \* the active requests, in order of admission
    left,       \* the rows of its history a request's cache lacks and no pass has
    replies,    \* those past their first token
    flights,    \* the passes in flight as formed: [decoders, chunks, ran], a chunk [r, rows, last]
    landed,     \* Request::landed_, as a rank
    since,      \* the prompts by rows_at_ (or admission), earliest first
    due,        \* those without rows for kPromptWaitMs
    quickTurn, prices,
    setting,    \* of Settings, fixed along a behaviour
    round,      \* "open" between rounds, "form" once the round has retired its passes
    stalled, stalls   \* the replies that could not grow this round, and how many rounds had some
vars == <<active, left, replies, flights, landed, since, due, quickTurn, prices, setting, round, stalled, stalls>>

Stages == setting.stages
SlotCount == setting.slots
Columns == setting.columns
Jobs == setting.jobs    \* the read-again jobs
Members(f) == f.decoders \cup {f.chunks[i].r : i \in DOMAIN f.chunks}
InFlight(fs, r) == \E i \in DOMAIN fs : r \in Members(fs[i])
CeilDiv(n, d) == (n + d - 1) \div d

\* decode_share, packed_passes, packed_share and passes_in_flight.
DecodeShare(decoders, passes) == IF passes < Stages THEN decoders ELSE CeilDiv(decoders, passes)
PackedPasses(decoders) ==
    IF decoders = 0 THEN 0 ELSE IF SlotCount > 1 THEN Table!Fewest({IF Columns > 0 THEN CeilDiv(decoders, Columns) ELSE decoders, SlotCount - 1}) ELSE 1
PackedShare(decoders, passes) == IF passes > 0 THEN CeilDiv(decoders, passes) ELSE decoders
Bad_PassesInFlight(overlap, packed) == IF overlap THEN SlotCount ELSE Table!Fewest({SlotCount, Stages})
PassesInFlight(overlap, packed) == Table!Fewest({SlotCount, IF overlap THEN Stages + packed ELSE Stages})

\* chunk_plan and chunk_budget: what the gap leaves a chunk at each stage, one token a step.
Gap == Table!Fewest({TokenGap, MaxStepGap})
Met(ms) == Gap \div Stages > ms
Budget(ms) == IF Met(ms) THEN Gap \div Stages - ms ELSE Gap \div Stages
QuickPrompt(ms, repliesMs) == ms > 0 /\ ms + repliesMs <= MaxStepGap

-----------------------------------------------------------------------------
\* plan.  Prompt work is the clients' prompts, and with none and no reply decoding the jobs'.
Reading(w, set) == {r \in Range(w.active) \cap set : r \notin w.replies /\ w.left[r] > 0}
Bad_Prompts(w, decoders) == Reading(w, Requests)
Prompts(w, decoders) == IF Reading(w, Requests \ Jobs) = {} /\ decoders = {} THEN Reading(w, Jobs) ELSE Reading(w, Requests \ Jobs)

\* next_prompt under least_remaining: one past its wait bound first, the longest waiting of them, else the fewest rows left, the oldest of equals.
Idle(w, r) == r \in w.due /\ ~InFlight(w.flights, r)
Place(seq, r) == CHOOSE i \in DOMAIN seq : seq[i] = r
Before(w, r, o) ==
    IF Idle(w, r) \/ Idle(w, o) THEN Idle(w, r) /\ (Idle(w, o) => Place(w.since, r) < Place(w.since, o))
    ELSE w.left[r] < w.left[o] \/ (w.left[r] = w.left[o] /\ Place(w.active, r) < Place(w.active, o))
Ordered(w, set) == SetToSortSeq(set, LAMBDA r, o : Before(w, r, o))

\* The quick prompt of an unmet objective: the shortest, the first in order of equals, that is not in flight, fits a pass, and is unpriced or within the step gap's cap.
QuickAble(w, r, repliesMs) ==
    /\ ~InFlight(w.flights, r) /\ w.left[r] <= Ubatch
    /\ Table!SliceMs(prices, 0, w.left[r]).ms = 0 \/ QuickPrompt(Table!SliceMs(prices, 0, w.left[r]).ms, repliesMs)
QuickOf(w, order, repliesMs) ==
    FoldLeft(LAMBDA q, r : IF QuickAble(w, r, repliesMs) /\ (q = NoQuick \/ w.left[r] < w.left[q]) THEN r ELSE q, NoQuick, order)
QuickRows(w, q) ==
    IF q = NoQuick THEN 0
    ELSE IF Table!SliceMs(prices, 0, w.left[q]).ms > 0 THEN w.left[q] ELSE Table!Fewest({w.left[q], Table!SliceMs(prices, 0, w.left[q]).step})

Bad_Taken(w, order, quick, met) == SelectSeq(order, LAMBDA r : r # quick /\ met)
Taken(w, order, quick, met) == SelectSeq(order, LAMBDA r : r # quick /\ (met \/ Idle(w, r)))
PlanWith(w, order, overlap, packed, decoders, repliesMs, met, quick) ==
    [overlap |-> overlap, priced |-> repliesMs > 0, packed |-> packed, share |-> PackedShare(decoders, packed), limit |-> PassesInFlight(overlap, packed),
     budget |-> Budget(repliesMs), quick |-> quick, quickRows |-> QuickRows(w, quick), order |-> Taken(w, order, quick, met)]
PlanPriced(w, order, overlap, packed, decoders, repliesMs, met) ==
    PlanWith(w, order, overlap, packed, decoders, repliesMs, met, IF met THEN NoQuick ELSE QuickOf(w, order, repliesMs))
PlanOf(w, order, overlap, packed, decoders, repliesMs) == PlanPriced(w, order, overlap, packed, decoders, repliesMs, repliesMs = 0 \/ Met(repliesMs))
Plan(w, prompts, decoders) ==
    PlanOf(w, Ordered(w, prompts), decoders > 0 /\ prompts # {}, PackedPasses(decoders), decoders,
           IF decoders > 0 /\ prompts # {} THEN Table!DecodeMs(prices, 0, PackedShare(decoders, PackedPasses(decoders))) ELSE 0)

-----------------------------------------------------------------------------
\* form.  w is what the round has formed so far: [active, left, replies, stalled, before, flights, since, due, quickTurn, landed, over], `before` the passes an earlier round formed.
Ready(w, r) == ~InFlight(w.flights, r) /\ r \notin w.stalled
ReadyDecoders(w) == {r \in w.replies : Ready(w, r)}
FirstLanded(w, waiting, n) ==
    {r \in waiting : Cardinality({o \in waiting : w.landed[o] < w.landed[r] \/ (w.landed[o] = w.landed[r] /\ Place(w.active, o) < Place(w.active, r))}) < n}
DecodersIn(fs) == FoldLeft(LAMBDA n, f : n + Cardinality(f.decoders), 0, fs)
DecodersFor(w, p, rows) ==
    IF rows = "prompt" THEN {}
    ELSE FirstLanded(w, ReadyDecoders(w), IF p.overlap THEN p.share ELSE DecodeShare(DecodersIn(w.flights) + Cardinality(ReadyDecoders(w)), p.limit))

\* continues: a prompt in flight alone in its passes, each past the first stage, formed in an earlier round and not its last.
Continues(w, r) ==
    /\ w.stalled = {}
    /\ r \in Jobs => w.replies = {}
    /\ \A i \in DOMAIN w.flights : r \in Members(w.flights[i]) =>
          Members(w.flights[i]) = {r} /\ ~w.flights[i].chunks[1].last /\ i <= w.before
\* A prompt's rows in a pass: beside replies the plan's chunk, otherwise the slice next_slice cuts, which is any (Slicing), or up to where its stretch stops.
RowsFor(w, p, rows, r, slice) ==
    IF ~p.overlap THEN slice
    ELSE IF rows = "quick" THEN p.quickRows
    ELSE IF p.priced THEN Table!ChunkRows(prices, 0, p.budget, Ubatch) ELSE PieceStep
Chunk(w, r, rows) == [r |-> r, rows |-> rows, last |-> rows = w.left[r]]
ChunkStep(w, p, rows, decoders, slice, acc, r) ==
    IF acc.over \/ acc.budget = 0 \/ (InFlight(w.flights, r) /\ ~(decoders = {} /\ acc.chunks = <<>> /\ Continues(w, r))) THEN acc
    ELSE [chunks |-> Append(acc.chunks, Chunk(w, r, Table!Fewest({acc.budget, w.left[r], RowsFor(w, p, rows, r, slice)}))),
          budget |-> acc.budget - Table!Fewest({acc.budget, w.left[r], RowsFor(w, p, rows, r, slice)}),
          over |-> InFlight(w.flights, r) \/ p.overlap]
ChunksFor(w, p, rows, decoders, slice) ==
    FoldLeft(LAMBDA acc, r : ChunkStep(w, p, rows, decoders, slice, acc, r),
             [chunks |-> <<>>, over |-> FALSE, budget |-> IF rows = "generated" THEN 0 ELSE IF rows = "quick" THEN p.quickRows ELSE Ubatch],
             IF rows = "quick" THEN <<p.quick>> ELSE p.order).chunks
Pass(decoders, chunks) == [decoders |-> decoders, chunks |-> chunks, ran |-> 1]
RowsOf(chunks, r) == FoldLeft(LAMBDA n, c : IF c.r = r THEN n + c.rows ELSE n, 0, chunks)
Later(seq, rs) == SelectSeq(seq, LAMBDA r : r \notin rs) \o SelectSeq(seq, LAMBDA r : r \in rs)
Added(w, f) ==
    [w EXCEPT !.flights = Append(@, f), !.left = [r \in Requests |-> @[r] - RowsOf(f.chunks, r)],
              !.since = Later(@, Members(f) \ f.decoders), !.due = @ \ (Members(f) \ f.decoders)]
FormOf(w, decoders, chunks) == IF decoders = {} /\ chunks = <<>> THEN w ELSE Added(w, Pass(decoders, chunks))
FormWith(w, p, rows, slice, decoders) == FormOf(w, decoders, ChunksFor(w, p, rows, decoders, slice))
Form(w, p, rows, slice) == FormWith(w, p, rows, slice, DecodersFor(w, p, rows))

-----------------------------------------------------------------------------
\* form_round: on a split the replies in the plan's passes and a chunk pass in each other slot, on one pass in flight the chunk with the replies, which go alone until they are priced.
Replying(fs) == Cardinality({i \in DOMAIN fs : fs[i].decoders # {}})
Riding(w, p, rows) == IF (rows = "generated" \/ (rows = "all" /\ p.overlap)) /\ p.quick # NoQuick /\ w.quickTurn /\ ReadyDecoders(w) # {} THEN "quick" ELSE rows
Kind(w, p) ==
    IF p.overlap /\ SlotCount > 1 THEN IF Replying(w.flights) < p.packed /\ ReadyDecoders(w) # {} THEN "generated" ELSE "prompt"
    ELSE IF p.overlap /\ ~p.priced /\ ReadyDecoders(w) # {} THEN "generated"
    ELSE "all"
Turned(w, x, p, rows) ==
    IF Len(x.flights) = Len(w.flights) THEN [w EXCEPT !.over = TRUE]
    ELSE IF Last(x.flights).decoders # {} /\ p.quick # NoQuick THEN [x EXCEPT !.quickTurn = rows # "quick"] ELSE x
FallBack(w, p, rows, slice, x) ==
    IF Len(x.flights) = Len(w.flights) /\ rows = "prompt"
    THEN Turned(w, Form(w, p, Riding(w, p, "generated"), slice), p, Riding(w, p, "generated"))
    ELSE Turned(w, x, p, rows)
FormKind(w, p, rows, slice) == FallBack(w, p, rows, slice, Form(w, p, rows, slice))
FormOne(w, p, slice) ==
    IF w.over \/ Len(w.flights) >= SlotCount \/ Len(w.flights) >= p.limit THEN w
    ELSE FormKind(w, p, Riding(w, p, Kind(w, p)), slice)
FormRound(w, p, slice) == FoldLeft(LAMBDA x, i : FormOne(x, p, slice), w, [i \in 1 .. SlotCount |-> i])

-----------------------------------------------------------------------------
\* round_steps: every stage past the first records its oldest pass; a pass past its last stage retires.
Advanced(fs) ==
    [i \in DOMAIN fs |-> IF fs[i].ran < Stages /\ ~\E j \in 1 .. i - 1 : fs[j].ran = fs[i].ran THEN [fs[i] EXCEPT !.ran = @ + 1] ELSE fs[i]]
Leaving(fs) == SelectSeq(fs, LAMBDA f : f.ran = Stages)
Staying(fs) == Advanced(SelectSeq(fs, LAMBDA f : f.ran < Stages))
\* The replies that take a token as passes retire, and the prompts whose last rows do.
Stepped(gone) == UNION {gone[i].decoders : i \in DOMAIN gone}
Finished(gone) == {c.r : c \in UNION {{gone[i].chunks[j] : j \in {j \in DOMAIN gone[i].chunks : gone[i].chunks[j].last}} : i \in DOMAIN gone}}
ReadBy(gone) == UNION {Members(gone[i]) \ gone[i].decoders : i \in DOMAIN gone}
\* landed_ of the requests that leave flight, the newest rank; the ranks are closed up.
Ranked(f) == [r \in Requests |-> Cardinality({f[o] : o \in {o \in Requests : f[o] < f[r]}})]
Landed(gone, reps) == Ranked([r \in Requests |-> IF r \notin reps THEN 0 ELSE IF \E i \in DOMAIN gone : r \in Members(gone[i]) THEN Cardinality(Requests) + 1 ELSE landed[r]])
WorkOf(f) == [rows |-> Cardinality(f.decoders), band |-> 0, chunks |-> [i \in DOMAIN f.chunks |-> [band |-> 0, rows |-> f.chunks[i].rows]]]
CostOf(f) == (IF f.decoders # {} THEN setting.decode ELSE 0) + FoldLeft(LAMBDA n, c : n + setting.fixed + c.rows * setting.row, 0, f.chunks)
Observed(gone) == FoldLeft(LAMBDA t, f : Table!Observe(t, WorkOf(f), CostOf(f)), prices, gone)

Init ==
    /\ active = <<>> /\ left = [r \in Requests |-> 0] /\ replies = {} /\ flights = <<>> /\ landed = [r \in Requests |-> 0]
    /\ since = <<>> /\ due = {} /\ quickTurn = TRUE /\ prices = Table!NoPrices /\ setting \in Settings
    /\ round = "open" /\ stalled = {} /\ stalls = 0

\* Cache::admit of a request that arrives: its rows, all to be read.
Arrive(r) ==
    /\ round = "open" /\ r \notin Range(active)
    /\ \E n \in 1 .. MaxPrompt : left' = [left EXCEPT ![r] = n]
    /\ active' = Append(active, r) /\ since' = Append(since, r)
    /\ UNCHANGED <<replies, flights, landed, due, quickTurn, prices, setting, round, stalled, stalls>>
\* Time passes, and the prompt longest without rows has waited kPromptWaitMs.
Waits ==
    /\ round = "open"
    /\ \E i \in DOMAIN since : since[i] \notin due /\ (\A j \in 1 .. i - 1 : since[j] \in due) /\ left[since[i]] > 0 /\ due' = due \cup {since[i]}
    /\ UNCHANGED <<active, left, replies, flights, landed, since, quickTurn, prices, setting, round, stalled, stalls>>

\* The round's passes retire: requests end, a job with its last rows, prompts become replies, and some replies cannot grow, while another request is ready (Admission).
Keep(seq, ended) == SelectSeq(seq, LAMBDA r : r \notin ended)
Retires(gone, ended) ==
    /\ Finished(gone) \cap Jobs \subseteq ended
    /\ active' = Keep(active, ended)
    /\ replies' = ((replies \cup Finished(gone)) \ Jobs) \ ended
    /\ flights' = Staying(flights)
    /\ since' = Keep(Later(since, ReadBy(gone)), ended \cup Finished(gone))
    /\ due' = due \ ReadBy(gone)
    /\ landed' = Landed(gone, replies')
    /\ prices' = Observed(gone)
Stalls(set) ==
    /\ set # {} => stalls < setting.stalls /\ Range(active') \ set # {}
    /\ stalled' = set /\ stalls' = IF set # {} THEN stalls + 1 ELSE stalls
Retire ==
    /\ round = "open" /\ active # <<>> /\ round' = "form"
    /\ \E ended \in SUBSET (Stepped(Leaving(flights)) \cup Finished(Leaving(flights))) : Retires(Leaving(flights), ended)
    /\ \E set \in SUBSET {r \in replies' : ~InFlight(flights', r)} : Stalls(set)
    /\ UNCHANGED <<left, quickTurn, setting>>

World == [active |-> active, left |-> left, replies |-> replies, stalled |-> stalled, before |-> Len(flights), flights |-> flights, since |-> since, due |-> due, quickTurn |-> quickTurn, landed |-> landed, over |-> FALSE]
Becomes(w) == left' = w.left /\ flights' = w.flights /\ since' = w.since /\ due' = w.due /\ quickTurn' = w.quickTurn
FormPasses(w, p) == \E slice \in (IF p.overlap \/ p.order = <<>> THEN {Ubatch} ELSE 1 .. Ubatch) : Becomes(FormRound(w, p, slice))
FormsRound ==
    /\ round = "form" /\ round' = "open"
    /\ FormPasses(World, Plan(World, Prompts(World, replies \ stalled), Cardinality(replies \ stalled)))
    /\ stalled' = {}
    /\ UNCHANGED <<active, replies, landed, prices, setting, stalls>>

-----------------------------------------------------------------------------
ChunkPasses(fs) == Cardinality({i \in DOMAIN fs : fs[i].decoders = {}})
New == {flights'[i] : i \in Len(flights) + 1 .. Len(flights')}
\* The service rule's promises over the passes a round forms: at most one chunk pass a stage is in flight, so a reply's step meets no more however
\* many slots there are; a round with active requests leaves a pass in flight, whoever could not grow and whatever the objective; and no pass takes
\* a job's rows while a reply decodes or a client's prompt waits (scheduler.hpp plan, form_round; docs/SERVER.md, The service rule).
RuleStep ==
    /\ ChunkPasses(flights') <= Stages
    /\ flights' = <<>> => active = <<>>
    /\ \A f \in New : Members(f) \cap Jobs # {} => replies \subseteq stalled /\ \A r \in Range(active) \ (Jobs \cup replies) : left[r] = 0
RuleKept == [][round = "form" => RuleStep]_vars
\* Every prompt a client waits on is read to its end and every reply takes its next step, however many shorter prompts keep coming, whether or
\* not the replies leave prompts room by the objective (next_prompt's wait bound, quick prompts, decode shares by landing order).
EveryoneServed ==
    \A r \in Requests :
        /\ (r \in Range(active) \ Jobs /\ r \notin replies) ~> (r \in replies \/ r \notin Range(active))
        /\ (r \in replies /\ ~InFlight(flights, r)) ~> (InFlight(flights, r) \/ r \notin replies)

Next == Retire \/ FormsRound \/ Waits \/ \E r \in Requests : Arrive(r)
\* The scheduler's thread goes on while a request is active, and time passes.
Spec == Init /\ [][Next]_vars /\ WF_round(round = "open" /\ active # <<>> /\ round' = "form") /\ WF_round(round = "form" /\ round' = "open") /\ SF_vars(Waits)
=============================================================================
