# llmx in TLA+

llmx is a C++17 runtime for large language models: a command line, an
OpenAI-compatible server, and backends for CPUs, Vulkan and ROCm.  This
directory models the part of it whose difficulty is order: threads, passes in
flight, shared blocks and slots, files that outlive a process, failures midway
and the server's stop; and the arithmetic that decides what those do (placement,
slices, prices, the blocks a request may hold).  What a model computes (tensors,
text, images) is left out.

Paths below are relative to the repository; `server/`, `model/` and so on are
under `src/`.

## Inventory

| Component | State | Operations | Meets | What is hard | What makes it correct |
|---|---|---|---|---|---|
| Job threads (`core/job_threads.hpp`) | posted job, counts of taken and done indices, two condition variables | `run`, `take`, `work`, `stop` | samplers, CPU kernels, cache | a late worker and a job on the caller's stack; lost wakeups; a thread that fails to start | no call outlives its job; every index once; `run` and the destructor return |
| KV block pool, sequences (`model/kv_cache.hpp`) | free ids, reference counts, tables, lengths | `prepare`, `commit`, `abort`, `truncate`, `fork`, move, `configure` | passes, cache | sharing after forks, partial allocation | counts are holders; a history reads as a list of its own |
| State slots (`model/kv_cache.hpp`, `model/history.hpp`) | slots on a live, a checkpoint and a mark side; per sequence the place of each stage's state | `begin`, stages, `retract`, `rewind`, `fork`, `park` | passes, verifies, cache | a recurrent state cannot be cut, so every roll-back is a copy kept before; a ring goes back by its length as far as its headroom | one side a slot; each stage reads its history's state |
| Read ring (`inference/read_ring.hpp`) | slots of pieces, counts, a failure, a stop | reader threads, `next`, `ready`, `free`, `stop` | loader, disk tier | readers ahead of each other and of device copies; failures; the caller's locks | held pieces stay whole; all pieces or the failure arrive; a stop ends |
| Pipelined prefill (`model/passes.hpp` `run_chunks`, `model/stage_lanes.hpp`) | progress per stage, lanes, passes and hand-off buffers reused in rotation | take, record, collect, commit, join | model, backends | reuse of two buffers and S passes under stages at different chunks | no reuse under work; never stuck; returns whole |
| Scheduler's rounds (`server/scheduler.hpp`, `server/policy.hpp`) | pass slots, stages run, recorders' hand-overs and ends, the round's lock | `run`, `form`, `advance`, `collect`, `retire`, `fail_pass`, `abort_all` | model, recorders, cache | passes in flight over stages with threads; failures of one of several slices; a waker and the lock | each thread records the pass thought; order kept; a pass ends; a failure ends its requests alone |
| Logits rows (`server/policy.hpp`) | a queue of runs of rows | `take_rows`, `give_rows` | rounds | runs wrap and come back in any order | no two passes share a row |
| Intake, channel, stop (`server/scheduler.hpp`) | queue, paused, active, tokens and rows on each request's channel | `submit`, sweep, admission, draws, `push`, `next`, `end`, `stop` | API threads, rounds | two threads on a channel, cancellation at any step, the stop | whole replies; bounded rows; a request ends |
| HTTP front (`server/api.hpp`, `server/http.hpp`) | listener, count of detached threads | accept, handle, generate, drain, the signal | scheduler | lifetimes at the stop; clients that leave | threads gone before what they use; a stop ends |
| Admission and growth (`server/policy.hpp`, `server/scheduler.hpp`) | blocks per pool, headroom, donors, admission order | `make_room`, `grow`, `pause`, `yields`, jobs | cache, pools | room for one taken from another, turns at the pool's edge | nothing taken unless enough; the oldest always goes on |
| Prefix cache, host tier (`server/cache.hpp`) | parked histories, ranks, host copies | `park`, `admit`, `trim`, copies | disk tier, pools | a donor chosen and evicted in one round; copies in flight | a donor's rows are its history's |
| Disk store, tier, index (`server/disk_*.hpp`) | files, their tree, a thread's queue | put, get, claim, evict, adopt, sweep, restore | cache, other servers | crashes between system calls, two servers on one root | what a restore reads is what was written; no file is stranded |
| Speculation (`inference/spec.hpp`) | drafts, tallies, prices | propose, verify, settle | rounds, state slots | a verify rolled back with others in flight | the reply is the one without drafts |
| Service rule, prices (`server/policy.hpp`, `server/scheduler.hpp` `plan`, `form_round`, `server/service_record.hpp`) | measured cells, wait bounds, a round's budget | `form`, `measure`, chunk search, record | rounds | prices learned while they decide; a prompt starved by replies or the reverse | one chunk pass a stage; no request waits for ever |
| Hub pull (`hub/pull.hpp`) | a directory of its own per pull, the shared cache | acquire, streams, retry, check, rename | network, file system | retries, partial files, two pulls of one cache, a power loss | what a pull leaves in the cache answers for the manifest |
| Placement, layer split, slicing (`model/layer_split.hpp`, `model/shard.hpp`, `model/slicing.hpp`) | none after start | pure arithmetic | backends, rounds | edges of sizes, a table over devices and layers | splits cover the layers once and beat every other that fits |
| Model loading (`inference/load.hpp`) | read plan, host pages | reads, uploads, decommits | read ring, backends | shards inside pieces, pages shared by two weights | every byte a copy needs arrives once, at its place |
| Tensor-group collectives (`backends/vulkan/vulkan_collective.hpp`, `VulkanSubmitter`) | tickets, fences' values, a ring of slots | sum, exchange, submit, wait, give up, recover | passes, devices | a recording thread, a queue thread and devices each ahead of the next; a failing call midway | rows read are the sums in order; every wait ends |
| Context cut, backends, architectures, formats, quantisation, tokenizer, chat, images, CLI | device and file data | kernels, conversions | all | numeric | fixtures and references of the test suite |

They meet in one process.  The API's connection threads hand requests to the
scheduler's thread through its lock `m_`, and read tokens from a channel with a
lock of its own.  The scheduler's thread alone calls the model and changes
tables, slots and the cache, except that a stage's recorder thread records a
pass it was handed.  The disk tier's threads and the recorders wake the
scheduler's thread through `m_`.

## Modules

| Module | Models | Its variables | Actions and the code |
|---|---|---|---|
| `JobThreads` | `JobThreads` | counts and job as named; `pc` per thread | one per critical section of `m_` or call: `Spawn`, `SpawnFails`, `Built`, `RunAlone`, `Run`, `Call`, `EndCall`, `WorkerTest`, `CallerTest`, `Stop`, `Joined`; `TakeIndex`, `Park` and `Return` say how one ends |
| `KVCache`, `Histories` | `BlockPool`, `KVSequence` | the members; `cells` is the storage | one per member function; `Write` is a row of a step. `Histories` promises lists that only their owner's step changes; `HistoriesOfTheirOwn` is the refinement |
| `ReadRing` | `ReadRing`, its two consumers | the members; `at` and `piece` per reader, `con` the consumer | one per critical section of `mu_` or part of a read |
| `Round` | rounds and recorders | `slot`, `formed`, the recorders' `post`, `ends`, `items`; `pc` of the scheduler's thread | what runs under `m_` is one step, every call between is its own: `Look` and `Sleep`; `CollectTake`, `CollectReport`, `CollectEnd`; of a planned step `Drop`, `Defer`, `Post`, `Inline` or `Retire`; `Recall`, `DeferItem`, `Admit`, `Form`, `FormFails`; `Quieted` where `hold` has waited for the recorders, whose steps are `Take`, `ItemEnds`, `RecordEnds` and `Wake` |
| `LogitRows` | `LogitRows` of `policy.hpp` | the queue; the run each pass slot holds | `Form`, `Give` |
| `StateSlots` | slots, marks, checkpoints | `pool`, `seqs`, passes in flight; ghosts `hist` and `state` | one per call of the model by the scheduler. `Headroom` is `entries_headroom_`, 0 where a layer keeps a recurrent state; with it an abort tries `ByLength` before it rewinds (`RolledBack`). A state is the rows a stage has read (`state`), and what a ring finds of them after an abort is `Found` |
| `RunChunks` | `run_chunks`, `StageLanes` | the function's locals by name; `work`, `holds`, `rows` say what is being touched | a step is a stage's turn of the loop or a critical section |
| `Serving` | front, channel, intake, stop | `conn` per connection's thread, `sched` the scheduler's thread, `place` and `line` for the lines, `out` and `rows` the channel | one per call of `next`, write, push, look at the lines, or step of `serve` |
| `CacheRoom`, `Admission` | the prefix cache, `make_room`, growth, pauses, the host tier | `s`, the requests, donors and host copies over one pool and the line they wait in; `flights`; `pc`, the round's place | `CacheRoom` is the cache as operators (who serves what, who gives up blocks for whom); `Admission` a round's steps with clients, copies and wait bounds beside it |
| `DiskStore` | `disk_store.hpp` | each directory, each file's header as read and as on the disk, each server's place, its memory, its I/O thread's work and its sweep | one per system call: `MakeDirectory` to `RemoveOwn`, with `Kill` and `PowerLoss` anywhere |
| `DiskIndex`, `DiskTier` | `disk_index.hpp`, `disk_tier.hpp` | the index, what is on disk, the write, the reads, streams and proofs in progress | `DiskIndex` the tree as operators (`link`, `victim`, `unreachable`, what a history lacks); `DiskTier` a step per call of the tier by the scheduler's thread and per answer of the store |
| `HubPull` | `hub/pull.hpp` | the cache's entries and, per pull, its place, its streams and what they hold | one per check, request, failure, end of a stream, rename, kill |
| `Exchange` | `vulkan_collective.hpp`, `VulkanSubmitter`, tickets | recorded and queued jobs, each device's queue, fences, residuals, tickets | one per call of the recording thread, of the queue thread, and step of a device |
| `Prices`, `Service` | `PriceTable`, `plan`, `form_round`, `form` | prices, wait bounds, replies and prompts, passes in flight | `Prices` as operators; a round of `Service` is two steps, its passes' end and its forming |
| `LayerSplit`, `Shards`, `Slicing`, `Loading` | `layer_split.hpp`, `shard.hpp`, `slicing.hpp`, `load.hpp` | none | operators, with the reference each is compared with beside it |
| `SequenceLemmas` | nothing of the code | none | facts on sequences and arithmetic the proofs share |

`X_proofs` modules hold theorems about `X` (`Threads_proofs` about `MCThreads`); `MCX` modules give TLC its
constants, and `MCGroup`, `MCThreads`, `MCOneThread`, `MCKVCache`, `MCPlans`
put several modules that share nothing into one run: each behaviour is of one of
them, which a variable names.  How the modules meet: `Round`
takes the model's stages as done or failed; `RunChunks` is inside one of them (a
prefill outside the scheduler), `Exchange` inside another (a tensor group's);
`LogitRows`, `StateSlots` and `KVCache` are the resources its passes take;
`Service` chooses what `Round` calls its requests; `Admission` says who holds
the blocks meanwhile, and `Serving` looks at the same rounds from a request's
side, where a pass flies or does not.  `DiskTier` takes of `DiskStore` a queue and
a set of keys; `Loading` plans what `ReadRing` carries; `Loading` uses `Shards`,
`Service` uses `Prices`, `Admission` extends `CacheRoom`.

Definitions called `Bad_X` stand before `X`: the code with one plausible bug.
Replacing X by it makes the property it is for fail, which shows that the
property depends on that line.

## Runs

| Run | Instance | Shows |
|---|---|---|
| `group` | two pool workers and the caller, two jobs of up to four indices, any of which throws; sums over groups of two and three devices, a ring of three submissions, two passes in flight, failing queue calls, exports and imports | `JobOutlivesCalls`, `RunComplete`, `PoolEnds`; `ReadsWhole`, `PassesSettle` |
| `kv_cache` | two histories of up to four rows, three blocks of two, one reconfiguration; placements over up to three devices; shards and loads of small models | `BlocksAccounted`, `HistoriesOfTheirOwn` (the refinement of `Histories`); `LaidOut` |
| `round_groups` | two stages with threads, one that always records there; one request, two passes, one item | `HandOverSound`, `PassesEnd`, `StopEnds` |
| `round_split` | three stages (inline, deferred host, threaded), two requests, four passes | `FormationOrder` |
| `threads` | six chunks, four stages, three of them lanes; five pieces, three slots, two readers, both consumers; two pulls of files of two streams and of one, two attempts, one outage, entries damaged at first | `PassOfItsChunk`, `RowsOfItsChunk`, `NeverStuck`, `CallReturnsWhole`; `RingSound`; `PullSound`; `DeliversOrFails`, `JoinsEnd` |
| `serving` | two clients of at most two tokens and one, one seat, a queue of one, two tokens a pass, one row on a channel | `ServingSound`, `WholeReply`, `Answered` |
| `disk_store` | a server that keeps its directory, then two more at once over it, one that proves another build's entries and one of either build that keeps, leaves or proves; one entry, two builds, one queued job a store | `StoreSound`, `TornIsSettleable`, `KeptNotLost` |
| `disk_store_unread` | the same | finding 2 |
| `plans` | two uncapped requests that share a block, a capped one that may leave; four blocks of two, host copies of three, two seats; the tier: two histories that fork inside a segment, a cap of four blocks, two writes, up to three files left by a server before; slices of a prompt and searches for a chunk's rows | `CacheSound`, `RoomKept`, `OldestKeeps`, `RequestsEnd`; `TierSound`, `LandsOnItsPath`, `IndexAnswers`; `PlansBest` |
| `one_thread` | four pass slots and runs of one to five rows; two sequences over two stages and four state slots, of recurrent states; one sequence of rings of up to six rows, three slots, headroom for two | `OwnRows`, `QueuedFits`; `SlotsAccounted`, `ReadsItsState` |
| `service` | three requests over six settings of stages, jobs and objectives, prompts of up to two chunks | `RuleKept`, `EveryoneServed` |
| `exchange_hang` | one pass of two sums of two devices, one failure | finding 1 |

Why these bounds.  `JobThreads`: a worker late for one job needs a second job
to be late into, and four indices over three threads let a thread take twice.
`Exchange`: three ring slots and two passes let the recording thread lap the
devices, and a failure in the first of two passes is one the second is
recovering beside.  `KVCache`: two blocks shared and one private force every
case of a fork and an exhausted pool.  `ReadRing`: five pieces through three
slots refill each slot while the readers are apart.  `HubPull`: two streams of a
file end apart, and the second pull finds what the first renamed, or half of it.
`Round`: two passes are enough for an end of one to be taken for the other,
three in flight for the order and for slices either side of a failure.
`StateSlots`: a fork, a verify and a checkpoint at once need all four slots.
With headroom for two rows an abort of two passes in flight goes back by
lengths, past a checkpoint among them, or exceeds the headroom and must rewind,
and a verify keeps one row of two.
`RunChunks`: six chunks reuse a pass (chunk 4 takes chunk 0's) and a buffer three
times; the proofs cover every other size.  `Serving`: with one seat and a queue
of one, a client is refused, one waits paused while the other is active, and a
reader is behind a pass of two tokens.  `DiskStore`: the third server adopts what
the first left while the second sweeps the same root, so a file passes through
three directories and two builds; one entry is enough because entries share only
the queue and the sweep's list.  `DiskTier`: a fork inside a segment is what an
expiry or a late answer could leave unreachable.  `Admission`: the pool holds one
request and a half, so growth of one takes from the others and the edge turns.
The slots and sequences of `one_thread` are symmetric: a permutation that maps a
state of the single sequence to another of it leaves that sequence and the fourth
slot where they are.
`Service`: six settings put the objective met and missed, on one stage and two.

Bounds that are not in the code: `MaxRuns`, `MaxLength`, `Budgets`, `MaxPasses`,
`MaxItems`, `MaxLen`, `MaxPauses`, `MaxJobs`, `Eras`, `MaxWrites`, `MaxLeft`,
`MaxPrompt`, `Outages`, `Settings`; each is named in its module and guards only
how many times an action may happen, or which instances TLC starts from.

What the models take as given, module by module:

* `Admission`: one pool, no recurrent state, no disk, no jobs; a restore lands at
  once; a pass takes every ready request, and one pass a request is in flight;
  host memory is short at any time.
* `Service`: drafts, images, rows a resume reads again, a slice's stops and the
  recorder threads are left out; costs are equal at every stage and fixed along
  a behaviour; a pass is measured as it retires.  `Prices`: one row class, no cell
  that has aged, whole numbers.
* `Exchange`: one recording thread a group, device submissions atomic, a record
  split anywhere, one collective a queue thread, no holds between submissions
  and no semaphore whose re-creation fails.  `PassesSettle` excuses a second
  failure during a recovery (`aborted`), and finding 1.  Rows are read as
  `pass_logits` reads them.
* `HubPull`: the metadata's retries and the pauses before a retry are left out; a
  rename replaces its target whole (POSIX); a file is not synced before it, so a
  power loss may tear an entry just renamed, which the next pull's check repairs
  (`docs/USAGE.md:115`).
* `StateSlots`: which of a ring's rows a stage reads is not told apart: it reads
  the history's where no row written lies further past its end than the headroom,
  and nothing where one does.  No drafter on a model of rings, and no lone
  `roll_back` of a pass whose stage failed (`Model::run_pass_stage`), whose
  requests end without reading again.
* `DiskStore`: a directory's identity is read when a file holds it (a failed read
  of it counts as none, and refuses the directory); a journalled file system,
  that keeps renames and removals in order except a put's rename before its
  directory's sync, and the bytes of a claim's rewrite before the file's.

## Fairness

* `JobThreads`, `ReadRing`, `RunChunks`: weak fairness of each started thread
  and of the calling one.  The operating system schedules them, jobs and reads
  end, a condition variable's notify is seen.  The caller owes nobody another
  `run` or a `stop`, so those have none.
* `Exchange`: weak fairness of the recording thread, the queue thread and each
  device: a driver's call returns, and a device runs a queue whose fences are
  signalled.
* `HubPull`: weak fairness of each pull: curl's transfers end or time out.
* `Round`: weak fairness of the scheduler's thread and of the recorders' work;
  strong fairness of `Wake`, since a recorder spins on `try_lock` and the
  scheduler's thread lets the lock go for every sleep and round, which is the
  condition a spinning thread needs to win at last.
* `Serving`: weak fairness of the scheduler's thread, of `serve` and of each
  connection's thread; strong fairness that a pass in flight lands, by the rounds
  between in which it does not, which is what `PassesEnd` of `Round` shows.  A
  thread reading a request is assumed to come to an end: `http.hpp:160` has no
  timeout, so a client that connects and neither sends nor closes holds the drain
  (and the server's exit) as long as it likes.  A write is assumed to come to an
  end too, with an error or without: `send` at `http.hpp:238` has no timeout
  either, and a client that keeps its connection and stops reading holds its
  thread and the drain.  So `Answered` says that a request is answered if the
  socket drains and if the rounds form a pass for it, which `RuleKept` and
  `RoomKept` look at (`Service`, `Admission`).  Nobody owes a call, a hang-up or a
  signal.
* `Admission`: weak fairness of the scheduler's round, of a pass's end and of the
  waits' bounds (time passes); strong fairness of a copy, which a round may find
  not there yet.  `Service`: weak fairness of both halves of a round, strong
  fairness that time passes between rounds.
* `KVCache`, `LogitRows`, `StateSlots`, `DiskStore`, `DiskTier` and the operators
  are checked for safety only: their calls come from one thread and each returns,
  or a crash may end them.

Deadlock is checked everywhere but in `group`, `serving` and `exchange_hang`:
there, once every job, call or pass has ended, the system sleeps.

## Proofs

TLAPS proves, for every value of the constants that the modules' assumptions
allow:

* `JobThreads_proofs`: `TypeOK`, `JobOutlivesCalls`, `RunComplete`.  The
  invariant adds that the caller is inside `run` exactly while a job is posted,
  that the indices taken are those done plus the calls in progress (`Counted`),
  and what has been called and thrown so far (`Recorded`).  `Counted` is the
  argument: `run` returns when all are done, so nothing is in a call.
* `LogitRows_proofs`: `TypeOK`, `OwnRows`, `QueuedFits`.  The queue is a ring: its runs are in
  range and apart, and once one lies before an older one all later ones do
  (`Turned`), which is what makes the newest run's end and the oldest run's base
  the only two edges `take_rows` must look at.  Each held run is in the queue and
  is no other pass's (`Linked`, `Own`).  `OwnRows` alone is not inductive: rows of
  runs already back bound the free space too.  For `QueuedFits`, the runs fill
  everything between the queue's two edges except what a turn around the end
  passes over (`Packed`: rows filled and rows wasted), the oldest run is one in
  flight (`FrontOut`), so an empty set of passes is an empty queue, and a run that
  fits neither after the newest nor before the oldest needs, with the rows queued,
  more than half of those reserved (`HalfFits`).
* `Threads_proofs`, over `MCThreads`, whose modules it takes with every constant free:
  of `RunChunks` `TypeOK`, `PassOfItsChunk`, `RowsOfItsChunk`, `NeverStuck`,
  `CallReturnsWhole`; of `ReadRing` `RingSound`; of `HubPull` `PullSound`.  In
  `RunChunks` the invariant bounds how far apart two stages are
  (`Counts`), and says which chunk is in hand where (`InHandNext`, `OnePlace`,
  `Recording`, `Places`) and what passes and buffers hold (`PassKept`,
  `RowsKept`).  Two chunks that are both wanted are fewer than S apart (2 for the
  buffers), so their remainders differ (`ModDistinct`).  `NeverStuck` takes the
  stage whose count is least and shows that its three guards hold.  In the ring
  the same argument holds of pieces and slots: the pieces of a reader are as many
  apart as there are readers (`Pieces`), so no two readers read the same piece; what
  a slot says it has was read whole by its reader and is fewer than the slots past
  those given back (`Says`); a piece taken was read, so the one its
  reader is at lies past it.  A pull stands on whole
  files: those before its own are whole while it runs, an entry that a loss of power
  may still undo is whole, and it publishes whole streams only (`Own`); so no other
  pull's rename takes a file from under it.  Requests are under way in a fetch alone.
* `KVCache_proofs`: `BlocksAccounted`, and the refinement `HistoriesOfTheirOwn`.
  A block's count is the number of tables that name it and the free list holds
  exactly the blocks whose count is nothing, each once; so `release` and `retain`
  never reach their `logic_error`.  For the refinement each step of the pool maps
  to a step of `Histories` or a stutter: a step in progress writes only past its
  history's rows, and the block it writes has a count of one, so no other table
  reads what it writes.
* `Serving_proofs`: `ServingSound`, `WholeReply`.  The invariant is an account of
  tokens: what a thread has taken, what it holds, what is on the channel and what
  the scheduler's thread is about to push make up, in order, what was drawn.  The
  lines hold each waiting request once and nobody else, which `serve`'s last look
  at the threads needs.
* `Round_proofs`: `FormationOrder`, `HandOverSound`.  A round plans its steps ahead
  of taking them, while recorders end others, passes fail and slots are emptied
  and taken again.  The invariant says what a planned step can find: the slot it
  names is as it was, or stands for a pass formed since (`Planned`), and whatever
  pass stands at a stage first is older than all that come after (`First`).  The
  order of formation follows although the slot may be another pass's by then.
* `DiskStore_proofs`: `StoreSound`, `TornIsSettleable`, `KeptNotLost`, for any
  number of servers, entries and builds, kills, power losses and failed steps; of
  `KeptNotLost` all failed steps but one: the start that removes the directory
  failed to read that entry's header (`unread`), where the code does lose it
  (finding 2).  The invariant has a part for each thing a step finds as another
  left it: who holds a
  directory's lock and what a sweep is at (`Locks`); that a directory that is gone
  or new is empty (`Empty`); that an entry is in one directory, and written by one
  job of one server (`OnePut`, `Once`); that every checksum is over a build that
  proved the bytes (`Proved`); what a header, the identity beside it and the copy on
  the disk can be together (`Headed`), which is the argument of `TornIsSettleable`:
  whichever of the two halves of a header reaches the disk, its checksum answers to
  the identity beside it or to its directory's, until the sync is done and the
  identity goes; what a server's index says of its directory (`Known`); and how far
  a claim, an adoption's move and a sweep's look have come (`Claiming`, `Moving`,
  `Looked`).  A lemma for each part and each kind of
  step shows that the step keeps the part.  `ClaimLost`, an entry a claim
  left whole under neither build, is in the model as in the code and no run takes it:
  no crash or failed step leaves such a checksum, only damaged bytes would.
* `SequenceLemmas`: the least number with a property, remainders, and what
  appending to, turning, joining, halving and picking from a sequence keep; what
  the modules above need of sequences for every length.

Assumptions: the `XAssumption` of each module, the types of its constants, that
the named things (`Nobody`, `NoToken`, ...) are none of the others, and that there
is something to work on where the code refuses to start without (a manifest names a
file of the quant, `hub/manifest.hpp`; a store has a key); nothing else.

Only model-checked, and why:

* every liveness property (fairness and ENABLED are out of the prover's reach);
* `CacheSound`, `RoomKept`, `TierSound`, `LaidOut`, `PlansBest`,
  `RuleKept`: sums, searches and folds over sequences, whose values for every
  input are an induction over data with an operator as its parameter.  Where
  induction was needed in the modules above it is done by hand from the least
  counterexample (`LeastNat`), which these would need once a fold;
* `FailsAlone` of `Round` is false for some constants (Findings), so it is no
  theorem; the run checks `PassesEnd` where it holds;
* `SlotsAccounted`, `ReadsItsState` (with and without rings), `ReadsWhole`: not yet (see the plan);
* `LandsOnItsPath`, `IndexAnswers`, `OldestKeeps`: action properties of the modules
  whose invariants are not proved.

## Findings

1. `exchange_hang` — a comment at `backends/vulkan/vulkan_backend.cpp:35` says that
   a call that fails settles its own tickets and every later job's, "so no waiter
   hangs".  `run` settles a job it refuses on the recording thread (line 60) while
   the queue thread may still be about to settle the one that failed (line 126),
   and `made_ticket_` goes back from the later ticket to the earlier; the wait of
   `give_up` for the later (line 1067) then has nobody to end it.

2. `disk_store_unread` — `adopt_from` swallows an exception from an entry's open or
   header (`server/disk_store.hpp:555-559`) and passes the entry over as a bad one,
   without `retain`; the sweep then removes the directory with the entry in it.
   `docs/DISK-TIER.md:191` says that a failed step is not a bad entry and that an
   entry "whose header could not be read" stays, with its directory; so does the
   comment at line 487.  `KeptNotLost` excuses that entry alone.

Met while modelling, without a listed run:

* `tlc -config ExchangeCrossing.cfg MCExchange`: `Model::receive`
  (`model/passes.hpp:932`) reads a hand-off's rows of a submission that was given
  up, without `raise`, against `backends/backend.hpp:585`; `pass_logits` raises
  only the last group's tickets.
* `tlc -config RingsCheckpoint.cfg MCOneThread`: `rewind_by_length`
  (`model/history.hpp:1145`) sets lengths and nothing else.  Where the pass that
  keeps a checkpoint and the one after it have committed on every stage and are
  both aborted by lengths, the checkpoint stays at a position past the history's
  end, though `model/history.hpp:1120` says that going back returns a checkpoint
  beyond it and `model/runtime.hpp:141` that a fork continues from it: `fork`
  refuses a position past the end.  Only a model of entries alone has such
  headroom, and the server refuses it for now (`server/scheduler.hpp:366`), so no
  request meets this yet.
* `tlc -config ServingStop.cfg MCServing`: `submit` (`server/scheduler.hpp:484`)
  does not look at `stopping_`: a connection accepted before the signal, whose
  request is read after the scheduler's thread has ended, waits for an end nobody
  gives, and the drain with it.  The comment at `server/api.hpp:1788` says that
  such threads end with their requests cancelled.
* `FailsAlone` of `Round`, false with three slots, three stages, two of them with
  threads, and three passes: `fail_pass` (`server/scheduler.hpp:2162`) throws
  outside any handler when the middle of three slices of a prompt fails, since
  `abort_pass` has taken the newest already.  The comment at 2147 says that the
  other passes go on.
* `LiveForAdmitted` of `StateSlots`, false with one live slot: a request parked
  exactly at its checkpoint keeps its live slot, because `retract` returns early
  (`model/history.hpp:76`), so a full set of requests admitted after it lacks one.
  The comments at `model/history.hpp:1120` and `model/kv_cache.hpp:182` say that a
  live slot is always there.
* `LiveNeverTouched` of `DiskStore`: a sweep takes the lock of a directory just
  made, lets it go (`disk_store.hpp:253`), the server takes it, and the sweep
  removes the directory, against `disk_store.hpp:239` and `docs/DISK-TIER.md:105`.
* `DropsOnlyBad` of `DiskStore`: a streamed read looks up the build an entry must
  carry, the I/O thread rewrites the header for a claim, and `drop_entry` deletes
  a good entry (comment at `disk_store.hpp:303`).
* `AllSettleable` of `DiskStore`: a claim killed between its header's rewrite and
  its sync is settled by the next start without one, moved, and then torn by a
  power loss, against `docs/DISK-TIER.md:144` and `:186`.  `TornIsSettleable`
  excuses such entries (`weak`).
* `model/layer_split.hpp:331`: with shares, the final check of `split_layers` leaves
  out the head's logits slice and argmax rows that `need` counts (comment at 137).
* `inference/read_ring.hpp:53`: with "disk" among `FailingStarts`, `ReadRing`
  reaches a state in which the thread that joins the readers holds the
  scheduler's lock and a reader waits for it.
* `server/policy.hpp:763` says a run of logits rows always fits.  Passes
  abandoned behind an older one in flight keep their rows queued
  (`policy.hpp:797`), so one formed after them may find none; `QueuedFits` states
  what does hold.
* `server/scheduler.hpp:90` and `docs/src/server.md:73` say a request holds
  kRowsWaiting rows and two more.  That counts one token a pass.  A verify's draw
  copies up to kRowsWaiting rows at once, and the reader's and the request's
  spare row are held beside them.  `ServingSound` is about the rows on the
  channel, which stay at most kRowsWaiting; the spare row is not in the module.
* `server/policy.hpp:657`: with a decoder whose drafts' chain is on the head
  stage's thread, a further chunk pass may be formed beyond one a stage.

Facts the runs rest on: one write may precede the adoption, so the index and the
pending write can exceed the cap for a while (`lost.early` of `DiskTier`);
`end_stream` removes the failed file without a prune (`lost.prune`); the `to`
check of `shard.hpp:163` is redundant for every declaration tried.

## Not modelled, and the plan

Left out for good: tensor computations, kernels and device drivers; formats,
tokenizers, chat templates, images and JSON (sequential conversions with fixtures
of their own); the service record's percentiles; the command line.  Hazards
that no property is about: a thread that cannot be created after `++open_`
(`server/api.hpp:1736`) ends the process, and a client that never sends or never
reads holds the drain (`server/http.hpp:160`, `:238`).  The ROCm group's members wait for each other's
flags inside kernels and keep one fault word a device, which needs a model of
their memory.

Left for later, in this order:

1. The proofs of `SlotsAccounted` and `ReadsItsState` of `StateSlots`, and of
   `ReadsWhole` of `Exchange`.
2. `ContextCut` and the acceptance of drafts as operators checked over bounded
   inputs; several pools, jobs and restores in `Admission`.
