------------------------------- MODULE KVCache -------------------------------
(***************************************************************************)
(* infer::BlockPool and infer::KVSequence (model/kv_cache.hpp): histories  *)
(* of tokens in fixed-size blocks of one storage.  A history's blocks are  *)
(* taken before a step's rows are written and its length grows only once   *)
(* the step is through; a fork shares the whole blocks below its length.   *)
(*                                                                         *)
(* The calls come from one thread.  The rows a step writes between prepare *)
(* and commit are the backend's (KVView); cells is what the storage holds. *)
(***************************************************************************)
EXTENDS Naturals, FiniteSets, Sequences, SequencesExt

CONSTANTS
    Handles,        \* the KVSequence objects
    Tokens,         \* what a row may hold
    NoToken,        \* what a row never written holds
    MaxBlocks,      \* the budget the pool is first configured with
    Budgets,        \* bound: the budgets it is configured with later
    BlockTokens,    \* block_tokens_
    MaxLength       \* bound: the longest history a step may reach

ASSUME KVCacheAssumption ==
    /\ IsFiniteSet(Handles)
    /\ NoToken \notin Tokens
    /\ MaxBlocks \in Nat /\ MaxLength \in Nat
    /\ Budgets \subseteq 0..MaxBlocks
    /\ BlockTokens \in Nat \ {0}

VARIABLES
    max,       \* BlockPool::max_
    next,      \* BlockPool::next_: ids below it were handed out once
    free,      \* BlockPool::free_, taken from its end
    refs,      \* BlockPool::refs_
    bound,     \* the handles with a pool_
    blocks,    \* KVSequence::blocks_
    len,       \* KVSequence::length_
    pending,   \* KVSequence::pending_
    cells,     \* the storage: per block and offset, the row it holds
    wrote      \* per handle, the rows its step in progress has written

pool == <<max, next, free, refs>>
table == <<bound, blocks, len, pending>>
vars == <<pool, table, cells, wrote>>

Ids == 0..MaxBlocks - 1
Offsets == 0..BlockTokens - 1

BlocksFor(n) == (n + BlockTokens - 1) \div BlockTokens
InUse == next - Len(free)

\* The pool, every table and the storage have their types.
TypeOK ==
    /\ max \in 0..MaxBlocks /\ next \in 0..max
    /\ free \in Seq(Ids) /\ refs \in [Ids -> Nat]
    /\ bound \subseteq Handles
    /\ blocks \in [Handles -> Seq(Ids)]
    /\ len \in [Handles -> 0..MaxLength] /\ pending \in [Handles -> 0..MaxLength]
    /\ cells \in [Ids -> [Offsets -> Tokens \cup {NoToken}]]
    /\ wrote \in [Handles -> Seq(Tokens)]

Init ==
    /\ max = MaxBlocks /\ next = 0 /\ free = <<>> /\ refs = [b \in Ids |-> 0]
    /\ bound = {}
    /\ blocks = [s \in Handles |-> <<>>]
    /\ len = [s \in Handles |-> 0] /\ pending = [s \in Handles |-> 0]
    /\ cells = [b \in Ids |-> [o \in Offsets |-> NoToken]]
    /\ wrote = [s \in Handles |-> <<>>]

-----------------------------------------------------------------------------
\* The ids k calls of alloc hand out: the freed ones, last freed first, then
\* ids never used.
AllocIds(k) ==
    LET reused == IF k < Len(free) THEN k ELSE Len(free)
    IN  Reverse(SubSeq(free, Len(free) - reused + 1, Len(free)))
          \o [i \in 1..k - reused |-> next + i - 1]

Bad_Available == Len(free) + max - next + 1
Available == Len(free) + max - next

Take(ids) ==
    /\ free' = SubSeq(free, 1, Len(free) - (IF Len(ids) < Len(free) THEN Len(ids) ELSE Len(free)))
    /\ next' = next + (IF Len(ids) < Len(free) THEN 0 ELSE Len(ids) - Len(free))
    /\ refs' = [b \in Ids |-> IF b \in ToSet(ids) THEN 1 ELSE refs[b]]

\* The free ids once each of ids in turn is released: a block nobody holds any
\* more is free.
Freed(ids) ==
    LET freed[i \in 0..Len(ids)] ==
            IF i = 0 THEN free ELSE IF refs[ids[i]] = 1 THEN Append(freed[i - 1], ids[i]) ELSE freed[i - 1]
    IN  freed[Len(ids)]

\* release for each of ids.
Bad_Release(ids) ==
    /\ refs' = [b \in Ids |-> IF b \in ToSet(ids) THEN refs[b] - 1 ELSE refs[b]]
    /\ free' = free \o ids

Release(ids) ==
    /\ refs' = [b \in Ids |-> IF b \in ToSet(ids) THEN refs[b] - 1 ELSE refs[b]]
    /\ free' = Freed(ids)

\* What shrink_to(keep) gives back, from the end of s's table.
Dropped(s, keep) == Reverse(SubSeq(blocks[s], keep + 1, Len(blocks[s])))

Bad_CutTo(s, n) ==
    /\ len' = [len EXCEPT ![s] = n]
    /\ pending' = [pending EXCEPT ![s] = 0]
    /\ wrote' = [wrote EXCEPT ![s] = <<>>]
    /\ UNCHANGED <<pool, bound, blocks, cells>>

\* The history of s cut to n tokens, its step in progress dropped.
CutTo(s, n) ==
    /\ Release(Dropped(s, BlocksFor(n)))
    /\ blocks' = [blocks EXCEPT ![s] = SubSeq(@, 1, Min({Len(@), BlocksFor(n)}))]
    /\ len' = [len EXCEPT ![s] = n]
    /\ pending' = [pending EXCEPT ![s] = 0]
    /\ wrote' = [wrote EXCEPT ![s] = <<>>]
    /\ UNCHANGED <<max, next, bound, cells>>

-----------------------------------------------------------------------------
\* configure: only while no block is held.
Configure(m) ==
    /\ InUse = 0
    /\ max' = m /\ next' = 0 /\ free' = <<>>
    /\ refs' = [b \in Ids |-> 0]
    /\ UNCHANGED <<table, cells, wrote>>

Construct(s) ==
    /\ s \notin bound
    /\ bound' = bound \cup {s}
    /\ UNCHANGED <<pool, blocks, len, pending, cells, wrote>>

Bad_MayAppend(s) == TRUE
\* A step may not append into a block another history holds too.
MayAppend(s) ==
    len[s] % BlockTokens # 0 => refs[blocks[s][len[s] \div BlockTokens + 1]] = 1

Needed(s, n) == BlocksFor(len[s] + n) - Len(blocks[s])

\* prepare(n): the blocks of the step's rows are taken.
Prepare(s, n) ==
    /\ s \in bound /\ pending[s] = 0 /\ n > 0 /\ len[s] + n <= MaxLength
    /\ MayAppend(s) /\ Needed(s, n) <= Available
    /\ LET ids == AllocIds(Needed(s, n)) IN
        /\ Take(ids)
        /\ blocks' = [blocks EXCEPT ![s] = @ \o ids]
    /\ pending' = [pending EXCEPT ![s] = n]
    /\ UNCHANGED <<max, bound, len, cells, wrote>>

\* prepare(n) of a pool that runs out: every block it had is taken and then
\* given back, the newest first, and the call throws.
PrepareFails(s, n) ==
    /\ s \in bound /\ pending[s] = 0 /\ n > 0 /\ len[s] + n <= MaxLength
    /\ MayAppend(s) /\ Needed(s, n) > Available
    /\ next' = max
    /\ free' = Reverse(AllocIds(Available))
    /\ UNCHANGED <<max, refs, table, cells, wrote>>

\* The step's rows are written one by one into the blocks prepare took.
Write(s, t) ==
    LET at == len[s] + Len(wrote[s]) IN
    /\ Len(wrote[s]) < pending[s]
    /\ cells' = [cells EXCEPT ![blocks[s][at \div BlockTokens + 1]][at % BlockTokens] = t]
    /\ wrote' = [wrote EXCEPT ![s] = Append(@, t)]
    /\ UNCHANGED <<pool, table>>

\* commit: the whole step succeeded.
Commit(s) ==
    /\ pending[s] > 0 /\ Len(wrote[s]) = pending[s]
    /\ len' = [len EXCEPT ![s] = @ + pending[s]]
    /\ pending' = [pending EXCEPT ![s] = 0]
    /\ wrote' = [wrote EXCEPT ![s] = <<>>]
    /\ UNCHANGED <<pool, bound, blocks, cells>>

\* abort: the step failed, wherever it was.
Abort(s) == pending[s] > 0 /\ CutTo(s, len[s])

\* truncate, and reset with n = 0; a step in progress is dropped too.
Truncate(s, n) ==
    /\ s \in bound /\ n < len[s]
    /\ CutTo(s, n)

\* fork takes whole blocks of a history between steps.
ForkBlocks(s, n) == n <= len[s] /\ n % BlockTokens = 0

Fork(s, d, n) ==
    /\ s \in bound /\ d \notin bound /\ pending[s] = 0 /\ ForkBlocks(s, n)
    /\ LET shared == SubSeq(blocks[s], 1, BlocksFor(n)) IN
        /\ refs' = [b \in Ids |-> IF b \in ToSet(shared) THEN refs[b] + 1 ELSE refs[b]]
        /\ blocks' = [blocks EXCEPT ![d] = shared]
    /\ bound' = bound \cup {d}
    /\ len' = [len EXCEPT ![d] = n]
    /\ UNCHANGED <<max, next, free, pending, cells, wrote>>

\* d = std::move(s): d's blocks returned, s's handed over, and s left with
\* whatever pool d had.
Move(s, d) ==
    /\ s # d
    /\ Release(Dropped(d, 0))
    /\ blocks' = [blocks EXCEPT ![d] = blocks[s], ![s] = <<>>]
    /\ len' = [len EXCEPT ![d] = len[s], ![s] = 0]
    /\ pending' = [pending EXCEPT ![d] = pending[s], ![s] = 0]
    /\ wrote' = [wrote EXCEPT ![d] = wrote[s], ![s] = <<>>]
    /\ bound' = (bound \ {s, d}) \cup (IF s \in bound THEN {d} ELSE {}) \cup (IF d \in bound THEN {s} ELSE {})
    /\ UNCHANGED <<max, next, cells>>

\* The destructor.
Destroy(s) ==
    /\ s \in bound
    /\ Release(Dropped(s, 0))
    /\ bound' = bound \ {s}
    /\ blocks' = [blocks EXCEPT ![s] = <<>>]
    /\ len' = [len EXCEPT ![s] = 0] /\ pending' = [pending EXCEPT ![s] = 0]
    /\ wrote' = [wrote EXCEPT ![s] = <<>>]
    /\ UNCHANGED <<max, next, cells>>

Next ==
    \/ \E m \in Budgets : Configure(m)
    \/ \E s \in Handles :
        \/ Construct(s) \/ Commit(s) \/ Abort(s) \/ Destroy(s)
        \/ \E n \in 1..MaxLength : Prepare(s, n) \/ PrepareFails(s, n)
        \/ \E n \in 0..MaxLength : Truncate(s, n)
        \/ \E t \in Tokens : Write(s, t)
        \/ \E d \in Handles : Move(s, d) \/ (\E n \in 0..MaxLength : Fork(s, d, n))

Spec == Init /\ [][Next]_vars

-----------------------------------------------------------------------------
Holders(b) == {s \in Handles : b \in ToSet(blocks[s])}

\* A block is counted once for each history whose table names it, no table
\* names it twice, and the ids free to hand out are exactly those no table
\* names, each once: no step, failed step, fork or move leaks or doubles one.
RefsAreHolders ==
    /\ \A b \in Ids : refs[b] = Cardinality(Holders(b))
    /\ \A s \in Handles : IsInjective(blocks[s])
    /\ IsInjective(free)
    /\ ToSet(free) = {b \in 0..next - 1 : refs[b] = 0}

\* Each table names the blocks of its committed rows and its step's, no more.
TableCoversRows ==
    \A s \in Handles : Len(blocks[s]) = BlocksFor(len[s] + pending[s])

\* The committed rows of s, read through its table as attention reads them.
Rows(s) ==
    [i \in 1..len[s] |-> cells[blocks[s][(i - 1) \div BlockTokens + 1]][(i - 1) % BlockTokens]]

Promise == INSTANCE Histories WITH history <- [s \in Handles |-> Rows(s)]

\* Read through its table each history is a list of its own: no step, fork,
\* roll back or reuse of a block changes what another history reads, and a
\* step that fails changes nothing.
HistoriesOfTheirOwn == Promise!Spec

\* The pool's and the tables' representation: their types, every block counted
\* once for each table that names it, and each table as long as its rows need.
BlocksAccounted == TypeOK /\ RefsAreHolders /\ TableCoversRows
=============================================================================
