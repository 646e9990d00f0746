------------------------------ MODULE DiskTier ------------------------------
(***************************************************************************)
(* The disk tier (server/disk_tier.hpp) over its index: the one write in    *)
(* flight, reads and streamed reads, the proofs of another build's files,   *)
(* the cap, the age limit, the adoption of what a server before left, and   *)
(* the store's I/O thread, which finishes calls while the scheduler's       *)
(* thread goes on.  The scheduler's thread runs the tier's calls one at a   *)
(* time; the store (module DiskStore) is its queue of reads and claims, its *)
(* one write and the keys whose file is there.                              *)
(***************************************************************************)
EXTENDS DiskIndex

CONSTANTS
    Histories,    \* the histories requests and donors may have
    Returned,     \* those whose conversation came back
    KeepsState,   \* whether the model keeps a recurrent state
    Cap,          \* --disk-cache, in blocks; a state takes one
    LeftBefore,   \* what a server before may have left: sequences of files
    Builds,       \* the other builds
    ReadIds,          \* bound: reads and proofs in flight
    MaxWrites,    \* bound: files this server writes
    MaxLeft,      \* bound: files a server before left
    MaxBlocks     \* bound: blocks of a history

\* What the constants must be.
DiskTierCounted ==
    /\ Returned \subseteq Histories /\ KeepsState \in BOOLEAN /\ Cap \in Nat /\ MaxWrites \in Nat \ {0}
    /\ \A h \in Histories : h # <<>> /\ Len(h) <= MaxBlocks
    /\ NoBuild \notin Builds /\ NoKey \notin 1 .. MaxLeft + MaxWrites
    /\ \A l \in LeftBefore : Len(l) <= MaxLeft

VARIABLES
    index,    \* the files, as the index holds them
    kept,     \* the keys whose file is in the store
    write,    \* the write in flight
    calls,    \* reads and claims queued at the store, in order
    notes,    \* done_: calls finished and not yet settled
    reads,    \* the reads in flight, and the proofs by the same id
    proofs,
    streams,  \* the keys each streamed read pins
    tier,     \* the start and the flags
    lost      \* ghost: what left the index by a failed read, claim or proof since the write began, and since the last prune

vars == <<index, kept, write, calls, notes, reads, proofs, streams, tier, lost>>

Key == 1 .. MaxLeft + MaxWrites
Blocks == UNION {Range(h) : h \in Histories}
Prefix == UNION {[1 .. n -> Blocks] : n \in 0 .. MaxBlocks}
File == [key : Key, state : BOOLEAN, below : Prefix, rows : Prefix, used : {0, 1}, back : BOOLEAN, unproved : Builds \cup {NoBuild}]
NoFile == FileAt(1, FALSE, <<>>, <<>>, 0, FALSE, NoBuild)
NoWrite == [st |-> "none", f |-> NoFile, pins |-> {}, cancelled |-> FALSE, stopped |-> FALSE]
NoRead == [on |-> FALSE, keys |-> {}, left |-> 0, ok |-> TRUE]
NoProof == [on |-> FALSE, keys |-> {}, claim |-> {}, first |-> FALSE, long |-> FALSE, read |-> FALSE, dead |-> FALSE]

\* Files, calls and notes have their types, and no key names two files.
TypeOK ==
    /\ \A i \in DOMAIN index : index[i] \in File /\ \A j \in DOMAIN index \ {i} : index[i].key # index[j].key
    /\ kept \subseteq Key
    /\ write.st \in {"none", "copying", "put", "ok", "failed", "cancelled"} /\ write.f \in File /\ write.pins \subseteq Key
    /\ \A i \in DOMAIN calls : calls[i].kind \in {"get", "claim"} /\ calls[i].key \in Key
    /\ \A i \in ReadIds : reads[i].keys \subseteq Key /\ proofs[i].keys \subseteq Key /\ proofs[i].claim \subseteq proofs[i].keys
    /\ streams \in [ReadIds -> SUBSET Key]

Init ==
    /\ index = <<>> /\ kept = {} /\ write = NoWrite /\ calls = <<>> /\ notes = <<>>
    /\ reads = [i \in ReadIds |-> NoRead] /\ proofs = [i \in ReadIds |-> NoProof] /\ streams = [i \in ReadIds |-> {}]
    /\ \E l \in LeftBefore : tier = [st |-> "starting", left |-> l, taken |-> FALSE, early |-> 0, keys |-> MaxLeft, writing |-> FALSE, condemned |-> {}, unclaimed |-> {}]
    /\ lost = [write |-> FALSE, prune |-> FALSE, early |-> FALSE]

-----------------------------------------------------------------------------
Now == 1
Always == 2                        \* a `before` that every use is older than
Bad_Pinned(w, r, s) == UNION ({r[i].keys : i \in ReadIds} \cup {s[i] : i \in ReadIds})
Pinned(w, r, s) == w.pins \cup UNION ({r[i].keys : i \in ReadIds} \cup {s[i] : i \in ReadIds})
Made == tier.st = "made"

\* Victims taken while the files left are more than most bytes.
Trimmed(F, before, pinned, most, spare) ==
    LET go[n \in 0 .. Len(F)] ==
            IF n = 0 THEN F
            ELSE LET G == go[n - 1]
                     v == IF TotalBytes(G) > most THEN Victim(G, before, pinned) ELSE {}
                 IN Without(G, {G[x.at].key : x \in {y \in v : ~(spare /\ y.back)}})
    IN go[Len(F)]
Expired(F, pinned) == Trimmed(F, Now, pinned, -1, FALSE)
\* room: the files left once b more bytes fit, or no index where they cannot.
Bad_Room(F, pinned, b, back) == {Trimmed(F, Always, pinned, Cap, ~back)}
Room(F, pinned, b, back) ==
    LET G == Trimmed(F, Always, pinned, Cap - b, ~back)
    IN IF b <= Cap /\ TotalBytes(G) + b <= Cap THEN {G} ELSE {}
Pruned(F, states) == Without(F, Unreachable(F, states))

\* The starter's thread: the store made, with what it adopted, or not.
StoreMade ==
    /\ tier.st = "starting"
    /\ \/ tier' = [tier EXCEPT !.st = "made", !.writing = TRUE] /\ kept' = {tier.left[i].key : i \in DOMAIN tier.left}
       \/ tier' = [tier EXCEPT !.st = "none", !.left = <<>>] /\ UNCHANGED kept
    /\ UNCHANGED <<index, write, calls, notes, reads, proofs, streams, lost>>

\* adopt: what was left entered, what nothing reaches, the old and what is over the cap dropped.  A round adopts before it writes,
\* so at most the write of the round in which the store was made is ahead of it; a stop's flush writes on without adopting.
Adopt ==
    LET all == Expired(Pruned(index \o tier.left, TRUE), Pinned(write, reads, streams))
        G == Trimmed(all, Always, {}, Cap, FALSE)
    IN /\ Made /\ ~tier.taken /\ tier.early <= 1
       /\ index' = G
       /\ kept' = kept \ (Keys(index \o tier.left) \ Keys(G))
       /\ tier' = [tier EXCEPT !.taken = TRUE, !.left = <<>>]
       /\ lost' = [lost EXCEPT !.early = write.st # "none" \/ index # <<>>]
       /\ UNCHANGED <<write, calls, notes, reads, proofs, streams>>

Expire ==
    LET G == Expired(index, Pinned(write, reads, streams))
    IN /\ Made /\ G # index
       /\ index' = G /\ kept' = kept \ (Keys(index) \ Keys(G))
       /\ UNCHANGED <<write, calls, notes, reads, proofs, streams, tier, lost>>

\* A use of a history that is whole on disk, of the file that makes it so: its state, or its last segment.
OnDisk(F, h) ==
    LET p == Path(F, h, Len(h), KeepsState, FALSE)
    IN IF p.length = Len(h) THEN {At(F, IF KeepsState THEN p.state ELSE p.pieces[Len(p.pieces)].key)} ELSE {}
Renew(h) ==
    /\ Made
    /\ \E i \in OnDisk(index, h) :
        /\ index[i].used # Now
        /\ index' = [index EXCEPT ![i].used = Now, ![i].back = @ \/ h \in Returned]
    /\ UNCHANGED <<kept, write, calls, notes, reads, proofs, streams, tier, lost>>

-----------------------------------------------------------------------------
\* The store's next key.
Bad_NextKey == MaxLeft + 1
NextKey == tier.keys + 1
\* The next file history h lacks: a segment, of its own cut where it comes off the devices in pieces, and then its state;
\* an entry without blocks gives its state alone.
NextFiles(F, h, from) ==
    LET n == Len(h)
        missing == Missing(F, h, n)
        r == missing[1]
        segment(e) == FileAt(NextKey, FALSE, SubSeq(h, 1, r.first), SubSeq(h, r.first + 1, e), Now, h \in Returned, NoBuild)
    IN IF missing # <<>> /\ from # "state"
       THEN {segment(e) : e \in IF from = "device" THEN r.first + 1 .. r.end ELSE {r.end}}
       ELSE IF KeepsState /\ ~HasState(F, h, n) THEN {FileAt(NextKey, TRUE, h, <<>>, Now, h \in Returned, NoBuild)} ELSE {}
CanWrite == Made /\ tier.writing /\ write.st = "none"

\* write_next: what the file stands on pinned, room made, and the file put, staged until its copy lands, or asked again.
WriteNext(h, from) ==
    /\ CanWrite /\ tier.keys < MaxLeft + MaxWrites
    /\ \E f \in NextFiles(index, h, from) :
        LET path == Path(index, h, First(f), FALSE, FALSE)
            pins == {path.pieces[i].key : i \in DOMAIN path.pieces}
            w == [NoWrite EXCEPT !.f = f, !.pins = pins]
        IN \E G \in Room(index, Pinned(w, reads, streams), Bytes(f), f.back) :
            /\ index' = G /\ kept' = kept \ (Keys(index) \ Keys(G))
            /\ \/ write' = [w EXCEPT !.st = "put"]
               \/ from = "device" /\ write' = [w EXCEPT !.st = "copying"]
               \/ from # "device" /\ UNCHANGED write                      \* its copy has not landed
            /\ lost' = [lost EXCEPT !.write = FALSE, !.early = FALSE]
    /\ tier' = [tier EXCEPT !.keys = IF write'.st = "none" THEN @ ELSE @ + 1, !.early = IF tier.taken \/ @ = 2 THEN @ ELSE @ + 1]
    /\ UNCHANGED <<calls, notes, reads, proofs, streams>>

\* write_landed: the staged file to the store, unless it was dropped or its copy failed.
WriteLanded ==
    /\ write.st = "copying" /\ Made
    /\ \/ ~write.cancelled /\ write' = [write EXCEPT !.st = "put"]
       \/ write' = NoWrite
    /\ UNCHANGED <<index, kept, calls, notes, reads, proofs, streams, tier, lost>>
CancelWrite ==
    /\ Made /\ write.st # "none" /\ ~write.cancelled
    /\ write' = [write EXCEPT !.cancelled = TRUE, !.stopped = write.st = "put"]
    /\ UNCHANGED <<index, kept, calls, notes, reads, proofs, streams, tier, lost>>
Resume ==
    /\ Made /\ ~tier.writing
    /\ tier' = [tier EXCEPT !.writing = TRUE]
    /\ UNCHANGED <<index, kept, write, calls, notes, reads, proofs, streams, lost>>

\* The store's I/O thread ends the write, or the read or claim at the head of its queue; a call that fails takes its file with it.
Note(read, id, key, ok) == [read |-> read, id |-> id, key |-> key, ok |-> ok]
StoreWrites ==
    /\ Made /\ write.st = "put"
    /\ \E o \in IF write.stopped THEN {"cancelled"} ELSE {"ok", "failed"} :
        /\ write' = [write EXCEPT !.st = o]
        /\ kept' = IF o = "ok" THEN kept \cup {write.f.key} ELSE kept
        /\ notes' = Append(notes, Note(FALSE, CHOOSE i \in ReadIds : TRUE, write.f.key, o = "ok"))
    /\ UNCHANGED <<index, calls, reads, proofs, streams, tier, lost>>
StoreReads ==
    /\ Made /\ calls # <<>>
    /\ \E ok \in IF Head(calls).key \in kept THEN BOOLEAN ELSE {FALSE} :
        LET c == Head(calls)
        IN /\ calls' = Tail(calls)
           /\ kept' = IF ok THEN kept ELSE kept \ {c.key}
           /\ notes' = IF c.kind = "get" THEN Append(notes, Note(TRUE, c.id, c.key, ok)) ELSE notes
           /\ tier' = IF c.kind = "claim" /\ ~ok THEN [tier EXCEPT !.unclaimed = @ \cup {c.key}] ELSE tier
    /\ UNCHANGED <<index, write, reads, proofs, streams, lost>>

-----------------------------------------------------------------------------
\* settle, over s = [F, kept, write, reads, proofs, writing, changed, failed].
Forget(s, gone) == [s EXCEPT !.F = Without(@, gone), !.kept = @ \ gone]
Doomed(s, p) == \E k \in p.keys : k \notin Keys(s.F) \/ s.F[At(s.F, k)].unproved \in tier.condemned
Bad_TookRead(s, c) == [s EXCEPT !.reads[c.id] = IF @.left = 1 THEN NoRead ELSE [@ EXCEPT !.left = @ - 1], !.proofs[c.id] = NoProof]
TookRead(s, c) ==
    LET r == s.reads[c.id]
        here == c.key \in Keys(s.F)
        p == s.proofs[c.id]
        t == [s EXCEPT !.F = IF c.ok THEN @ ELSE Without(@, {c.key}), !.changed = @ \/ (~c.ok /\ here), !.failed = @ \/ (~c.ok /\ here),
                       !.reads[c.id] = IF r.left = 1 THEN NoRead ELSE [r EXCEPT !.left = @ - 1, !.ok = @ /\ c.ok]]
    IN IF r.left > 1 \/ ~p.on THEN t
       ELSE IF ~(r.ok /\ c.ok) \/ p.dead \/ Doomed(t, p) THEN [t EXCEPT !.proofs[c.id] = NoProof]
       ELSE [t EXCEPT !.proofs[c.id].read = TRUE]
Bad_TookWrite(s) == IF s.write.st = "ok" /\ ~s.write.cancelled THEN [s EXCEPT !.F = Append(@, s.write.f), !.changed = TRUE, !.write = NoWrite]
                    ELSE [s EXCEPT !.write = NoWrite]
TookWrite(s) ==
    LET w == s.write
        covered == Covered(s.F, w.f) \ Pinned(w, s.reads, streams)
        added == [Forget(s, covered) EXCEPT !.F = Append(@, w.f), !.changed = TRUE]
        t == CASE w.st = "ok" /\ w.cancelled -> Forget(s, {w.f.key})
               [] w.st = "ok" /\ ~w.cancelled -> added
               [] w.st = "failed" -> [s EXCEPT !.writing = FALSE]
               [] OTHER -> s
    IN [t EXCEPT !.write = NoWrite]
\* The condemned builds' unproved files go, but for those a read is on, and with them what stood on them.
Bad_Swept(s, condemned) == s
Swept(s, condemned) ==
    LET gone == {s.F[i].key : i \in {j \in DOMAIN s.F : s.F[j].unproved \in condemned \ {NoBuild}}} \ Pinned(s.write, s.reads, streams)
        t == Forget(s, gone)
    IN IF gone = {} THEN s ELSE [Forget(t, Unreachable(t.F, FALSE)) EXCEPT !.changed = TRUE, !.failed = TRUE]
Bad_Settled(s) == s
Settled(s) ==
    LET u == [Forget(s, tier.unclaimed) EXCEPT !.changed = @ \/ tier.unclaimed # {}, !.failed = @ \/ tier.unclaimed # {}]
        v == Swept(u, tier.condemned)
    IN IF v.changed THEN Forget(v, Unreachable(v.F, FALSE)) ELSE v
AsSettled == [F |-> index, kept |-> kept, write |-> write, reads |-> reads, proofs |-> proofs, writing |-> tier.writing, changed |-> FALSE, failed |-> FALSE]
Settle ==
    LET s == Settled(FoldLeft(LAMBDA t, c : IF c.read THEN TookRead(t, c) ELSE TookWrite(t), AsSettled, notes))
    IN /\ Made /\ (notes # <<>> \/ tier.unclaimed # {})
       /\ index' = s.F /\ kept' = s.kept /\ write' = s.write /\ reads' = s.reads /\ proofs' = s.proofs
       /\ notes' = <<>> /\ tier' = [tier EXCEPT !.unclaimed = {}, !.writing = s.writing]
       /\ lost' = [lost EXCEPT !.write = @ \/ s.failed, !.prune = IF s.changed THEN FALSE ELSE @]
       /\ UNCHANGED <<calls, streams>>

-----------------------------------------------------------------------------
Gets(i, ks) == [k \in DOMAIN ks |-> [kind |-> "get", id |-> i, key |-> ks[k]]]
Free(i) == ~reads[i].on /\ ~proofs[i].on /\ streams[i] = {}
FilesOf(p) == [k \in DOMAIN p.pieces |-> p.pieces[k].key] \o (IF p.state = NoKey THEN <<>> ELSE <<p.state>>)
Sent(i, ks) ==
    /\ reads' = [reads EXCEPT ![i] = [on |-> TRUE, keys |-> Range(ks), left |-> Len(ks), ok |-> TRUE]]
    /\ calls' = calls \o Gets(i, ks)

\* A path's files read into host memory, or its state alone; or streamed into the devices, pinned until it ends.
Read(i, h) ==
    LET p == Path(index, h, Len(h), KeepsState, FALSE)
    IN /\ Made /\ Free(i) /\ p.pieces # <<>>
       /\ \/ Sent(i, FilesOf(p))
          \/ p.state # NoKey /\ Sent(i, <<p.state>>)
       /\ UNCHANGED <<index, kept, write, notes, proofs, streams, tier, lost>>
Stream(i, h) ==
    LET p == Path(index, h, Len(h), KeepsState, FALSE)
    IN /\ Made /\ Free(i) /\ p.pieces # <<>>
       /\ streams' = [streams EXCEPT ![i] = Range(FilesOf(p))]
       /\ UNCHANGED <<index, kept, write, calls, notes, reads, proofs, tier, lost>>
\* end_stream: the file whose read failed is gone, and what stood on it is left for the next prune.
EndStream(i) ==
    /\ Made /\ streams[i] # {}
    /\ \E failed \in SUBSET streams[i] :
        /\ Cardinality(failed) <= 1
        /\ failed = {} => streams[i] \subseteq kept
        /\ index' = Without(index, failed) /\ kept' = kept \ failed
        /\ lost' = [lost EXCEPT !.write = @ \/ failed # {}, !.prune = @ \/ failed \cap Keys(index) # {}]
    /\ streams' = [streams EXCEPT ![i] = {}]
    /\ UNCHANGED <<write, calls, notes, reads, proofs, tier>>

\* plan: what another build's files hold of history h beyond what this build's do.
PlanOver(F, held, path, base) ==
    LET un(k) == F[At(F, k)].unproved # NoBuild
        whole == {path.pieces[i].key : i \in {j \in DOMAIN path.pieces : path.pieces[j].use = path.pieces[j].end}} \cup ({path.state, base.state} \ {NoKey})
        keys == {k \in Range(FilesOf(path)) \cup ({base.state} \ {NoKey}) : un(k)}
        root == path.pieces[1].key  last == path.pieces[Len(path.pieces)].key
        first == un(root)
    IN IF path.length <= held \/ path.pieces = <<>> \/ (KeepsState /\ base.length = 0) \/ keys = {}
            \/ (\E k \in keys : F[At(F, k)].unproved \in tier.condemned)
       THEN {}
       ELSE {[keys |-> keys, claim |-> keys \cap whole, first |-> first, long |-> path.length > 1,
              ks |-> (IF base.length > held THEN FilesOf(base) ELSE <<>>) \o (IF first THEN <<root>> ELSE <<>>)
                     \o (IF ~first \/ last # root THEN <<last>> ELSE <<>>) \o (IF path.state = NoKey THEN <<>> ELSE <<path.state>>)]}
PlanOf(F, h, path) == PlanOver(F, Path(F, h, Len(h), KeepsState, FALSE).length, path, Path(F, h, path.length - 1, KeepsState, TRUE))
Plan(F, h) == PlanOf(F, h, Path(F, h, Len(h), KeepsState, TRUE))
Prove(i, h) ==
    /\ Made /\ Free(i)
    /\ \E p \in Plan(index, h) :
        /\ \A j \in ReadIds : proofs[j].keys \cap p.keys = {}            \* busy: the request waits for that proof
        /\ proofs' = [proofs EXCEPT ![i] = [NoProof EXCEPT !.on = TRUE, !.keys = p.keys, !.claim = p.claim, !.first = p.first, !.long = p.long]]
        /\ Sent(i, p.ks)
    /\ UNCHANGED <<index, kept, write, notes, streams, tier, lost>>

\* compare: the first block, then the last with its state; equal, the files are claimed, unequal, their builds are condemned.
Compare(i) ==
    LET p == proofs[i]
        claims == SetToSeq(p.claim)
        proved == [k \in DOMAIN index |-> IF index[k].key \in p.claim THEN [index[k] EXCEPT !.unproved = NoBuild] ELSE index[k]]
        builds == {index[k].unproved : k \in {l \in DOMAIN index : index[l].key \in p.keys}}
        ended == [proofs EXCEPT ![i] = NoProof]
    IN /\ Made /\ p.on /\ p.read /\ ~p.dead
       /\ \/ /\ p.first /\ p.long
             /\ proofs' = [proofs EXCEPT ![i].first = FALSE]
             /\ UNCHANGED <<index, kept, calls, tier, lost>>
          \/ /\ ~(p.first /\ p.long)
             /\ LET s == Swept([AsSettled EXCEPT !.F = proved], tier.condemned) IN index' = s.F /\ kept' = s.kept
             /\ calls' = calls \o [k \in DOMAIN claims |-> [kind |-> "claim", id |-> i, key |-> claims[k]]]
             /\ proofs' = ended /\ UNCHANGED <<tier, lost>>
          \/ /\ LET s == Swept(AsSettled, tier.condemned \cup builds) IN
                /\ index' = s.F /\ kept' = s.kept
                /\ lost' = [lost EXCEPT !.write = @ \/ s.failed, !.prune = @ /\ ~s.failed]
             /\ tier' = [tier EXCEPT !.condemned = @ \cup builds]
             /\ proofs' = ended /\ UNCHANGED calls
       /\ UNCHANGED <<write, notes, reads, streams>>
Abandon(i) ==
    /\ Made /\ proofs[i].on /\ ~proofs[i].dead
    /\ proofs' = IF proofs[i].read THEN [proofs EXCEPT ![i] = NoProof] ELSE [proofs EXCEPT ![i].dead = TRUE]
    /\ UNCHANGED <<index, kept, write, calls, notes, reads, streams, tier, lost>>

\* close and release: the write in flight stopped, the store gone with what is queued, and the slabs given back.
Close ==
    /\ Made
    /\ tier' = [tier EXCEPT !.st = "closed", !.left = <<>>, !.unclaimed = {}, !.condemned = {}]
    /\ index' = <<>> /\ kept' = {} /\ write' = NoWrite /\ calls' = <<>> /\ notes' = <<>>
    /\ reads' = [i \in ReadIds |-> NoRead] /\ proofs' = [i \in ReadIds |-> NoProof] /\ streams' = [i \in ReadIds |-> {}]
    /\ UNCHANGED lost

Done == tier.st \in {"none", "closed"} /\ UNCHANGED vars
Next ==
    \/ StoreMade \/ Adopt \/ Expire \/ WriteLanded \/ CancelWrite \/ Resume \/ StoreWrites \/ StoreReads \/ Settle \/ Close \/ Done
    \/ \E h \in Histories : Renew(h) \/ \E from \in {"host", "state", "device"} : WriteNext(h, from)
    \/ \E i \in ReadIds : EndStream(i) \/ Compare(i) \/ Abandon(i) \/ \E h \in Histories : Read(i, h) \/ Stream(i, h) \/ Prove(i, h)
Spec == Init /\ [][Next]_vars

-----------------------------------------------------------------------------
\* Every file in the store is one the tier knows of: in the index, the write in flight's, or left and not adopted yet
\* (forget, settle's removal of a cancelled write that landed): nothing escapes the cap.
NoOrphanFile ==
    kept \subseteq Keys(index) \cup {tier.left[i].key : i \in DOMAIN tier.left} \cup (IF write.st = "ok" THEN {write.f.key} ELSE {})

\* A file the index names is in the store, unless its failed read or claim has yet to be settled.
IndexedIsKept ==
    \A k \in Keys(index) \ kept : k \in tier.unclaimed \/ \E n \in DOMAIN notes : notes[n].key = k /\ ~notes[n].ok

\* No segment is in the index that no path reaches, but after a failed streamed read and until the next prune: no victim of the cap,
\* of the age limit or of a newer file is one another stands on (DiskIndex::victim, covered, prune).
Rooted == lost.prune \/ \A k \in Unreachable(index, FALSE) : FALSE

\* The files on disk and the one being written stay within the cap, but where a file was being written as the left ones were adopted (room, adopt).
CapHeld ==
    TotalBytes(index) + (IF write.st \in {"none", "failed", "cancelled"} \/ write.cancelled THEN 0 ELSE Bytes(write.f)) <= Cap \/ lost.early

\* Once a build failed a proof, none of its unproved files stays but those a read is on (sweep).
CondemnedGo == \A i \in DOMAIN index : index[i].unproved \in tier.condemned \ {NoBuild} => index[i].key \in Pinned(write, reads, streams)

\* As the index changes: of any history, its path is its own blocks from the root on without a gap, up to the state it ends at (DiskIndex::path).
Sound(F, h, u) ==
    LET p == Path(F, h, Len(h), KeepsState, u)
        rows(q) == SubSeq(F[At(F, q.key)].rows, 1, q.use - q.first)
    IN /\ FlattenSeq([i \in DOMAIN p.pieces |-> rows(p.pieces[i])]) = SubSeq(h, 1, p.length)
       /\ \A i \in DOMAIN p.pieces : p.pieces[i].first = (IF i = 1 THEN 0 ELSE p.pieces[i - 1].use)
       /\ p.state # NoKey => Whole(F[At(F, p.state)]) = SubSeq(h, 1, p.length)
PathSound == [][index' # index => \A h \in Histories : \A u \in BOOLEAN : Sound(index', h, u)]_vars

\* As the index changes: writing what DiskIndex::missing says a history lacks makes it whole on disk.
Completed(F, h) ==
    LET m == Missing(F, h, Len(h))
        new == [i \in DOMAIN m |-> FileAt(0, FALSE, SubSeq(h, 1, m[i].first), SubSeq(h, m[i].first + 1, m[i].end), 0, FALSE, NoBuild)]
    IN Path(F \o new, h, Len(h), FALSE, FALSE).length = Len(h)
MissingCompletes == [][index' # index => \A h \in Histories : Completed(index', h)]_vars

\* A write that landed and was not cancelled is in the index once it is settled, unless a read, a claim or a proof failed since it began:
\* what it stands on was pinned all along (write_next, pinned).
LandsOnItsPath ==
    [][(Made' /\ write.st = "ok" /\ ~write.cancelled /\ write'.st # "ok" /\ ~lost'.write) => write.f.key \in Keys(index')]_vars

\* The tier's representation: the index and the store name the same files, every one of them can be read, within the cap, and none of a build that failed.
TierSound == TypeOK /\ NoOrphanFile /\ IndexedIsKept /\ Rooted /\ CapHeld /\ CondemnedGo

\* The index answers for every history, as it changes: what it finds is the history's, and what it says is missing completes it.
IndexAnswers == PathSound /\ MissingCompletes
=============================================================================
