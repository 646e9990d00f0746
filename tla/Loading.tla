------------------------------- MODULE Loading -------------------------------
(***************************************************************************)
(* inference/load.hpp: the streamed loads (auto and direct).  The model's    *)
(* construction says which weights the host reads in place and which         *)
(* devices take a copy, whole or a member's shard; the load then reads the   *)
(* files once, in pieces on the files' granules, sends every part of a       *)
(* tensor to every copy of it, and gives back the host pages no weight       *)
(* needs.                                                                    *)
(*                                                                           *)
(* The question q = [mode, tensors, uploads, host, granule, page, limit,     *)
(* run]: the tensors in file order, each [file, offset, t] with t a tensor   *)
(* of Shards; an upload [tensor, role, width, member]; `host` the tensors a  *)
(* backend reads in place; `limit` the most bytes of a read and `run` the    *)
(* shortest run sent on its own (kPackedRun).  A byte of a file is named by  *)
(* its offset.                                                               *)
(***************************************************************************)
EXTENDS Shards

Bytes(q, i) == TensorBytes(q.tensors[i].t)
SpanEnd(q, i) == q.tensors[i].offset + Bytes(q, i)
LargerOf(a, b) == IF a > b THEN a ELSE b
SmallerOf(a, b) == IF a < b THEN a ELSE b
RoundDown(n, g) == (n \div g) * g
RoundUp(n, g) == ((n + g - 1) \div g) * g

\* load_weights: what is read into the host's copy and what is streamed to the devices; the rest the host reads is warmed from the mapping.
Copied(q) == {q.uploads[u].tensor : u \in DOMAIN q.uploads}
Hosted(q) == IF q.mode = "direct" THEN q.host ELSE {}
Streamed(q) == Copied(q) \ Hosted(q)
InFileOrder(set) == SetToSortSeq(set, LAMBDA a, b : a < b)

-----------------------------------------------------------------------------
\* plan_pieces: a piece goes on over what follows in its file while no gap is longer than a granule and it has not reached its most bytes.
Cap(q) == LargerOf(q.granule, RoundDown(q.limit, q.granule))
NewPiece(q, file, pos) == [file |-> file, offset |-> RoundDown(pos, q.granule), bytes |-> 0, parts |-> <<>>, into |-> FALSE]
Continues(q, p, file, pos) == p.file = file /\ pos >= p.offset /\ pos <= p.offset + p.bytes + q.granule /\ pos < p.offset + Cap(q)
Bad_WithPart(q, p, i, done, pos) ==
    LET at == pos - p.offset
        n == SmallerOf(Bytes(q, i) - done, Cap(q))
    IN [p EXCEPT !.parts = Append(@, [tensor |-> i, from |-> done, at |-> at, bytes |-> n]), !.bytes = LargerOf(@, at + n)]
WithPart(q, p, i, done, pos) ==
    LET at == pos - p.offset
        n == SmallerOf(Bytes(q, i) - done, Cap(q) - at)
    IN [p EXCEPT !.parts = Append(@, [tensor |-> i, from |-> done, at |-> at, bytes |-> n]), !.bytes = LargerOf(@, at + n)]
RECURSIVE Carve(_, _, _, _)
Carve(q, pieces, i, done) ==
    IF done = Bytes(q, i) THEN pieces
    ELSE LET pos == q.tensors[i].offset + done
             goes == pieces # <<>> /\ Continues(q, pieces[Len(pieces)], q.tensors[i].file, pos)
             open == WithPart(q, IF goes THEN pieces[Len(pieces)] ELSE NewPiece(q, q.tensors[i].file, pos), i, done, pos)
         IN Carve(q, Append(IF goes THEN SubSeq(pieces, 1, Len(pieces) - 1) ELSE pieces, open), i, done + open.parts[Len(open.parts)].bytes)
WholeGranules(q, pieces) == [k \in DOMAIN pieces |-> [pieces[k] EXCEPT !.bytes = RoundUp(@, q.granule)]]
PlanPieces(q, list) == WholeGranules(q, FoldLeft(LAMBDA ps, i : Carve(q, ps, i, 0), <<>>, list))
Into(pieces) == [k \in DOMAIN pieces |-> [pieces[k] EXCEPT !.into = TRUE]]
IntoHost(q) == Into(PlanPieces(q, InFileOrder(Hosted(q))))
\* One pass front to back over each file.
Before(x, y, a, b) == x.file < y.file \/ (x.file = y.file /\ (x.offset < y.offset \/ (x.offset = y.offset /\ a < b)))
InOrder(all, order) == [k \in DOMAIN all |-> all[order[k]]]
FrontToBack(all) == InOrder(all, SortSeq([k \in DOMAIN all |-> k], LAMBDA a, b : Before(all[a], all[b], a, b)))
Pieces(q) == FrontToBack(PlanPieces(q, InFileOrder(Streamed(q))) \o IntoHost(q))

-----------------------------------------------------------------------------
\* put_runs: short runs that follow one another in the copy gathered into one write, longer ones sent alone.
Flushed(s) == IF s.packed = <<>> THEN s ELSE [s EXCEPT !.writes = Append(@, [to |-> s.to, data |-> s.packed]), !.packed = <<>>]
Gather(s, r, data) == [s EXCEPT !.to = IF s.packed = <<>> THEN r.to ELSE @, !.packed = @ \o data]
Bad_PutRun(q, s, r, data) ==
    IF r.bytes >= q.run THEN [s EXCEPT !.writes = Append(@, [to |-> r.to, data |-> data])]
    ELSE Gather(s, r, data)
PutRun(q, s, r, data) ==
    IF r.bytes >= q.run THEN [Flushed(s) EXCEPT !.writes = Append(@, [to |-> r.to, data |-> data])]
    ELSE Gather(IF s.packed # <<>> /\ r.to # s.to + Len(s.packed) THEN Flushed(s) ELSE s, r, data)
\* The bytes of a part's run as the piece's buffer holds them: bytes of the file from the piece's offset on.
Slice(p, part, from, n) == [x \in 1 .. n |-> p.offset + part.at + (from - part.from) + x - 1]
PutRuns(q, h, p, part) ==
    Flushed(FoldLeft(LAMBDA s, r : PutRun(q, s, r, Slice(p, part, r.from, r.bytes)),
                     [writes |-> <<>>, packed |-> <<>>, to |-> 0], FileRuns(h, part.from, part.from + part.bytes))).writes
\* stream: each part to each copy of its tensor, a whole one as it lies and a shard by its runs.
HeldBy(q, u) == Held(u.role, q.tensors[u.tensor].t, u.width, u.member)
SentPart(q, u, h, p, part) ==
    IF part.tensor # u.tensor THEN <<>>
    ELSE IF h.axis = "none" THEN <<[to |-> part.from, data |-> Slice(p, part, part.from, part.bytes)]>> ELSE PutRuns(q, h, p, part)
WritesTo(q, u, h, pieces) ==
    FoldLeft(LAMBDA out, p : FoldLeft(LAMBDA ws, part : ws \o SentPart(q, u, h, p, part), out, p.parts), <<>>, pieces)
\* The writes into a copy in order, on top of the zero runs written as its storage was made.
Zeroed(h) == [r \in DOMAIN ZeroRuns(h) |-> [to |-> ZeroRuns(h)[r].to, data |-> [x \in 1 .. ZeroRuns(h)[r].bytes |-> Zero]]]
Unset == -2
Stored(bytes, writes) ==
    FoldLeft(LAMBDA s, w : [x \in DOMAIN s |-> IF x - 1 \in w.to .. w.to + Len(w.data) - 1 THEN w.data[x - w.to] ELSE s[x]], [x \in 1 .. bytes |-> Unset], writes)

-----------------------------------------------------------------------------
\* The host's copy of a file: pages given memory for the pieces read into it, and the pages between the weights given back, keeping a page after each weight.
PagesOf(q, lo, hi) == RoundDown(lo, q.page) \div q.page .. RoundUp(hi, q.page) \div q.page - 1
Committed(q, pieces) == UNION {{<<pieces[k].file, n>> : n \in PagesOf(q, pieces[k].offset, pieces[k].offset + pieces[k].bytes)} : k \in DOMAIN pieces}
Whole(q, file, lo, hi) == {<<file, n>> : n \in RoundUp(lo, q.page) \div q.page .. RoundDown(hi, q.page) \div q.page - 1}
Keeps(q, file) == SelectSeq(InFileOrder(Hosted(q)), LAMBDA i : q.tensors[i].file = file)
Bad_KeepEnd(q, i) == q.tensors[i].offset + q.page
KeepEnd(q, i) == SpanEnd(q, i) + q.page
DropStep(q, p, s, i) ==
    LET end == p.offset + p.bytes
        lo == q.tensors[i].offset
    IN IF s.done \/ KeepEnd(q, i) <= s.at THEN s
       ELSE IF lo >= end THEN [s EXCEPT !.done = TRUE]
       ELSE [s EXCEPT !.at = LargerOf(s.at, KeepEnd(q, i)), !.gone = @ \cup (IF lo > s.at THEN Whole(q, p.file, s.at, lo) ELSE {})]
Dropped(q, p) ==
    LET s == FoldLeft(LAMBDA r, i : DropStep(q, p, r, i), [at |-> p.offset, done |-> FALSE, gone |-> {}], Keeps(q, p.file))
    IN s.gone \cup (IF p.offset + p.bytes > s.at THEN Whole(q, p.file, s.at, p.offset + p.bytes) ELSE {})
Backed(q, pieces) == Committed(q, pieces) \ UNION {Dropped(q, pieces[k]) : k \in DOMAIN pieces}

-----------------------------------------------------------------------------
\* After a streamed load every copy holds its bytes of the file, whole or a shard, however the reads are cut, and a host's copy still has memory
\* behind every weight it reads and the page after it, so far as a read reached it, and behind no page that holds neither (load.hpp plan_pieces,
\* put_runs, stream, load_weights; shard.hpp file_runs, zero_runs).  No read is larger than its most bytes, none overlaps another of its list,
\* and every byte of a tensor is read once.
InFile(q, u, copy) == [x \in DOMAIN copy |-> IF copy[x] = Zero THEN Zero ELSE q.tensors[u.tensor].offset + copy[x]]
CopyWhole(q, u, h, pieces) ==
    Stored(h.bytes, Zeroed(h) \o WritesTo(q, u, h, pieces)) = InFile(q, u, Wanted(u.role, q.tensors[u.tensor].t, h, u.width, u.member))
ReadsSound(q, pieces) ==
    \A k \in DOMAIN pieces :
        /\ pieces[k].bytes <= Cap(q) /\ pieces[k].offset % q.granule = 0
        /\ \A j \in 1 .. k - 1 : pieces[j].file = pieces[k].file /\ pieces[j].into = pieces[k].into => pieces[j].offset + pieces[j].bytes <= pieces[k].offset
Reached(q, pieces, i, x) == \E k \in DOMAIN pieces : pieces[k].file = q.tensors[i].file /\ x \in pieces[k].offset .. pieces[k].offset + pieces[k].bytes - 1
HostBacked(q, pieces, backed) ==
    /\ \A i \in Hosted(q) : \A x \in q.tensors[i].offset .. SpanEnd(q, i) + q.page - 1 :
          Reached(q, pieces, i, x) => <<q.tensors[i].file, x \div q.page>> \in backed
    /\ \A b \in backed : \E i \in Hosted(q) : q.tensors[i].file = b[1] /\ q.tensors[i].offset < (b[2] + 1) * q.page /\ SpanEnd(q, i) + q.page > b[2] * q.page
PartsOfTensor(pieces, i) == FoldLeft(LAMBDA out, p : out \o SelectSeq(p.parts, LAMBDA part : part.tensor = i), <<>>, pieces)
ReadOnce(q, i, parts) ==
    /\ \A j \in DOMAIN parts : parts[j].from = IF j = 1 THEN 0 ELSE parts[j - 1].from + parts[j - 1].bytes
    /\ parts[Len(parts)].from + parts[Len(parts)].bytes = Bytes(q, i)
LoadSoundWith(q, pieces, host) ==
    /\ \A n \in DOMAIN q.uploads : CopyWhole(q, q.uploads[n], HeldBy(q, q.uploads[n]), pieces) /\ OwnedOnce(q.uploads[n].role, q.uploads[n].width)
                                  /\ HeldInOrder(Parts(q.uploads[n].role, q.uploads[n].width, q.uploads[n].member), Extent(q.uploads[n].role))
    /\ ReadsSound(q, pieces) /\ HostBacked(q, host, Backed(q, host))
    /\ \A i \in Hosted(q) \cup Streamed(q) : ReadOnce(q, i, PartsOfTensor(pieces, i))
LoadsWhole(q) == LoadSoundWith(q, Pieces(q), IntoHost(q))
=============================================================================
