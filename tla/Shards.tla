-------------------------------- MODULE Shards --------------------------------
(***************************************************************************)
(* model/shard.hpp: a tensor group's members' shares of a tensor, from the  *)
(* declaration of the role that reads it, and the runs of the tensor's      *)
(* bytes that make up a member's packed copy.                               *)
(*                                                                           *)
(* A role is [axis, in, out, experts, first, part, sections], its axis       *)
(* "none", "rows" or "columns", `part` whether it reads a run of its         *)
(* tensor's rows (Role::tensor_rows); a section [units, unit, tiles, align,  *)
(* replicate]; a tensor [nin, rows, block, size], `size` the bytes of a      *)
(* block of `block` columns.  Members, rows, columns and bytes count from 0. *)
(***************************************************************************)
EXTENDS Integers, Sequences, SequencesExt, FiniteSetsExt

RowBytes(t, n) == (n \div t.block) * t.size
TensorBytes(t) == t.rows * RowBytes(t, t.nin)
Extent(role) == IF role.axis = "columns" THEN role.in ELSE role.out * (IF role.experts > 0 THEN role.experts ELSE 1)

\* take: the units of a section a member has, or none.
NoUnits == [begin |-> 0, count |-> 0]
Take(s, width, m) ==
    IF s.units % width = 0 THEN [begin |-> m * (s.units \div width), count |-> s.units \div width]
    ELSE IF s.replicate /\ s.units > 0 /\ width % s.units = 0 THEN [begin |-> m \div (width \div s.units), count |-> 1] ELSE NoUnits
Splits(role, width) == role.axis = "none" \/ width = 1 \/ \A i \in DOMAIN role.sections : \A m \in 0 .. width - 1 : Take(role.sections[i], width, m) # NoUnits

\* parts: what a member owns of every tile and, widened to whole runs of `align`, holds of it.
Tile(s) == s.units * s.unit
Bad_Cover(s, u, a) == [from |-> ((u.begin * s.unit) \div a) * a, to |-> (((u.begin + u.count) * s.unit + a - 1) \div a) * a]
Cover(s, u, a) ==
    LET to == (((u.begin + u.count) * s.unit + a - 1) \div a) * a
    IN [from |-> ((u.begin * s.unit) \div a) * a, to |-> IF to < Tile(s) THEN to ELSE Tile(s)]
PartAt(s, u, c, base) ==
    [own |-> [begin |-> base + u.begin * s.unit, count |-> u.count * s.unit], cover |-> [begin |-> base + c.from, count |-> c.to - c.from]]
PartsOf(s, u, c, at) == [t \in 1 .. s.tiles |-> PartAt(s, u, c, at + (t - 1) * Tile(s))]
Parts(role, width, m) ==
    IF role.axis = "none" \/ width = 1 THEN <<[own |-> [begin |-> 0, count |-> Extent(role)], cover |-> [begin |-> 0, count |-> Extent(role)]]>>
    ELSE FoldLeft(LAMBDA r, s : [at |-> r.at + s.tiles * Tile(s),
                                 out |-> r.out \o PartsOf(s, Take(s, width, m), Cover(s, Take(s, width, m), IF s.align > 0 THEN s.align ELSE 1), r.at)],
                  [at |-> 0, out |-> <<>>], role.sections).out
\* spans: the runs held, adjacent ones joined.
Spans(role, width, m) ==
    FoldLeft(LAMBDA out, p :
                IF out # <<>> /\ out[Len(out)].begin + out[Len(out)].count = p.cover.begin
                THEN [out EXCEPT ![Len(out)].count = @ + p.cover.count] ELSE Append(out, p.cover),
             <<>>, Parts(role, width, m))
\* check_plan: a column split on whole blocks.
WholeBlocks(role, t, width) ==
    role.axis = "columns" => \A m \in 0 .. width - 1 : \A i \in DOMAIN Spans(role, width, m) :
        Spans(role, width, m)[i].begin % t.block = 0 /\ Spans(role, width, m)[i].count % t.block = 0

\* held: a member's copy, by its parts of the rows or by the runs of a row.
ColumnRuns(t, spans) ==
    FoldLeft(LAMBDA r, s : [to |-> r.to + RowBytes(t, s.count), out |-> Append(r.out, [from |-> RowBytes(t, s.begin), bytes |-> RowBytes(t, s.count), to |-> r.to])],
             [to |-> 0, out |-> <<>>], spans)
WholeCopy(t) == [axis |-> "none", bytes |-> TensorBytes(t), row |-> 0, packed |-> 0, rows |-> 0, parts |-> <<>>, columns |-> <<>>]
RowCopy(t, parts, first) ==
    [WholeCopy(t) EXCEPT !.axis = "rows", !.row = RowBytes(t, t.nin), !.bytes = FoldLeft(LAMBDA n, p : n + p.cover.count * RowBytes(t, t.nin), 0, parts),
        !.parts = [i \in DOMAIN parts |-> [own |-> [parts[i].own EXCEPT !.begin = @ + first], cover |-> [parts[i].cover EXCEPT !.begin = @ + first]]]]
ColumnCopy(t, runs) ==
    [WholeCopy(t) EXCEPT !.axis = "columns", !.row = RowBytes(t, t.nin), !.packed = runs.to, !.columns = runs.out, !.rows = t.rows, !.bytes = t.rows * runs.to]
Held(role, t, width, m) ==
    IF ~role.part /\ (role.axis = "none" \/ width = 1) THEN WholeCopy(t)
    ELSE IF role.part \/ role.axis = "rows" THEN RowCopy(t, Parts(role, width, m), role.first)
    ELSE ColumnCopy(t, ColumnRuns(t, Spans(role, width, m)))

-----------------------------------------------------------------------------
\* Where each part's rows start in the copy.
Bases(h) == FoldLeft(LAMBDA b, p : Append(b, b[Len(b)] + p.cover.count * h.row), <<0>>, h.parts)
RowAdds(h, bases) ==
    [i \in DOMAIN h.parts |-> [from |-> h.parts[i].own.begin * h.row, bytes |-> h.parts[i].own.count * h.row,
                               to |-> bases[i] + (h.parts[i].own.begin - h.parts[i].cover.begin) * h.row]]
ColumnAdds(h, lo, hi) ==
    FlattenSeq([k \in 1 .. Cardinality({r \in lo \div h.row .. h.rows - 1 : r * h.row < hi}) |->
        LET r == lo \div h.row + k - 1 IN [i \in DOMAIN h.columns |-> [from |-> r * h.row + h.columns[i].from, bytes |-> h.columns[i].bytes, to |-> r * h.packed + h.columns[i].to]]])
Adds(h, lo, hi) ==
    CASE h.axis = "none" -> <<[from |-> 0, bytes |-> h.bytes, to |-> 0]>>
      [] h.axis = "rows" -> RowAdds(h, Bases(h))
      [] OTHER -> IF h.row > 0 THEN ColumnAdds(h, lo, hi) ELSE <<>>
\* A run cut to [lo, hi), and appended to the one before where it follows it in the tensor and in the copy.
Bad_Cut(a, lo, hi) ==
    LET from == IF a.from > lo THEN a.from ELSE lo
        end == IF a.from + a.bytes < hi THEN a.from + a.bytes ELSE hi
    IN [from |-> from, bytes |-> end - from, to |-> a.to]
Cut(a, lo, hi) ==
    LET from == IF a.from > lo THEN a.from ELSE lo
        end == IF a.from + a.bytes < hi THEN a.from + a.bytes ELSE hi
    IN [from |-> from, bytes |-> end - from, to |-> a.to + (from - a.from)]
Follows(open, r) == open.from + open.bytes = r.from /\ open.to + open.bytes = r.to
JoinRun(out, r) ==
    IF r.bytes <= 0 THEN out
    ELSE IF out # <<>> /\ Follows(out[Len(out)], r) THEN [out EXCEPT ![Len(out)].bytes = @ + r.bytes] ELSE Append(out, r)
FileRuns(h, lo, hi) == FoldLeft(LAMBDA out, a : JoinRun(out, Cut(a, lo, hi)), <<>>, Adds(h, lo, hi))
\* The rows covered that are another member's.
ZeroRunsOf(h, p, base) ==
    LET before == (p.own.begin - p.cover.begin) * h.row
        after == (p.cover.begin + p.cover.count - p.own.begin - p.own.count) * h.row
    IN SelectSeq(<<[bytes |-> before, to |-> base], [bytes |-> after, to |-> base + before + p.own.count * h.row]>>, LAMBDA r : r.bytes > 0)
ZeroRuns(h) == IF h.axis # "rows" THEN <<>> ELSE FlattenSeq([i \in DOMAIN h.parts |-> ZeroRunsOf(h, h.parts[i], Bases(h)[i])])

-----------------------------------------------------------------------------
\* What a member's copy must hold, byte by byte: the tensor's byte, or Zero in a row another member owns.
Zero == -1
CopyOfRows(h, parts) ==
    FlattenSeq([i \in DOMAIN parts |-> [x \in 1 .. parts[i].cover.count * h.row |->
        LET row == parts[i].cover.begin + ((x - 1) \div h.row)
        IN IF row \in parts[i].own.begin .. parts[i].own.begin + parts[i].own.count - 1 THEN row * h.row + ((x - 1) % h.row) ELSE Zero]])
CopyOfColumns(t, spans) ==
    FlattenSeq([r \in 1 .. t.rows |-> FlattenSeq([i \in DOMAIN spans |->
        [x \in 1 .. RowBytes(t, spans[i].count) |-> (r - 1) * RowBytes(t, t.nin) + RowBytes(t, spans[i].begin) + x - 1]])])
Wanted(role, t, h, width, m) ==
    CASE h.axis = "none" -> [x \in 1 .. TensorBytes(t) |-> x - 1]
      [] h.axis = "rows" -> CopyOfRows(h, h.parts)
      [] OTHER -> CopyOfColumns(t, Spans(role, width, m))

\* A member's runs lie one after another inside the role, each with what it owns of it.
HeldInOrder(parts, extent) ==
    \A i \in DOMAIN parts :
        LET end == parts[i].cover.begin + parts[i].cover.count
        IN /\ parts[i].cover.begin <= parts[i].own.begin /\ parts[i].own.begin + parts[i].own.count <= end
           /\ end <= IF i = Len(parts) THEN extent ELSE parts[i + 1].cover.begin
\* Every row or column of a role is owned by one member alone, or by as many as share a replicated unit, whatever the width, tiles, sections
\* and alignment (shard.hpp parts): sums over the group count each once.
Owners(role, width, x) ==
    {m \in 0 .. width - 1 : \E i \in DOMAIN Parts(role, width, m) :
        x \in Parts(role, width, m)[i].own.begin .. Parts(role, width, m)[i].own.begin + Parts(role, width, m)[i].own.count - 1}
OwnedOnce(role, width) ==
    role.axis # "none" /\ width > 1 => \A x \in 0 .. Extent(role) - 1 :
        Cardinality(Owners(role, width, x)) \in {1} \cup {width \div role.sections[i].units : i \in {j \in DOMAIN role.sections : role.sections[j].replicate /\ role.sections[j].units % width # 0}}
=============================================================================
