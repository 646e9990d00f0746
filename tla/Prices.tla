------------------------------- MODULE Prices -------------------------------
(***************************************************************************)
(* PriceTable (server/policy.hpp): what a stage's passes were measured to   *)
(* cost, and the search for the rows of a prompt's chunk within a target    *)
(* time over the sizes measured.  One row class, no cell old enough to have *)
(* aged; times are whole numbers.                                           *)
(*                                                                           *)
(* A table t = [decode, chunks] of cells [ms, last, samples] by <<band,      *)
(* rows>>.  A pass's work w = [rows, band, chunks], its decode rows, the     *)
(* band of the deepest, and its slices [band, rows].                         *)
(***************************************************************************)
EXTENDS Integers, FiniteSets, SequencesExt

CONSTANT PieceStep      \* kPieceStep

Fewest(set) == CHOOSE n \in set : \A m \in set : n <= m
Largest(set) == CHOOSE n \in set : \A m \in set : m <= n

NoPrices == [decode |-> <<>>, chunks |-> <<>>]
StepOf(rows) == ((rows + PieceStep - 1) \div PieceStep) * PieceStep
Forget(old, now) == IF old > 0 THEN (3 * old + now) \div 4 ELSE now
RowsIn(cells, band) == {k[2] : k \in {k \in DOMAIN cells : k[1] = band}}
CellAt(cells, key) == IF key \in DOMAIN cells THEN cells[key] ELSE [ms |-> 0, last |-> 0, samples |-> 0]
WithCell(cells, key, cell) == [k \in DOMAIN cells \cup {key} |-> IF k = key THEN cell ELSE cells[k]]

\* decode_ms: the nearest priced rows above in the band, else below, else the nearest band below that has any; 0 where none is.
PricedRows(t, band) == {n \in RowsIn(t.decode, band) : t.decode[<<band, n>>].ms > 0}
NearestRows(set, rows) == IF \E n \in set : n >= rows THEN Fewest({n \in set : n >= rows}) ELSE Largest(set)
PricedBands(t, band) == {b \in 0 .. band : PricedRows(t, b) # {}}
DecodeMs(t, band, rows) ==
    IF PricedBands(t, band) = {} THEN 0
    ELSE t.decode[<<Largest(PricedBands(t, band)), NearestRows(PricedRows(t, Largest(PricedBands(t, band))), rows)>>].ms

\* observe: decode rows alone price their cell from its second measure on, one slice alone its own, and one beside decode rows already priced what remains.
Measured(cell, ms, first) == [ms |-> IF cell.samples > 0 \/ first THEN Forget(cell.ms, ms) ELSE cell.ms, last |-> ms, samples |-> IF cell.samples < 2 THEN cell.samples + 1 ELSE 2]
SliceKey(w) == <<w.chunks[1].band, StepOf(w.chunks[1].rows)>>
Observe(t, w, ms) ==
    IF w.chunks = <<>> /\ w.rows > 0
    THEN [t EXCEPT !.decode = WithCell(t.decode, <<w.band, w.rows>>, Measured(CellAt(t.decode, <<w.band, w.rows>>), ms, FALSE))]
    ELSE IF Len(w.chunks) # 1 \/ (w.rows > 0 /\ ~(DecodeMs(t, w.band, w.rows) > 0 /\ ms > DecodeMs(t, w.band, w.rows))) THEN t
    ELSE [t EXCEPT !.chunks = WithCell(t.chunks, SliceKey(w), Measured(CellAt(t.chunks, SliceKey(w)), ms - (IF w.rows > 0 THEN DecodeMs(t, w.band, w.rows) ELSE 0), TRUE))]

\* slice_ms: the cell or the nearest above, else the line through the two largest below; else no price and the rows to read to learn one.
Above(t, band, rows) == {n \in RowsIn(t.chunks, band) : n >= rows}
Line(lo, hi, lowMs, highMs, rows) == highMs + (Largest({0, highMs - lowMs}) * (rows - hi)) \div (hi - lo)
SliceLine(t, band, rows, hi, lower) ==
    IF lower = {} THEN [ms |-> 0, step |-> 2 * hi]
    ELSE [ms |-> Line(Largest(lower), hi, t.chunks[<<band, Largest(lower)>>].ms, t.chunks[<<band, hi>>].ms, rows), step |-> 2 * hi]
SliceBelow(t, band, rows, hi) == SliceLine(t, band, rows, hi, {n \in RowsIn(t.chunks, band) : n < hi})
SliceMs(t, band, rows) ==
    IF Above(t, band, StepOf(rows)) # {} THEN [ms |-> t.chunks[<<band, Fewest(Above(t, band, StepOf(rows)))>>].ms, step |-> PieceStep]
    ELSE IF RowsIn(t.chunks, band) = {} THEN [ms |-> 0, step |-> PieceStep]
    ELSE SliceBelow(t, band, StepOf(rows), Largest(RowsIn(t.chunks, band)))

-----------------------------------------------------------------------------
\* bracket: the smallest size last measured over the target, and the largest within it below that.
Over(t, band, target) == {n \in RowsIn(t.chunks, band) : t.chunks[<<band, n>>].last > target}
Hi(t, band, target) == IF Over(t, band, target) = {} THEN 0 ELSE Fewest(Over(t, band, target))
Lo(t, band, target) == Largest({0} \cup {n \in RowsIn(t.chunks, band) \ Over(t, band, target) : Hi(t, band, target) = 0 \/ n < Hi(t, band, target)})
Down(rows) == (rows \div PieceStep) * PieceStep

\* chunk_rows: the next size to try, from the bracket of the band or of the nearest below that has one.
FirstTry(t, band, target) ==
    IF \E b \in 0 .. band - 1 : RowsIn(t.chunks, b) # {} THEN Lo(t, Largest({b \in 0 .. band - 1 : RowsIn(t.chunks, b) # {}}), target) ELSE PieceStep
Bad_Between(lo, hi) == IF hi - lo > PieceStep THEN lo ELSE lo
Between(lo, hi) == IF hi - lo > PieceStep THEN Down((lo + hi) \div 2) ELSE lo
Try(t, band, target, lo, hi) ==
    IF RowsIn(t.chunks, band) = {} THEN FirstTry(t, band, target)
    ELSE IF lo = 0 THEN Down(Fewest({hi \div 2, (hi * target) \div t.chunks[<<band, hi>>].last}))
    ELSE IF hi = 0 THEN 2 * lo
    ELSE Between(lo, hi)
ChunkRows(t, band, target, most) == Fewest({most, Largest({PieceStep, Try(t, band, target, Lo(t, band, target), Hi(t, band, target))})})

-----------------------------------------------------------------------------
\* A question q = [costs, target, most, band, below]: a stage whose slice of n steps takes costs[n] in the band searched, where the sizes of
\* `below` were measured a band below.
Costs(q, rows) == q.costs[StepOf(rows) \div PieceStep]
Slice(band, rows) == [rows |-> 0, band |-> 0, chunks |-> <<[band |-> band, rows |-> rows]>>]
Known(q) == FoldLeft(LAMBDA t, n : Observe(t, Slice(q.band - 1, n * PieceStep), q.costs[n]), NoPrices, SetToSeq(q.below))
Asked(q, t) == ChunkRows(t, q.band, q.target, q.most)
Searched(q, n) == FoldLeft(LAMBDA t, i : Observe(t, Slice(q.band, Asked(q, t)), Costs(q, Asked(q, t))), Known(q), [i \in 1 .. n |-> i])
Within(q) == {n \in {m * PieceStep : m \in 1 .. q.most \div PieceStep} \cup {q.most} : Costs(q, n) <= q.target}
\* Whatever was measured a band below, where more rows never cost less the search comes to the largest size within the target, or to one step
\* where none is, after as many measures as halvings and doublings of the largest size take, and stays there (PriceTable::chunk_rows).
SearchSettles(q, n) == Asked(q, Searched(q, n)) = IF Within(q) = {} THEN Fewest({q.most, PieceStep}) ELSE Largest(Within(q))
=============================================================================
