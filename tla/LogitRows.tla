----------------------------- MODULE LogitRows -----------------------------
(***************************************************************************)
(* The logits rows a context reserves for passes in flight (LogitRows in   *)
(* server/policy.hpp, its callers in server/scheduler.hpp): each pass that *)
(* wants logits takes a run of rows as it is formed, after the newest run  *)
(* or from row 0, and gives it back as it retires or is abandoned.  Runs   *)
(* leave the queue oldest first.                                           *)
(***************************************************************************)
EXTENDS Integers, Sequences, Functions, FiniteSets

CONSTANTS
    Slots,      \* the pass slots
    SlotCount,  \* how many
    PerPass     \* logits_a_pass: the rows the passes in flight want at most, together

ASSUME LogitRowsAssumption == SlotCount \in Nat \ {0} /\ PerPass \in Nat

VARIABLES
    runs,   \* LogitRows::runs, oldest first
    held    \* per slot, the run of the pass in flight in it: n = 0 where it holds none

vars == <<runs, held>>

\* logit_rows
Size == (IF SlotCount < 2 THEN SlotCount ELSE 2) * PerPass

RunType == [base : 0..Size - 1, n : 1..Size, back : BOOLEAN]
None == [base |-> 0, n |-> 0]

\* The queue holds runs, each slot a run or none.
TypeOK ==
    /\ runs \in Seq(RunType)
    /\ held \in [Slots -> [base : 0..Size, n : 0..Size]]

Init == runs = <<>> /\ held = [k \in Slots |-> None]

-----------------------------------------------------------------------------
TailRow(rs) == rs[1].base
HeadRow(rs) == rs[Len(rs)].base + rs[Len(rs)].n

Bad_Base(rs, n) ==
    IF rs = <<>> THEN IF n <= Size THEN 0 ELSE Size
    ELSE IF n <= Size - HeadRow(rs) THEN HeadRow(rs)
    ELSE IF n <= TailRow(rs) THEN 0 ELSE Size

Bad_BaseTight(rs, n) ==
    IF rs = <<>> THEN IF n <= Size THEN 0 ELSE Size
    ELSE IF TailRow(rs) < HeadRow(rs)
         THEN IF n <= Size - HeadRow(rs) THEN HeadRow(rs) ELSE Size
         ELSE IF n <= TailRow(rs) - HeadRow(rs) THEN HeadRow(rs) ELSE Size

\* take_rows: the first row of a run of n rows, Size when none fits.
Base(rs, n) ==
    IF rs = <<>> THEN IF n <= Size THEN 0 ELSE Size
    ELSE IF TailRow(rs) < HeadRow(rs)
         THEN IF n <= Size - HeadRow(rs) THEN HeadRow(rs)
              ELSE IF n <= TailRow(rs) THEN 0 ELSE Size
         ELSE IF n <= TailRow(rs) - HeadRow(rs) THEN HeadRow(rs) ELSE Size

Fits(n) == Base(runs, n) # Size

\* give_rows: the oldest run there that is not back is, and the runs before
\* the oldest that is not back leave.
There(rs, base) == {i \in DOMAIN rs : rs[i].base = base /\ ~rs[i].back}
Marked(rs, base) ==
    [i \in DOMAIN rs |-> IF i \in There(rs, base) /\ \A j \in There(rs, base) : i <= j
                         THEN [rs[i] EXCEPT !.back = TRUE] ELSE rs[i]]
Front(rs, m) ==
    /\ \A j \in 1..m - 1 : rs[j].back
    /\ m <= Len(rs) => ~rs[m].back

\* How many rows the passes in flight hold, and how many lie in the queue's runs.
Wanted == FoldFunction(LAMBDA k, s : k.n + s, 0, held)
In(rs, i, row) == rs[i].base <= row /\ row < rs[i].base + rs[i].n
Queued == Cardinality({row \in 0..Size - 1 : \E i \in DOMAIN runs : In(runs, i, row)})

-----------------------------------------------------------------------------
\* A pass is formed in slot k, wanting n rows: a request wants its rows in one
\* pass at a time, so all in flight want at most PerPass.  One that finds no
\* run fails every pass (fail_all).
Form(k, n) ==
    /\ held[k].n = 0 /\ n <= PerPass - Wanted
    /\ IF Fits(n)
       THEN /\ runs' = Append(runs, [base |-> Base(runs, n), n |-> n, back |-> FALSE])
            /\ held' = [held EXCEPT ![k] = [base |-> Base(runs, n), n |-> n]]
       ELSE runs' = <<>> /\ held' = [j \in Slots |-> None]

\* vacate: the pass in slot k retired or was abandoned.
Give(k) ==
    /\ held[k].n > 0
    /\ \E m \in 1..Len(runs) + 1 :
        /\ Front(Marked(runs, held[k].base), m)
        /\ runs' = SubSeq(Marked(runs, held[k].base), m, Len(runs))
    /\ held' = [held EXCEPT ![k] = None]

Next == \E k \in Slots : Give(k) \/ \E n \in 1..PerPass : Form(k, n)
Spec == Init /\ [][Next]_vars

-----------------------------------------------------------------------------
\* No two passes in flight write one row, and every row is a reserved one
\* (take_rows, against a retire or an abort in any order).
OwnRows ==
    \A k, l \in Slots : held[k].n > 0 =>
        /\ held[k].base + held[k].n <= Size
        /\ k # l /\ held[l].n > 0 =>
            held[k].base + held[k].n <= held[l].base \/ held[l].base + held[l].n <= held[k].base

\* A run fits while it and the runs in the queue want at most half the rows,
\* so with every run back all of them do (the comment of LogitRows).
QueuedFits ==
    /\ \A n \in 1..PerPass : 2 * (n + Queued) <= Size => Fits(n)
    /\ (\A k \in Slots : held[k].n = 0) => runs = <<>>
=============================================================================
