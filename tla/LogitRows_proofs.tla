-------------------------- MODULE LogitRows_proofs --------------------------
(***************************************************************************)
(* No two passes in flight hold one logits row (LogitRows).  The queue is  *)
(* a ring: its runs lie one after another from the oldest, around the end  *)
(* of the rows at most once, which appending a run, marking one and        *)
(* dropping a prefix all keep.                                             *)
(*                                                                         *)
(* A pass whose rows and the queue's are at most half of those reserved    *)
(* finds a run: the queue fills all between its edges but what it passes   *)
(* over where it turns, and its oldest run is always one in flight.        *)
(***************************************************************************)
EXTENDS LogitRows, SequenceTheorems, FiniteSetTheorems, TLAPS

\* Run i of rs ends where run j starts, or before.
Before(rs, i, j) == rs[i].base + rs[i].n <= rs[j].base

InRange(rs) == \A i \in 1..Len(rs) : rs[i].base + rs[i].n <= Size
Apart(rs) == \A i, j \in 1..Len(rs) : i < j => Before(rs, i, j) \/ Before(rs, j, i)
\* Once a later run lies before an earlier one, the runs have turned around
\* the end: every run after it does too.
Turned(rs) == \A i, j, k \in 1..Len(rs) : i < j /\ j < k =>
    /\ Before(rs, j, i) => Before(rs, k, i) /\ Before(rs, j, k)
    /\ Before(rs, k, j) => Before(rs, k, i) /\ Before(rs, i, j)
Ring(rs) == InRange(rs) /\ Apart(rs) /\ Turned(rs)

\* Each pass's run is in the queue, not back, and is no other pass's.
Linked(rs, h) == \A k \in Slots : h[k].n > 0 =>
    \E i \in 1..Len(rs) : rs[i].base = h[k].base /\ rs[i].n = h[k].n /\ ~rs[i].back
Own(h) == \A k, l \in Slots : k # l /\ h[k].n > 0 /\ h[l].n > 0 => h[k].base # h[l].base

IInv == TypeOK /\ Ring(runs) /\ Linked(runs, held) /\ Own(held)

\* The rows reserved are a count.
LEMMA SizeNat == Size \in Nat
  <1>1. CASE SlotCount < 2
    <2>1. SlotCount = 1 BY <1>1, LogitRowsAssumption
    <2>. QED BY <2>1, LogitRowsAssumption DEF Size
  <1>2. CASE ~(SlotCount < 2) BY <1>2, LogitRowsAssumption DEF Size
  <1>. QED BY <1>1, <1>2

\* The fields of a run.
LEMMA RunFields ==
    ASSUME NEW rs \in Seq(RunType), NEW i \in 1..Len(rs)
    PROVE  /\ rs[i] \in RunType /\ rs[i].base \in Nat /\ rs[i].base < Size
           /\ rs[i].n \in Nat /\ rs[i].n > 0 /\ rs[i].back \in BOOLEAN
  <1>1. rs[i] \in RunType OBVIOUS
  <1>. QED BY <1>1, SizeNat DEF RunType

\* The oldest run's first row and the row after the newest's.
LEMMA Ends ==
    ASSUME NEW rs \in Seq(RunType), InRange(rs), rs # <<>>
    PROVE  /\ 1 \in 1..Len(rs) /\ Len(rs) \in 1..Len(rs) /\ Len(rs) \in Nat
           /\ TailRow(rs) \in Nat /\ TailRow(rs) < Size
           /\ HeadRow(rs) \in Nat /\ HeadRow(rs) <= Size /\ HeadRow(rs) > 0
  <1>1. Len(rs) \in Nat /\ 1 \in 1..Len(rs) /\ Len(rs) \in 1..Len(rs) OBVIOUS
  <1>2. rs[1].base \in Nat /\ rs[1].base < Size BY <1>1, RunFields
  <1>3. rs[Len(rs)].base \in Nat /\ rs[Len(rs)].n \in Nat /\ rs[Len(rs)].n > 0 BY <1>1, RunFields
  <1>4. rs[Len(rs)].base + rs[Len(rs)].n <= Size BY <1>1 DEF InRange
  <1>. QED BY <1>1, <1>2, <1>3, <1>4, SizeNat DEF TailRow, HeadRow

\* While the newest run ends past the oldest, the runs lie in one stretch.
LEMMA Straight ==
    ASSUME NEW rs \in Seq(RunType), Ring(rs), rs # <<>>, TailRow(rs) < HeadRow(rs)
    PROVE  /\ \A i, j \in 1..Len(rs) : i < j => Before(rs, i, j)
           /\ \A i \in 1..Len(rs) : TailRow(rs) <= rs[i].base /\ rs[i].base + rs[i].n <= HeadRow(rs)
  <1>. DEFINE L == Len(rs)
  <1>1. L \in Nat /\ 1 \in 1..L /\ L \in 1..L BY Ends DEF Ring
  <1>2. ~Before(rs, L, 1) BY <1>1, RunFields DEF Before, TailRow, HeadRow
  <1>3. ASSUME NEW i \in 1..L, NEW j \in 1..L, i < j, Before(rs, j, i) PROVE FALSE
    <2>1. Before(rs, j, 1) BY <1>1, <1>3 DEF Ring, Turned
    <2>2. j = L \/ Before(rs, L, 1) BY <1>1, <1>3, <2>1 DEF Ring, Turned
    <2>. QED BY <1>2, <2>1, <2>2
  <1>4. \A i, j \in 1..L : i < j => Before(rs, i, j) BY <1>3 DEF Ring, Apart
  <1>5. ASSUME NEW i \in 1..L PROVE TailRow(rs) <= rs[i].base /\ rs[i].base + rs[i].n <= HeadRow(rs)
    <2>1. i = 1 \/ Before(rs, 1, i) BY <1>1, <1>4
    <2>2. i = L \/ Before(rs, i, L) BY <1>1, <1>4
    <2>3. /\ rs[i].base \in Nat /\ rs[i].n \in Nat /\ rs[1].base \in Nat /\ rs[1].n \in Nat
          /\ rs[L].base \in Nat /\ rs[L].n \in Nat
      BY <1>1, RunFields
    <2>. QED BY <2>1, <2>2, <2>3 DEF Before, TailRow, HeadRow
  <1>. QED BY <1>4, <1>5

\* Otherwise they have turned: each run lies before the newest, or behind the
\* oldest.
LEMMA Around ==
    ASSUME NEW rs \in Seq(RunType), Ring(rs), rs # <<>>, ~(TailRow(rs) < HeadRow(rs))
    PROVE  \A i \in 1..Len(rs) :
             \/ i = Len(rs) \/ Before(rs, i, Len(rs))
             \/ Before(rs, Len(rs), i) /\ TailRow(rs) <= rs[i].base
  <1>. DEFINE L == Len(rs)
  <1>1. L \in Nat /\ 1 \in 1..L /\ L \in 1..L BY Ends DEF Ring
  <1>. SUFFICES ASSUME NEW i \in 1..L, i # L, ~Before(rs, i, L)
                PROVE  Before(rs, L, i) /\ TailRow(rs) <= rs[i].base
    OBVIOUS
  <1>2. Before(rs, L, i) BY <1>1 DEF Ring, Apart
  <1>3. i = 1 \/ Before(rs, 1, i) BY <1>1, <1>2 DEF Ring, Turned
  <1>4. rs[i].base \in Nat /\ rs[1].base \in Nat /\ rs[1].n \in Nat BY <1>1, RunFields
  <1>. QED BY <1>2, <1>3, <1>4 DEF Before, TailRow

\* A run taken keeps the ring (take_rows).
LEMMA RingAppend ==
    ASSUME NEW rs \in Seq(RunType), Ring(rs), NEW n \in Nat, n > 0, Base(rs, n) # Size,
           NEW new, new = [base |-> Base(rs, n), n |-> n, back |-> FALSE]
    PROVE  new \in RunType /\ Append(rs, new) \in Seq(RunType) /\ Ring(Append(rs, new))
  <1>. DEFINE b == Base(rs, n)
              L == Len(rs)
              ts == Append(rs, new)
  <1>1. /\ L \in Nat /\ Len(ts) = L + 1 /\ \A i \in 1..L : ts[i] = rs[i]
        /\ ts[L + 1] = new /\ 1..L + 1 = 1..L \cup {L + 1}
    OBVIOUS
  <1>2. new.base = b /\ new.n = n OBVIOUS
  <1>3. \A i \in 1..L : /\ rs[i].base \in Nat /\ rs[i].n \in Nat /\ rs[i].n > 0
                        /\ rs[i].base + rs[i].n <= Size
    BY RunFields DEF Ring, InRange
  <1>4. b \in Nat /\ b + n <= Size /\ b < Size
    <2>1. CASE rs = <<>> BY <2>1, SizeNat DEF Base
    <2>2. CASE rs # <<>> BY <2>2, Ends, SizeNat DEF Base, Ring
    <2>. QED BY <2>1, <2>2
  <1>5. new \in RunType BY <1>4, SizeNat DEF RunType
  <1>6. InRange(ts) BY <1>1, <1>2, <1>3, <1>4 DEF InRange
  \* The new run against each, and against each two in their order.
  <1>7. /\ \A i \in 1..L : Before(ts, i, L + 1) \/ Before(ts, L + 1, i)
        /\ \A i, j \in 1..L : i < j =>
              /\ Before(rs, j, i) => Before(ts, L + 1, i) /\ Before(ts, j, L + 1)
              /\ Before(ts, L + 1, j) => Before(ts, L + 1, i) /\ Before(rs, i, j)
    <2>1. CASE L = 0 BY <2>1
    <2>2. CASE rs # <<>> /\ TailRow(rs) < HeadRow(rs)
      <3>1. ASSUME NEW i \in 1..L, NEW j \in 1..L, i < j PROVE Before(rs, i, j) /\ ~Before(rs, j, i)
        <4>1. Before(rs, i, j) BY <2>2, <3>1, Straight
        <4>. QED BY <4>1, <1>3 DEF Before
      <3>2. TailRow(rs) \in Nat /\ HeadRow(rs) \in Nat BY <2>2, Ends DEF Ring
      <3>3. CASE b = HeadRow(rs)
        <4>1. \A i \in 1..L : Before(ts, i, L + 1) /\ ~Before(ts, L + 1, i)
          BY <3>3, <2>2, Straight, <1>1, <1>2, <1>3, <1>4 DEF Before
        <4>. QED BY <4>1, <3>1
      <3>4. CASE b = 0 /\ n <= TailRow(rs)
        <4>1. \A i \in 1..L : Before(ts, L + 1, i)
          BY <3>4, <3>2, <2>2, Straight, <1>1, <1>2, <1>3, <1>4 DEF Before
        <4>. QED BY <4>1, <3>1
      <3>. QED BY <3>3, <3>4, <2>2 DEF Base
    <2>3. CASE rs # <<>> /\ ~(TailRow(rs) < HeadRow(rs))
      <3>1. b = HeadRow(rs) /\ n <= TailRow(rs) - HeadRow(rs) BY <2>3 DEF Base
      <3>2. TailRow(rs) \in Nat /\ HeadRow(rs) \in Nat /\ L \in 1..L BY <2>3, Ends DEF Ring
      <3>3. ASSUME NEW i \in 1..L, i = L \/ Before(rs, i, L)
            PROVE  Before(ts, i, L + 1) /\ ~Before(ts, L + 1, i)
        <4>1. /\ rs[i].base \in Nat /\ rs[i].n \in Nat /\ rs[i].n > 0
              /\ rs[L].base \in Nat /\ rs[L].n \in Nat /\ rs[L].n > 0
          BY <1>3, <3>2
        <4>2. ts[i] = rs[i] /\ ts[L + 1] = new BY <1>1
        <4>3. rs[i].base + rs[i].n <= rs[L].base + rs[L].n BY <3>3, <4>1 DEF Before
        <4>4. b = rs[L].base + rs[L].n BY <3>1 DEF HeadRow
        <4>. QED BY <4>1, <4>2, <4>3, <4>4, <1>2, <1>4 DEF Before
      <3>4. \A i \in 1..L : i = L \/ Before(rs, i, L) \/ (Before(rs, L, i) /\ TailRow(rs) <= rs[i].base)
        BY <2>3, Around
      <3>5. \A i \in 1..L : TailRow(rs) <= rs[i].base => Before(ts, L + 1, i)
        BY <3>1, <3>2, <1>1, <1>2, <1>3, <1>4 DEF Before
      <3>6. ASSUME NEW i \in 1..L, NEW j \in 1..L, i < j, Before(rs, j, i)
            PROVE  Before(ts, L + 1, i) /\ Before(ts, j, L + 1)
        <4>1. ~Before(rs, i, j) BY <3>6, <1>3 DEF Before
        <4>2. CASE j = L BY <4>1, <4>2, <3>3, <3>4, <3>5, <3>6
        <4>3. CASE j # L
          <5>1. Before(rs, L, i) /\ Before(rs, j, L) BY <4>3, <3>2, <3>6 DEF Ring, Turned
          <5>2. ~Before(rs, i, L)
            <6>1. /\ rs[i].base \in Nat /\ rs[i].n \in Nat /\ rs[i].n > 0
                  /\ rs[L].base \in Nat /\ rs[L].n \in Nat /\ rs[L].n > 0
              BY <1>3, <3>2
            <6>. QED BY <6>1, <5>1 DEF Before
          <5>. QED BY <5>1, <5>2, <3>3, <3>4, <3>5, <3>6, <1>1
        <4>. QED BY <4>2, <4>3
      <3>7. ASSUME NEW i \in 1..L, NEW j \in 1..L, i < j, Before(ts, L + 1, j)
            PROVE  Before(ts, L + 1, i) /\ Before(rs, i, j)
        <4>1. j # L /\ Before(rs, L, j) BY <3>3, <3>4, <3>7
        <4>2. Before(rs, L, i) /\ Before(rs, i, j) BY <4>1, <3>2, <3>7 DEF Ring, Turned
        <4>3. i # L BY <3>7, <1>1
        <4>4. ~Before(rs, i, L)
          <5>1. /\ rs[i].base \in Nat /\ rs[i].n \in Nat /\ rs[i].n > 0
                /\ rs[L].base \in Nat /\ rs[L].n \in Nat /\ rs[L].n > 0
            BY <1>3, <3>2
          <5>. QED BY <5>1, <4>2 DEF Before
        <4>. QED BY <4>2, <4>3, <4>4, <3>4, <3>5
      <3>8. \A i \in 1..L : Before(ts, i, L + 1) \/ Before(ts, L + 1, i) BY <3>3, <3>4, <3>5
      <3>9. \A i, j \in 1..L : i < j =>
              /\ Before(rs, j, i) => Before(ts, L + 1, i) /\ Before(ts, j, L + 1)
              /\ Before(ts, L + 1, j) => Before(ts, L + 1, i) /\ Before(rs, i, j)
        BY <3>6, <3>7
      <3>. QED BY <3>8, <3>9
    <2>4. rs = <<>> => L = 0 OBVIOUS
    <2>. QED BY <2>1, <2>2, <2>3, <2>4
  <1>8. Apart(ts)
    <2>. SUFFICES ASSUME NEW i \in 1..L + 1, NEW j \in 1..L + 1, i < j
                  PROVE  Before(ts, i, j) \/ Before(ts, j, i)
      BY <1>1 DEF Apart
    <2>1. i \in 1..L BY <1>1
    <2>2. CASE j = L + 1 BY <2>1, <2>2, <1>7
    <2>3. CASE j \in 1..L
      <3>1. Before(rs, i, j) \/ Before(rs, j, i) BY <2>1, <2>3 DEF Ring, Apart
      <3>. QED BY <3>1, <2>1, <2>3, <1>1 DEF Before
    <2>. QED BY <2>2, <2>3, <1>1
  <1>9. Turned(ts)
    <2>. SUFFICES ASSUME NEW i \in 1..L + 1, NEW j \in 1..L + 1, NEW k \in 1..L + 1, i < j, j < k
                  PROVE  /\ Before(ts, j, i) => Before(ts, k, i) /\ Before(ts, j, k)
                         /\ Before(ts, k, j) => Before(ts, k, i) /\ Before(ts, i, j)
      BY <1>1 DEF Turned
    <2>1. i \in 1..L /\ j \in 1..L BY <1>1
    <2>2. (Before(ts, j, i) <=> Before(rs, j, i)) /\ (Before(ts, i, j) <=> Before(rs, i, j))
      BY <2>1, <1>1 DEF Before
    <2>3. CASE k = L + 1 BY <2>1, <2>2, <2>3, <1>7
    <2>4. CASE k \in 1..L
      <3>1. /\ Before(rs, j, i) => Before(rs, k, i) /\ Before(rs, j, k)
            /\ Before(rs, k, j) => Before(rs, k, i) /\ Before(rs, i, j)
        BY <2>1, <2>4 DEF Ring, Turned
      <3>. QED BY <3>1, <2>1, <2>4, <1>1 DEF Before
    <2>. QED BY <2>3, <2>4, <1>1
  <1>. QED BY <1>5, <1>6, <1>8, <1>9, AppendProperties DEF Ring

\* Marking a run back keeps its place in the ring.
LEMMA RingMarked ==
    ASSUME NEW rs \in Seq(RunType), Ring(rs), NEW base
    PROVE  LET ts == Marked(rs, base)
           IN  /\ ts \in Seq(RunType) /\ Len(ts) = Len(rs) /\ Ring(ts)
               /\ \A i \in 1..Len(rs) : /\ ts[i].base = rs[i].base /\ ts[i].n = rs[i].n
                                        /\ rs[i].base # base => ts[i] = rs[i]
  <1>. DEFINE ts == Marked(rs, base)
              L == Len(rs)
  <1>1. L \in Nat /\ DOMAIN rs = 1..L OBVIOUS
  <1>2. ASSUME NEW i \in 1..L
        PROVE  /\ ts[i] \in RunType /\ ts[i].base = rs[i].base /\ ts[i].n = rs[i].n
               /\ rs[i].base # base => ts[i] = rs[i]
    <2>1. rs[i] \in RunType BY RunFields
    <2>2. ts[i] = rs[i] \/ ts[i] = [rs[i] EXCEPT !.back = TRUE] BY <1>1 DEF Marked
    <2>3. rs[i].base # base => ts[i] = rs[i] BY <1>1 DEF Marked, There
    <2>. QED BY <2>1, <2>2, <2>3 DEF RunType
  <1>3. ts = [i \in 1..L |-> ts[i]] BY <1>1 DEF Marked
  <1>4. ts \in Seq(RunType) /\ Len(ts) = L BY <1>1, <1>2, <1>3
  <1>5. \A i, j \in 1..L : Before(ts, i, j) <=> Before(rs, i, j) BY <1>2 DEF Before
  <1>6. InRange(ts) BY <1>2, <1>4 DEF Ring, InRange
  <1>7. Apart(ts) BY <1>4, <1>5 DEF Ring, Apart
  <1>8. Turned(ts) BY <1>4, <1>5 DEF Ring, Turned
  <1>. QED BY <1>2, <1>4, <1>6, <1>7, <1>8 DEF Ring

\* The runs left when a prefix leaves are still a ring.
LEMMA RingSuffix ==
    ASSUME NEW rs \in Seq(RunType), Ring(rs), NEW m \in 1..Len(rs) + 1
    PROVE  LET ts == SubSeq(rs, m, Len(rs))
           IN  /\ ts \in Seq(RunType) /\ Ring(ts)
               /\ \A i \in m..Len(rs) : \E j \in 1..Len(ts) : ts[j] = rs[i]
  <1>. DEFINE ts == SubSeq(rs, m, Len(rs))
              L == Len(rs)
  <1>1. L \in Nat /\ m \in Nat /\ m >= 1 /\ m <= L + 1 OBVIOUS
  <1>2. ts \in Seq(RunType)
    <2>1. \A i \in m..L : rs[i] \in RunType BY <1>1
    <2>. QED BY <2>1, <1>1, SubSeqProperties
  <1>3. Len(ts) = L - m + 1 /\ \A i \in 1..L - m + 1 : ts[i] = rs[m + i - 1]
    BY <1>1, SubSeqProperties
  <1>4. \A i \in 1..Len(ts) : m + i - 1 \in 1..L BY <1>1, <1>3
  <1>5. \A i, j \in 1..Len(ts) : Before(ts, i, j) <=> Before(rs, m + i - 1, m + j - 1)
    BY <1>3 DEF Before
  <1>6. InRange(ts) BY <1>3, <1>4 DEF Ring, InRange
  <1>7. Apart(ts)
    <2>. SUFFICES ASSUME NEW i \in 1..Len(ts), NEW j \in 1..Len(ts), i < j
                  PROVE  Before(ts, i, j) \/ Before(ts, j, i)
      BY DEF Apart
    <2>1. m + i - 1 \in 1..L /\ m + j - 1 \in 1..L /\ m + i - 1 < m + j - 1 BY <1>1, <1>3
    <2>. QED BY <2>1, <1>5 DEF Ring, Apart
  <1>8. Turned(ts)
    <2>. SUFFICES ASSUME NEW i \in 1..Len(ts), NEW j \in 1..Len(ts), NEW k \in 1..Len(ts), i < j, j < k
                  PROVE  /\ Before(ts, j, i) => Before(ts, k, i) /\ Before(ts, j, k)
                         /\ Before(ts, k, j) => Before(ts, k, i) /\ Before(ts, i, j)
      BY DEF Turned
    <2>1. /\ m + i - 1 \in 1..L /\ m + j - 1 \in 1..L /\ m + k - 1 \in 1..L
          /\ m + i - 1 < m + j - 1 /\ m + j - 1 < m + k - 1
      BY <1>1, <1>3
    <2>. DEFINE p == m + i - 1
                q == m + j - 1
                r == m + k - 1
    <2>2. /\ Before(rs, q, p) => Before(rs, r, p) /\ Before(rs, q, r)
          /\ Before(rs, r, q) => Before(rs, r, p) /\ Before(rs, p, q)
      BY <2>1 DEF Ring, Turned
    <2>. QED BY <2>2, <1>5
  <1>9. ASSUME NEW i \in m..L PROVE \E j \in 1..Len(ts) : ts[j] = rs[i]
    <2>1. i - m + 1 \in 1..Len(ts) /\ m + (i - m + 1) - 1 = i BY <1>1, <1>3
    <2>2. ts[i - m + 1] = rs[i] BY <2>1, <1>3
    <2>. QED BY <2>1, <2>2
  <1>. QED BY <1>2, <1>6, <1>7, <1>8, <1>9 DEF Ring

-----------------------------------------------------------------------------
\* A context starts with no run out.
LEMMA InitIInv == Init => IInv
  <1>. SUFFICES ASSUME Init PROVE IInv OBVIOUS
  <1>1. runs = <<>> /\ Len(runs) = 0 /\ \A k \in Slots : held[k] = [base |-> 0, n |-> 0]
    BY DEF Init, None
  <1>2. TypeOK BY SizeNat DEF TypeOK, Init, None
  <1>3. Ring(runs) BY <1>1 DEF Ring, InRange, Apart, Turned
  <1>4. Linked(runs, held) /\ Own(held) BY <1>1 DEF Linked, Own
  <1>. QED BY <1>2, <1>3, <1>4 DEF IInv

\* Forming a pass takes a run no pass holds.
LEMMA FormIInv ==
    ASSUME IInv, NEW k \in Slots, NEW n \in 1..PerPass, Form(k, n)
    PROVE  IInv'
  <1>1. CASE ~Fits(n)
    <2>1. runs' = <<>> /\ held' = [j \in Slots |-> None] BY <1>1 DEF Form
    <2>2. Len(runs') = 0 /\ \A j \in Slots : held'[j] = [base |-> 0, n |-> 0] BY <2>1 DEF None
    <2>3. TypeOK' BY <2>1, SizeNat DEF TypeOK, None
    <2>4. Ring(runs)' BY <2>2 DEF Ring, InRange, Apart, Turned
    <2>5. Linked(runs, held)' /\ Own(held)' BY <2>2 DEF Linked, Own
    <2>. QED BY <2>3, <2>4, <2>5 DEF IInv
  <1>2. CASE Fits(n)
    <2>. DEFINE b == Base(runs, n)
                new == [base |-> b, n |-> n, back |-> FALSE]
                L == Len(runs)
    <2>1. /\ runs' = Append(runs, new) /\ held' = [held EXCEPT ![k] = [base |-> b, n |-> n]]
          /\ b # Size /\ n \in Nat /\ n > 0
      BY <1>2, LogitRowsAssumption DEF Form, Fits
    <2>2. /\ runs \in Seq(RunType) /\ held \in [Slots -> [base : 0..Size, n : 0..Size]]
          /\ Ring(runs) /\ Linked(runs, held) /\ Own(held)
      BY DEF IInv, TypeOK
    <2>3. new \in RunType /\ runs' \in Seq(RunType) /\ Ring(runs')
      <3>. HIDE DEF b
      <3>1. new = [base |-> b, n |-> n, back |-> FALSE] OBVIOUS
      <3>. QED BY <2>1, <2>2, <3>1, RingAppend DEF b
    <2>4. /\ L \in Nat /\ Len(runs') = L + 1 /\ \A i \in 1..L : runs'[i] = runs[i]
          /\ runs'[L + 1] = new
      BY <2>1, <2>2
    <2>5. b \in 0..Size - 1 /\ n \in 1..Size BY <2>3 DEF RunType
    <2>6. /\ held'[k].base = b /\ held'[k].n = n
          /\ \A l \in Slots : l # k => held'[l] = held[l]
      BY <2>1, <2>2
    <2>7. TypeOK'
      <3>1. [base |-> b, n |-> n] \in [base : 0..Size, n : 0..Size] BY <2>5, SizeNat
      <3>. QED BY <3>1, <2>1, <2>2, <2>3 DEF TypeOK
    <2>8. Linked(runs', held')
      <3>. SUFFICES ASSUME NEW l \in Slots, held'[l].n > 0
                    PROVE  \E i \in 1..Len(runs') : /\ runs'[i].base = held'[l].base
                                                  /\ runs'[i].n = held'[l].n /\ ~runs'[i].back
        BY DEF Linked
      <3>1. CASE l = k
        <4>1. L + 1 \in 1..Len(runs') BY <2>4
        <4>2. runs'[L + 1].base = b /\ runs'[L + 1].n = n /\ ~runs'[L + 1].back BY <2>4
        <4>. QED BY <3>1, <4>1, <4>2, <2>6
      <3>2. CASE l # k
        <4>1. PICK i \in 1..L : runs[i].base = held[l].base /\ runs[i].n = held[l].n /\ ~runs[i].back
          BY <3>2, <2>2, <2>6 DEF Linked
        <4>2. i \in 1..Len(runs') BY <2>4
        <4>. QED BY <4>1, <4>2, <3>2, <2>4, <2>6
      <3>. QED BY <3>1, <3>2
    \* Another pass's run was in the queue, and the new one is apart from it.
    <2>9. ASSUME NEW l \in Slots, l # k, held'[l].n > 0 PROVE held'[l].base # b
      <3>1. PICK i \in 1..L : runs[i].base = held[l].base /\ runs[i].n = held[l].n
        BY <2>2, <2>6, <2>9 DEF Linked
      <3>2. i \in 1..L + 1 /\ L + 1 \in 1..L + 1 /\ i < L + 1 BY <2>4
      <3>3. Before(runs', i, L + 1) \/ Before(runs', L + 1, i) BY <3>2, <2>3, <2>4 DEF Ring, Apart
      <3>4. runs[i].base + runs[i].n <= b \/ b + n <= runs[i].base BY <3>3, <2>4 DEF Before
      <3>5. runs[i].base \in Nat /\ runs[i].n \in Nat /\ runs[i].n > 0 BY <2>2, RunFields
      <3>. QED BY <3>1, <3>4, <3>5, <2>1, <2>5, <2>6, <2>9
    <2>10. Own(held') BY <2>2, <2>6, <2>9 DEF Own
    <2>. QED BY <2>3, <2>7, <2>8, <2>10 DEF IInv
  <1>. QED BY <1>1, <1>2

\* Giving a pass's run back leaves every other pass's where it is.
LEMMA GiveIInv ==
    ASSUME IInv, NEW k \in Slots, Give(k)
    PROVE  IInv'
  <1>. DEFINE ms == Marked(runs, held[k].base)
              L == Len(runs)
  <1>1. /\ runs \in Seq(RunType) /\ held \in [Slots -> [base : 0..Size, n : 0..Size]]
        /\ Ring(runs) /\ Linked(runs, held) /\ Own(held) /\ L \in Nat
    BY DEF IInv, TypeOK
  <1>2. held[k].n > 0 /\ held' = [held EXCEPT ![k] = None] BY DEF Give
  <1>3. PICK m \in 1..L + 1 : Front(ms, m) /\ runs' = SubSeq(ms, m, L) BY DEF Give
  <1>4. /\ ms \in Seq(RunType) /\ Len(ms) = L /\ Ring(ms)
        /\ \A i \in 1..L : runs[i].base # held[k].base => ms[i] = runs[i]
    BY <1>1, RingMarked
  <1>. HIDE DEF ms
  <1>5. /\ runs' \in Seq(RunType) /\ Ring(runs')
        /\ \A i \in m..L : \E j \in 1..Len(runs') : runs'[j] = ms[i]
    <2>. DEFINE ns == SubSeq(ms, m, Len(ms))
    <2>1. m \in 1..Len(ms) + 1 /\ runs' = ns BY <1>3, <1>4
    <2>2. /\ ns \in Seq(RunType) /\ Ring(ns)
          /\ \A i \in m..Len(ms) : \E j \in 1..Len(ns) : ns[j] = ms[i]
      BY <1>4, <2>1, RingSuffix
    <2>. QED BY <2>1, <2>2, <1>4
  <1>6. held'[k].n = 0 /\ \A l \in Slots : l # k => held'[l] = held[l] BY <1>1, <1>2 DEF None
  <1>7. TypeOK'
    <2>1. None \in [base : 0..Size, n : 0..Size] BY SizeNat DEF None
    <2>. QED BY <2>1, <1>1, <1>2, <1>5 DEF TypeOK
  <1>8. Own(held') BY <1>1, <1>6 DEF Own
  <1>9. Linked(runs', held')
    <2>. SUFFICES ASSUME NEW l \in Slots, held'[l].n > 0
                  PROVE  \E j \in 1..Len(runs') : /\ runs'[j].base = held'[l].base
                                                /\ runs'[j].n = held'[l].n /\ ~runs'[j].back
      BY DEF Linked
    <2>1. l # k /\ held'[l] = held[l] BY <1>6
    <2>2. PICK i \in 1..L : runs[i].base = held[l].base /\ runs[i].n = held[l].n /\ ~runs[i].back
      BY <1>1, <2>1 DEF Linked
    <2>3. held[l].base # held[k].base BY <1>1, <1>2, <2>1 DEF Own
    <2>4. ms[i] = runs[i] BY <1>4, <2>2, <2>3
    <2>5. i \in m..L
      <3>1. ~(i \in 1..m - 1) BY <1>3, <2>2, <2>4 DEF Front
      <3>. QED BY <3>1, <1>1
    <2>6. PICK j \in 1..Len(runs') : runs'[j] = ms[i] BY <1>5, <2>5
    <2>. QED BY <2>1, <2>2, <2>4, <2>6
  <1>. QED BY <1>5, <1>7, <1>8, <1>9 DEF IInv

\* The ring, and each pass's run in it, in every state.
THEOREM LogitRowsInvariant == Spec => []IInv
  <1>1. IInv /\ [Next]_vars => IInv'
    <2>. SUFFICES ASSUME IInv, [Next]_vars PROVE IInv' OBVIOUS
    <2>1. ASSUME NEW k \in Slots, Give(k) PROVE IInv' BY <2>1, GiveIInv
    <2>2. ASSUME NEW k \in Slots, NEW n \in 1..PerPass, Form(k, n) PROVE IInv' BY <2>2, FormIInv
    <2>3. CASE UNCHANGED vars BY <2>3 DEF vars, IInv, TypeOK, Ring, InRange, Apart, Turned, Before, Linked, Own
    <2>. QED BY <2>1, <2>2, <2>3 DEF Next
  <1>. QED BY <1>1, InitIInv, PTL DEF Spec

\* The queue holds runs of the reserved rows, whatever the slots and rows.
THEOREM LogitRowsTypeOK == Spec => []TypeOK
  <1>1. IInv => TypeOK BY DEF IInv
  <1>. QED BY <1>1, LogitRowsInvariant, PTL

\* No two passes in flight write one logits row, in whatever order passes
\* retire and are abandoned (take_rows, give_rows).
THEOREM LogitRowsOwnRows == Spec => []OwnRows
  <1>1. IInv => OwnRows
    <2>. SUFFICES ASSUME IInv, NEW k \in Slots, NEW l \in Slots, held[k].n > 0
                  PROVE  /\ held[k].base + held[k].n <= Size
                         /\ k # l /\ held[l].n > 0 =>
                               \/ held[k].base + held[k].n <= held[l].base
                               \/ held[l].base + held[l].n <= held[k].base
      BY DEF OwnRows
    <2>. DEFINE L == Len(runs)
    <2>1. runs \in Seq(RunType) /\ Ring(runs) /\ Linked(runs, held) /\ Own(held) /\ L \in Nat
      BY DEF IInv, TypeOK
    <2>2. PICK i \in 1..L : runs[i].base = held[k].base /\ runs[i].n = held[k].n
      BY <2>1 DEF Linked
    <2>3. held[k].base + held[k].n <= Size BY <2>1, <2>2 DEF Ring, InRange
    <2>4. ASSUME k # l, held[l].n > 0
          PROVE  \/ held[k].base + held[k].n <= held[l].base
                 \/ held[l].base + held[l].n <= held[k].base
      <3>1. PICK j \in 1..L : runs[j].base = held[l].base /\ runs[j].n = held[l].n
        BY <2>1, <2>4 DEF Linked
      <3>2. i # j BY <2>1, <2>2, <2>4, <3>1 DEF Own
      <3>3. i < j \/ j < i BY <3>2
      <3>4. Before(runs, i, j) \/ Before(runs, j, i) BY <2>1, <3>3 DEF Ring, Apart
      <3>. QED BY <2>2, <3>1, <3>4 DEF Before
    <2>. QED BY <2>3, <2>4
  <1>. QED BY <1>1, LogitRowsInvariant, PTL

-----------------------------------------------------------------------------
\* The runs of one turn around the rows leave no row between them free.
Filled(rs) == \A i, j \in 1..Len(rs) : i <= j /\ ~Before(rs, j, i) =>
    \A row \in rs[i].base..rs[j].base + rs[j].n - 1 : \E k \in i..j : In(rs, k, row)
\* A turn leaves fewer rows at the end than the run that begins it wants.
Wasted(rs) == \A i, j \in 1..Len(rs) : i < j /\ Before(rs, j, i) =>
    \E t \in i..j - 1 : /\ ~Before(rs, t, i) /\ rs[t + 1].base = 0
                        /\ Size - (rs[t].base + rs[t].n) < rs[t + 1].n
Packed(rs) == Filled(rs) /\ Wasted(rs)

\* A run that is not back is a pass's, and the oldest is not back.
Answered(rs, h) == \A i \in 1..Len(rs) : ~rs[i].back => \E k \in Slots : h[k].n > 0 /\ h[k].base = rs[i].base
FrontOut(rs) == rs # <<>> => ~rs[1].back

QInv == Packed(runs) /\ Answered(runs, held) /\ FrontOut(runs)

\* A run taken leaves no row between it and the newest, or turns around the end (take_rows).
LEMMA PackedAppend ==
    ASSUME NEW rs \in Seq(RunType), Ring(rs), Packed(rs), NEW n \in Nat, n > 0, Base(rs, n) # Size,
           NEW new, new = [base |-> Base(rs, n), n |-> n, back |-> FALSE]
    PROVE  Packed(Append(rs, new))
  <1>. DEFINE b == Base(rs, n)
              L == Len(rs)
              ts == Append(rs, new)
  <1>1. /\ L \in Nat /\ Len(ts) = L + 1 /\ \A i \in 1..L : ts[i] = rs[i]
        /\ ts[L + 1] = new /\ 1..L + 1 = 1..L \cup {L + 1}
    OBVIOUS
  <1>2. new.base = b /\ new.n = n OBVIOUS
  <1>3. \A i \in 1..L : /\ rs[i].base \in Nat /\ rs[i].n \in Nat /\ rs[i].n > 0
                        /\ rs[i].base + rs[i].n <= Size
    BY RunFields DEF Ring, InRange
  <1>4. b \in Nat /\ ts \in Seq(RunType) /\ Ring(ts)
    <2>1. new \in RunType /\ ts \in Seq(RunType) /\ Ring(ts) BY RingAppend
    <2>. QED BY <2>1, <1>2, SizeNat DEF RunType
  <1>5. \A i, j \in 1..L : /\ Before(ts, i, j) <=> Before(rs, i, j)
                           /\ \A row : In(ts, i, row) <=> In(rs, i, row)
    BY <1>1 DEF Before, In
  \* Where the new run goes.
  <1>6. L > 0 => L \in 1..L /\ \/ b = rs[L].base + rs[L].n
                               \/ /\ b = 0 /\ Size - (rs[L].base + rs[L].n) < n
                                  /\ \A i \in 1..L : n <= rs[i].base /\ ~Before(rs, L, i)
    <2>. SUFFICES ASSUME L > 0 PROVE /\ L \in 1..L
                                     /\ \/ b = rs[L].base + rs[L].n
                                        \/ /\ b = 0 /\ Size - (rs[L].base + rs[L].n) < n
                                           /\ \A i \in 1..L : n <= rs[i].base /\ ~Before(rs, L, i)
      OBVIOUS
    <2>1. rs # <<>> /\ L \in 1..L BY <1>1
    <2>2. CASE b = rs[L].base + rs[L].n BY <2>1, <2>2
    <2>3. CASE b # rs[L].base + rs[L].n
      <3>1. TailRow(rs) < HeadRow(rs) /\ ~(n <= Size - HeadRow(rs)) /\ n <= TailRow(rs) /\ b = 0
        BY <2>1, <2>3 DEF Base, HeadRow
      <3>2. \A i \in 1..L : TailRow(rs) <= rs[i].base /\ rs[i].base + rs[i].n <= HeadRow(rs)
        BY <2>1, <3>1, Straight
      <3>3. HeadRow(rs) = rs[L].base + rs[L].n /\ TailRow(rs) \in Nat /\ HeadRow(rs) \in Nat
        BY <2>1, Ends DEF HeadRow, Ring
      <3>4. Size - (rs[L].base + rs[L].n) < n BY <3>1, <3>3, SizeNat
      <3>5. ASSUME NEW i \in 1..L PROVE n <= rs[i].base /\ ~Before(rs, L, i)
        <4>1. TailRow(rs) <= rs[i].base /\ rs[i].base + rs[i].n <= HeadRow(rs) BY <3>2
        <4>2. rs[i].base \in Nat /\ rs[i].n \in Nat /\ rs[i].n > 0 BY <1>3
        <4>. QED BY <4>1, <4>2, <3>1, <3>3 DEF Before
      <3>. QED BY <2>1, <3>1, <3>4, <3>5
    <2>. QED BY <2>2, <2>3
  <1>7. \A i \in 1..L : Before(ts, i, L + 1) \/ Before(ts, L + 1, i)
    <2>1. \A i \in 1..L : i \in 1..Len(ts) /\ L + 1 \in 1..Len(ts) /\ i < L + 1 BY <1>1
    <2>. QED BY <2>1, <1>4 DEF Ring, Apart
  <1>. HIDE DEF b, ts
  <1>8. Filled(ts)
    <2>. SUFFICES ASSUME NEW i \in 1..L + 1, NEW j \in 1..L + 1, i <= j, ~Before(ts, j, i),
                         NEW row \in ts[i].base..ts[j].base + ts[j].n - 1
                  PROVE  \E k \in i..j : In(ts, k, row)
      BY <1>1 DEF Filled
    <2>1. CASE j \in 1..L
      <3>1. i \in 1..L BY <2>1, <1>1
      <3>2. ~Before(rs, j, i) /\ row \in rs[i].base..rs[j].base + rs[j].n - 1 BY <2>1, <3>1, <1>1, <1>5
      <3>3. PICK k \in i..j : In(rs, k, row) BY <3>1, <3>2, <2>1 DEF Packed, Filled
      <3>4. k \in 1..L BY <2>1, <3>1, <1>1
      <3>. QED BY <3>3, <3>4, <1>5
    <2>2. CASE j = L + 1 /\ i = L + 1
      <3>1. In(ts, i, row) BY <2>2, <1>1, <1>2, <1>4 DEF In
      <3>. QED BY <3>1, <2>2, <1>1
    <2>3. CASE j = L + 1 /\ i \in 1..L
      <3>1. L > 0 /\ L \in 1..L BY <2>3, <1>1
      <3>2. Before(ts, i, L + 1) BY <2>3, <1>7
      <3>3. rs[i].base + rs[i].n <= b BY <3>2, <2>3, <1>1, <1>2 DEF Before
      <3>4. b = rs[L].base + rs[L].n BY <3>1, <3>3, <1>3, <1>4, <1>6, <2>3
      <3>5. CASE row < b
        <4>1. ~Before(rs, L, i) BY <3>3, <3>4, <1>3, <2>3, <3>1 DEF Before
        <4>2. row \in rs[i].base..rs[L].base + rs[L].n - 1
          <5>1. ts[i] = rs[i] /\ rs[i].base \in Nat /\ rs[L].base \in Nat /\ rs[L].n \in Nat
            BY <2>3, <3>1, <1>1, <1>3
          <5>2. row \in Int /\ rs[i].base <= row BY <5>1, <1>4
          <5>. QED BY <5>1, <5>2, <3>4, <3>5
        <4>3. PICK k \in i..L : In(rs, k, row) BY <4>1, <4>2, <2>3, <3>1 DEF Packed, Filled
        <4>4. k \in 1..L /\ k \in i..L + 1 BY <2>3, <1>1
        <4>. QED BY <4>3, <4>4, <1>5, <2>3
      <3>6. CASE ~(row < b)
        <4>1. row \in Int /\ row <= b + n - 1 BY <2>3, <1>1, <1>2, <1>3, <1>4
        <4>2. In(ts, L + 1, row) BY <3>6, <4>1, <1>1, <1>2, <1>4 DEF In
        <4>3. L + 1 \in i..L + 1 BY <2>3, <1>1
        <4>. QED BY <4>2, <4>3, <2>3
      <3>. QED BY <3>5, <3>6
    <2>. QED BY <2>1, <2>2, <2>3, <1>1
  <1>9. Wasted(ts)
    <2>. SUFFICES ASSUME NEW i \in 1..L + 1, NEW j \in 1..L + 1, i < j, Before(ts, j, i)
                  PROVE  \E t \in i..j - 1 : /\ ~Before(ts, t, i) /\ ts[t + 1].base = 0
                                             /\ Size - (ts[t].base + ts[t].n) < ts[t + 1].n
      BY <1>1 DEF Wasted
    <2>1. i \in 1..L /\ L > 0 /\ L \in 1..L BY <1>1
    <2>2. CASE j \in 1..L /\ Before(rs, j, i)
      <3>1. PICK t \in i..j - 1 : /\ ~Before(rs, t, i) /\ rs[t + 1].base = 0
                                  /\ Size - (rs[t].base + rs[t].n) < rs[t + 1].n
        BY <2>1, <2>2 DEF Packed, Wasted
      <3>2. t \in 1..L /\ t + 1 \in 1..L BY <2>1, <2>2, <1>1
      <3>. QED BY <3>1, <3>2, <2>1, <1>1, <1>5
    <2>3. CASE j = L + 1 /\ Before(rs, L, i) /\ i # L
      <3>1. PICK t \in i..L - 1 : /\ ~Before(rs, t, i) /\ rs[t + 1].base = 0
                                  /\ Size - (rs[t].base + rs[t].n) < rs[t + 1].n
        BY <2>1, <2>3 DEF Packed, Wasted
      <3>2. t \in 1..L /\ t + 1 \in 1..L /\ t \in i..j - 1 BY <2>1, <2>3, <1>1
      <3>. QED BY <3>1, <3>2, <2>1, <1>1, <1>5
    <2>4. CASE j = L + 1 /\ ~Before(rs, L, i)
      <3>1. b + n <= rs[i].base BY <2>1, <2>4, <1>1, <1>2 DEF Before
      <3>2. b # rs[L].base + rs[L].n
        <4>1. rs[L].base + rs[L].n <= rs[i].base \/ b # rs[L].base + rs[L].n
          BY <3>1, <1>3, <1>4, <2>1
        <4>. QED BY <4>1, <2>4 DEF Before
      <3>3. b = 0 /\ Size - (rs[L].base + rs[L].n) < n BY <3>2, <1>6, <2>1
      <3>4. L \in i..j - 1 /\ ts[L] = rs[L] /\ ts[L + 1].base = b /\ ts[L + 1].n = n
        BY <2>1, <2>4, <1>1, <1>2
      <3>5. ~Before(ts, L, i) BY <2>1, <2>4, <1>5
      <3>. QED BY <3>3, <3>4, <3>5
    <2>5. ~Before(rs, L, L) BY <2>1, <1>3 DEF Before
    <2>6. j \in 1..L => Before(rs, j, i) BY <2>1, <1>5
    <2>. QED BY <2>2, <2>3, <2>4, <2>5, <2>6, <1>1
  <1>. QED BY <1>8, <1>9 DEF Packed, ts

\* Runs in their places, or a suffix of them, are packed as they were.
LEMMA PackedPart ==
    ASSUME NEW rs, NEW ts, Packed(rs), Len(rs) \in Nat, NEW d \in Nat, Len(ts) \in Nat, Len(ts) + d <= Len(rs),
           \A i \in 1..Len(ts) : ts[i].base = rs[i + d].base /\ ts[i].n = rs[i + d].n
    PROVE  Packed(ts)
  <1>. DEFINE L == Len(ts)
  <1>1. \A i \in 1..L : i + d \in 1..Len(rs) OBVIOUS
  <1>2. \A i, j \in 1..L : Before(ts, i, j) <=> Before(rs, i + d, j + d) BY DEF Before
  <1>3. \A i \in 1..L : \A row : In(ts, i, row) <=> In(rs, i + d, row) BY DEF In
  <1>4. Filled(ts)
    <2>. SUFFICES ASSUME NEW i \in 1..L, NEW j \in 1..L, i <= j, ~Before(ts, j, i),
                         NEW row \in ts[i].base..ts[j].base + ts[j].n - 1
                  PROVE  \E k \in i..j : In(ts, k, row)
      BY DEF Filled
    <2>1. i + d \in 1..Len(rs) /\ j + d \in 1..Len(rs) /\ i + d <= j + d /\ ~Before(rs, j + d, i + d)
      BY <1>1, <1>2
    <2>2. row \in rs[i + d].base..rs[j + d].base + rs[j + d].n - 1 OBVIOUS
    <2>3. PICK k \in i + d..j + d : In(rs, k, row) BY <2>1, <2>2 DEF Packed, Filled
    <2>4. k - d \in i..j /\ k - d \in 1..L /\ (k - d) + d = k OBVIOUS
    <2>5. In(ts, k - d, row) BY <2>3, <2>4, <1>3
    <2>. QED BY <2>4, <2>5
  <1>5. Wasted(ts)
    <2>. SUFFICES ASSUME NEW i \in 1..L, NEW j \in 1..L, i < j, Before(ts, j, i)
                  PROVE  \E t \in i..j - 1 : /\ ~Before(ts, t, i) /\ ts[t + 1].base = 0
                                             /\ Size - (ts[t].base + ts[t].n) < ts[t + 1].n
      BY DEF Wasted
    <2>1. i + d \in 1..Len(rs) /\ j + d \in 1..Len(rs) /\ i + d < j + d /\ Before(rs, j + d, i + d)
      BY <1>1, <1>2
    <2>2. PICK t \in i + d..(j + d) - 1 : /\ ~Before(rs, t, i + d) /\ rs[t + 1].base = 0
                                          /\ Size - (rs[t].base + rs[t].n) < rs[t + 1].n
      BY <2>1 DEF Packed, Wasted
    <2>3. /\ t - d \in i..j - 1 /\ t - d \in 1..L /\ (t - d) + 1 \in 1..L
          /\ (t - d) + d = t /\ ((t - d) + 1) + d = t + 1
      OBVIOUS
    <2>4. ~Before(ts, t - d, i) BY <2>2, <2>3, <1>2
    <2>5. /\ ts[t - d].base = rs[t].base /\ ts[t - d].n = rs[t].n
          /\ ts[(t - d) + 1].base = rs[t + 1].base /\ ts[(t - d) + 1].n = rs[t + 1].n
      BY <2>3
    <2>. QED BY <2>2, <2>3, <2>4, <2>5
  <1>. QED BY <1>4, <1>5 DEF Packed

\* The queue is empty at the start.
LEMMA NoRuns == ASSUME runs = <<>> PROVE QInv
  <1>1. Len(runs) = 0 OBVIOUS
  <1>. QED BY <1>1 DEF QInv, Packed, Filled, Wasted, Answered, FrontOut

\* Forming a pass queues a run that is its own.
LEMMA FormQueue ==
    ASSUME IInv, QInv, NEW k \in Slots, NEW n \in 1..PerPass, Form(k, n)
    PROVE  QInv'
  <1>1. CASE ~Fits(n)
    <2>1. runs' = <<>> BY <1>1 DEF Form
    <2>2. Len(runs') = 0 BY <2>1
    <2>. QED BY <2>1, <2>2 DEF QInv, Packed, Filled, Wasted, Answered, FrontOut
  <1>2. CASE Fits(n)
    <2>. DEFINE b == Base(runs, n)
                new == [base |-> b, n |-> n, back |-> FALSE]
                L == Len(runs)
    <2>1. /\ runs' = Append(runs, new) /\ held' = [held EXCEPT ![k] = [base |-> b, n |-> n]]
          /\ b # Size /\ n \in Nat /\ n > 0 /\ held[k].n = 0
      BY <1>2, LogitRowsAssumption DEF Form, Fits
    <2>2. runs \in Seq(RunType) /\ held \in [Slots -> [base : 0..Size, n : 0..Size]] /\ Ring(runs)
      BY DEF IInv, TypeOK
    <2>3. Packed(runs')
      <3>. HIDE DEF b
      <3>1. new = [base |-> b, n |-> n, back |-> FALSE] OBVIOUS
      <3>. QED BY <2>1, <2>2, <3>1, PackedAppend DEF b, QInv
    <2>4. /\ L \in Nat /\ Len(runs') = L + 1 /\ \A i \in 1..L : runs'[i] = runs[i]
          /\ runs'[L + 1] = new
      BY <2>1, <2>2
    <2>5. /\ held'[k].base = b /\ held'[k].n = n
          /\ \A l \in Slots : l # k => held'[l] = held[l]
      BY <2>1, <2>2
    <2>6. Answered(runs', held')
      <3>. SUFFICES ASSUME NEW i \in 1..L + 1, ~runs'[i].back
                    PROVE  \E l \in Slots : held'[l].n > 0 /\ held'[l].base = runs'[i].base
        BY <2>4 DEF Answered
      <3>1. CASE i = L + 1 BY <3>1, <2>1, <2>4, <2>5
      <3>2. CASE i \in 1..L
        <4>1. PICK l \in Slots : held[l].n > 0 /\ held[l].base = runs[i].base
          BY <3>2, <2>4 DEF QInv, Answered
        <4>2. l # k BY <4>1, <2>1
        <4>. QED BY <4>1, <4>2, <3>2, <2>4, <2>5
      <3>. QED BY <3>1, <3>2, <2>4
    <2>7. FrontOut(runs')
      <3>1. CASE L = 0 BY <3>1, <2>4 DEF FrontOut
      <3>2. CASE L # 0
        <4>1. runs # <<>> /\ 1 \in 1..L BY <3>2, <2>2
        <4>2. ~runs[1].back BY <4>1 DEF FrontOut, QInv
        <4>3. runs'[1] = runs[1] BY <4>1, <2>4
        <4>. QED BY <4>2, <4>3 DEF FrontOut
      <3>. QED BY <3>1, <3>2
    <2>. QED BY <2>3, <2>6, <2>7 DEF QInv
  <1>. QED BY <1>1, <1>2

\* Giving a run back leaves every run out with its own pass, and one that is out at the front.
LEMMA GiveQueue ==
    ASSUME IInv, QInv, NEW k \in Slots, Give(k)
    PROVE  QInv'
  <1>. DEFINE ms == Marked(runs, held[k].base)
              L == Len(runs)
  <1>1. /\ runs \in Seq(RunType) /\ held \in [Slots -> [base : 0..Size, n : 0..Size]]
        /\ Ring(runs) /\ Linked(runs, held) /\ L \in Nat
    BY DEF IInv, TypeOK
  <1>2. held[k].n > 0 /\ held' = [held EXCEPT ![k] = None] BY DEF Give
  <1>3. PICK m \in 1..L + 1 : Front(ms, m) /\ runs' = SubSeq(ms, m, L) BY DEF Give
  <1>4. /\ ms \in Seq(RunType) /\ Len(ms) = L
        /\ \A i \in 1..L : /\ ms[i].base = runs[i].base /\ ms[i].n = runs[i].n
                           /\ runs[i].base # held[k].base => ms[i] = runs[i]
    BY <1>1, RingMarked
  \* No two runs begin at one row.
  <1>5. ASSUME NEW i \in 1..L, NEW j \in 1..L, runs[i].base = runs[j].base PROVE i = j
    <2>1. /\ runs[i].base \in Nat /\ runs[i].n \in Nat /\ runs[i].n > 0
          /\ runs[j].base \in Nat /\ runs[j].n \in Nat /\ runs[j].n > 0
      BY <1>1, RunFields
    <2>2. ~Before(runs, i, j) /\ ~Before(runs, j, i) BY <2>1, <1>5 DEF Before
    <2>. QED BY <2>2, <1>1 DEF Ring, Apart
  \* The pass's run is marked.
  <1>6. ASSUME NEW i \in 1..L, runs[i].base = held[k].base PROVE ms[i].back
    <2>1. There(runs, held[k].base) \subseteq {i} BY <1>1, <1>5, <1>6 DEF There
    <2>2. PICK j \in 1..L : runs[j].base = held[k].base /\ ~runs[j].back BY <1>1, <1>2 DEF Linked
    <2>3. i = j BY <1>5, <1>6, <2>2
    <2>4. i \in There(runs, held[k].base) BY <2>2, <2>3, <1>1 DEF There
    <2>5. ms[i] = [runs[i] EXCEPT !.back = TRUE]
      <3>1. \A l \in There(runs, held[k].base) : i <= l BY <2>1
      <3>2. i \in DOMAIN runs BY <1>1
      <3>. QED BY <3>1, <3>2, <2>4 DEF Marked
    <2>6. runs[i] \in RunType BY <1>1
    <2>. QED BY <2>5, <2>6 DEF RunType
  <1>. HIDE DEF ms
  <1>7. /\ m \in Nat /\ m >= 1 /\ m <= L + 1
        /\ Len(runs') = L - m + 1 /\ \A i \in 1..L - m + 1 : runs'[i] = ms[m + i - 1]
    <2>1. m \in Nat /\ m >= 1 /\ m <= L + 1 BY <1>1
    <2>2. \A i \in m..L : ms[i] \in RunType BY <1>4, <2>1, <1>1
    <2>. QED BY <2>1, <2>2, <1>1, <1>3, <1>4, SubSeqProperties
  <1>8. Packed(runs')
    <2>1. \A i \in 1..Len(runs') : /\ runs'[i].base = runs[i + (m - 1)].base
                                   /\ runs'[i].n = runs[i + (m - 1)].n
      <3>. SUFFICES ASSUME NEW i \in 1..Len(runs')
                    PROVE  runs'[i].base = runs[i + (m - 1)].base /\ runs'[i].n = runs[i + (m - 1)].n
        OBVIOUS
      <3>1. runs'[i] = ms[m + i - 1] /\ m + i - 1 = i + (m - 1) /\ i + (m - 1) \in 1..L BY <1>7, <1>1
      <3>. QED BY <3>1, <1>4
    <2>2. m - 1 \in Nat /\ Len(runs') \in Nat /\ Len(runs') + (m - 1) <= Len(runs) BY <1>7, <1>1
    <2>3. Packed(runs) BY DEF QInv
    <2>. QED BY <2>1, <2>2, <2>3, <1>1, PackedPart
  <1>9. held'[k].n = 0 /\ \A l \in Slots : l # k => held'[l] = held[l] BY <1>1, <1>2 DEF None
  <1>10. Answered(runs', held')
    <2>. SUFFICES ASSUME NEW i \in 1..Len(runs'), ~runs'[i].back
                  PROVE  \E l \in Slots : held'[l].n > 0 /\ held'[l].base = runs'[i].base
      BY DEF Answered
    <2>. DEFINE j == m + i - 1
    <2>1. runs'[i] = ms[j] /\ j \in 1..L BY <1>7, <1>1
    <2>. HIDE DEF j
    <2>2. runs[j].base # held[k].base BY <2>1, <1>6
    <2>3. ms[j] = runs[j] BY <2>1, <2>2, <1>4
    <2>4. PICK l \in Slots : held[l].n > 0 /\ held[l].base = runs[j].base
      BY <2>1, <2>3 DEF QInv, Answered
    <2>5. l # k BY <2>2, <2>4
    <2>. QED BY <2>1, <2>3, <2>4, <2>5, <1>9
  <1>11. FrontOut(runs')
    <2>. SUFFICES ASSUME runs' # <<>> PROVE ~runs'[1].back BY DEF FrontOut
    <2>1. runs' \in Seq(RunType)
      <3>1. IInv' BY GiveIInv
      <3>. QED BY <3>1 DEF IInv, TypeOK
    <2>2. Len(runs') # 0 BY <2>1
    <2>3. m <= L /\ runs'[1] = ms[m] BY <2>2, <1>7, <1>1
    <2>. QED BY <2>3, <1>3, <1>4 DEF Front
  <1>. QED BY <1>8, <1>10, <1>11 DEF QInv

\* The rows in the queue's runs are no fewer than those from the oldest run's first, one turn around, to the newest's last.
LEMMA RowsCovered ==
    ASSUME NEW C, C \subseteq 0..Size - 1, NEW a \in Nat, NEW b \in Nat, NEW d \in Nat,
           b <= Size, d <= a, a <= b, a..b - 1 \subseteq C, 0..d - 1 \subseteq C
    PROVE  IsFiniteSet(C) /\ Cardinality(C) \in Nat /\ Cardinality(C) >= (b - a) + d
  <1>1. IsFiniteSet(0..Size - 1) BY FS_Interval, SizeNat
  <1>2. IsFiniteSet(C) BY <1>1, FS_Subset
  <1>3. Cardinality(C) \in Nat BY <1>2, FS_CardinalityType
  <1>. DEFINE X == a..b - 1
              Y == 0..d - 1
  <1>4. IsFiniteSet(X) /\ Cardinality(X) = b - a
    <2>1. a \in Int /\ b - 1 \in Int OBVIOUS
    <2>2. IsFiniteSet(X) /\ Cardinality(X) = IF a > b - 1 THEN 0 ELSE (b - 1) - a + 1 BY <2>1, FS_Interval
    <2>. QED BY <2>2
  <1>5. IsFiniteSet(Y) /\ Cardinality(Y) = d
    <2>1. 0 \in Int /\ d - 1 \in Int OBVIOUS
    <2>2. IsFiniteSet(Y) /\ Cardinality(Y) = IF 0 > d - 1 THEN 0 ELSE (d - 1) - 0 + 1 BY <2>1, FS_Interval
    <2>. QED BY <2>2
  <1>6. X \cap Y = {} OBVIOUS
  <1>7. X \cup Y \subseteq C OBVIOUS
  <1>. HIDE DEF X, Y
  <1>8. Cardinality(X \cup Y) = (b - a) + d
    <2>1. Cardinality(X \cup Y) = Cardinality(X) + Cardinality(Y) - Cardinality({})
      BY <1>4, <1>5, <1>6, FS_Union
    <2>2. Cardinality({}) = 0 BY FS_EmptySet
    <2>. QED BY <2>1, <2>2, <1>4, <1>5
  <1>9. Cardinality(X \cup Y) <= Cardinality(C) BY <1>2, <1>7, FS_Subset
  <1>. QED BY <1>2, <1>3, <1>8, <1>9

\* A run that wants no more than half the rows, with those the queue's runs lie in, fits (take_rows).
LEMMA HalfFits ==
    ASSUME NEW rs \in Seq(RunType), Ring(rs), Packed(rs), NEW n \in Nat, n > 0,
           NEW C, C = {row \in 0..Size - 1 : \E i \in DOMAIN rs : In(rs, i, row)},
           2 * (n + Cardinality(C)) <= Size
    PROVE  Base(rs, n) # Size
  <1>. DEFINE L == Len(rs)
  <1>1. C \subseteq 0..Size - 1 /\ L \in Nat /\ DOMAIN rs = 1..L OBVIOUS
  <1>2. \A i \in 1..L : /\ rs[i].base \in Nat /\ rs[i].n \in Nat /\ rs[i].n > 0
                        /\ rs[i].base + rs[i].n <= Size
    BY RunFields DEF Ring, InRange
  <1>3. ASSUME NEW i \in 1..L, NEW j \in 1..L, i <= j, ~Before(rs, j, i)
        PROVE  rs[i].base..(rs[j].base + rs[j].n) - 1 \subseteq C
    <2>. SUFFICES ASSUME NEW row \in rs[i].base..(rs[j].base + rs[j].n) - 1 PROVE row \in C OBVIOUS
    <2>1. PICK k \in i..j : In(rs, k, row)
      <3>1. /\ rs[i].base \in Nat /\ rs[j].base \in Nat /\ rs[j].n \in Nat
            /\ row \in rs[i].base..rs[j].base + rs[j].n - 1
        BY <1>2
      <3>. QED BY <3>1, <1>3 DEF Packed, Filled
    <2>2. k \in 1..L BY <1>1
    <2>3. /\ rs[i].base \in Nat /\ rs[j].base \in Nat /\ rs[j].n \in Nat /\ rs[j].base + rs[j].n <= Size
      BY RunFields DEF Ring, InRange
    <2>4. row \in 0..Size - 1 BY <2>3, SizeNat
    <2>. QED BY <2>1, <2>2, <2>4, <1>1
  <1>. DEFINE c == Cardinality(C)
  <1>4. c \in Nat
    <2>1. IsFiniteSet(0..Size - 1) BY FS_Interval, SizeNat
    <2>2. IsFiniteSet(C) BY <2>1, <1>1, FS_Subset
    <2>. QED BY <2>2, FS_CardinalityType
  <1>5. 2 * (n + c) <= Size OBVIOUS
  <1>. HIDE DEF c
  <1>6. CASE rs = <<>>
    <2>1. Base(rs, n) = 0 /\ Size # 0 BY <1>4, <1>5, <1>6, SizeNat DEF Base
    <2>. QED BY <2>1
  <1>7. CASE rs # <<>> /\ TailRow(rs) < HeadRow(rs)
    <2>1. 1 \in 1..L /\ L \in 1..L /\ 1 <= L BY <1>7, <1>1
    <2>2. TailRow(rs) = rs[1].base /\ HeadRow(rs) = rs[L].base + rs[L].n BY DEF TailRow, HeadRow
    <2>3. ~Before(rs, L, 1) BY <1>7, <2>1, <2>2, <1>2 DEF Before
    <2>4. TailRow(rs)..HeadRow(rs) - 1 \subseteq C BY <2>1, <2>2, <2>3, <1>3
    <2>5. TailRow(rs) \in Nat /\ HeadRow(rs) \in Nat /\ HeadRow(rs) <= Size BY <1>7, Ends DEF Ring
    <2>6. c >= HeadRow(rs) - TailRow(rs)
      <3>1. 0..0 - 1 \subseteq C OBVIOUS
      <3>2. TailRow(rs) <= HeadRow(rs) /\ 0 \in Nat /\ 0 <= TailRow(rs) BY <1>7, <2>5
      <3>3. Cardinality(C) >= (HeadRow(rs) - TailRow(rs)) + 0 BY <1>1, <2>4, <2>5, <3>1, <3>2, RowsCovered
      <3>. QED BY <3>3, <2>5 DEF c
    <2>7. n <= Size - HeadRow(rs) \/ n <= TailRow(rs) BY <2>5, <2>6, <1>4, <1>5, SizeNat
    <2>8. Base(rs, n) # Size
      <3>1. CASE n <= Size - HeadRow(rs)
        <4>1. Base(rs, n) = HeadRow(rs) BY <3>1, <1>7 DEF Base
        <4>. QED BY <4>1, <3>1, <2>5, SizeNat
      <3>2. CASE ~(n <= Size - HeadRow(rs))
        <4>1. Base(rs, n) = 0 BY <3>2, <2>7, <1>7 DEF Base
        <4>. QED BY <4>1, <1>4, <1>5, SizeNat
      <3>. QED BY <3>1, <3>2
    <2>. QED BY <2>8
  <1>8. CASE rs # <<>> /\ ~(TailRow(rs) < HeadRow(rs))
    <2>. DEFINE h == HeadRow(rs)
                a == TailRow(rs)
    <2>1. 1 \in 1..L /\ L \in 1..L /\ 1 <= L BY <1>8, <1>1
    <2>2. a = rs[1].base /\ h = rs[L].base + rs[L].n BY DEF TailRow, HeadRow
    <2>3. a \in Nat /\ h \in Nat /\ h <= Size /\ a < Size /\ h <= a BY <1>8, Ends DEF Ring
    <2>4. L # 1 BY <2>2, <2>3, <1>2, <2>1
    <2>5. Before(rs, L, 1) BY <2>2, <2>3 DEF Before
    <2>. HIDE DEF h, a
    <2>6. PICK t \in 1..L - 1 : /\ ~Before(rs, t, 1) /\ rs[t + 1].base = 0
                                /\ Size - (rs[t].base + rs[t].n) < rs[t + 1].n
      <3>1. 1 < L BY <2>1, <2>4, <1>1
      <3>. QED BY <3>1, <2>1, <2>5 DEF Packed, Wasted
    <2>7. t \in 1..L /\ t + 1 \in 1..L /\ 1 <= t /\ t + 1 <= L BY <2>1, <2>4
    <2>. DEFINE e == rs[t].base + rs[t].n
    <2>8. e \in Nat /\ e <= Size /\ a <= e
      <3>1. e > rs[1].base BY <2>6, <2>7, <2>1, <1>2 DEF Before
      <3>. QED BY <3>1, <2>2, <2>7, <1>2, <2>1
    <2>9. ~Before(rs, L, t + 1) BY <2>1, <2>6, <2>7, <1>2 DEF Before
    <2>10. a..e - 1 \subseteq C BY <2>1, <2>2, <2>6, <2>7, <1>3
    <2>11. 0..h - 1 \subseteq C BY <2>1, <2>2, <2>6, <2>7, <2>9, <1>3
    <2>. HIDE DEF e
    <2>12. c >= (e - a) + h BY <1>1, <2>3, <2>8, <2>10, <2>11, RowsCovered DEF c
    <2>13. rs[t + 1].n <= h
      <3>1. t + 1 = L \/ t + 1 < L
        <4>1. t + 1 \in Int /\ L \in Int /\ t + 1 <= L BY <2>7, <1>1
        <4>. QED BY <4>1
      <3>2. CASE t + 1 = L BY <3>2, <2>2, <2>6, <1>2, <2>1
      <3>3. CASE t + 1 < L
        <4>1. Before(rs, t + 1, L) BY <3>3, <2>1, <2>7, <2>9 DEF Ring, Apart
        <4>2. rs[t + 1].base + rs[t + 1].n <= rs[L].base BY <4>1 DEF Before
        <4>3. /\ rs[t + 1].base = 0 /\ rs[t + 1].n \in Nat /\ rs[L].base \in Nat /\ rs[L].n \in Nat
              /\ h = rs[L].base + rs[L].n
          BY <2>1, <2>2, <2>6, <2>7, <1>2
        <4>. QED BY <4>2, <4>3
      <3>. QED BY <3>1, <3>2, <3>3
    <2>14. Size - e < h BY <2>6, <2>7, <2>13, <2>3, <2>8, <1>2, SizeNat DEF e
    <2>15. n <= a - h BY <2>3, <2>8, <2>12, <2>14, <1>4, <1>5, SizeNat
    <2>16. Base(rs, n) = h BY <2>15, <1>8 DEF Base, h, a
    <2>17. h # Size BY <2>3
    <2>. QED BY <2>16, <2>17
  <1>. QED BY <1>6, <1>7, <1>8

\* A run fits while it and the rows of the queue's runs are at most half of those reserved, and with no pass in flight the
\* queue is empty, so all of them are there (take_rows, give_rows, the comment of LogitRows).
THEOREM LogitRowsQueuedFits == Spec => []QueuedFits
  <1>1. Init => QInv BY NoRuns DEF Init
  <1>2. IInv /\ QInv /\ [Next]_vars => QInv'
    <2>. SUFFICES ASSUME IInv, QInv, [Next]_vars PROVE QInv' OBVIOUS
    <2>1. ASSUME NEW k \in Slots, Give(k) PROVE QInv' BY <2>1, GiveQueue
    <2>2. ASSUME NEW k \in Slots, NEW n \in 1..PerPass, Form(k, n) PROVE QInv' BY <2>2, FormQueue
    <2>3. CASE UNCHANGED vars
      BY <2>3 DEF vars, QInv, Packed, Filled, Wasted, Before, In, Answered, FrontOut
    <2>. QED BY <2>1, <2>2, <2>3 DEF Next
  <1>3. IInv /\ QInv => QueuedFits
    <2>. SUFFICES ASSUME IInv, QInv PROVE QueuedFits OBVIOUS
    <2>1. runs \in Seq(RunType) /\ Ring(runs) /\ Packed(runs) BY DEF IInv, TypeOK, QInv
    <2>2. ASSUME NEW n \in 1..PerPass, 2 * (n + Queued) <= Size PROVE Fits(n)
      <3>1. n \in Nat /\ n > 0 BY LogitRowsAssumption
      <3>. DEFINE C == {row \in 0..Size - 1 : \E i \in DOMAIN runs : In(runs, i, row)}
      <3>2. 2 * (n + Cardinality(C)) <= Size BY <2>2 DEF Queued
      <3>3. C = {row \in 0..Size - 1 : \E i \in DOMAIN runs : In(runs, i, row)} OBVIOUS
      <3>. HIDE DEF C
      <3>. QED BY <3>1, <3>2, <3>3, <2>1, HalfFits DEF Fits
    <2>3. ASSUME \A k \in Slots : held[k].n = 0 PROVE runs = <<>>
      <3>. SUFFICES ASSUME runs # <<>> PROVE FALSE OBVIOUS
      <3>1. 1 \in 1..Len(runs) BY <2>1
      <3>2. ~runs[1].back BY DEF QInv, FrontOut
      <3>3. PICK k \in Slots : held[k].n > 0 BY <3>1, <3>2 DEF QInv, Answered
      <3>. QED BY <3>3, <2>3
    <2>. QED BY <2>2, <2>3 DEF QueuedFits
  <1>. QED BY <1>1, <1>2, <1>3, LogitRowsInvariant, PTL DEF Spec
=============================================================================
