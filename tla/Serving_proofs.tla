--------------------------- MODULE Serving_proofs ---------------------------
(***************************************************************************)
(* What a request over HTTP may rely on (Serving): a reply holds every     *)
(* token drawn for it, however its thread, its client and the scheduler's  *)
(* thread interleave; no more rows wait on a channel than the scheduler    *)
(* allows, though it counts them before the reader takes some; and serve   *)
(* returns only once the connections' threads are gone.                    *)
(*                                                                         *)
(* The three rest on one account of each request's tokens: what its reply  *)
(* took, what its thread holds, what waits in its channel and what the     *)
(* scheduler's thread is about to push make up what was drawn, less only   *)
(* where the request is cancelled.                                         *)
(***************************************************************************)
EXTENDS Serving, SequenceLemmas, FiniteSetTheorems, SequenceTheorems, TLAPS

Busy == {c \in Conns : conn[c] \notin {"none", "done"}}
Waiting == {c \in Conns : place[c] \in {"queue", "paused"}}

Typed ==
    /\ closed \in BOOLEAN /\ main \in {"wait", "join", "drain", "returned"}
    /\ client \in [Conns -> {"calling", "there", "left"}]
    /\ conn \in [Conns -> {"none", "read", "next", "write", "answer", "drop", "done"}]
    /\ sched \in {"look", "asleep", "retire", "step", "grow", "abort", "clear", "ended"}
    /\ place \in [Conns -> {"none", "queue", "paused", "active", "ended"}]
    /\ got \in [Conns -> Nat] /\ drawn \in [Conns -> Nat] /\ rows \in [Conns -> Nat]
    /\ out \in [Conns -> Seq(BOOLEAN)]
    /\ cancelled \subseteq Conns /\ over \subseteq Conns /\ flying \subseteq Active

\* open_ counts the threads, and only a closed and drained server has returned.
Opened ==
    /\ open = Cardinality(Busy)
    /\ main # "wait" => closed
    /\ main = "returned" => open = 0
    /\ \A c \in Conns : client[c] = "calling" => conn[c] = "none"

\* The line holds each waiting request once.
Lined == line \in Seq(Conns) /\ IsInjective(line) /\ ToSet(line) = Waiting

\* Where a request waits, by where its connection's thread is.
Placed(c) ==
    /\ conn[c] \in {"none", "read"} => place[c] = "none"
    /\ conn[c] = "answer" => place[c] = "ended"
    /\ conn[c] = "done" => place[c] \in {"none", "ended"}
    /\ place[c] = "none" => conn[c] \in {"none", "read", "done"}
    /\ conn[c] = "drop" => c \in cancelled

\* Between a draw and its last push the scheduler's thread holds the tokens of
\* one active request.
Stepping ==
    /\ picks = [of |-> picks.of, tokens |-> picks.tokens] /\ picks.tokens \in Seq(BOOLEAN)
    /\ IF sched = "step" THEN picks.tokens # <<>> /\ \E c \in Active : picks.of = {c} ELSE picks = NoPicks

\* The tokens of c not yet in its reply, and the rows they hold.
InHand(c) == IF c \in picks.of THEN Len(picks.tokens) ELSE 0
RowsInHand(c) == IF c \in picks.of THEN RowsOf(picks.tokens) ELSE 0
Writing(c) == IF conn[c] = "write" THEN 1 ELSE 0
Held(c) == Writing(c) + Len(out[c]) + InHand(c)

Accounted(c) ==
    /\ rows[c] = RowsOf(out[c]) /\ rows[c] + RowsInHand(c) <= RowsWaiting
    /\ got[c] + Held(c) <= drawn[c] /\ drawn[c] <= MaxTokens[c]
    /\ c \notin cancelled => got[c] + Held(c) = drawn[c]
    /\ conn[c] \in {"none", "read", "answer", "done"} => out[c] = <<>>
    /\ conn[c] \in {"none", "read", "done"} => got[c] = 0 /\ drawn[c] = 0

IInv == Typed /\ Opened /\ Lined /\ Stepping /\ \A c \in Conns : Placed(c) /\ Accounted(c)
-----------------------------------------------------------------------------
\* Rows as a token is put behind the others, or taken from before them.
LEMMA RowsOfCount ==
    ASSUME NEW s \in Seq(BOOLEAN)
    PROVE  RowsOf(s) \in Nat
<1> DEFINE S == {i \in DOMAIN s : s[i]}
<1>1. Len(s) \in Nat /\ DOMAIN s = 1..Len(s) OBVIOUS
<1>2. IsFiniteSet(1..Len(s)) BY <1>1, FS_Interval
<1>3. S \subseteq 1..Len(s) BY <1>1
<1> HIDE DEF S
<1>4. IsFiniteSet(S) BY <1>2, <1>3, FS_Subset
<1>5. Cardinality(S) \in Nat BY <1>4, FS_CardinalityType
<1> QED BY <1>5 DEF RowsOf, S

LEMMA RowsOfNone == RowsOf(<<>>) = 0
<1>1. {i \in DOMAIN <<>> : <<>>[i]} = {} OBVIOUS
<1> QED BY <1>1, FS_EmptySet DEF RowsOf

LEMMA RowsOfAppend ==
    ASSUME NEW s \in Seq(BOOLEAN), NEW e \in BOOLEAN
    PROVE  RowsOf(Append(s, e)) = RowsOf(s) + (IF e THEN 1 ELSE 0)
<1> DEFINE n == Len(s)
           t == Append(s, e)
           S == {i \in DOMAIN s : s[i]}
           T == {i \in DOMAIN t : t[i]}
<1>1. n \in Nat /\ DOMAIN s = 1..n /\ DOMAIN t = 1..n + 1 /\ (\A i \in 1..n : t[i] = s[i]) /\ t[n + 1] = e OBVIOUS
<1>2. RowsOf(s) = Cardinality(S) /\ RowsOf(t) = Cardinality(T) BY DEF RowsOf
<1>3. \A i \in 1..n + 1 : i \in 1..n \/ i = n + 1 BY <1>1
<1>4. n + 1 \notin 1..n /\ n + 1 \in 1..n + 1 /\ 1..n \subseteq 1..n + 1 BY <1>1
<1> HIDE DEF n, t
<1>5. S \subseteq 1..n /\ n + 1 \notin S BY <1>1, <1>4
<1>6. T = IF e THEN S \cup {n + 1} ELSE S BY <1>1, <1>3, <1>4
<1> HIDE DEF S, T
<1>7. IsFiniteSet(S)
  <2>1. IsFiniteSet(1..n) BY <1>1, FS_Interval
  <2> QED BY <1>5, <2>1, FS_Subset
<1>8. Cardinality(S) \in Nat BY <1>7, FS_CardinalityType
<1>9. CASE e
  <2>1. Cardinality(S \cup {n + 1}) = Cardinality(S) + 1 BY <1>5, <1>7, FS_AddElement
  <2> QED BY <1>2, <1>6, <1>9, <2>1 DEF t
<1>10. CASE ~e BY <1>2, <1>6, <1>8, <1>10 DEF t
<1> QED BY <1>9, <1>10

LEMMA RowsOfTail ==
    ASSUME NEW s \in Seq(BOOLEAN), s # <<>>
    PROVE  /\ Head(s) \in BOOLEAN /\ Tail(s) \in Seq(BOOLEAN) /\ Len(s) = Len(Tail(s)) + 1
           /\ RowsOf(s) = RowsOf(Tail(s)) + (IF Head(s) THEN 1 ELSE 0)
<1> DEFINE t == Tail(s)
           m == Len(t)
           S == {i \in DOMAIN s : s[i]}
           T == {i \in DOMAIN t : t[i]}
           f == [i \in T |-> i + 1]
<1>1. /\ t \in Seq(BOOLEAN) /\ m \in Nat /\ Len(s) = m + 1 /\ DOMAIN s = 1..m + 1 /\ DOMAIN t = 1..m
      /\ (\A i \in 1..m : t[i] = s[i + 1]) /\ Head(s) = s[1] /\ Head(s) \in BOOLEAN
  OBVIOUS
<1>2. RowsOf(s) = Cardinality(S) /\ RowsOf(t) = Cardinality(T) BY DEF RowsOf
<1> HIDE DEF t, m
<1>3. T \subseteq 1..m /\ S \subseteq 1..m + 1 BY <1>1
<1>4. \A i \in 1..m : i + 1 \in 1..m + 1 /\ i + 1 # 1 BY <1>1
<1>5. \A i \in 1..m + 1 : i # 1 => i - 1 \in 1..m /\ (i - 1) + 1 = i BY <1>1
<1>6. f \in [T -> S \ {1}] BY <1>1, <1>3, <1>4
<1>7. ASSUME NEW j \in S \ {1} PROVE \E i \in T : f[i] = j
  <2>1. j - 1 \in T /\ (j - 1) + 1 = j BY <1>1, <1>3, <1>5
  <2> QED BY <2>1
<1>8. \A i, j \in T : f[i] = f[j] => i = j BY <1>1, <1>3
<1>9. 1 \in S <=> Head(s)
  <2>1. 1 \in DOMAIN s BY <1>1
  <2>2. 1 \in S <=> s[1] BY <2>1
  <2> HIDE DEF S
  <2> QED BY <1>1, <2>2
<1> HIDE DEF f, S, T
<1>10. f \in Bijection(T, S \ {1}) BY <1>6, <1>7, <1>8 DEF Bijection, Injection, Surjection, IsInjective
<1>11. IsFiniteSet(S) /\ IsFiniteSet(T)
  <2>1. IsFiniteSet(1..m) /\ IsFiniteSet(1..m + 1) BY <1>1, FS_Interval
  <2> QED BY <1>3, <2>1, FS_Subset
<1>12. Cardinality(S \ {1}) = Cardinality(T) BY <1>10, <1>11, FS_Bijection DEF ExistsBijection
<1>13. Cardinality(S) \in Nat /\ Cardinality(T) \in Nat BY <1>11, FS_CardinalityType
<1>14. Cardinality(S \ {1}) = IF 1 \in S THEN Cardinality(S) - 1 ELSE Cardinality(S) BY <1>11, FS_RemoveElement
<1>15. Cardinality(S) = Cardinality(T) + (IF Head(s) THEN 1 ELSE 0)
  <2>1. CASE Head(s)
    <3>1. 1 \in S BY <1>9, <2>1
    <3>2. Cardinality(T) = Cardinality(S) - 1 BY <1>12, <1>14, <3>1
    <3>3. (IF Head(s) THEN 1 ELSE 0) = 1 BY <2>1
    <3>4. Cardinality(S) = Cardinality(T) + 1 BY <1>13, <3>2
    <3> QED BY <3>3, <3>4
  <2>2. CASE ~Head(s)
    <3>1. 1 \notin S BY <1>9, <2>2
    <3>2. Cardinality(T) = Cardinality(S) BY <1>12, <1>14, <3>1
    <3>3. (IF Head(s) THEN 1 ELSE 0) = 0 BY <2>2
    <3>4. Cardinality(S) = Cardinality(T) + 0 BY <1>13, <3>2
    <3> QED BY <3>3, <3>4
  <2> QED BY <2>1, <2>2
<1> QED BY <1>1, <1>2, <1>15 DEF t, m

\* A draw copies no more rows than it may.
LEMMA RowsOfInitial ==
    ASSUME NEW n \in Nat, NEW k \in Nat
    PROVE  LET s == [i \in 1..n |-> i <= k] IN s \in Seq(BOOLEAN) /\ Len(s) = n /\ RowsOf(s) <= k
<1> DEFINE s == [i \in 1..n |-> i <= k]
           S == {i \in DOMAIN s : s[i]}
<1>1. s \in Seq(BOOLEAN) /\ Len(s) = n OBVIOUS
<1>2. S \subseteq 1..k
  <2>1. \A i \in 1..n : s[i] <=> i <= k OBVIOUS
  <2>2. DOMAIN s = 1..n OBVIOUS
  <2> HIDE DEF s
  <2>3. \A i \in S : i \in 1..n /\ i <= k BY <2>1, <2>2
  <2> QED BY <2>3
<1>3. RowsOf(s) = Cardinality(S) BY DEF RowsOf
<1> HIDE DEF S, s
<1>4. IsFiniteSet(1..k) /\ Cardinality(1..k) = k BY FS_Interval
<1>5. Cardinality(S) <= k BY <1>2, <1>4, FS_Subset
<1> QED BY <1>1, <1>3, <1>5 DEF s

-----------------------------------------------------------------------------
\* The line without some of its requests.
LEMMA WithoutIs ==
    ASSUME line \in Seq(Conns), IsInjective(line), NEW cs
    PROVE  /\ Without(cs) \in Seq(Conns) /\ IsInjective(Without(cs))
           /\ ToSet(Without(cs)) = ToSet(line) \ cs
<1> DEFINE N == Len(line)
           D == Conns \ cs
           At(f) == [i \in 0..N |->
                        IF i = 0 THEN <<>> ELSE IF line[i] \in cs THEN f[i - 1] ELSE Append(f[i - 1], line[i])]
           chosen == CHOOSE f : f = At(f)
<1>1. N \in Nat /\ DOMAIN line = 1..N /\ \A j \in 1..N : line[j] \in Conns OBVIOUS
<1>2. Without(cs) = chosen[N] BY DEF Without
<1>3. ASSUME NEW f PROVE At(f) = PickedAt(<<>>, line, D, f, N)
  <2>1. \A i \in 0..N : i # 0 => (line[i] \in D <=> line[i] \notin cs)
    <3>1. \A i \in 0..N : i # 0 => i \in 1..N BY <1>1
    <3> QED BY <1>1, <3>1
  <2> HIDE DEF D, N
  <2> QED BY <2>1 DEF PickedAt
<1>4. \E f : f = PickedAt(<<>>, line, D, f, N) BY <1>1, PickedDefined
<1> HIDE DEF At
<1>5. chosen = PickedAt(<<>>, line, D, chosen, N) BY <1>3, <1>4
<1> HIDE DEF chosen, D
<1>6. <<>> \in Seq(Conns) /\ IsInjective(<<>>) /\ ToSet(<<>>) = {} BY DEF IsInjective, ToSet
<1>7. /\ chosen[N] \in Seq(Conns) /\ IsInjective(chosen[N])
      /\ ToSet(chosen[N]) = ToSet(<<>>) \cup (ToSet(line) \cap D)
  <2> DEFINE none == <<>>
  <2>1. /\ none \in Seq(Conns) /\ IsInjective(none) /\ ToSet(none) \cap ToSet(line) = {}
        /\ line \in Seq(Conns) /\ IsInjective(line) /\ chosen = PickedAt(none, line, D, chosen, Len(line))
    BY <1>5, <1>6
  <2> HIDE DEF none
  <2>2. /\ chosen[Len(line)] \in Seq(Conns) /\ IsInjective(chosen[Len(line)])
        /\ ToSet(chosen[Len(line)]) = ToSet(none) \cup (ToSet(line) \cap D)
    BY ONLY <2>1, Picked
  <2> QED BY <2>2 DEF none
<1>8. ToSet(line) \cap D = ToSet(line) \ cs BY <1>1 DEF D, ToSet
<1> QED BY <1>2, <1>6, <1>7, <1>8

\* The rest of the line once its first k have left it.
LEMMA RestOf ==
    ASSUME line \in Seq(Conns), IsInjective(line), NEW k \in 0..Len(line)
    PROVE  LET rest == SubSeq(line, k + 1, Len(line))
               front == {line[i] : i \in 1..k} IN
           /\ rest \in Seq(Conns) /\ IsInjective(rest) /\ ToSet(rest) \subseteq ToSet(line)
           /\ front = ToSet(line) \ ToSet(rest)
<1>1. /\ SubSeq(line, k + 1, Len(line)) \in Seq(Conns) /\ IsInjective(SubSeq(line, k + 1, Len(line)))
      /\ ToSet(SubSeq(line, 1, k)) = {line[i] : i \in 1..k}
      /\ ToSet(SubSeq(line, 1, k)) = ToSet(line) \ ToSet(SubSeq(line, k + 1, Len(line)))
      /\ ToSet(SubSeq(line, k + 1, Len(line))) \subseteq ToSet(line)
  BY Halves
<1> QED BY <1>1

\* A request put before the line.
LEMMA Ahead ==
    ASSUME line \in Seq(Conns), IsInjective(line), NEW c \in Conns, c \notin ToSet(line)
    PROVE  /\ <<c>> \o line \in Seq(Conns) /\ IsInjective(<<c>> \o line)
           /\ ToSet(<<c>> \o line) = ToSet(line) \cup {c}
<1>1. <<c>> \in Seq(Conns) /\ IsInjective(<<c>>) /\ ToSet(<<c>>) = {c} BY DEF IsInjective, ToSet
<1>2. ToSet(<<c>>) \cap ToSet(line) = {} BY <1>1
<1>3. /\ <<c>> \o line \in Seq(Conns) /\ IsInjective(<<c>> \o line)
      /\ ToSet(<<c>> \o line) = ToSet(<<c>>) \cup ToSet(line)
  BY ONLY <1>1, <1>2, line \in Seq(Conns), IsInjective(line), Joined
<1> QED BY <1>1, <1>3

-----------------------------------------------------------------------------
\* The count of threads, when only one of them moves.
LEMMA Recount ==
    ASSUME NEW c \in Conns, \A d \in Conns \ {c} : conn'[d] = conn[d]
    PROVE  /\ Cardinality(Busy) \in Nat /\ (Cardinality(Busy) = 0 => Busy = {})
           /\ (c \in Busy <=> c \in Busy') => Cardinality(Busy') = Cardinality(Busy)
           /\ c \in Busy /\ c \notin Busy' => Cardinality(Busy') = Cardinality(Busy) - 1
           /\ c \notin Busy /\ c \in Busy' => Cardinality(Busy') = Cardinality(Busy) + 1
<1> DEFINE B == Busy
           E == Busy'
<1>1. B \subseteq Conns /\ E \subseteq Conns BY DEF Busy
<1>2. \A d \in Conns \ {c} : d \in B <=> d \in E BY DEF Busy
<1> HIDE DEF B, E
<1>3. IsFiniteSet(B) /\ Cardinality(B) \in Nat BY <1>1, ServingAssumption, FS_Subset, FS_CardinalityType
<1>4. Cardinality(B) = 0 => B = {} BY <1>3, FS_EmptySet
<1>5. (c \in B <=> c \in E) => E = B BY <1>1, <1>2
<1>6. c \in B /\ c \notin E => E = B \ {c} BY <1>1, <1>2
<1>7. c \notin B /\ c \in E => E = B \cup {c} BY <1>1, <1>2
<1>8. c \in B => Cardinality(B \ {c}) = Cardinality(B) - 1 BY <1>3, FS_RemoveElement
<1>9. c \notin B => Cardinality(B \cup {c}) = Cardinality(B) + 1 BY <1>3, FS_AddElement
<1> QED BY <1>3, <1>4, <1>5, <1>6, <1>7, <1>8, <1>9 DEF B, E

\* A connection none of whose state a step touches.
Same(d) ==
    /\ conn'[d] = conn[d] /\ place'[d] = place[d] /\ (d \in cancelled' <=> d \in cancelled)
    /\ got'[d] = got[d] /\ drawn'[d] = drawn[d] /\ out'[d] = out[d] /\ rows'[d] = rows[d]
    /\ picks' = picks \/ (d \notin picks.of /\ d \notin picks'.of)

LEMMA Untouched ==
    ASSUME NEW d \in Conns, Placed(d), Accounted(d), Same(d)
    PROVE  Placed(d)' /\ Accounted(d)'
<1>1. Placed(d)' BY DEF Placed, Same
<1>2. InHand(d)' = InHand(d) /\ RowsInHand(d)' = RowsInHand(d) BY DEF InHand, RowsInHand, Same
<1>3. Held(d)' = Held(d)
  <2> HIDE DEF InHand
  <2> QED BY <1>2 DEF Held, Writing, Same
<1>4. Accounted(d)' BY <1>2, <1>3 DEF Accounted, Same
<1> QED BY <1>1, <1>4

\* What is in hand of a request counts, and nothing is of one that is not active.
LEMMA HandCounts ==
    ASSUME Typed, Stepping, NEW c \in Conns
    PROVE  /\ Len(out[c]) \in Nat /\ InHand(c) \in Nat /\ RowsInHand(c) \in Nat /\ Held(c) \in Nat
           /\ place[c] # "active" => c \notin picks.of /\ InHand(c) = 0 /\ RowsInHand(c) = 0
<1>1. out[c] \in Seq(BOOLEAN) /\ picks.tokens \in Seq(BOOLEAN) BY DEF Typed, Stepping
<1>2. Len(out[c]) \in Nat /\ Len(picks.tokens) \in Nat /\ RowsOf(picks.tokens) \in Nat BY <1>1, RowsOfCount
<1>3. InHand(c) \in Nat /\ RowsInHand(c) \in Nat BY <1>2 DEF InHand, RowsInHand
<1>4. Held(c) \in Nat
  <2>1. Writing(c) \in Nat BY DEF Writing
  <2> QED BY <1>2, <1>3, <2>1 DEF Held
<1>5. place[c] # "active" => c \notin picks.of BY DEF Stepping, NoPicks, Active
<1> QED BY <1>2, <1>3, <1>4, <1>5 DEF InHand, RowsInHand

\* A connection's thread that works on: what it leaves alone keeps, and what it
\* does to its own request is asked of it.
LEMMA ThreadStep ==
    ASSUME IInv, NEW c \in Conns, c \in Busy, NEW to \in {"next", "write", "answer", "drop"}, Goes(c, to),
           UNCHANGED <<listening, client, sched, lines, drawn, picks>>,
           cancelled' = cancelled \/ cancelled' = cancelled \cup {c},
           got' \in [Conns -> Nat], out' \in [Conns -> Seq(BOOLEAN)], rows' \in [Conns -> Nat],
           \A d \in Conns \ {c} : got'[d] = got[d] /\ out'[d] = out[d] /\ rows'[d] = rows[d],
           Placed(c)', Accounted(c)'
    PROVE  IInv'
<1> USE DEF IInv
<1>1. /\ conn' \in [Conns -> {"none", "read", "next", "write", "answer", "drop", "done"}] /\ conn'[c] = to
      /\ \A d \in Conns \ {c} : conn'[d] = conn[d]
  BY DEF Typed, Goes
<1>2. Typed'
  <2>1. Active' = Active BY DEF Active, lines
  <2> QED BY <1>1, <2>1 DEF Typed, listening, lines
<1>3. Opened'
  <2>1. c \in Busy' BY <1>1 DEF Busy
  <2>2. Cardinality(Busy') = Cardinality(Busy) BY <1>1, <2>1, Recount
  <2>3. \A d \in Conns : client'[d] = "calling" => conn'[d] = "none" BY <1>1 DEF Opened, Busy
  <2> QED BY <2>2, <2>3 DEF Opened, listening
<1>4. Lined' BY DEF Lined, Waiting, lines
<1>5. Stepping' BY DEF Stepping, Active, NoPicks, lines
<1>6. ASSUME NEW d \in Conns \ {c} PROVE Placed(d)' /\ Accounted(d)'
  <2>1. Same(d) BY <1>1 DEF Same, lines
  <2> QED BY <2>1, Untouched
<1> QED BY <1>2, <1>3, <1>4, <1>5, <1>6

\* A step of the scheduler's thread, or its requests' lines, that ends, admits
\* or pauses some.
LEMMA LinesStep ==
    ASSUME IInv, UNCHANGED <<listening, client, conn, got, cancelled, drawn, channel, picks>>,
           sched # "step", sched' \in {"look", "asleep", "retire", "grow", "abort", "clear", "ended"}, over' \subseteq Conns,
           place' \in [Conns -> {"none", "queue", "paused", "active", "ended"}], flying' \subseteq Active', Lined',
           \A c \in Conns : place'[c] # place[c] => place[c] \notin {"none", "ended"} /\ place'[c] # "none"
    PROVE  IInv'
<1> USE DEF IInv
<1>1. Typed' BY DEF Typed, listening, channel
<1>2. Opened' BY DEF Opened, Busy, listening
<1>3. Stepping' BY DEF Stepping, NoPicks
<1>4. ASSUME NEW c \in Conns PROVE Placed(c)' /\ Accounted(c)'
  <2>1. Placed(c)' BY DEF Placed
  <2>2. InHand(c)' = InHand(c) /\ RowsInHand(c)' = RowsInHand(c) BY DEF InHand, RowsInHand
  <2>3. Held(c)' = Held(c)
    <3> HIDE DEF InHand
    <3> QED BY <2>2 DEF Held, Writing, channel
  <2>4. Accounted(c)' BY <2>2, <2>3 DEF Accounted, channel
  <2> QED BY <2>1, <2>4
<1> QED BY <1>1, <1>2, <1>3, <1>4

-----------------------------------------------------------------------------
LEMMA InitHolds == Init => IInv
<1> SUFFICES ASSUME Init PROVE IInv OBVIOUS
<1> USE DEF Init
<1>1. Typed
  <2>1. out \in [Conns -> Seq(BOOLEAN)]
    <3>1. <<>> \in Seq(BOOLEAN) OBVIOUS
    <3> QED BY <3>1
  <2>2. flying \subseteq Active /\ cancelled \subseteq Conns /\ over \subseteq Conns OBVIOUS
  <2> QED BY <2>1, <2>2 DEF Typed
<1>2. Opened
  <2>1. Busy = {} BY DEF Busy
  <2> QED BY <2>1, FS_EmptySet DEF Opened
<1>3. Lined
  <2>1. Waiting = {} BY DEF Waiting
  <2> QED BY <2>1 DEF Lined, IsInjective, ToSet
<1>4. Stepping BY DEF Stepping, NoPicks
<1>5. ASSUME NEW c \in Conns PROVE Placed(c) /\ Accounted(c)
  <2>1. Placed(c) BY DEF Placed
  <2>2. InHand(c) = 0 /\ RowsInHand(c) = 0 BY DEF InHand, RowsInHand, NoPicks
  <2>3. RowsOf(<<>>) = 0 BY RowsOfNone
  <2>4. Held(c) = 0 BY <2>2 DEF Held, Writing
  <2>5. MaxTokens[c] \in Nat /\ RowsWaiting \in Nat BY ServingAssumption
  <2>6. Accounted(c) BY <2>2, <2>3, <2>4, <2>5 DEF Accounted
  <2> QED BY <2>1, <2>6
<1> QED BY <1>1, <1>2, <1>3, <1>4, <1>5 DEF IInv

\* A call reaches the accept loop: one more thread, with nothing yet.
LEMMA AcceptKeeps == ASSUME IInv, NEW c \in Conns, Accept(c) PROVE IInv'
<1> USE DEF IInv
<1>1. conn[c] = "none" BY DEF Accept, Opened
<1>2. /\ conn' = [conn EXCEPT ![c] = "read"] /\ conn'[c] = "read" /\ \A d \in Conns \ {c} : conn'[d] = conn[d]
      /\ conn' \in [Conns -> {"none", "read", "next", "write", "answer", "drop", "done"}]
  BY DEF Accept, Typed
<1>3. /\ client' \in [Conns -> {"calling", "there", "left"}] /\ client'[c] = "there"
      /\ \A d \in Conns \ {c} : client'[d] = client[d]
  BY DEF Accept, Typed
<1>4. Typed'
  <2>1. Active' = Active BY DEF Active, Accept, lines
  <2> QED BY <1>2, <1>3, <2>1 DEF Typed, Accept, lines, channel
<1>5. Opened'
  <2>1. c \notin Busy /\ c \in Busy' BY <1>1, <1>2 DEF Busy
  <2>2. Cardinality(Busy') = Cardinality(Busy) + 1 BY <1>2, <2>1, Recount
  <2>3. \A d \in Conns : client'[d] = "calling" => conn'[d] = "none" BY <1>2, <1>3 DEF Opened
  <2>4. main' = main /\ closed' = closed /\ closed = FALSE /\ main = "wait" BY DEF Accept, Opened, Typed
  <2> QED BY <2>2, <2>3, <2>4 DEF Opened, Accept
<1>6. Lined' BY DEF Lined, Waiting, Accept, lines
<1>7. Stepping' BY DEF Stepping, Active, NoPicks, Accept, lines
<1>8. ASSUME NEW d \in Conns PROVE Placed(d)' /\ Accounted(d)'
  <2>1. CASE d = c
    <3>1. Placed(c)' BY <1>1, <1>2 DEF Placed, Accept, lines
    <3>2. InHand(c)' = InHand(c) /\ RowsInHand(c)' = RowsInHand(c) BY DEF InHand, RowsInHand, Accept
    <3>3. Held(c)' = Held(c)
      <4> HIDE DEF InHand
      <4> QED BY <1>1, <1>2, <3>2 DEF Held, Writing, Accept, channel
    <3>4. Accounted(c)' BY <1>1, <1>2, <3>2, <3>3 DEF Accounted, Accept, channel
    <3> QED BY <2>1, <3>1, <3>4
  <2>2. CASE d # c
    <3>1. Same(d) BY <1>2, <2>2 DEF Same, Accept, lines, channel
    <3> QED BY <3>1, Untouched
  <2> QED BY <2>1, <2>2
<1> QED BY <1>4, <1>5, <1>6, <1>7, <1>8

\* The listener closes, a client leaves, or serve goes on: no request changes.
LEMMA OutsideKeeps ==
    ASSUME IInv, Close \/ Serve \/ \E c \in Conns : HangUp(c)
    PROVE  IInv'
<1> USE DEF IInv
<1>1. UNCHANGED <<open, conn, got, lines, cancelled, drawn, channel, picks>>
  BY DEF Close, Serve, HangUp, listening
<1>2. sched' = sched \/ (sched = "asleep" /\ sched' = "look") BY DEF Close, Serve, HangUp, Woken
<1>3. Typed'
  <2>1. Active' = Active BY <1>1 DEF Active, lines
  <2>2. client' \in [Conns -> {"calling", "there", "left"}] BY DEF Close, Serve, HangUp, Typed
  <2>3. closed' \in BOOLEAN /\ main' \in {"wait", "join", "drain", "returned"}
    BY DEF Close, Serve, HangUp, Typed, listening
  <2> QED BY <1>1, <1>2, <2>1, <2>2, <2>3 DEF Typed, lines, channel
<1>4. Opened'
  <2>1. Busy' = Busy BY <1>1 DEF Busy
  <2>2. \A d \in Conns : client'[d] = "calling" => client[d] = "calling" BY DEF Close, Serve, HangUp, Typed
  <2>3. main' # "wait" => closed' BY DEF Close, Serve, HangUp, Opened, listening
  <2>4. main' = "returned" => open' = 0 BY <1>1 DEF Close, Serve, HangUp, Opened, listening, Drained
  <2> QED BY <1>1, <2>1, <2>2, <2>3, <2>4 DEF Opened
<1>5. Lined' BY <1>1 DEF Lined, Waiting, lines
<1>6. Stepping' BY <1>1, <1>2 DEF Stepping, Active, NoPicks, lines
<1>7. ASSUME NEW d \in Conns PROVE Placed(d)' /\ Accounted(d)'
  <2>1. Same(d) BY <1>1 DEF Same, lines, channel
  <2> QED BY <2>1, Untouched
<1> QED BY <1>3, <1>4, <1>5, <1>6, <1>7

\* A thread's end takes its request along: nothing of it may be on a channel.
LEMMA LeavesKeeps ==
    ASSUME IInv, NEW c \in Conns, Leaves(c), c \in Busy, out[c] = <<>>, place[c] \in {"none", "ended"}
    PROVE  IInv'
<1> USE DEF IInv
<1>1. /\ conn'[c] = "done" /\ \A d \in Conns \ {c} : conn'[d] = conn[d]
      /\ conn' \in [Conns -> {"none", "read", "next", "write", "answer", "drop", "done"}]
  BY DEF Leaves, Goes, Typed
<1>2. /\ got'[c] = 0 /\ drawn'[c] = 0 /\ got' \in [Conns -> Nat] /\ drawn' \in [Conns -> Nat]
      /\ \A d \in Conns \ {c} : got'[d] = got[d] /\ drawn'[d] = drawn[d]
  BY DEF Leaves, Typed
<1>3. Typed'
  <2>1. Active' = Active BY DEF Active, Leaves
  <2> QED BY <1>1, <1>2, <2>1 DEF Typed, Leaves, channel
<1>4. Opened'
  <2>1. c \notin Busy' BY <1>1 DEF Busy
  <2>2. Cardinality(Busy') = Cardinality(Busy) - 1 BY <1>1, <2>1, Recount
  <2>3. main # "returned"
    <3>1. Busy # {} /\ Cardinality(Busy) # 0 BY <1>1, Recount
    <3> QED BY <3>1 DEF Opened
  <2>4. \A d \in Conns : client'[d] = "calling" => conn'[d] = "none" BY <1>1 DEF Opened, Busy, Leaves
  <2> QED BY <2>2, <2>3, <2>4 DEF Opened, Leaves
<1>5. Lined' BY DEF Lined, Waiting, Leaves
<1>6. Stepping' BY DEF Stepping, Active, NoPicks, Leaves
<1>7. ASSUME NEW d \in Conns PROVE Placed(d)' /\ Accounted(d)'
  <2>1. CASE d = c
    <3>1. Placed(c)' BY <1>1 DEF Placed, Leaves
    <3>2. InHand(c)' = 0 /\ RowsInHand(c)' = 0
      <4>1. c \notin picks.of BY HandCounts
      <4> QED BY <4>1 DEF InHand, RowsInHand, Leaves
    <3>3. out'[c] = <<>> /\ rows'[c] = 0 /\ RowsOf(<<>>) = 0
      <4>1. RowsOf(<<>>) = 0 BY RowsOfNone
      <4> QED BY <4>1 DEF Leaves, channel, Accounted
    <3>4. Held(c)' = 0
      <4> HIDE DEF InHand
      <4> QED BY <1>1, <3>2, <3>3 DEF Held, Writing
    <3>5. MaxTokens[c] \in Nat /\ RowsWaiting \in Nat BY ServingAssumption
    <3>6. Accounted(c)' BY <1>1, <1>2, <3>2, <3>3, <3>4, <3>5 DEF Accounted
    <3> QED BY <2>1, <3>1, <3>6
  <2>2. CASE d # c
    <3>1. Same(d) BY <1>1, <1>2, <2>2 DEF Same, Leaves, channel
    <3> QED BY <3>1, Untouched
  <2> QED BY <2>1, <2>2
<1> QED BY <1>3, <1>4, <1>5, <1>6, <1>7

\* A request joins the line.
LEMMA SubmitKeeps == ASSUME IInv, NEW c \in Conns, Submit(c) PROVE IInv'
<1> USE DEF IInv
<1>1. conn[c] = "read" /\ place[c] = "none" /\ out[c] = <<>> /\ got[c] = 0 /\ drawn[c] = 0
  BY DEF Submit, Placed, Accounted
<1>2. /\ conn'[c] = "next" /\ \A d \in Conns \ {c} : conn'[d] = conn[d]
      /\ conn' \in [Conns -> {"none", "read", "next", "write", "answer", "drop", "done"}]
  BY DEF Submit, Goes, Typed
<1>3. /\ place'[c] = "queue" /\ \A d \in Conns \ {c} : place'[d] = place[d]
      /\ place' \in [Conns -> {"none", "queue", "paused", "active", "ended"}]
  BY DEF Submit, Typed
<1>4. sched' = sched \/ (sched = "asleep" /\ sched' = "look") BY DEF Submit, Roused, Woken
<1>5. Active' = Active BY <1>1, <1>3 DEF Active
<1>6. Typed' BY <1>2, <1>3, <1>4, <1>5 DEF Typed, Submit, listening, channel
<1>7. Opened'
  <2>1. c \in Busy /\ c \in Busy' BY <1>1, <1>2 DEF Busy
  <2>2. Cardinality(Busy') = Cardinality(Busy) BY <1>2, <2>1, Recount
  <2>3. client[c] # "calling" BY <1>1 DEF Opened
  <2>4. \A d \in Conns : client'[d] = "calling" => conn'[d] = "none" BY <1>2, <2>3 DEF Opened, Submit
  <2> QED BY <2>2, <2>4 DEF Opened, Submit, listening
<1>8. Lined'
  <2>1. line \in Seq(Conns) /\ IsInjective(line) /\ ToSet(line) = Waiting BY DEF Lined
  <2>2. c \notin ToSet(line) BY <1>1, <2>1 DEF Waiting
  <2>3. /\ line' \in Seq(Conns) /\ IsInjective(line') /\ ToSet(line') = ToSet(line) \cup {c}
    BY <2>1, <2>2, AppendToSet DEF Submit
  <2>4. Waiting' = Waiting \cup {c} BY <1>3 DEF Waiting
  <2> QED BY <2>1, <2>3, <2>4 DEF Lined
<1>9. Stepping' BY <1>4, <1>5 DEF Stepping, NoPicks, Submit
<1>10. ASSUME NEW d \in Conns PROVE Placed(d)' /\ Accounted(d)'
  <2>1. CASE d = c
    <3>1. Placed(c)' BY <1>1, <1>2, <1>3 DEF Placed
    <3>2. InHand(c)' = InHand(c) /\ RowsInHand(c)' = RowsInHand(c) BY DEF InHand, RowsInHand, Submit
    <3>3. Held(c)' = Held(c)
      <4> HIDE DEF InHand
      <4> QED BY <1>1, <1>2, <3>2 DEF Held, Writing, Submit, channel
    <3>4. Accounted(c)' BY <1>1, <1>2, <3>2, <3>3 DEF Accounted, Submit, channel
    <3> QED BY <2>1, <3>1, <3>4
  <2>2. CASE d # c
    <3>1. Same(d) BY <1>2, <1>3, <2>2 DEF Same, Submit, channel
    <3> QED BY <3>1, Untouched
  <2> QED BY <2>1, <2>2
<1> QED BY <1>6, <1>7, <1>8, <1>9, <1>10

\* A token taken off a channel, and its row.
LEMMA PopTakes ==
    ASSUME IInv, NEW c \in Conns, Pop(c)
    PROVE  /\ out' \in [Conns -> Seq(BOOLEAN)] /\ rows' \in [Conns -> Nat]
           /\ \A d \in Conns \ {c} : out'[d] = out[d] /\ rows'[d] = rows[d]
           /\ Len(out[c]) = Len(out'[c]) + 1 /\ Len(out'[c]) \in Nat
           /\ rows'[c] = RowsOf(out'[c]) /\ rows'[c] <= rows[c]
<1>1. out \in [Conns -> Seq(BOOLEAN)] /\ rows \in [Conns -> Nat] /\ rows[c] = RowsOf(out[c])
  BY DEF IInv, Typed, Accounted
<1> DEFINE s == out[c]
<1>2. s \in Seq(BOOLEAN) /\ s # <<>> BY <1>1 DEF Pop
<1>3. out' = [out EXCEPT ![c] = Tail(s)] /\ rows' = [rows EXCEPT ![c] = Counted(c)] BY DEF Pop
<1>4. Counted(c) = rows[c] - (IF Head(s) THEN 1 ELSE 0) BY DEF Counted
<1> HIDE DEF s
<1>5. /\ Tail(s) \in Seq(BOOLEAN) /\ Len(s) = Len(Tail(s)) + 1
      /\ RowsOf(s) = RowsOf(Tail(s)) + (IF Head(s) THEN 1 ELSE 0)
  BY <1>2, RowsOfTail
<1>6. RowsOf(Tail(s)) \in Nat BY <1>5, RowsOfCount
<1> DEFINE one == IF Head(s) THEN 1 ELSE 0
<1>7. one \in {0, 1} OBVIOUS
<1>8. rows[c] = RowsOf(Tail(s)) + one /\ Counted(c) = rows[c] - one BY <1>1, <1>4, <1>5 DEF s
<1> HIDE DEF one
<1>9. Counted(c) = RowsOf(Tail(s)) /\ Counted(c) <= rows[c] BY <1>6, <1>7, <1>8
<1>10. out'[c] = Tail(s) /\ rows'[c] = Counted(c) BY <1>1, <1>3
<1>11. out' \in [Conns -> Seq(BOOLEAN)] /\ \A d \in Conns \ {c} : out'[d] = out[d] BY <1>1, <1>3, <1>5
<1>12. rows' \in [Conns -> Nat] /\ \A d \in Conns \ {c} : rows'[d] = rows[d] BY <1>1, <1>3, <1>6, <1>9
<1>13. Len(Tail(s)) \in Nat BY <1>5, LenProperties
<1> QED BY <1>5, <1>9, <1>10, <1>11, <1>12, <1>13 DEF s

\* next, at a token, and the drain of a cancelled request's channel.
LEMMA NextTokenKeeps == ASSUME IInv, NEW c \in Conns, NextToken(c) PROVE IInv'
<1>1. conn[c] = "next" /\ c \in Busy /\ Placed(c) /\ Accounted(c) /\ Pop(c) /\ Goes(c, "write") /\ conn'[c] = "write"
  BY DEF NextToken, Busy, IInv, Goes, Typed
<1>2. /\ UNCHANGED <<listening, client, got, sched, lines, cancelled, drawn, picks>>
      /\ got' \in [Conns -> Nat] /\ \A d \in Conns \ {c} : got'[d] = got[d]
  BY DEF NextToken, IInv, Typed
<1>3. /\ out' \in [Conns -> Seq(BOOLEAN)] /\ rows' \in [Conns -> Nat]
      /\ \A d \in Conns \ {c} : out'[d] = out[d] /\ rows'[d] = rows[d]
      /\ Len(out[c]) = Len(out'[c]) + 1 /\ Len(out'[c]) \in Nat /\ rows'[c] = RowsOf(out'[c]) /\ rows'[c] <= rows[c]
  BY <1>1, PopTakes
<1>4. Placed(c)' BY <1>1, <1>2 DEF Placed, lines
<1>5. InHand(c)' = InHand(c) /\ RowsInHand(c)' = RowsInHand(c) /\ InHand(c) \in Nat /\ RowsInHand(c) \in Nat
  BY <1>2, HandCounts DEF InHand, RowsInHand, IInv
<1>6. Held(c)' = Held(c)
  <2>1. Writing(c) = 0 /\ Writing(c)' = 1 BY <1>1 DEF Writing
  <2> QED BY <1>3, <1>5, <2>1 DEF Held
<1>7. Accounted(c)'
  <2>1. rows[c] \in Nat /\ rows'[c] \in Nat /\ RowsWaiting \in Nat BY <1>3, ServingAssumption DEF IInv, Typed
  <2>2. rows'[c] + RowsInHand(c)' <= RowsWaiting BY <1>1, <1>3, <1>5, <2>1 DEF Accounted
  <2> QED BY <1>1, <1>2, <1>3, <1>6, <2>2 DEF Accounted
<1> QED BY <1>1, <1>2, <1>3, <1>4, <1>7, ThreadStep

LEMMA DropKeeps == ASSUME IInv, NEW c \in Conns, Drop(c) PROVE IInv'
<1>1. conn[c] = "drop" /\ c \in Busy /\ Placed(c) /\ Accounted(c) BY DEF Drop, Busy, IInv
<1>2. CASE Finished(c) /\ Leaves(c) BY <1>1, <1>2, LeavesKeeps DEF Finished
<1>3. CASE Pop(c) /\ UNCHANGED <<listening, client, conn, got, sched, lines, cancelled, drawn, picks>>
  <2>1. Goes(c, "drop") /\ conn'[c] = "drop" /\ c \in cancelled /\ c \in cancelled'
    BY <1>1, <1>3 DEF Goes, IInv, Typed, Placed
  <2>2. got' \in [Conns -> Nat] /\ \A d \in Conns \ {c} : got'[d] = got[d] BY <1>3 DEF IInv, Typed
  <2>3. /\ out' \in [Conns -> Seq(BOOLEAN)] /\ rows' \in [Conns -> Nat]
        /\ \A d \in Conns \ {c} : out'[d] = out[d] /\ rows'[d] = rows[d]
        /\ Len(out[c]) = Len(out'[c]) + 1 /\ Len(out'[c]) \in Nat /\ rows'[c] = RowsOf(out'[c]) /\ rows'[c] <= rows[c]
    BY <1>3, PopTakes
  <2>4. Placed(c)' BY <1>1, <1>3 DEF Placed, lines
  <2>5. InHand(c)' = InHand(c) /\ RowsInHand(c)' = RowsInHand(c) /\ InHand(c) \in Nat /\ RowsInHand(c) \in Nat
    BY <1>3, HandCounts DEF InHand, RowsInHand, IInv
  <2>6. Held(c)' <= Held(c) /\ Held(c)' \in Nat /\ Held(c) \in Nat
    <3>1. Writing(c) = 0 /\ Writing(c)' = 0 BY <1>1, <2>1 DEF Writing
    <3> QED BY <2>3, <2>5, <3>1 DEF Held
  <2>7. Accounted(c)'
    <3>1. rows[c] \in Nat /\ rows'[c] \in Nat /\ RowsWaiting \in Nat BY <2>3, ServingAssumption DEF IInv, Typed
    <3>2. rows'[c] + RowsInHand(c)' <= RowsWaiting BY <1>1, <2>3, <2>5, <3>1 DEF Accounted
    <3>3. got[c] \in Nat /\ drawn[c] \in Nat /\ got'[c] = got[c] /\ drawn'[c] = drawn[c] BY <1>3 DEF IInv, Typed
    <3>4. got'[c] + Held(c)' <= drawn'[c] BY <1>1, <2>6, <3>3 DEF Accounted
    <3> QED BY <1>1, <2>1, <2>3, <3>2, <3>3, <3>4 DEF Accounted
  <2> QED BY <1>1, <1>3, <2>1, <2>2, <2>3, <2>4, <2>7, ThreadStep
<1> QED BY <1>2, <1>3 DEF Drop

\* A thread's step that leaves the channel alone: a reply that takes a token, or
\* one that is dropped, is asked to account for it.
LEMMA ReplyStep ==
    ASSUME IInv, NEW c \in Conns, conn[c] \in {"next", "write", "answer"},
           NEW to \in {"next", "answer", "drop"}, Goes(c, to),
           UNCHANGED <<listening, client, sched, lines, drawn, channel, picks>>,
           cancelled' = cancelled \/ cancelled' = cancelled \cup {c},
           got' = got \/ (conn[c] = "write" /\ got' = [got EXCEPT ![c] = @ + 1]),
           conn[c] = "write" /\ got' = got => c \in cancelled',
           to = "answer" => Finished(c), to = "drop" => c \in cancelled'
    PROVE  IInv'
<1>1. /\ c \in Busy /\ Placed(c) /\ Accounted(c) /\ conn'[c] = to
      /\ rows' \in [Conns -> Nat] /\ out' \in [Conns -> Seq(BOOLEAN)]
  BY DEF IInv, Typed, Busy, Goes, channel
<1>2. /\ got[c] \in Nat /\ drawn[c] \in Nat /\ got' \in [Conns -> Nat] /\ got'[c] \in {got[c], got[c] + 1}
      /\ \A d \in Conns \ {c} : got'[d] = got[d] /\ out'[d] = out[d] /\ rows'[d] = rows[d]
  <2>1. got \in [Conns -> Nat] /\ drawn[c] \in Nat BY DEF IInv, Typed
  <2>2. got' = got \/ got' = [got EXCEPT ![c] = @ + 1] OBVIOUS
  <2>3. /\ got[c] \in Nat /\ got' \in [Conns -> Nat] /\ got'[c] \in {got[c], got[c] + 1}
        /\ \A d \in Conns \ {c} : got'[d] = got[d]
    BY ONLY <2>1, <2>2, c \in Conns
  <2>4. \A d \in Conns \ {c} : out'[d] = out[d] /\ rows'[d] = rows[d] BY DEF channel
  <2> QED BY <2>1, <2>3, <2>4
<1>3. got'[c] = got[c] + 1 => conn[c] = "write" BY <1>2
<1>4. got'[c] = got[c] => got' = got BY <1>2
<1>5. Placed(c)'
  <2>1. conn'[c] = "answer" => place'[c] = "ended" BY <1>1 DEF Finished, lines
  <2>2. place'[c] # "none" BY <1>1 DEF Placed, lines
  <2> QED BY <1>1, <2>1, <2>2 DEF Placed
<1>6. InHand(c)' = InHand(c) /\ RowsInHand(c)' = RowsInHand(c) /\ InHand(c) \in Nat /\ Len(out[c]) \in Nat
  BY HandCounts DEF InHand, RowsInHand, IInv
<1>7. Held(c)' = Len(out[c]) + InHand(c) /\ Held(c)' \in Nat
  <2>1. Writing(c)' = 0 BY <1>1 DEF Writing
  <2>2. out'[c] = out[c] BY DEF channel
  <2> QED BY <1>6, <2>1, <2>2 DEF Held
<1>8. Held(c) = Held(c)' + Writing(c) /\ Writing(c) \in {0, 1}
  <2>1. Writing(c) \in {0, 1} BY DEF Writing
  <2> QED BY <1>6, <1>7, <2>1 DEF Held
<1>9. got'[c] + Held(c)' <= drawn[c] /\ (c \notin cancelled' => got'[c] + Held(c)' = drawn[c])
  <2>1. got[c] + Held(c) <= drawn[c] /\ (c \notin cancelled' => got[c] + Held(c) = drawn[c])
    BY <1>1 DEF Accounted
  <2>2. CASE conn[c] = "write"
    <3>1. Writing(c) = 1 BY <2>2 DEF Writing
    <3>2. CASE got'[c] = got[c]
      <4>1. c \in cancelled' BY <1>4, <2>2, <3>2
      <4> QED BY <1>2, <1>7, <1>8, <2>1, <3>1, <3>2, <4>1
    <3>3. CASE got'[c] = got[c] + 1 BY <1>2, <1>7, <1>8, <2>1, <3>1, <3>3
    <3> QED BY <1>2, <3>2, <3>3
  <2>3. CASE conn[c] # "write"
    <3>1. Writing(c) = 0 /\ got'[c] = got[c] BY <1>2, <1>3, <2>3 DEF Writing
    <3> QED BY <1>2, <1>7, <1>8, <2>1, <3>1
  <2> QED BY <2>2, <2>3
<1>10. Accounted(c)'
  <2>1. conn'[c] = "answer" => out'[c] = <<>> BY <1>1 DEF Finished, channel
  <2>2. /\ rows'[c] = RowsOf(out'[c]) /\ rows'[c] + RowsInHand(c)' <= RowsWaiting
        /\ drawn'[c] = drawn[c] /\ drawn[c] <= MaxTokens[c]
    BY <1>1, <1>6 DEF Accounted, channel
  <2> QED BY <1>1, <1>9, <2>1, <2>2 DEF Accounted
<1> QED BY <1>1, <1>2, <1>5, <1>10, ThreadStep

\* A connection's thread at each of its steps.
LEMMA ThreadKeeps == ASSUME IInv, NEW c \in Conns, Thread(c) PROVE IInv'
<1>1. Placed(c) /\ Accounted(c) BY DEF IInv
<1>2. CASE Refuse(c)
  <2>1. c \in Busy /\ out[c] = <<>> /\ place[c] = "none" /\ Leaves(c)
    BY <1>1, <1>2 DEF Refuse, Busy, Placed, Accounted
  <2> QED BY <2>1, LeavesKeeps
<1>3. CASE Submit(c) BY <1>3, SubmitKeeps
<1>4. CASE NextToken(c) BY <1>4, NextTokenKeeps
<1>5. CASE NextEnds(c)
  <2>1. /\ conn[c] = "next" /\ Finished(c) /\ Goes(c, "answer")
        /\ UNCHANGED <<listening, client, sched, lines, drawn, channel, picks>> /\ got' = got /\ cancelled' = cancelled
    BY <1>5 DEF NextEnds
  <2> QED BY <2>1, ReplyStep
<1>6. CASE Timeout(c)
  <2>1. /\ conn[c] = "next" /\ Goes(c, "drop") /\ cancelled' = cancelled \cup {c} /\ got' = got
        /\ UNCHANGED <<listening, client, sched, lines, drawn, channel, picks>>
    BY <1>6 DEF Timeout, Gone
  <2> QED BY <2>1, ReplyStep
<1>7. CASE Write(c)
  <2>1. conn[c] = "write" /\ UNCHANGED <<listening, client, sched, lines, drawn, channel, picks>>
    BY <1>7 DEF Write
  <2>2. CASE Gone(c) /\ UNCHANGED got BY <2>1, <2>2, ReplyStep DEF Gone
  <2>3. CASE c \in cancelled /\ Goes(c, "next") /\ UNCHANGED <<got, cancelled>> BY <2>1, <2>3, ReplyStep
  <2>4. CASE c \notin cancelled /\ got' = [got EXCEPT ![c] = @ + 1] /\ Goes(c, "next")
             /\ cancelled' \in {cancelled, cancelled \cup {c}}
    <3>1. got' # got BY <2>4 DEF IInv, Typed
    <3> QED BY <2>1, <2>4, <3>1, ReplyStep
  <2>5. CASE c \notin cancelled /\ got' = [got EXCEPT ![c] = @ + 1] /\ Gone(c)
    BY <2>1, <2>5, ReplyStep DEF Gone
  <2> QED BY <1>7, <2>2, <2>3, <2>4, <2>5 DEF Write
<1>8. CASE Answer(c)
  <2>1. conn[c] = "answer" /\ c \in Busy /\ place[c] = "ended" /\ out[c] = <<>>
    BY <1>1, <1>8 DEF Answer, Busy, Placed, Accounted
  <2>2. CASE Leaves(c) BY <2>1, <2>2, LeavesKeeps
  <2>3. CASE Gone(c) /\ UNCHANGED <<listening, client, got, sched, lines, drawn, channel, picks>>
    BY <2>1, <2>3, ReplyStep DEF Gone
  <2> QED BY <1>8, <2>2, <2>3 DEF Answer
<1>9. CASE Drop(c) BY <1>9, DropKeeps
<1> QED BY <1>2, <1>3, <1>4, <1>5, <1>6, <1>7, <1>8, <1>9 DEF Thread

-----------------------------------------------------------------------------
\* The line as it is and as a set.
LEMMA LineIs == ASSUME IInv PROVE line \in Seq(Conns) /\ IsInjective(line) /\ ToSet(line) = Waiting
BY DEF IInv, Lined

\* Requests of the line end where they wait, or are all cleared.
LEMMA LineLeaves ==
    ASSUME IInv, NEW cs, cs \subseteq Conns, Ends(ToSet(line) \cap cs),
           line' \in Seq(Conns), IsInjective(line'), ToSet(line') = ToSet(line) \ cs
    PROVE  Lined' /\ Active' = Active
<1>1. place \in [Conns -> {"none", "queue", "paused", "active", "ended"}] BY DEF IInv, Typed
<1>2. \A c \in Conns : place'[c] = IF c \in Waiting \cap cs THEN "ended" ELSE place[c] BY LineIs DEF Ends
<1>3. Waiting' = Waiting \ cs BY <1>2 DEF Waiting
<1>4. Active' = Active BY <1>2 DEF Active, Waiting
<1> QED BY <1>3, <1>4, LineIs DEF Lined

LEMMA LookKeeps == ASSUME IInv, Look PROVE IInv'
<1>1. /\ sched = "look" /\ UNCHANGED <<listening, client, conn, got, cancelled, drawn, channel, picks>>
      /\ flying' = flying /\ over' = over
  BY DEF Look
<1>2. /\ place \in [Conns -> {"none", "queue", "paused", "active", "ended"}] /\ flying \subseteq Active
      /\ over \subseteq Conns /\ cancelled \subseteq Conns /\ Lined
  BY DEF IInv, Typed
<1>3. CASE UNCHANGED <<place, line>> /\ sched' \in {"abort", "asleep"}
  <2>1. Lined' /\ Active' = Active BY <1>2, <1>3 DEF Lined, Waiting, Active
  <2> QED BY <1>1, <1>2, <1>3, <2>1, LinesStep
<1>4. CASE sched' = "retire" /\ line' = Without(cancelled) /\ Ends(ToSet(line) \cap cancelled)
  <2>1. line' \in Seq(Conns) /\ IsInjective(line') /\ ToSet(line') = ToSet(line) \ cancelled
    BY <1>4, LineIs, WithoutIs
  <2>2. Lined' /\ Active' = Active BY <1>2, <1>4, <2>1, LineLeaves
  <2>3. place' \in [Conns -> {"none", "queue", "paused", "active", "ended"}] BY <1>2, <1>4 DEF Ends
  <2>4. \A c \in Conns : place'[c] # place[c] => place[c] \notin {"none", "ended"} /\ place'[c] # "none"
    BY <1>2, <1>4, LineIs DEF Ends, Waiting
  <2> QED BY <1>1, <1>2, <1>4, <2>2, <2>3, <2>4, LinesStep
<1> QED BY <1>3, <1>4 DEF Look

\* Active requests end: those a failed pass served, those that are over or
\* cancelled out of flight, and all of them at the stop.
LEMMA ActiveEnd ==
    ASSUME IInv, NEW cs, cs \subseteq Active, Ends(cs), line' = line, over' = over, flying' \subseteq Active \ cs,
           UNCHANGED <<listening, client, conn, got, cancelled, drawn, channel, picks>>,
           sched # "step", sched' \in {"retire", "grow", "clear"}
    PROVE  IInv'
<1>1. /\ place \in [Conns -> {"none", "queue", "paused", "active", "ended"}] /\ over \subseteq Conns /\ Lined
  BY DEF IInv, Typed
<1>2. \A c \in Conns : place'[c] = IF c \in cs THEN "ended" ELSE place[c] BY DEF Ends
<1>3. \A c \in cs : c \in Conns /\ place[c] = "active" BY DEF Active
<1>4. place' \in [Conns -> {"none", "queue", "paused", "active", "ended"}] BY <1>1 DEF Ends
<1>5. Active' = Active \ cs BY <1>2 DEF Active
<1>6. Waiting' = Waiting BY <1>2, <1>3 DEF Waiting
<1>7. Lined' BY <1>1, <1>6 DEF Lined
<1>8. \A c \in Conns : place'[c] # place[c] => place[c] \notin {"none", "ended"} /\ place'[c] # "none"
  BY <1>2, <1>3
<1> QED BY <1>1, <1>4, <1>5, <1>7, <1>8, LinesStep

LEMMA FailKeeps == ASSUME IInv, NEW c \in Conns, Fail(c) PROVE IInv'
<1>1. c \in Active /\ flying \subseteq Active BY DEF Fail, IInv, Typed
<1>2. /\ {c} \subseteq Active /\ Ends({c}) /\ flying' \subseteq Active \ {c} /\ sched = "retire" /\ sched' = "retire"
      /\ line' = line /\ over' = over /\ UNCHANGED <<listening, client, conn, got, cancelled, drawn, channel, picks>>
  BY <1>1 DEF Fail
<1> QED BY <1>2, ActiveEnd

LEMMA SettleKeeps == ASSUME IInv, Settle PROVE IInv'
<1> DEFINE cs == (Active \ flying) \cap (over \cup cancelled)
<1>1. flying \subseteq Active BY DEF IInv, Typed
<1>2. /\ cs \subseteq Active /\ Ends(cs) /\ flying' \subseteq Active \ cs /\ sched = "retire" /\ sched' = "grow"
      /\ line' = line /\ over' = over /\ UNCHANGED <<listening, client, conn, got, cancelled, drawn, channel, picks>>
  BY <1>1 DEF Settle
<1> HIDE DEF cs
<1> QED BY <1>2, ActiveEnd

LEMMA AbortKeeps == ASSUME IInv, Abort PROVE IInv'
<1>1. /\ Ends(Active) /\ flying' \subseteq Active \ Active /\ sched = "abort" /\ sched' = "clear"
      /\ line' = line /\ over' = over /\ UNCHANGED <<listening, client, conn, got, cancelled, drawn, channel, picks>>
  BY DEF Abort
<1> QED BY <1>1, ActiveEnd

LEMMA ClearKeeps == ASSUME IInv, Clear PROVE IInv'
<1>1. /\ sched = "clear" /\ sched' = "ended" /\ UNCHANGED <<listening, client, conn, got, cancelled, drawn, channel, picks>>
      /\ flying' = flying /\ over' = over /\ line' = <<>> /\ Ends(ToSet(line) \ ToSet(Cleared))
  BY DEF Clear, Cleared
<1>2. /\ place \in [Conns -> {"none", "queue", "paused", "active", "ended"}] /\ flying \subseteq Active
      /\ over \subseteq Conns
  BY DEF IInv, Typed
<1>3. ToSet(line) \subseteq Conns BY LineIs DEF Waiting
<1>4. line' \in Seq(Conns) /\ IsInjective(line') /\ ToSet(line') = {} BY <1>1 DEF IsInjective, ToSet
<1>5. Ends(ToSet(line) \cap Conns)
  <2>1. ToSet(Cleared) = {} BY DEF Cleared, ToSet
  <2>2. ToSet(line) \ ToSet(Cleared) = ToSet(line) \cap Conns BY <1>3, <2>1
  <2> QED BY <1>1, <2>2
<1>6. Lined' /\ Active' = Active
  <2>1. ToSet(line') = ToSet(line) \ Conns BY <1>3, <1>4
  <2> QED BY <1>4, <1>5, <2>1, LineLeaves
<1>7. place' \in [Conns -> {"none", "queue", "paused", "active", "ended"}] BY <1>2, <1>5 DEF Ends
<1>8. \A c \in Conns : place'[c] # place[c] => place[c] \notin {"none", "ended"} /\ place'[c] # "none"
  BY <1>2, <1>5, LineIs DEF Ends, Waiting
<1> QED BY <1>1, <1>2, <1>6, <1>7, <1>8, LinesStep

LEMMA PauseKeeps == ASSUME IInv, NEW c \in Conns, Pause(c) PROVE IInv'
<1>1. /\ sched = "grow" /\ sched' = "grow" /\ UNCHANGED <<listening, client, conn, got, cancelled, drawn, channel, picks>>
      /\ flying' = flying /\ over' = over /\ c \in Active \ flying
      /\ place' = [place EXCEPT ![c] = "paused"] /\ line' \in {<<c>> \o line, Append(line, c)}
  BY DEF Pause
<1>2. /\ place \in [Conns -> {"none", "queue", "paused", "active", "ended"}] /\ flying \subseteq Active
      /\ over \subseteq Conns /\ line \in Seq(Conns) /\ IsInjective(line)
  BY LineIs DEF IInv, Typed
<1>3. place[c] = "active" BY <1>1 DEF Active
<1>4. c \notin ToSet(line) BY <1>3, LineIs DEF Waiting
<1>5. /\ line' \in Seq(Conns) /\ IsInjective(line') /\ ToSet(line') = ToSet(line) \cup {c}
  <2>1. CASE line' = <<c>> \o line BY <1>2, <1>4, <2>1, Ahead
  <2>2. CASE line' = Append(line, c) BY <1>2, <1>4, <2>2, AppendToSet
  <2> QED BY <1>1, <2>1, <2>2
<1>6. /\ place' \in [Conns -> {"none", "queue", "paused", "active", "ended"}]
      /\ place'[c] = "paused" /\ \A d \in Conns \ {c} : place'[d] = place[d]
  BY <1>1, <1>2
<1>7. Lined'
  <2>1. Waiting' = Waiting \cup {c} BY <1>6 DEF Waiting
  <2> QED BY <1>5, <2>1, LineIs DEF Lined
<1>8. flying' \subseteq Active' BY <1>1, <1>2, <1>6 DEF Active
<1>9. \A d \in Conns : place'[d] # place[d] => place[d] \notin {"none", "ended"} /\ place'[d] # "none" BY <1>3, <1>6
<1> QED BY <1>1, <1>2, <1>6, <1>7, <1>8, <1>9, LinesStep

\* The first of the line enter or, cancelled, end; passes take some of the active.
LEMMA FormKeeps == ASSUME IInv, Form PROVE IInv'
<1>1. /\ sched = "grow" /\ sched' = "look" /\ UNCHANGED <<listening, client, conn, got, cancelled, drawn, channel, picks>>
      /\ over' = over
  BY DEF Form
<1>2. PICK k \in 0..Len(line) : Admits(k) BY DEF Form
<1>3. /\ place \in [Conns -> {"none", "queue", "paused", "active", "ended"}] /\ flying \subseteq Active
      /\ over \subseteq Conns /\ line \in Seq(Conns) /\ IsInjective(line)
  BY LineIs DEF IInv, Typed
<1> DEFINE front == {line[i] : i \in 1..k}
           enter == front \ cancelled
<1>4. /\ line' = SubSeq(line, k + 1, Len(line))
      /\ place' = [c \in Conns |-> IF c \in enter THEN "active" ELSE
                             IF c \in ToSet(line) \ ToSet(line') THEN "ended" ELSE place[c]]
  BY <1>2 DEF Admits
<1>5. line' \in Seq(Conns) /\ IsInjective(line') /\ ToSet(line') \subseteq ToSet(line) /\ front = ToSet(line) \ ToSet(line')
  BY <1>3, <1>4, RestOf
<1> HIDE DEF front
<1>6. \A c \in Conns : place'[c] = IF c \in enter THEN "active" ELSE IF c \in front THEN "ended" ELSE place[c]
  BY <1>4, <1>5
<1>7. front \subseteq Waiting /\ ToSet(line') = Waiting \ front BY <1>5, LineIs
<1>8. place' \in [Conns -> {"none", "queue", "paused", "active", "ended"}] BY <1>3, <1>4
<1>9. Lined'
  <2>1. Waiting' = Waiting \ front BY <1>6 DEF Waiting
  <2> QED BY <1>5, <1>7, <2>1 DEF Lined
<1>10. flying' \subseteq Active'
  <2>1. PICK cs \in SUBSET {c \in Conns : place'[c] = "active"} : flying' = flying \cup cs BY DEF Form
  <2>2. Active \subseteq Active' BY <1>6, <1>7 DEF Active, Waiting
  <2> QED BY <1>3, <2>1, <2>2 DEF Active
<1>11. \A c \in Conns : place'[c] # place[c] => place[c] \notin {"none", "ended"} /\ place'[c] # "none"
  BY <1>6, <1>7 DEF Waiting
<1> QED BY <1>1, <1>3, <1>8, <1>9, <1>10, <1>11, LinesStep

\* A draw: its tokens go to the scheduler's hand, with no more rows than the
\* channel may still take.
LEMMA RetireKeeps == ASSUME IInv, NEW c \in Conns, Retire(c) PROVE IInv'
<1>1. /\ sched = "retire" /\ flying' = flying \ {c} /\ c \in flying /\ flying \subseteq Active /\ picks = NoPicks
      /\ UNCHANGED <<listening, client, conn, got, place, line, pauses, cancelled, channel>>
      /\ drawn \in [Conns -> Nat] /\ over \subseteq Conns /\ place[c] = "active"
  BY DEF Retire, IInv, Typed, Stepping, Active
<1>2. Active' = Active BY <1>1 DEF Active
<1>3. Lined' BY <1>1 DEF IInv, Lined, Waiting
<1>4. CASE c \in cancelled /\ UNCHANGED <<sched, over, drawn, picks>>
  <2>1. \A d \in Conns : place'[d] = place[d] BY <1>1
  <2>2. place' \in [Conns -> {"none", "queue", "paused", "active", "ended"}] BY <1>1 DEF IInv, Typed
  <2>3. flying' \subseteq Active' BY <1>1, <1>2
  <2> QED BY <1>1, <1>3, <1>4, <2>1, <2>2, <2>3, LinesStep
<1>5. ASSUME c \notin cancelled, NEW n \in 0..MaxPicks, drawn[c] + n <= MaxTokens[c],
             drawn' = [drawn EXCEPT ![c] = @ + n], over' \subseteq Conns,
             picks' = IF n = 0 THEN NoPicks ELSE [of |-> {c}, tokens |-> [i \in 1..n |-> i <= Copies(c)]],
             sched' = IF n = 0 THEN "retire" ELSE "step"
      PROVE  IInv'
  <2>1. /\ n \in Nat /\ drawn[c] \in Nat /\ got[c] \in Nat /\ rows[c] \in Nat /\ RowsWaiting \in Nat
        /\ drawn'[c] = drawn[c] + n /\ drawn' \in [Conns -> Nat] /\ \A d \in Conns \ {c} : drawn'[d] = drawn[d]
    BY <1>1, <1>5, ServingAssumption DEF IInv, Typed
  <2>2. Copies(c) \in Nat /\ rows[c] + Copies(c) <= RowsWaiting
    <3>1. rows[c] <= RowsWaiting
      <4>1. rows[c] + RowsInHand(c) <= RowsWaiting /\ RowsInHand(c) \in Nat BY HandCounts DEF IInv, Accounted
      <4> QED BY <2>1, <4>1
    <3> QED BY <2>1, <3>1 DEF Copies
  <2> DEFINE ts == [i \in 1..n |-> i <= Copies(c)]
  <2>3. ts \in Seq(BOOLEAN) /\ Len(ts) = n /\ RowsOf(ts) <= Copies(c) /\ RowsOf(ts) \in Nat
    <3>1. ts \in Seq(BOOLEAN) /\ Len(ts) = n /\ RowsOf(ts) <= Copies(c) BY <2>1, <2>2, RowsOfInitial
    <3> HIDE DEF ts
    <3> QED BY <3>1, RowsOfCount
  <2>4. picks' = IF n = 0 THEN NoPicks ELSE [of |-> {c}, tokens |-> ts] BY <1>5
  <2> HIDE DEF ts
  <2>5. InHand(c)' = n /\ RowsInHand(c)' \in Nat /\ RowsInHand(c)' <= Copies(c)
    <3>1. CASE n = 0
      <4>1. picks' = NoPicks BY <2>4, <3>1
      <4> QED BY <2>2, <3>1, <4>1 DEF InHand, RowsInHand, NoPicks
    <3>2. CASE n # 0
      <4>1. picks'.of = {c} /\ picks'.tokens = ts BY <2>4, <3>2
      <4> QED BY <2>3, <4>1 DEF InHand, RowsInHand
    <3> QED BY <3>1, <3>2
  <2>6. Typed'
    <3>1. flying' \subseteq Active' BY <1>1, <1>2
    <3>2. sched' \in {"retire", "step"} BY <1>5
    <3> QED BY <1>1, <1>5, <2>1, <3>1, <3>2 DEF IInv, Typed, listening, channel
  <2>7. Opened' BY <1>1 DEF IInv, Opened, Busy, listening
  <2>8. Stepping'
    <3>1. CASE n = 0
      <4>1. picks' = NoPicks /\ sched' = "retire" BY <1>5, <3>1
      <4> QED BY <4>1 DEF Stepping, NoPicks
    <3>2. CASE n # 0
      <4>1. picks' = [of |-> {c}, tokens |-> ts] /\ sched' = "step" BY <1>5, <2>4, <3>2
      <4>2. ts # <<>>
        <5>1. Len(<<>>) = 0 OBVIOUS
        <5> QED BY <2>3, <3>2, <5>1
      <4>3. c \in Active' BY <1>1, <1>2
      <4> QED BY <2>3, <4>1, <4>2, <4>3 DEF Stepping
    <3> QED BY <3>1, <3>2
  <2>9. ASSUME NEW d \in Conns PROVE Placed(d)' /\ Accounted(d)'
    <3>1. CASE d = c
      <4>1. Placed(c) /\ Accounted(c) BY DEF IInv
      <4>2. Placed(c)' BY <1>1, <4>1 DEF Placed
      <4>3. InHand(c) = 0 /\ Len(out[c]) \in Nat BY <1>1, HandCounts DEF IInv, InHand, NoPicks
      <4>4. Held(c)' = Held(c) + n /\ Held(c) \in Nat
        <5>1. Writing(c) \in Nat /\ Writing(c)' = Writing(c) /\ out'[c] = out[c] BY <1>1 DEF Writing, channel
        <5> QED BY <2>1, <2>5, <4>3, <5>1 DEF Held
      <4>5. rows'[c] = RowsOf(out'[c]) /\ rows'[c] + RowsInHand(c)' <= RowsWaiting
        <5>1. rows'[c] = rows[c] /\ out'[c] = out[c] BY <1>1 DEF channel
        <5> QED BY <2>1, <2>2, <2>5, <4>1, <5>1 DEF Accounted
      <4>6. got'[c] + Held(c)' = drawn'[c] /\ drawn'[c] <= MaxTokens[c]
        <5>1. got[c] + Held(c) = drawn[c] /\ got'[c] = got[c] BY <1>1, <1>5, <4>1 DEF Accounted
        <5> QED BY <1>5, <2>1, <4>4, <5>1
      <4>7. conn'[c] \notin {"none", "read", "answer", "done"} BY <1>1, <4>1 DEF Placed
      <4>8. got'[c] + Held(c)' <= drawn'[c]
        <5>1. drawn'[c] \in Nat BY <2>1
        <5> QED BY <4>6, <5>1
      <4> QED BY <3>1, <4>2, <4>5, <4>6, <4>7, <4>8 DEF Accounted
    <3>2. CASE d # c
      <4>1. d \notin picks.of /\ d \notin picks'.of BY <1>1, <2>4, <3>2 DEF NoPicks
      <4>2. Same(d) BY <1>1, <2>1, <3>2, <4>1 DEF Same, channel
      <4>3. Placed(d) /\ Accounted(d) BY DEF IInv
      <4> QED BY <4>2, <4>3, Untouched
    <3> QED BY <3>1, <3>2
  <2> QED BY <1>3, <2>6, <2>7, <2>8, <2>9 DEF IInv
<1>6. over \cup {c} \subseteq Conns BY <1>1
<1> QED BY <1>1, <1>4, <1>5, <1>6 DEF Retire

\* A push: a token goes from the hand to its request's channel, and its row.
LEMMA StepKeeps == ASSUME IInv, Step PROVE IInv'
<1>1. PICK c \in Active : picks.of = {c} BY DEF Step, IInv, Stepping
<1> DEFINE ts == picks.tokens
           one == IF Head(ts) THEN 1 ELSE 0
<1>2. /\ c \in Conns /\ sched = "step" /\ ts \in Seq(BOOLEAN) /\ ts # <<>> /\ picks = [of |-> {c}, tokens |-> ts]
      /\ UNCHANGED <<listening, client, conn, got, lines, cancelled, drawn>>
      /\ out' = [out EXCEPT ![c] = Append(@, Head(ts))]
      /\ picks' = (IF Len(ts) = 1 THEN NoPicks ELSE [picks EXCEPT !.tokens = Tail(@)])
      /\ sched' = (IF Len(ts) = 1 THEN "retire" ELSE "step")
  BY <1>1 DEF Step, IInv, Stepping, Active
<1> HIDE DEF ts
<1>3. /\ Head(ts) \in BOOLEAN /\ Tail(ts) \in Seq(BOOLEAN) /\ Len(ts) = Len(Tail(ts)) + 1 /\ Len(Tail(ts)) \in Nat
      /\ RowsOf(ts) = RowsOf(Tail(ts)) + one /\ RowsOf(Tail(ts)) \in Nat /\ one \in {0, 1}
  <2>1. /\ Head(ts) \in BOOLEAN /\ Tail(ts) \in Seq(BOOLEAN) /\ Len(ts) = Len(Tail(ts)) + 1
        /\ RowsOf(ts) = RowsOf(Tail(ts)) + one /\ one \in {0, 1}
    BY <1>2, RowsOfTail
  <2>2. Len(Tail(ts)) \in Nat /\ RowsOf(Tail(ts)) \in Nat BY <2>1, LenProperties, RowsOfCount
  <2> QED BY <2>1, <2>2
<1>4. /\ out[c] \in Seq(BOOLEAN) /\ rows[c] \in Nat /\ rows[c] = RowsOf(out[c]) /\ Len(out[c]) \in Nat
      /\ Placed(c) /\ Accounted(c) /\ place[c] = "active"
  <2>1. out[c] \in Seq(BOOLEAN) /\ rows[c] \in Nat /\ Accounted(c) /\ Placed(c) BY <1>2 DEF IInv, Typed
  <2>2. Len(out[c]) \in Nat BY <2>1, LenProperties
  <2> QED BY <1>1, <2>1, <2>2 DEF Accounted, Active
<1>5. RowsOf(Append(out[c], Head(ts))) = RowsOf(out[c]) + one
  BY <1>3, <1>4, RowsOfAppend
<1>6. rows'[c] = rows[c] + one /\ rows' \in [Conns -> Nat] /\ \A d \in Conns \ {c} : rows'[d] = rows[d]
  <2>1. rows \in [Conns -> Nat] BY DEF IInv, Typed
  <2>2. rows' = [rows EXCEPT ![c] = IF Head(ts) THEN rows[c] + 1 ELSE rows[c]] BY <1>1 DEF Step, ts
  <2>3. (IF Head(ts) THEN rows[c] + 1 ELSE rows[c]) = rows[c] + one
    <3>1. CASE Head(ts)
      <4>1. one = 1 BY <3>1
      <4> QED BY <3>1, <4>1
    <3>2. CASE ~Head(ts)
      <4>1. one = 0 BY <3>2
      <4>2. rows[c] + 0 = rows[c] BY <1>4
      <4> QED BY <3>2, <4>1, <4>2
    <3> QED BY <3>1, <3>2
  <2>4. rows' = [rows EXCEPT ![c] = rows[c] + one] BY <2>2, <2>3
  <2> HIDE DEF one
  <2> QED BY <1>2, <1>3, <2>1, <2>4
<1> HIDE DEF one
<1>7. /\ out'[c] = Append(out[c], Head(ts)) /\ out' \in [Conns -> Seq(BOOLEAN)] /\ Len(out'[c]) = Len(out[c]) + 1
      /\ \A d \in Conns \ {c} : out'[d] = out[d]
  <2>1. out \in [Conns -> Seq(BOOLEAN)] BY DEF IInv, Typed
  <2>2. Append(out[c], Head(ts)) \in Seq(BOOLEAN) /\ Len(Append(out[c], Head(ts))) = Len(out[c]) + 1
    BY ONLY <1>3, <1>4, AppendProperties
  <2> QED BY <1>2, <2>1, <2>2
<1>8. Active' = Active /\ Lined' BY <1>2 DEF Active, IInv, Lined, Waiting, lines
<1>9. Typed'
  <2>1. sched' \in {"retire", "step"} BY <1>2
  <2> QED BY <1>2, <1>6, <1>7, <1>8, <2>1 DEF IInv, Typed, listening, lines
<1>10. Opened' BY <1>2 DEF IInv, Opened, Busy, listening
<1>11. /\ Stepping' /\ InHand(c)' = Len(Tail(ts)) /\ RowsInHand(c)' = RowsOf(Tail(ts))
       /\ \A d \in Conns \ {c} : d \notin picks.of /\ d \notin picks'.of
  <2>1. CASE Len(ts) = 1
    <3>1. picks' = NoPicks /\ sched' = "retire" BY <1>2, <2>1
    <3>2. Len(Tail(ts)) = 0
      <4> DEFINE k == Len(Tail(ts))
      <4>1. 1 = k + 1 /\ k \in Nat BY ONLY <1>3, <2>1
      <4> HIDE DEF k
      <4>2. k = 0 BY ONLY <4>1
      <4> QED BY <4>2 DEF k
    <3>3. Tail(ts) = <<>> BY <1>3, <3>2, EmptySeq
    <3>4. RowsOf(Tail(ts)) = 0 BY <3>3, RowsOfNone
    <3> QED BY <1>1, <3>1, <3>2, <3>4 DEF Stepping, NoPicks, InHand, RowsInHand
  <2>2. CASE Len(ts) # 1
    <3>1. picks' = [of |-> {c}, tokens |-> Tail(ts)] /\ sched' = "step" BY <1>2, <2>2
    <3>2. Tail(ts) # <<>>
      <4>1. Len(Tail(ts)) # 0 BY <1>3, <2>2
      <4>2. Len(<<>>) = 0 OBVIOUS
      <4> QED BY <4>1, <4>2
    <3>3. c \in Active' BY <1>8
    <3>4. picks'.of = {c} /\ picks'.tokens = Tail(ts) BY <3>1
    <3> QED BY <1>2, <1>3, <3>1, <3>2, <3>3, <3>4 DEF Stepping, InHand, RowsInHand
  <2> QED BY <2>1, <2>2
<1>12. ASSUME NEW d \in Conns PROVE Placed(d)' /\ Accounted(d)'
  <2>1. CASE d = c
    <3>1. Placed(c)' BY <1>2, <1>4 DEF Placed, lines
    <3>2. InHand(c) = Len(ts) /\ RowsInHand(c) = RowsOf(ts) BY <1>1 DEF InHand, RowsInHand, ts
    <3>3. Held(c)' = Held(c) /\ Held(c) \in Nat
      <4>1. Writing(c) \in Nat /\ Writing(c)' = Writing(c) BY <1>2 DEF Writing
      <4> DEFINE w == Writing(c)
                 k == Len(Tail(ts))
                 l == Len(out[c])
      <4>2. w \in Nat /\ k \in Nat /\ l \in Nat BY <1>3, <1>4, <4>1
      <4>3. Held(c) = w + l + (k + 1)
        <5>1. InHand(c) = k + 1 BY ONLY <1>3, <3>2
        <5> QED BY <5>1 DEF Held
      <4>4. Held(c)' = w + (l + 1) + k
        <5>1. Writing(c)' = w /\ Len(out'[c]) = l + 1 /\ InHand(c)' = k BY <1>7, <1>11, <4>1
        <5> QED BY <5>1 DEF Held
      <4> HIDE DEF w, k, l
      <4> QED BY ONLY <4>2, <4>3, <4>4
    <3>4. rows'[c] = RowsOf(out'[c]) BY <1>4, <1>5, <1>6, <1>7
    <3>5. rows'[c] + RowsInHand(c)' <= RowsWaiting
      <4>1. rows[c] + RowsOf(ts) <= RowsWaiting /\ RowsWaiting \in Nat BY <1>4, <3>2, ServingAssumption DEF Accounted
      <4> QED BY <1>3, <1>4, <1>5, <1>6, <1>11, <4>1
    <3>6. conn'[c] \notin {"none", "read", "answer", "done"} BY <1>2, <1>4 DEF Placed
    <3>7. /\ got'[c] + Held(c)' <= drawn'[c] /\ drawn'[c] <= MaxTokens[c]
          /\ c \notin cancelled' => got'[c] + Held(c)' = drawn'[c]
      BY <1>2, <1>4, <3>3 DEF Accounted
    <3> QED BY <2>1, <3>1, <3>4, <3>5, <3>6, <3>7 DEF Accounted
  <2>2. CASE d # c
    <3>1. Same(d) BY <1>2, <1>6, <1>7, <1>11, <2>2 DEF Same, lines
    <3>2. Placed(d) /\ Accounted(d) BY DEF IInv
    <3> QED BY <3>1, <3>2, Untouched
  <2> QED BY <2>1, <2>2
<1> QED BY <1>8, <1>9, <1>10, <1>11, <1>12 DEF IInv

-----------------------------------------------------------------------------
LEMMA NextKeeps == IInv /\ [Next]_vars => IInv'
<1> SUFFICES ASSUME IInv, [Next]_vars PROVE IInv' OBVIOUS
<1>1. CASE Next
  <2>1. CASE Scheduler
    <3>1. CASE Look BY <3>1, LookKeeps
    <3>2. CASE Step BY <3>2, StepKeeps
    <3>3. CASE Settle BY <3>3, SettleKeeps
    <3>4. CASE Form BY <3>4, FormKeeps
    <3>5. CASE Abort BY <3>5, AbortKeeps
    <3>6. CASE Clear BY <3>6, ClearKeeps
    <3>7. ASSUME NEW c \in Conns, Lands(c) \/ Pause(c) PROVE IInv'
      BY <3>7, RetireKeeps, FailKeeps, PauseKeeps DEF Lands
    <3> QED BY <2>1, <3>1, <3>2, <3>3, <3>4, <3>5, <3>6, <3>7 DEF Scheduler
  <2>2. CASE Close \/ Serve \/ \E c \in Conns : HangUp(c) BY <2>2, OutsideKeeps
  <2>3. ASSUME NEW c \in Conns, Accept(c) PROVE IInv' BY <2>3, AcceptKeeps
  <2>4. ASSUME NEW c \in Conns, Thread(c) PROVE IInv' BY <2>4, ThreadKeeps
  <2> QED BY <1>1, <2>1, <2>2, <2>3, <2>4 DEF Next
<1>2. CASE UNCHANGED vars
  <2>1. UNCHANGED <<listening, client, conn, got, sched, lines, cancelled, drawn, channel, picks>> BY <1>2 DEF vars
  <2>2. Typed' /\ Opened' /\ Lined' /\ Stepping'
    <3>1. Typed' BY <2>1 DEF IInv, Typed, Active, listening, lines, channel
    <3>2. Opened' BY <2>1 DEF IInv, Opened, Busy, listening
    <3>3. Lined' BY <2>1 DEF IInv, Lined, Waiting, lines
    <3>4. Stepping' BY <2>1 DEF IInv, Stepping, Active, NoPicks, lines
    <3> QED BY <3>1, <3>2, <3>3, <3>4
  <2>3. ASSUME NEW c \in Conns PROVE Placed(c)' /\ Accounted(c)'
    <3>1. Same(c) BY <2>1 DEF Same, lines, channel
    <3>2. Placed(c) /\ Accounted(c) BY DEF IInv
    <3> QED BY <3>1, <3>2, Untouched
  <2> QED BY <2>2, <2>3 DEF IInv
<1> QED BY <1>1, <1>2

LEMMA InvariantHolds == Spec => []IInv
BY InitHolds, NextKeeps, PTL DEF Spec

\* An answered reply took all: nothing of it is on the channel or in a hand.
LEMMA WholeByInvariant == IInv => WholeReply
<1> SUFFICES ASSUME IInv, NEW c \in Conns, conn[c] = "answer", c \notin cancelled PROVE got[c] = drawn[c]
  BY DEF WholeReply
<1>1. out[c] = <<>> /\ place[c] = "ended" /\ got[c] + Held(c) = drawn[c] /\ got[c] \in Nat
  BY DEF IInv, Placed, Accounted, Typed
<1>2. InHand(c) = 0 BY <1>1, HandCounts DEF IInv
<1>3. Len(out[c]) = 0 /\ Writing(c) = 0 BY <1>1 DEF Writing
<1>4. Held(c) = 0 BY <1>2, <1>3 DEF Held
<1> QED BY <1>1, <1>4

LEMMA SoundByInvariant == IInv => ServingSound
<1> SUFFICES ASSUME IInv PROVE ServingSound OBVIOUS
<1>1. TypeOK
  <2>1. open \in 0..Cardinality(Conns)
    <3>1. Busy \subseteq Conns BY DEF Busy
    <3>2. Cardinality(Busy) <= Cardinality(Conns) /\ Cardinality(Busy) \in Nat /\ Cardinality(Conns) \in Nat
      BY <3>1, ServingAssumption, FS_Subset, FS_CardinalityType
    <3> QED BY <3>2 DEF IInv, Opened
  <2>2. \A c \in Conns : got[c] \in 0..drawn[c] /\ drawn[c] \in 0..MaxTokens[c]
    <3>1. TAKE c \in Conns
    <3>2. got[c] \in Nat /\ drawn[c] \in Nat /\ MaxTokens[c] \in Nat BY ServingAssumption DEF IInv, Typed
    <3>3. got[c] + Held(c) <= drawn[c] /\ drawn[c] <= MaxTokens[c] BY DEF IInv, Accounted
    <3>4. Held(c) \in Nat BY HandCounts DEF IInv
    <3> QED BY <3>2, <3>3, <3>4
  <2>3. IsInjective(line) /\ ToSet(line) = {c \in Conns : place[c] \in {"queue", "paused"}}
    BY LineIs DEF Waiting
  <2>4. \A c \in Conns : out[c] \in Seq(BOOLEAN) /\ rows[c] = RowsOf(out[c]) BY DEF IInv, Typed, Accounted
  <2>5. picks.of \subseteq Conns /\ picks.tokens \in Seq(BOOLEAN)
    <3>1. CASE sched = "step" BY <3>1 DEF IInv, Stepping, Active
    <3>2. CASE sched # "step" BY <3>2 DEF IInv, Stepping, NoPicks
    <3> QED BY <3>1, <3>2
  <2>6. /\ closed \in BOOLEAN /\ main \in {"wait", "join", "drain", "returned"}
        /\ client \in [Conns -> {"calling", "there", "left"}]
        /\ conn \in [Conns -> {"none", "read", "next", "write", "answer", "drop", "done"}]
        /\ sched \in {"look", "asleep", "retire", "step", "grow", "abort", "clear", "ended"}
        /\ place \in [Conns -> {"none", "queue", "paused", "active", "ended"}]
        /\ flying \subseteq Active /\ cancelled \subseteq Conns /\ over \subseteq Conns
    BY DEF IInv, Typed
  <2> QED BY <2>1, <2>2, <2>3, <2>4, <2>5, <2>6 DEF TypeOK
<1>2. RowsBounded
  <2>1. ASSUME NEW c \in Conns PROVE RowsOf(out[c]) + RowsInHand(c) <= RowsWaiting BY DEF IInv, Accounted
  <2> QED BY <2>1 DEF RowsBounded, RowsInHand
<1>3. ServerOutlivesThreads
  <2>1. ASSUME main = "returned", NEW c \in Conns PROVE conn[c] \in {"none", "done"}
    <3>1. Cardinality(Busy) = 0 BY <2>1 DEF IInv, Opened
    <3>2. Busy = {}
      <4>1. IsFiniteSet(Busy) BY ServingAssumption, FS_Subset DEF Busy
      <4> QED BY <3>1, <4>1, FS_EmptySet
    <3> QED BY <3>2 DEF Busy
  <2> QED BY <2>1 DEF ServerOutlivesThreads
<1> QED BY <1>1, <1>2, <1>3 DEF ServingSound

\* Whatever the clients, the bounds and the interleaving, a reply that ends is
\* whole: Api::generate answers once next has ended, and by then every token the
\* scheduler drew for the request has been taken into it.
THEOREM ServingWholeReply == Spec => []WholeReply
BY InvariantHolds, WholeByInvariant, PTL

\* The channel's rows stay within kRowsWaiting, the lines name each waiting
\* request once, and serve returns after the last connection's thread.
THEOREM ServingIsSound == Spec => []ServingSound
BY InvariantHolds, SoundByInvariant, PTL
=============================================================================
