--------------------------- MODULE SequenceLemmas ---------------------------
(***************************************************************************)
(* What the proofs of several components need of numbers, sets and         *)
(* sequences.  LeastNat stands in for induction: a claim about every       *)
(* number up to a bound is proved from the least one it could fail for.    *)
(***************************************************************************)
EXTENDS Naturals, FiniteSets, Sequences, SequencesExt, FiniteSetTheorems, SequenceTheorems, TLAPS

-----------------------------------------------------------------------------
\* A nonempty set of numbers has a least one: what the inductions below use.
LEMMA LeastNat ==
    ASSUME NEW T \in SUBSET Nat, T # {}
    PROVE  \E x \in T : \A y \in T : x <= y
<1> DEFINE U == {0..x : x \in T}
<1>1. U \subseteq FiniteSubsetsOf(Nat)
  <2>1. ASSUME NEW x \in T PROVE IsFiniteSet(0..x) /\ 0..x \in SUBSET Nat
    BY FS_Interval
  <2> QED BY <2>1 DEF FiniteSubsetsOf
<1>2. PICK u \in U : \A v \in U : ~ (<<v, u>> \in StrictSubsetOrdering(Nat))
  <2>1. U # {} OBVIOUS
  <2> HIDE DEF U
  <2> QED BY <1>1, <2>1, WFMin, FS_StrictSubsetOrderingWellFounded
<1>3. PICK x \in T : u = 0..x BY <1>2
<1>4. ASSUME NEW y \in T, ~(x <= y) PROVE FALSE
  <2>1. 0..y \subseteq 0..x /\ 0..y # 0..x /\ 0..y \in SUBSET Nat /\ 0..x \in SUBSET Nat
    BY <1>4
  <2>2. <<0..y, u>> \in StrictSubsetOrdering(Nat) BY <2>1, <1>3 DEF StrictSubsetOrdering
  <2> QED BY <2>2, <1>2
<1> QED BY <1>4

\* Whole blocks and what is left over.
LEMMA DivMod ==
    ASSUME NEW n \in Nat, NEW B \in Nat \ {0}
    PROVE  n = B * (n \div B) + (n % B) /\ n \div B \in Nat /\ n % B \in 0..B - 1
  OBVIOUS

LEMMA DivGrows ==
    ASSUME NEW n \in Nat, NEW m \in Nat, n <= m, NEW B \in Nat \ {0}
    PROVE  n \div B <= m \div B /\ n \div B \in Nat /\ m \div B \in Nat
  OBVIOUS

-----------------------------------------------------------------------------
\* A sequence grown by an element it does not hold.
LEMMA AppendToSet ==
    ASSUME NEW S, NEW s \in Seq(S), NEW e \in S, IsInjective(s), e \notin ToSet(s)
    PROVE  /\ Append(s, e) \in Seq(S) /\ IsInjective(Append(s, e))
           /\ ToSet(Append(s, e)) = ToSet(s) \cup {e}
<1> DEFINE t == Append(s, e)
           n == Len(s)
<1>1. n \in Nat /\ DOMAIN s = 1..n /\ DOMAIN t = 1..n + 1 /\ t \in Seq(S) OBVIOUS
<1>2. (\A i \in 1..n : t[i] = s[i]) /\ t[n + 1] = e OBVIOUS
<1>3. \A i \in 1..n : s[i] # e BY <1>1 DEF ToSet
<1> HIDE DEF t, n
<1>4. IsInjective(t) BY <1>1, <1>2, <1>3 DEF IsInjective
<1>5. ToSet(t) = ToSet(s) \cup {e} BY <1>1, <1>2 DEF ToSet
<1> QED BY <1>1, <1>4, <1>5 DEF t

\* A sequence turned round.
LEMMA Turned ==
    ASSUME NEW S, NEW s \in Seq(S)
    PROVE  /\ Reverse(s) \in Seq(S) /\ ToSet(Reverse(s)) = ToSet(s)
           /\ IsInjective(s) => IsInjective(Reverse(s))
<1> DEFINE n == Len(s)
           t == Reverse(s)
<1>1. n \in Nat /\ DOMAIN s = 1..n /\ \A i \in 1..n : s[i] \in S OBVIOUS
<1>2. t = [i \in 1..n |-> s[(n - i) + 1]] BY DEF Reverse
<1>3. \A i \in 1..n : (n - i) + 1 \in 1..n /\ (n - ((n - i) + 1)) + 1 = i BY <1>1
<1>4. t \in [1..n -> S] BY <1>1, <1>2, <1>3
<1>5. t \in Seq(S) /\ DOMAIN t = 1..n BY <1>1, <1>2, <1>4
<1> HIDE DEF n, t
<1>6. \A i \in 1..n : t[i] = s[(n - i) + 1] BY <1>2
<1>7. ToSet(t) = ToSet(s) BY <1>1, <1>3, <1>5, <1>6 DEF ToSet
<1>8. ASSUME IsInjective(s), NEW i \in 1..n, NEW j \in 1..n, t[i] = t[j] PROVE i = j
  <2>1. (n - i) + 1 = (n - j) + 1 BY <1>1, <1>3, <1>6, <1>8 DEF IsInjective
  <2> QED BY <1>1, <2>1
<1>9. IsInjective(s) => IsInjective(t) BY <1>5, <1>8 DEF IsInjective
<1> QED BY <1>5, <1>7, <1>9 DEF t

\* Two sequences that share nothing, one after the other.
LEMMA Joined ==
    ASSUME NEW S, NEW s \in Seq(S), NEW t \in Seq(S), IsInjective(s), IsInjective(t), ToSet(s) \cap ToSet(t) = {}
    PROVE  /\ s \o t \in Seq(S) /\ Len(s \o t) = Len(s) + Len(t) /\ IsInjective(s \o t)
           /\ \A i \in 1..Len(s) : (s \o t)[i] = s[i]
           /\ \A i \in Len(s) + 1..Len(s \o t) : (s \o t)[i] \in ToSet(t)
           /\ ToSet(s \o t) = ToSet(s) \cup ToSet(t)
<1> DEFINE m == Len(s)
           n == Len(t)
           u == s \o t
<1>1. m \in Nat /\ n \in Nat /\ DOMAIN s = 1..m /\ DOMAIN t = 1..n OBVIOUS
<1>2. /\ u \in Seq(S) /\ Len(u) = m + n /\ \A i \in 1..m : u[i] = s[i]
      /\ \A i \in m + 1..m + n : u[i] = t[i - m]
  OBVIOUS
<1>3. DOMAIN u = 1..m + n
  <2>1. DOMAIN u = 1..Len(u) BY <1>2
  <2> QED BY <1>2, <2>1
<1> HIDE DEF m, n, u
<1>4. (\A i \in 1..m : s[i] \in ToSet(s)) /\ \A i \in 1..n : t[i] \in ToSet(t) BY <1>1 DEF ToSet
<1>5. \A i \in m + 1..m + n : i - m \in 1..n /\ u[i] \in ToSet(t)
  <2>1. \A i \in m + 1..m + n : i - m \in 1..n BY <1>1
  <2> QED BY <1>2, <1>4, <2>1
<1>6. ASSUME NEW i \in 1..m + n, NEW j \in 1..m + n, u[i] = u[j] PROVE i = j
  <2>1. CASE i <= m /\ j <= m
    <3>1. i \in 1..m /\ j \in 1..m BY <1>1, <2>1
    <3> QED BY <1>1, <1>2, <1>6, <3>1 DEF IsInjective
  <2>2. CASE ~(i <= m) /\ ~(j <= m)
    <3>1. i \in m + 1..m + n /\ j \in m + 1..m + n BY <1>1, <2>2
    <3>2. i - m \in 1..n /\ j - m \in 1..n /\ t[i - m] = t[j - m] BY <1>2, <1>5, <1>6, <3>1
    <3>3. i - m = j - m BY <1>1, <3>2 DEF IsInjective
    <3> QED BY <1>1, <3>3
  <2>3. CASE i <= m /\ ~(j <= m)
    <3>1. i \in 1..m /\ j \in m + 1..m + n BY <1>1, <2>3
    <3> QED BY <1>2, <1>4, <1>5, <1>6, <3>1
  <2>4. CASE ~(i <= m) /\ j <= m
    <3>1. j \in 1..m /\ i \in m + 1..m + n BY <1>1, <2>4
    <3> QED BY <1>2, <1>4, <1>5, <1>6, <3>1
  <2> QED BY <2>1, <2>2, <2>3, <2>4
<1>7. IsInjective(u) BY <1>3, <1>6 DEF IsInjective
<1>8. ToSet(u) \subseteq ToSet(s) \cup ToSet(t)
  <2>1. ASSUME NEW i \in 1..m + n PROVE u[i] \in ToSet(s) \cup ToSet(t)
    <3>1. CASE i <= m
      <4>1. i \in 1..m BY <1>1, <3>1
      <4> QED BY <1>2, <1>4, <4>1
    <3>2. CASE ~(i <= m)
      <4>1. i \in m + 1..m + n BY <1>1, <3>2
      <4> QED BY <1>5, <4>1
    <3> QED BY <3>1, <3>2
  <2> QED BY <1>3, <2>1 DEF ToSet
<1>9. ToSet(s) \cup ToSet(t) \subseteq ToSet(u)
  <2>1. ASSUME NEW i \in 1..m PROVE s[i] \in ToSet(u)
    <3>1. i \in 1..m + n BY <1>1
    <3> QED BY <1>2, <1>3, <3>1 DEF ToSet
  <2>2. ASSUME NEW i \in 1..n PROVE t[i] \in ToSet(u)
    <3>1. m + i \in 1..m + n /\ m + i \in m + 1..m + n /\ (m + i) - m = i BY <1>1
    <3>2. u[m + i] = t[i] BY <1>2, <3>1
    <3> QED BY <1>3, <3>1, <3>2 DEF ToSet
  <2> QED BY <1>1, <2>1, <2>2 DEF ToSet
<1> QED BY <1>2, <1>5, <1>7, <1>8, <1>9 DEF m, n, u

\* A sequence without repetition cut in two.
LEMMA Halves ==
    ASSUME NEW S, NEW t \in Seq(S), IsInjective(t), NEW k \in 0..Len(t)
    PROVE  /\ SubSeq(t, 1, k) \in Seq(S) /\ Len(SubSeq(t, 1, k)) = k /\ IsInjective(SubSeq(t, 1, k))
           /\ \A i \in 1..k : SubSeq(t, 1, k)[i] = t[i]
           /\ SubSeq(t, k + 1, Len(t)) \in Seq(S) /\ IsInjective(SubSeq(t, k + 1, Len(t)))
           /\ ToSet(SubSeq(t, 1, k)) = {t[i] : i \in 1..k}
           /\ ToSet(SubSeq(t, k + 1, Len(t))) = {t[i] : i \in k + 1..Len(t)}
           /\ ToSet(SubSeq(t, 1, k)) = ToSet(t) \ ToSet(SubSeq(t, k + 1, Len(t)))
           /\ ToSet(SubSeq(t, k + 1, Len(t))) \subseteq ToSet(t)
<1> DEFINE m == Len(t)
           H == SubSeq(t, 1, k)
           T == SubSeq(t, k + 1, m)
<1>0. t \in Seq(S) /\ IsInjective(t) /\ m \in Nat /\ DOMAIN t = 1..m /\ k \in 0..m /\ k \in Nat OBVIOUS
<1>1. H \in Seq(S) /\ Len(H) = k /\ \A i \in 1..k : H[i] = t[i]
  <2>1. 1 \in 1..m + 1 /\ k \in 1 - 1..m /\ k - 1 + 1 = k /\ \A i \in 1..k : 1 + i - 1 = i BY <1>0
  <2> HIDE DEF m
  <2>2. /\ SubSeq(t, 1, k) \in Seq(S) /\ Len(SubSeq(t, 1, k)) = k - 1 + 1
        /\ \A i \in 1..k - 1 + 1 : SubSeq(t, 1, k)[i] = t[1 + i - 1]
    BY <1>0, <2>1, SubSeqProperties DEF m
  <2> QED BY <2>1, <2>2
<1>2. T \in Seq(S) /\ Len(T) = m - k /\ \A i \in 1..m - k : T[i] = t[k + i]
  <2> DEFINE a == k + 1
  <2>1. a \in 1..m + 1 /\ m \in a - 1..m /\ m - a + 1 = m - k /\ \A i \in 1..m - k : a + i - 1 = k + i BY <1>0
  <2>2. T = SubSeq(t, a, m) OBVIOUS
  <2> HIDE DEF a, T
  <2>3. /\ SubSeq(t, a, m) \in Seq(S) /\ Len(SubSeq(t, a, m)) = m - a + 1
        /\ \A i \in 1..m - a + 1 : SubSeq(t, a, m)[i] = t[a + i - 1]
    BY <1>0, <2>1, SubSeqProperties
  <2> QED BY <2>1, <2>2, <2>3
<1> HIDE DEF m, H, T
<1>3. \A i, j \in 1..m : t[i] = t[j] => i = j BY <1>0 DEF IsInjective
<1>4. DOMAIN H = 1..k /\ DOMAIN T = 1..m - k
  <2>1. DOMAIN H = 1..Len(H) /\ DOMAIN T = 1..Len(T) BY <1>1, <1>2
  <2> QED BY <1>1, <1>2, <2>1
<1>5. IsInjective(H) BY <1>0, <1>1, <1>3, <1>4 DEF IsInjective
<1>6. IsInjective(T)
  <2>1. ASSUME NEW i \in 1..m - k, NEW j \in 1..m - k, T[i] = T[j] PROVE i = j
    <3>1. k + i \in 1..m /\ k + j \in 1..m /\ t[k + i] = t[k + j] BY <1>0, <1>2, <2>1
    <3>2. k + i = k + j BY <1>3, <3>1
    <3> QED BY <1>0, <3>2
  <2> QED BY <1>4, <2>1 DEF IsInjective
<1>7. ToSet(T) = {t[i] : i \in k + 1..m}
  <2>1. \A i \in 1..m - k : k + i \in k + 1..m BY <1>0
  <2>2. \A i \in k + 1..m : i - k \in 1..m - k /\ k + (i - k) = i BY <1>0
  <2>3. \A i \in k + 1..m : t[i] = T[i - k] BY <1>2, <2>2
  <2>4. ToSet(T) = {T[i] : i \in 1..m - k} BY <1>4 DEF ToSet
  <2>5. ASSUME NEW i \in 1..m - k PROVE T[i] \in {t[j] : j \in k + 1..m} BY <1>2, <2>1
  <2>6. ASSUME NEW j \in k + 1..m PROVE t[j] \in {T[i] : i \in 1..m - k} BY <2>2, <2>3
  <2> QED BY <2>4, <2>5, <2>6
<1>8. ToSet(H) = {t[i] : i \in 1..k} /\ ToSet(t) = {t[i] : i \in 1..m} BY <1>0, <1>1, <1>4 DEF ToSet
<1>9. 1..m = 1..k \cup k + 1..m /\ 1..k \cap k + 1..m = {} BY <1>0
<1>10. ToSet(H) = ToSet(t) \ ToSet(T) BY <1>3, <1>7, <1>8, <1>9
<1> QED BY <1>1, <1>2, <1>5, <1>6, <1>7, <1>8, <1>9, <1>10 DEF m, H, T

\* The elements of s in D, each put behind first, as a function of how many of
\* s have been looked at.
PickedAt(first, s, D, f, n) ==
    [i \in 0..n |-> IF i = 0 THEN first ELSE IF s[i] \in D THEN Append(f[i - 1], s[i]) ELSE f[i - 1]]

LEMMA PickedDefined ==
    ASSUME NEW first, NEW s, NEW D, NEW N \in Nat
    PROVE  \E f : f = PickedAt(first, s, D, f, N)
<1> DEFINE T == {n \in 0..N : ~ \E f : f = PickedAt(first, s, D, f, n)}
<1>1. SUFFICES T = {} OBVIOUS
<1>2. SUFFICES ASSUME T # {} PROVE FALSE OBVIOUS
<1>3. PICK x \in T : \A y \in T : x <= y
  <2>1. T \in SUBSET Nat OBVIOUS
  <2> HIDE DEF T
  <2> QED BY <1>2, <2>1, LeastNat
<1>4. x # 0
  <2>1. [i \in 0..0 |-> first] = PickedAt(first, s, D, [i \in 0..0 |-> first], 0) BY DEF PickedAt
  <2> QED BY <2>1
<1>5. PICK f : f = PickedAt(first, s, D, f, x - 1)
  <2>1. x - 1 \in 0..N /\ ~(x <= x - 1) BY <1>4
  <2> QED BY <1>3, <2>1
<1> DEFINE g == [i \in 0..x |-> IF i < x THEN f[i] ELSE IF s[x] \in D THEN Append(f[x - 1], s[x]) ELSE f[x - 1]]
<1>6. \A i \in 0..x : g[i] = PickedAt(first, s, D, g, x)[i]
  <2>1. TAKE i \in 0..x
  <2>2. CASE i = 0 BY <1>4, <1>5, <2>2 DEF PickedAt
  <2>3. CASE i # 0 /\ i < x
    <3>1. i - 1 \in 0..x /\ i - 1 < x /\ i \in 0..x - 1 BY <2>3
    <3>2. f[i] = IF s[i] \in D THEN Append(f[i - 1], s[i]) ELSE f[i - 1] BY <1>5, <2>3, <3>1 DEF PickedAt
    <3> QED BY <2>3, <3>1, <3>2 DEF PickedAt
  <2>4. CASE i = x BY <1>4, <2>4 DEF PickedAt
  <2> QED BY <2>2, <2>3, <2>4
<1>7. g = PickedAt(first, s, D, g, x) BY <1>6 DEF PickedAt
<1> QED BY <1>7

LEMMA Picked ==
    ASSUME NEW S, NEW first \in Seq(S), NEW s \in Seq(S), NEW D, NEW f, f = PickedAt(first, s, D, f, Len(s)),
           IsInjective(first), IsInjective(s), ToSet(first) \cap ToSet(s) = {}
    PROVE  /\ f[Len(s)] \in Seq(S) /\ IsInjective(f[Len(s)])
           /\ ToSet(f[Len(s)]) = ToSet(first) \cup (ToSet(s) \cap D)
<1> DEFINE N == Len(s)
           Some(n) == {s[j] : j \in {k \in 1..n : s[k] \in D}}
<1>1. N \in Nat /\ DOMAIN s = 1..N /\ \A j \in 1..N : s[j] \in S OBVIOUS
<1>2. f[0] = first BY <1>1 DEF PickedAt
<1>3. \A i \in 1..N : f[i] = IF s[i] \in D THEN Append(f[i - 1], s[i]) ELSE f[i - 1]
  <2>1. TAKE i \in 1..N
  <2>2. f[i] = PickedAt(first, s, D, f, N)[i] OBVIOUS
  <2>3. i \in 0..N /\ i # 0 BY <1>1
  <2> HIDE DEF N
  <2> QED BY <2>2, <2>3 DEF PickedAt
<1> DEFINE Good(n) == f[n] \in Seq(S) /\ IsInjective(f[n]) /\ ToSet(f[n]) = ToSet(first) \cup Some(n)
           T == {n \in 0..N : ~Good(n)}
<1>4. T = {}
  <2>1. SUFFICES ASSUME T # {} PROVE FALSE OBVIOUS
  <2>2. PICK x \in T : \A y \in T : x <= y
    <3>1. T \in SUBSET Nat BY <1>1
    <3> HIDE DEF T
    <3> QED BY <2>1, <3>1, LeastNat
  <2>3. x # 0
    <3>1. Some(0) = {} BY <1>1
    <3>2. Good(0) BY <1>2, <3>1
    <3> QED BY <3>2
  <2>4. Good(x - 1) /\ x \in 1..N /\ x - 1 \in Nat
    <3>1. x - 1 \in 0..N /\ ~(x <= x - 1) /\ x \in 1..N BY <1>1, <2>3
    <3>2. x - 1 \notin T BY <2>2, <3>1
    <3> HIDE DEF Good
    <3> QED BY <3>1, <3>2
  <2>5. CASE s[x] \notin D
    <3>1. f[x] = f[x - 1] BY <1>3, <2>4, <2>5
    <3>2. {k \in 1..x : s[k] \in D} = {k \in 1..x - 1 : s[k] \in D} BY <2>4, <2>5
    <3>3. Some(x) = Some(x - 1) BY <3>2
    <3> QED BY <2>4, <3>1, <3>3
  <2>6. CASE s[x] \in D
    <3>1. f[x] = Append(f[x - 1], s[x]) BY <1>3, <2>4, <2>6
    <3>2. {k \in 1..x : s[k] \in D} = {k \in 1..x - 1 : s[k] \in D} \cup {x} BY <2>4, <2>6
    <3>3. Some(x) = Some(x - 1) \cup {s[x]} BY <3>2
    <3>4. s[x] \notin ToSet(first) /\ s[x] \in S BY <1>1, <2>4 DEF ToSet
    <3>5. s[x] \notin Some(x - 1)
      <4>1. \A k \in 1..x - 1 : k \in 1..N /\ k # x BY <1>1, <2>4
      <4>2. \A k \in 1..x - 1 : s[k] # s[x] BY <1>1, <2>4, <4>1 DEF IsInjective
      <4> QED BY <4>2
    <3>6. s[x] \notin ToSet(f[x - 1]) BY <2>4, <3>4, <3>5
    <3>7. Good(x)
      <4> HIDE DEF Some
      <4>1. f[x - 1] \in Seq(S) /\ IsInjective(f[x - 1]) BY <2>4
      <4>2. f[x] \in Seq(S) /\ IsInjective(f[x]) /\ ToSet(f[x]) = ToSet(f[x - 1]) \cup {s[x]}
        BY <3>1, <3>4, <3>6, <4>1, AppendToSet
      <4> QED BY <2>4, <3>3, <4>2
    <3> QED BY <3>7
  <2> QED BY <2>5, <2>6
<1>5. Good(N)
  <2>1. N \in 0..N BY <1>1
  <2> QED BY <1>4, <2>1
<1>6. Some(N) = ToSet(s) \cap D BY <1>1 DEF ToSet
<1> QED BY <1>5, <1>6

\* A sequence that begins with u is u and then the rest of it.
LEMMA Grown ==
    ASSUME NEW T, NEW u \in Seq(T), NEW v \in Seq(T), Len(u) <= Len(v), \A i \in 1..Len(u) : v[i] = u[i]
    PROVE  v = u \o SubSeq(v, Len(u) + 1, Len(v))
<1> DEFINE m == Len(u)
           n == Len(v)
           a == m + 1
           w == SubSeq(v, a, n)
<1>1. m \in Nat /\ n \in Nat /\ a \in 1..n + 1 /\ n \in a - 1..n /\ n - a + 1 = n - m /\ m + (n - m) = n /\ m <= n OBVIOUS
<1>2. \A i \in 1..n - m : a + i - 1 = m + i BY <1>1
<1> HIDE DEF a
<1>3. w \in Seq(T) /\ Len(w) = n - a + 1 /\ \A i \in 1..n - a + 1 : w[i] = v[a + i - 1] BY <1>1, SubSeqProperties
<1>4. Len(w) = n - m /\ \A i \in 1..n - m : w[i] = v[m + i] BY <1>1, <1>2, <1>3
<1>5. m = Len(u) OBVIOUS
<1> HIDE DEF m, n, w
<1>6. u \o w \in Seq(T) /\ Len(u \o w) = m + Len(w) /\ \A i \in 1..m + Len(w) : (u \o w)[i] = IF i <= m THEN u[i] ELSE w[i - m]
  <2>1. u \in Seq(T) /\ w \in Seq(T) BY <1>3
  <2>2. /\ u \o w \in Seq(T) /\ Len(u \o w) = Len(u) + Len(w)
        /\ \A i \in 1..Len(u) + Len(w) : (u \o w)[i] = IF i <= Len(u) THEN u[i] ELSE w[i - Len(u)]
    BY ONLY <2>1, ConcatProperties
  <2> QED BY <1>5, <2>2
<1>7. Len(u \o w) = n BY <1>1, <1>4, <1>6
<1>8. \A i \in 1..m : v[i] = u[i] BY <1>5
<1>9. ASSUME NEW i \in 1..n PROVE (u \o w)[i] = v[i]
  <2>1. CASE i <= m
    <3>1. i \in 1..m /\ i \in 1..m + Len(w) BY <1>1, <1>4, <2>1
    <3>2. (u \o w)[i] = u[i] BY <1>6, <2>1, <3>1
    <3> QED BY <1>8, <3>1, <3>2
  <2>2. CASE ~(i <= m)
    <3>1. i - m \in 1..n - m /\ m + (i - m) = i BY <1>1, <2>2
    <3>2. w[i - m] = v[i] BY <1>4, <3>1
    <3>3. (u \o w)[i] = w[i - m] BY <1>1, <1>4, <1>6, <2>2
    <3> QED BY <3>2, <3>3
  <2> QED BY <2>1, <2>2
<1>10. u \o w = v BY <1>1, <1>3, <1>6, <1>7, <1>9, SeqEqual DEF n
<1> QED BY <1>10 DEF w, a, m, n
=============================================================================
