--------------------------- MODULE KVCache_proofs ---------------------------
(***************************************************************************)
(* The block pool loses and doubles no block, and read through its table   *)
(* each history is a list of its own: KVCache implements Histories.        *)
(*                                                                         *)
(* The argument: a block's count is the number of tables that name it, the *)
(* free list is exactly the uncounted ids handed out before, and a step in *)
(* progress writes only past its history's committed rows, into blocks no  *)
(* other table names.                                                      *)
(***************************************************************************)
EXTENDS KVCache, SequenceLemmas, FiniteSetTheorems, SequenceTheorems, TLAPS

-----------------------------------------------------------------------------
\* Row n lies in the block its table's length covers, and in the last one when
\* it is the last row.
LEMMA BlocksForRows ==
    ASSUME NEW n \in Nat
    PROVE  /\ BlocksFor(n) \in Nat
           /\ n \div BlockTokens <= BlocksFor(n) /\ BlocksFor(n) <= n \div BlockTokens + 1
           /\ n % BlockTokens = 0 <=> BlocksFor(n) = n \div BlockTokens
           /\ n = 0 <=> BlocksFor(n) = 0
<1> DEFINE B == BlockTokens
           q == n \div B
           r == n % B
<1>0. B \in Nat \ {0} BY KVCacheAssumption
<1>1. n = B * q + r /\ q \in Nat /\ r \in 0..B - 1 BY <1>0, DivMod
<1>2. CASE r = 0
  <2>1. n + B - 1 = B * q + (B - 1) BY <1>0, <1>1, <1>2
  <2>2. (B * q + (B - 1)) \div B = q
    <3> HIDE DEF q
    <3> QED BY <1>0, <1>1
  <2>3. BlocksFor(n) = q BY <2>1, <2>2 DEF BlocksFor
  <2>4. n = 0 <=> q = 0
    <3> HIDE DEF q, r
    <3> QED BY <1>0, <1>1, <1>2
  <2> QED BY <2>3, <2>4, <1>1, <1>2
<1>3. CASE r # 0
  <2>1. n + B - 1 = B * (q + 1) + (r - 1) /\ r - 1 \in 0..B - 1
    <3> HIDE DEF q, r
    <3> QED BY <1>0, <1>1, <1>3
  <2>2. (B * (q + 1) + (r - 1)) \div B = q + 1
    <3> HIDE DEF q, r
    <3> QED BY <1>0, <1>1, <2>1
  <2>3. BlocksFor(n) = q + 1 BY <2>1, <2>2 DEF BlocksFor
  <2>4. n # 0 BY <1>0, <1>1, <1>3
  <2> QED BY <2>3, <2>4, <1>1, <1>3
<1> QED BY <1>2, <1>3

LEMMA BlocksForNat ==
    ASSUME NEW n \in Nat
    PROVE  BlocksFor(n) \in Nat
  BY BlocksForRows

\* A longer history has no fewer blocks.
LEMMA BlocksForGrows ==
    ASSUME NEW n \in Nat, NEW m \in Nat, n <= m
    PROVE  BlocksFor(n) <= BlocksFor(m)
<1> DEFINE a == n + BlockTokens - 1
           b == m + BlockTokens - 1
<1>1. a \in Nat /\ b \in Nat /\ a <= b /\ BlockTokens \in Nat \ {0} BY KVCacheAssumption
<1>2. a \div BlockTokens <= b \div BlockTokens
  <2> HIDE DEF a, b
  <2> QED BY <1>1
<1> QED BY <1>2 DEF BlocksFor

\* Releasing ids that are not free frees, once, each that nobody else holds.
LEMMA FreedIds ==
    ASSUME NEW ids \in Seq(Ids), free \in Seq(Ids), IsInjective(ids), IsInjective(free),
           ToSet(free) \cap ToSet(ids) = {}
    PROVE  /\ Freed(ids) \in Seq(Ids) /\ IsInjective(Freed(ids))
           /\ ToSet(Freed(ids)) = ToSet(free) \cup {b \in ToSet(ids) : refs[b] = 1}
<1> DEFINE N == Len(ids)
           D == {b \in Ids : refs[b] = 1}
           At(f) == [i \in 0..N |->
                        IF i = 0 THEN free ELSE IF refs[ids[i]] = 1 THEN Append(f[i - 1], ids[i]) ELSE f[i - 1]]
           chosen == CHOOSE f : f = At(f)
<1>1. N \in Nat /\ DOMAIN ids = 1..N /\ \A j \in 1..N : ids[j] \in Ids OBVIOUS
<1>2. Freed(ids) = chosen[N] BY DEF Freed
<1>3. ASSUME NEW f PROVE At(f) = PickedAt(free, ids, D, f, N)
  <2>1. \A i \in 0..N : i # 0 => (ids[i] \in D <=> refs[ids[i]] = 1)
    <3>1. \A i \in 0..N : i # 0 => i \in 1..N BY <1>1
    <3> QED BY <1>1, <3>1
  <2> HIDE DEF D, N
  <2> QED BY <2>1 DEF PickedAt
<1>4. \E f : f = PickedAt(free, ids, D, f, N) BY <1>1, PickedDefined
<1> HIDE DEF At
<1>5. chosen = PickedAt(free, ids, D, chosen, N) BY <1>3, <1>4
<1> HIDE DEF chosen, D
<1>6. /\ chosen[N] \in Seq(Ids) /\ IsInjective(chosen[N])
      /\ ToSet(chosen[N]) = ToSet(free) \cup (ToSet(ids) \cap D)
  BY <1>5, Picked
<1>7. ToSet(ids) \cap D = {b \in ToSet(ids) : refs[b] = 1} BY <1>1 DEF D, ToSet
<1> QED BY <1>2, <1>6, <1>7

-----------------------------------------------------------------------------
\* The pool's own invariant: the ids free to hand out are the uncounted ones
\* that were handed out before, each once.
Pooled ==
    /\ max \in 0..MaxBlocks /\ next \in 0..max
    /\ free \in Seq(Ids) /\ refs \in [Ids -> Nat]
    /\ IsInjective(free) /\ ToSet(free) = {b \in 0..next - 1 : refs[b] = 0}
    /\ \A b \in Ids : b >= next => refs[b] = 0

LEMMA ReleaseKeepsPool ==
    ASSUME Pooled, NEW ids \in Seq(Ids), IsInjective(ids), \A b \in ToSet(ids) : refs[b] > 0,
           Release(ids), max' = max, next' = next
    PROVE  Pooled' /\ \A b \in Ids : refs'[b] = IF b \in ToSet(ids) THEN refs[b] - 1 ELSE refs[b]
<1>1. /\ refs' = [b \in Ids |-> IF b \in ToSet(ids) THEN refs[b] - 1 ELSE refs[b]] /\ free' = Freed(ids)
  BY DEF Release
<1>2. refs' \in [Ids -> Nat]
  <2>1. ASSUME NEW b \in Ids PROVE (IF b \in ToSet(ids) THEN refs[b] - 1 ELSE refs[b]) \in Nat
    BY DEF Pooled
  <2> QED BY <1>1, <2>1
<1>3. ToSet(ids) \subseteq Ids BY DEF ToSet
<1>4. \A b \in ToSet(ids) : b \in 0..next - 1 BY <1>3, KVCacheAssumption DEF Pooled, Ids
<1>5. ToSet(free) \cap ToSet(ids) = {} BY DEF Pooled
<1>6. /\ free' \in Seq(Ids) /\ IsInjective(free')
      /\ ToSet(free') = ToSet(free) \cup {b \in ToSet(ids) : refs[b] = 1}
  BY <1>1, <1>5, FreedIds DEF Pooled
<1>7. ToSet(free') = {b \in 0..next - 1 : refs'[b] = 0}
  <2>1. \A b \in 0..next - 1 : b \in Ids BY KVCacheAssumption DEF Pooled, Ids
  <2>2. \A b \in 0..next - 1 : refs'[b] = 0 <=> refs[b] = 0 \/ (b \in ToSet(ids) /\ refs[b] = 1)
    BY <1>1, <2>1 DEF Pooled
  <2>3. ToSet(free) = {b \in 0..next - 1 : refs[b] = 0} BY DEF Pooled
  <2> QED BY <1>4, <1>6, <2>2, <2>3
<1>8. \A b \in Ids : b >= next => refs'[b] = 0 BY <1>1, <1>4, KVCacheAssumption DEF Pooled, Ids
<1> QED BY <1>1, <1>2, <1>6, <1>7, <1>8 DEF Pooled

\* The ids handed out: as many of the freed ones, from the end, as are needed,
\* then the ids above next.
Reused(k) == IF k < Len(free) THEN k ELSE Len(free)

LEMMA AllocAt ==
    ASSUME Pooled, NEW k \in Nat, k <= Available
    PROVE  /\ Reused(k) \in 0..Len(free) /\ k - Reused(k) \in Nat /\ next + (k - Reused(k)) <= max
           /\ k > Reused(k) => Reused(k) = Len(free)
           /\ AllocIds(k) \in Seq(Ids) /\ Len(AllocIds(k)) = k
           /\ \A i \in 1..k : AllocIds(k)[i] = IF i <= Reused(k) THEN free[Len(free) - i + 1] ELSE next + (i - Reused(k)) - 1
<1> DEFINE m == Len(free)
           r == Reused(k)
           S == SubSeq(free, m - r + 1, m)
           R == Reverse(S)
           F == [i \in 1..k - r |-> next + i - 1]
<1>1. m \in Nat /\ free \in Seq(Ids) /\ next \in Nat /\ max \in Nat /\ max <= MaxBlocks /\ MaxBlocks \in Nat /\ next <= max
  BY KVCacheAssumption DEF Pooled
<1>2. r \in 0..m /\ k - r \in Nat /\ (k > r => r = m) /\ r \in Nat BY <1>1 DEF Reused
<1>3. next + (k - r) <= max BY <1>1, <1>2 DEF Available
<1>4. S \in Seq(Ids) /\ Len(S) = r /\ \A i \in 1..r : S[i] = free[m - r + i]
  <2>1. m - r + 1 \in 1..m + 1 BY <1>1, <1>2
  <2>2. m \in m - r + 1 - 1..m BY <1>1, <1>2
  <2>3. m - (m - r + 1) + 1 = r /\ \A i \in 1..r : (m - r + 1) + i - 1 = m - r + i BY <1>1, <1>2
  <2> HIDE DEF r
  <2>4. Len(S) = m - (m - r + 1) + 1 /\ S \in Seq(Ids) BY <1>1, <2>1, <2>2, SubSeqProperties
  <2>5. \A i \in 1..r : S[i] = free[(m - r + 1) + i - 1] BY <1>1, <2>1, <2>2, <2>3, SubSeqProperties
  <2> QED BY <2>3, <2>4, <2>5
<1>5. R \in Seq(Ids) /\ Len(R) = r /\ \A i \in 1..r : R[i] = free[m - i + 1]
  <2>1. R = [i \in 1..r |-> S[(r - i) + 1]] BY <1>4 DEF Reverse
  <2>2. \A i \in 1..r : (r - i) + 1 \in 1..r /\ m - r + ((r - i) + 1) = m - i + 1 BY <1>1, <1>2
  <2> HIDE DEF S, r, m
  <2>3. \A i \in 1..r : S[(r - i) + 1] = free[m - i + 1] /\ S[(r - i) + 1] \in Ids BY <1>2, <1>4, <2>2
  <2> HIDE DEF R
  <2>4. R \in [1..r -> Ids] BY <2>1, <2>3
  <2>5. R \in Seq(Ids) /\ Len(R) = r BY <1>2, <2>1, <2>4
  <2> QED BY <2>1, <2>3, <2>5
<1>6. F \in Seq(Ids) /\ Len(F) = k - r /\ \A i \in 1..k - r : F[i] = next + i - 1
  <2>1. \A i \in 1..k - r : next + i - 1 \in Ids BY <1>1, <1>2, <1>3 DEF Ids
  <2> HIDE DEF r
  <2> QED BY <1>2, <2>1
<1>7. AllocIds(k) = R \o F BY DEF AllocIds, Reused
<1> HIDE DEF R, F, r, m
<1>8. R \o F \in Seq(Ids) /\ Len(R \o F) = k
  <2>1. R \o F \in Seq(Ids) /\ Len(R \o F) = Len(R) + Len(F) BY <1>5, <1>6, ConcatProperties
  <2>2. Len(R) + Len(F) = k BY <1>2, <1>5, <1>6
  <2> QED BY <2>1, <2>2
<1>9. ASSUME NEW i \in 1..k PROVE (R \o F)[i] = IF i <= r THEN free[m - i + 1] ELSE next + (i - r) - 1
  <2>1. CASE i <= r BY <1>2, <1>5, <1>6, <2>1
  <2>2. CASE ~(i <= r)
    <3>1. i - r \in 1..k - r BY <1>2, <2>2
    <3>2. (R \o F)[i] = F[i - r] BY <1>2, <1>5, <1>6, <2>2
    <3> QED BY <1>6, <2>2, <3>1, <3>2
  <2> QED BY <2>1, <2>2
<1> QED BY <1>2, <1>3, <1>7, <1>8, <1>9 DEF m, r

\* The ids handed out are distinct and nobody's.
LEMMA AllocFresh ==
    ASSUME Pooled, NEW k \in Nat, k <= Available
    PROVE  /\ AllocIds(k) \in Seq(Ids) /\ Len(AllocIds(k)) = k /\ IsInjective(AllocIds(k))
           /\ \A b \in ToSet(AllocIds(k)) : refs[b] = 0
           /\ ToSet(AllocIds(k)) = {free[j] : j \in Len(free) - Reused(k) + 1..Len(free)} \cup next..next + (k - Reused(k)) - 1
<1> DEFINE m == Len(free)
           r == Reused(k)
           a == AllocIds(k)
           A == {free[j] : j \in m - r + 1..m}
           Z == next..next + (k - r) - 1
<1>1. /\ m \in Nat /\ DOMAIN free = 1..m /\ r \in 0..m /\ k - r \in Nat /\ next \in Nat /\ max \in Nat /\ max <= MaxBlocks /\ MaxBlocks \in Nat
      /\ next + (k - r) <= max
  BY KVCacheAssumption, AllocAt DEF Pooled
<1>2. a \in Seq(Ids) /\ Len(a) = k /\ DOMAIN a = 1..k BY AllocAt
<1>3. \A i \in 1..k : a[i] = IF i <= r THEN free[m - i + 1] ELSE next + (i - r) - 1 BY AllocAt
<1>4. \A j \in 1..m : free[j] \in 0..next - 1 /\ refs[free[j]] = 0
  <2>1. \A j \in 1..m : free[j] \in ToSet(free) BY <1>1 DEF ToSet
  <2> QED BY <2>1 DEF Pooled
<1>5. IsInjective(free) BY DEF Pooled
<1> HIDE DEF m, r, a
<1>6. ASSUME NEW i \in 1..k, NEW j \in 1..k, a[i] = a[j] PROVE i = j
  <2>1. CASE i <= r /\ j <= r
    <3>1. m - i + 1 \in 1..m /\ m - j + 1 \in 1..m BY <1>1, <2>1
    <3>2. m - i + 1 = m - j + 1 BY <1>1, <1>3, <1>5, <1>6, <2>1, <3>1 DEF IsInjective
    <3> QED BY <1>1, <3>2
  <2>2. CASE i <= r /\ ~(j <= r)
    <3>1. m - i + 1 \in 1..m BY <1>1, <2>2
    <3>2. a[i] \in 0..next - 1 BY <1>3, <1>4, <2>2, <3>1
    <3> QED BY <1>1, <1>3, <1>6, <2>2, <3>2
  <2>3. CASE ~(i <= r) /\ j <= r
    <3>1. m - j + 1 \in 1..m BY <1>1, <2>3
    <3>2. a[j] \in 0..next - 1 BY <1>3, <1>4, <2>3, <3>1
    <3> QED BY <1>1, <1>3, <1>6, <2>3, <3>2
  <2>4. CASE ~(i <= r) /\ ~(j <= r)
    BY <1>1, <1>3, <1>6, <2>4
  <2> QED BY <2>1, <2>2, <2>3, <2>4
<1>7. IsInjective(a) BY <1>2, <1>6 DEF IsInjective
<1>8. ToSet(a) \subseteq A \cup Z
  <2>1. ASSUME NEW i \in 1..k PROVE a[i] \in A \cup Z
    <3>1. CASE i <= r
      <4>1. m - i + 1 \in m - r + 1..m BY <1>1, <3>1
      <4> QED BY <1>3, <3>1, <4>1
    <3>2. CASE ~(i <= r) BY <1>1, <1>3, <3>2
    <3> QED BY <3>1, <3>2
  <2> QED BY <1>2, <2>1 DEF ToSet
<1>9. A \cup Z \subseteq ToSet(a)
  <2>1. ASSUME NEW j \in m - r + 1..m PROVE free[j] \in ToSet(a)
    <3>1. m - j + 1 \in 1..k /\ m - j + 1 <= r /\ m - (m - j + 1) + 1 = j BY <1>1
    <3>2. a[m - j + 1] = free[j] BY <1>3, <3>1
    <3> QED BY <1>2, <3>1, <3>2 DEF ToSet
  <2>2. ASSUME NEW b \in Z PROVE b \in ToSet(a)
    <3>1. b - next + r + 1 \in 1..k /\ ~(b - next + r + 1 <= r) /\ next + (b - next + r + 1 - r) - 1 = b BY <1>1
    <3>2. a[b - next + r + 1] = b BY <1>1, <1>3, <3>1
    <3> QED BY <1>2, <3>1, <3>2 DEF ToSet
  <2> QED BY <2>1, <2>2
<1>10. \A b \in A \cup Z : refs[b] = 0
  <2>1. \A j \in m - r + 1..m : j \in 1..m BY <1>1
  <2>2. \A b \in Z : b \in Ids /\ b >= next BY <1>1 DEF Ids
  <2> QED BY <1>4, <2>1, <2>2 DEF Pooled
<1> QED BY <1>2, <1>7, <1>8, <1>9, <1>10 DEF a, m, r

\* Taking blocks keeps the pool: each new one is counted once.
LEMMA TakeKeepsPool ==
    ASSUME Pooled, NEW k \in Nat, k <= Available, Take(AllocIds(k)), max' = max
    PROVE  Pooled' /\ \A b \in Ids : refs'[b] = IF b \in ToSet(AllocIds(k)) THEN 1 ELSE refs[b]
<1> DEFINE m == Len(free)
           r == Reused(k)
           ids == AllocIds(k)
<1>1. /\ m \in Nat /\ free \in Seq(Ids) /\ DOMAIN free = 1..m /\ r \in 0..m /\ k - r \in Nat /\ next \in Nat /\ max \in Nat
      /\ max <= MaxBlocks /\ MaxBlocks \in Nat /\ next + (k - r) <= max
  BY KVCacheAssumption, AllocAt DEF Pooled
<1>2. /\ Len(ids) = k /\ ids \in Seq(Ids) /\ \A b \in ToSet(ids) : refs[b] = 0
      /\ ToSet(ids) = {free[j] : j \in m - r + 1..m} \cup next..next + (k - r) - 1
  <2>1. /\ Len(AllocIds(k)) = k /\ AllocIds(k) \in Seq(Ids) /\ \A b \in ToSet(AllocIds(k)) : refs[b] = 0
        /\ ToSet(AllocIds(k)) = {free[j] : j \in Len(free) - Reused(k) + 1..Len(free)} \cup next..next + (k - Reused(k)) - 1
    BY AllocFresh
  <2> QED BY <2>1
<1>3. /\ free' = SubSeq(free, 1, m - r) /\ next' = next + (k - r)
      /\ refs' = [b \in Ids |-> IF b \in ToSet(ids) THEN 1 ELSE refs[b]]
  <2>1. m - (IF k < m THEN k ELSE m) = m - r /\ (IF k < m THEN 0 ELSE k - m) = k - r BY <1>1 DEF Reused
  <2> QED BY <1>2, <2>1 DEF Take
<1>4. refs' \in [Ids -> Nat] /\ \A b \in Ids : refs'[b] = IF b \in ToSet(ids) THEN 1 ELSE refs[b]
  BY <1>3 DEF Pooled
<1>5. free' \in Seq(Ids) /\ DOMAIN free' = 1..m - r /\ \A j \in 1..m - r : free'[j] = free[j]
  <2> DEFINE q == m - r
  <2>1. q \in 0..m /\ q \in Nat BY <1>1
  <2>2. free' = SubSeq(free, 1, q) BY <1>3
  <2> HIDE DEF r, q
  <2>3. 1 \in 1..m + 1 /\ q \in 1 - 1..m /\ q - 1 + 1 = q /\ \A j \in 1..q : 1 + j - 1 = j BY <1>1, <2>1
  <2>4. /\ SubSeq(free, 1, q) \in Seq(Ids) /\ Len(SubSeq(free, 1, q)) = q - 1 + 1
        /\ \A j \in 1..q - 1 + 1 : SubSeq(free, 1, q)[j] = free[1 + j - 1]
    BY <1>1, <2>3, SubSeqProperties
  <2>5. free' \in Seq(Ids) /\ Len(free') = q BY <2>2, <2>3, <2>4
  <2>6. \A j \in 1..q : free'[j] = free[j] BY <2>2, <2>3, <2>4
  <2> QED BY <2>1, <2>5, <2>6 DEF q
<1>6. IsInjective(free') /\ \A i, j \in 1..m : free[i] = free[j] => i = j
  <2>1. \A i, j \in 1..m : free[i] = free[j] => i = j BY <1>1 DEF Pooled, IsInjective
  <2>2. \A j \in 1..m - r : j \in 1..m BY <1>1
  <2> HIDE DEF m, r
  <2> QED BY <1>5, <2>1, <2>2 DEF IsInjective
<1>7. ToSet(free) = {free[j] : j \in 1..m} /\ ToSet(free') = {free[j] : j \in 1..m - r}
  <2> HIDE DEF m, r
  <2> QED BY <1>1, <1>5 DEF ToSet
<1>8. ToSet(free) = {b \in 0..next - 1 : refs[b] = 0} /\ \A b \in Ids : b >= next => refs[b] = 0 BY DEF Pooled
<1> HIDE DEF m, r, ids
<1>9. ToSet(free') \subseteq {b \in 0..next' - 1 : refs'[b] = 0}
  <2>1. ASSUME NEW j \in 1..m - r PROVE free[j] \in 0..next' - 1 /\ refs'[free[j]] = 0
    <3>1. j \in 1..m /\ ~(j \in m - r + 1..m) BY <1>1
    <3>2. free[j] \in 0..next - 1 /\ refs[free[j]] = 0 BY <1>7, <1>8, <3>1
    <3>3. free[j] \in Ids /\ free[j] \in 0..next' - 1 /\ ~(free[j] \in next..next + (k - r) - 1) BY <1>1, <1>3, <3>2 DEF Ids
    <3>4. \A i \in m - r + 1..m : i \in 1..m /\ free[i] # free[j] BY <1>1, <1>6, <3>1
    <3>5. free[j] \notin ToSet(ids) BY <1>2, <3>3, <3>4
    <3> QED BY <1>4, <3>2, <3>3, <3>5
  <2> QED BY <1>7, <2>1
<1>10. {b \in 0..next' - 1 : refs'[b] = 0} \subseteq ToSet(free')
  <2>1. ASSUME NEW b \in 0..next' - 1, refs'[b] = 0 PROVE b \in ToSet(free')
    <3>1. b \in Ids BY <1>1, <1>3 DEF Ids
    <3>2. b \notin ToSet(ids) /\ refs[b] = 0 BY <1>4, <2>1, <3>1
    <3>3. b \in 0..next - 1 BY <1>1, <1>2, <1>3, <3>2
    <3>4. PICK j \in 1..m : b = free[j] BY <1>7, <1>8, <3>2, <3>3
    <3>5. j \in 1..m - r BY <1>1, <1>2, <3>2, <3>4
    <3> QED BY <1>7, <3>4, <3>5
  <2> QED BY <2>1
<1>11. \A b \in Ids : b >= next' => refs'[b] = 0
  <2>1. ASSUME NEW b \in Ids, b >= next' PROVE refs'[b] = 0
    <3>1. b >= next /\ ~(b \in next..next + (k - r) - 1) BY <1>1, <1>3, <2>1 DEF Ids
    <3>2. \A j \in m - r + 1..m : free[j] \in 0..next - 1
      <4>1. \A j \in m - r + 1..m : j \in 1..m BY <1>1
      <4> QED BY <1>7, <1>8, <4>1
    <3>3. b \notin {free[j] : j \in m - r + 1..m} BY <1>1, <3>1, <3>2 DEF Ids
    <3> QED BY <1>2, <1>4, <1>8, <2>1, <3>1, <3>3
  <2> QED BY <2>1
<1>12. max' \in 0..MaxBlocks /\ next' \in 0..max' BY <1>1, <1>3
<1> QED BY <1>4, <1>5, <1>6, <1>9, <1>10, <1>11, <1>12 DEF Pooled, ids

\* A step the pool cannot serve leaves every block it did not count free.
LEMMA FailedTakeKeepsPool ==
    ASSUME Pooled, next' = max, free' = Reverse(AllocIds(Available)), max' = max, refs' = refs
    PROVE  Pooled'
<1> DEFINE k == Available
           m == Len(free)
           ids == AllocIds(k)
<1>1. /\ m \in Nat /\ DOMAIN free = 1..m /\ next \in Nat /\ max \in Nat /\ next <= max /\ max <= MaxBlocks /\ MaxBlocks \in Nat
  BY KVCacheAssumption DEF Pooled
<1>2. k = m + (max - next) /\ k \in Nat BY <1>1 DEF Available
<1>3. Reused(k) = m /\ k - Reused(k) = max - next BY <1>1, <1>2 DEF Reused
<1>4. /\ ids \in Seq(Ids) /\ IsInjective(ids)
      /\ ToSet(ids) = {free[j] : j \in m - m + 1..m} \cup next..next + (max - next) - 1
  <2>1. k <= Available BY <1>2
  <2> HIDE DEF k, m
  <2> QED BY <1>2, <1>3, <2>1, AllocFresh DEF m
<1>5. free' \in Seq(Ids) /\ IsInjective(free') /\ ToSet(free') = ToSet(ids)
  <2> HIDE DEF ids
  <2>1. free' = Reverse(ids) BY DEF ids
  <2> QED BY <1>4, <2>1, Turned
<1>6. m - m + 1 = 1 /\ next + (max - next) - 1 = max - 1 BY <1>1
<1>7. ToSet(free) = {free[j] : j \in 1..m} BY <1>1 DEF ToSet
<1>8. ToSet(free) = {b \in 0..next - 1 : refs[b] = 0} /\ \A b \in Ids : b >= next => refs[b] = 0 BY DEF Pooled
<1> HIDE DEF k, m, ids
<1>9. ToSet(free') = {b \in 0..next - 1 : refs[b] = 0} \cup next..max - 1 BY <1>4, <1>5, <1>6, <1>7, <1>8
<1>10. \A b \in next..max - 1 : refs[b] = 0 BY <1>1, <1>8 DEF Ids
<1>11. ToSet(free') = {b \in 0..max - 1 : refs[b] = 0} BY <1>1, <1>9, <1>10
<1>12. \A b \in Ids : b >= max => refs[b] = 0 BY <1>1, <1>8 DEF Ids
<1> QED BY <1>1, <1>5, <1>11, <1>12 DEF Pooled

-----------------------------------------------------------------------------
\* The block, counted from 1, and the row of it, that hold row i of a history.
BlockOf(i) == i \div BlockTokens + 1
RowAt(s, i) == cells[blocks[s][BlockOf(i)]][i % BlockTokens]

\* Every row of a history of n rows lies in its table.
LEMMA RowsFit ==
    ASSUME NEW n \in Nat, NEW i \in 0..n - 1
    PROVE  BlockOf(i) \in 1..BlocksFor(n) /\ i % BlockTokens \in Offsets
<1> DEFINE B == BlockTokens
<1>1. B \in Nat \ {0} /\ i \in Nat BY KVCacheAssumption
<1>2. i \div B \in Nat /\ i % B \in 0..B - 1 BY <1>1, DivMod
<1>3. i + 1 \in Nat /\ i + 1 <= n /\ (i + 1) + B - 1 = i + B BY <1>1
<1>4. (i + B) \div B = i \div B + 1 BY <1>1
<1>5. BlocksFor(i + 1) = i \div B + 1 BY <1>3, <1>4 DEF BlocksFor
<1>6. BlocksFor(i + 1) <= BlocksFor(n) /\ BlocksFor(n) \in Nat BY <1>3, BlocksForGrows, BlocksForNat
<1> QED BY <1>2, <1>5, <1>6 DEF BlockOf, Offsets

\* Two rows of one history lie apart.
LEMMA RowsApart ==
    ASSUME NEW i \in Nat, NEW j \in Nat, BlockOf(i) = BlockOf(j), i % BlockTokens = j % BlockTokens
    PROVE  i = j
<1> DEFINE B == BlockTokens
<1>1. B \in Nat \ {0} BY KVCacheAssumption
<1>2. i = B * (i \div B) + (i % B) /\ j = B * (j \div B) + (j % B) /\ i \div B \in Nat /\ j \div B \in Nat
  BY <1>1, DivMod
<1>3. i \div B = j \div B BY <1>2 DEF BlockOf
<1> QED BY <1>2, <1>3

\* The handles' tables and counters fit each other.
Fits(s) ==
    /\ IsInjective(blocks[s]) /\ Len(blocks[s]) = BlocksFor(len[s] + pending[s])
    /\ len[s] + pending[s] <= MaxLength /\ Len(wrote[s]) <= pending[s]
    /\ s \notin bound => len[s] = 0 /\ pending[s] = 0

Tabled ==
    /\ bound \subseteq Handles
    /\ blocks \in [Handles -> Seq(Ids)] /\ len \in [Handles -> Nat] /\ pending \in [Handles -> Nat]
    /\ wrote \in [Handles -> Seq(Tokens)]
    /\ \A s \in Handles : Fits(s)

\* A block is counted once for each table that names it.
Counted == \A b \in Ids : refs[b] = Cardinality(Holders(b))

\* A step in progress writes into blocks no other table names.
Alone(s, d) ==
    pending[s] > 0 =>
        \A i \in len[s] \div BlockTokens + 1..Len(blocks[s]) : blocks[s][i] \notin ToSet(blocks[d])

Apart == \A s \in Handles : \A d \in Handles \ {s} : Alone(s, d)

\* What is committed, and what a step wrote, is tokens.
Stored ==
    /\ cells \in [Ids -> [Offsets -> Tokens \cup {NoToken}]]
    /\ \A s \in Handles : \A i \in 0..len[s] + Len(wrote[s]) - 1 : RowAt(s, i) \in Tokens

IInv == Pooled /\ Tabled /\ Counted /\ Apart /\ Stored

-----------------------------------------------------------------------------
\* The tail of a table, given back, and the head it keeps.
LEMMA Cut ==
    ASSUME NEW s \in Handles, blocks[s] \in Seq(Ids), IsInjective(blocks[s]), NEW k \in 0..Len(blocks[s])
    PROVE  /\ Dropped(s, k) \in Seq(Ids) /\ IsInjective(Dropped(s, k))
           /\ ToSet(Dropped(s, k)) = {blocks[s][i] : i \in k + 1..Len(blocks[s])}
           /\ SubSeq(blocks[s], 1, k) \in Seq(Ids) /\ Len(SubSeq(blocks[s], 1, k)) = k
           /\ IsInjective(SubSeq(blocks[s], 1, k))
           /\ \A i \in 1..k : SubSeq(blocks[s], 1, k)[i] = blocks[s][i]
           /\ ToSet(SubSeq(blocks[s], 1, k)) = ToSet(blocks[s]) \ ToSet(Dropped(s, k))
           /\ ToSet(Dropped(s, k)) \subseteq ToSet(blocks[s])
<1> DEFINE t == blocks[s]
           T == SubSeq(t, k + 1, Len(t))
<1>1. /\ T \in Seq(Ids) /\ IsInjective(T) /\ ToSet(T) = {t[i] : i \in k + 1..Len(t)} /\ ToSet(T) \subseteq ToSet(t)
      /\ SubSeq(t, 1, k) \in Seq(Ids) /\ Len(SubSeq(t, 1, k)) = k /\ IsInjective(SubSeq(t, 1, k))
      /\ (\A i \in 1..k : SubSeq(t, 1, k)[i] = t[i]) /\ ToSet(SubSeq(t, 1, k)) = ToSet(t) \ ToSet(T)
  <2>1. t \in Seq(Ids) /\ IsInjective(t) /\ k \in 0..Len(t) OBVIOUS
  <2> HIDE DEF t
  <2> QED BY ONLY <2>1, Halves
<1>2. Dropped(s, k) = Reverse(T) BY DEF Dropped
<1> HIDE DEF T
<1>3. Reverse(T) \in Seq(Ids) /\ ToSet(Reverse(T)) = ToSet(T) /\ IsInjective(Reverse(T)) BY <1>1, Turned
<1> QED BY <1>1, <1>2, <1>3

\* Who holds a block, when only one handle's table changes.
LEMMA Recount ==
    ASSUME NEW b \in Ids, NEW s \in Handles,
           \A d \in Handles \ {s} : b \in ToSet(blocks'[d]) <=> b \in ToSet(blocks[d])
    PROVE  /\ Cardinality(Holders(b)) \in Nat /\ (b \in ToSet(blocks[s]) => Cardinality(Holders(b)) > 0)
           /\ (b \in ToSet(blocks[s]) <=> b \in ToSet(blocks'[s])) => Cardinality(Holders(b)') = Cardinality(Holders(b))
           /\ b \in ToSet(blocks[s]) /\ b \notin ToSet(blocks'[s]) => Cardinality(Holders(b)') = Cardinality(Holders(b)) - 1
           /\ b \notin ToSet(blocks[s]) /\ b \in ToSet(blocks'[s]) => Cardinality(Holders(b)') = Cardinality(Holders(b)) + 1
<1> DEFINE H == Holders(b)
           K == Holders(b)'
<1>1. H \subseteq Handles /\ IsFiniteSet(H) /\ Cardinality(H) \in Nat
  <2>1. H \subseteq Handles BY DEF Holders
  <2> HIDE DEF H
  <2> QED BY <2>1, FS_Subset, FS_CardinalityType, KVCacheAssumption
<1>2. \A d \in Handles : (d \in H <=> b \in ToSet(blocks[d])) /\ (d \in K <=> b \in ToSet(blocks'[d])) BY DEF Holders
<1>3. K \subseteq Handles BY DEF Holders
<1> HIDE DEF H, K
<1>4. s \in H => Cardinality(H) > 0 BY <1>1, FS_EmptySet
<1>5. CASE s \in H <=> s \in K
  <2>1. H = K BY <1>1, <1>2, <1>3, <1>5
  <2> QED BY <1>1, <1>2, <1>4, <1>5, <2>1 DEF H, K
<1>6. CASE s \in H /\ s \notin K
  <2>1. K = H \ {s} BY <1>1, <1>2, <1>3, <1>6
  <2>2. Cardinality(K) = Cardinality(H) - 1 BY <1>1, <1>6, <2>1, FS_RemoveElement
  <2> QED BY <1>1, <1>2, <1>4, <1>6, <2>2 DEF H, K
<1>7. CASE s \notin H /\ s \in K
  <2>1. K = H \cup {s} BY <1>1, <1>2, <1>3, <1>7
  <2>2. Cardinality(K) = Cardinality(H) + 1 BY <1>1, <1>7, <2>1, FS_AddElement
  <2> QED BY <1>1, <1>2, <1>4, <1>7, <2>2 DEF H, K
<1> QED BY <1>5, <1>6, <1>7

-----------------------------------------------------------------------------
\* A block some table names is counted.
LEMMA HeldCounted ==
    ASSUME Counted, NEW s \in Handles, NEW b \in Ids, b \in ToSet(blocks[s])
    PROVE  refs[b] \in Nat /\ refs[b] > 0
<1> DEFINE H == Holders(b)
<1>1. s \in H /\ H \subseteq Handles BY DEF Holders
<1>2. refs[b] = Cardinality(H) BY DEF Counted
<1> HIDE DEF H
<1>3. IsFiniteSet(H) BY <1>1, FS_Subset, KVCacheAssumption
<1>4. Cardinality(H) \in Nat /\ Cardinality(H) # 0 BY <1>1, <1>3, FS_CardinalityType, FS_EmptySet
<1> QED BY <1>2, <1>4

\* A roll back, and a step given up: the blocks past the history go back.
LEMMA CutKeeps ==
    ASSUME IInv, NEW s \in Handles, NEW n \in Nat, n <= len[s], CutTo(s, n)
    PROVE  IInv'
<1> DEFINE k == BlocksFor(n)
           ids == Dropped(s, k)
           head == SubSeq(blocks[s], 1, k)
<1>1. /\ blocks[s] \in Seq(Ids) /\ IsInjective(blocks[s]) /\ len[s] \in Nat /\ pending[s] \in Nat
      /\ Len(blocks[s]) = BlocksFor(len[s] + pending[s]) /\ len[s] + pending[s] <= MaxLength
  BY DEF IInv, Tabled, Fits
<1>2. k \in 0..Len(blocks[s])
  <2>1. len[s] + pending[s] \in Nat /\ n <= len[s] + pending[s] BY <1>1
  <2> QED BY <1>1, <2>1, BlocksForGrows, BlocksForNat
<1>3. /\ ids \in Seq(Ids) /\ IsInjective(ids) /\ head \in Seq(Ids) /\ Len(head) = k /\ IsInjective(head)
      /\ \A i \in 1..k : head[i] = blocks[s][i]
      /\ ToSet(head) = ToSet(blocks[s]) \ ToSet(ids) /\ ToSet(ids) \subseteq ToSet(blocks[s])
  <2> HIDE DEF k
  <2> QED BY <1>1, <1>2, Cut
<1>4. Min({Len(blocks[s]), k}) = k
  <2> HIDE DEF k
  <2> QED BY <1>1, <1>2 DEF Min
<1>5. /\ Release(ids) /\ blocks' = [blocks EXCEPT ![s] = head] /\ len' = [len EXCEPT ![s] = n]
      /\ pending' = [pending EXCEPT ![s] = 0] /\ wrote' = [wrote EXCEPT ![s] = <<>>]
      /\ max' = max /\ next' = next /\ bound' = bound /\ cells' = cells
  BY <1>4 DEF CutTo
<1> HIDE DEF k, ids, head
<1>6. ToSet(ids) \subseteq Ids BY <1>3 DEF ToSet
<1>7. Pooled' /\ \A b \in Ids : refs'[b] = IF b \in ToSet(ids) THEN refs[b] - 1 ELSE refs[b]
  <2>1. \A b \in ToSet(ids) : refs[b] > 0 BY <1>3, <1>6, HeldCounted DEF IInv
  <2> QED BY <1>3, <1>5, <2>1, ReleaseKeepsPool DEF IInv
<1>8. /\ blocks'[s] = head /\ len'[s] = n /\ pending'[s] = 0 /\ wrote'[s] = <<>>
      /\ \A d \in Handles \ {s} : blocks'[d] = blocks[d] /\ len'[d] = len[d] /\ pending'[d] = pending[d] /\ wrote'[d] = wrote[d]
  BY <1>5 DEF IInv, Tabled
<1>9. Tabled'
  <2>1. /\ blocks' \in [Handles -> Seq(Ids)] /\ len' \in [Handles -> Nat] /\ pending' \in [Handles -> Nat]
        /\ wrote' \in [Handles -> Seq(Tokens)] /\ bound' \subseteq Handles
    BY <1>3, <1>5 DEF IInv, Tabled
  <2>2. Len(head) = BlocksFor(n + 0) /\ n + 0 <= MaxLength /\ Len(<<>>) = 0
    <3>1. n + 0 = n /\ n <= MaxLength BY <1>1, KVCacheAssumption
    <3> QED BY <1>3, <3>1 DEF k
  <2>3. s \notin bound => n = 0 BY <1>1 DEF IInv, Tabled, Fits
  <2>4. Fits(s)' BY <1>3, <1>5, <1>8, <2>2, <2>3 DEF Fits
  <2>5. ASSUME NEW d \in Handles \ {s} PROVE Fits(d)' BY <1>5, <1>8 DEF IInv, Tabled, Fits
  <2> QED BY <2>1, <2>4, <2>5 DEF Tabled
<1>10. Counted'
  <2>1. ASSUME NEW b \in Ids PROVE refs'[b] = Cardinality(Holders(b)')
    <3>1. refs[b] = Cardinality(Holders(b)) BY DEF IInv, Counted
    <3>2. \A d \in Handles \ {s} : b \in ToSet(blocks'[d]) <=> b \in ToSet(blocks[d]) BY <1>8
    <3> QED BY <1>3, <1>7, <1>8, <3>1, <3>2, Recount
  <2> QED BY <2>1 DEF Counted
<1>11. Apart'
  <2>1. \A d \in Handles : ToSet(blocks'[d]) \subseteq ToSet(blocks[d]) BY <1>3, <1>8
  <2>2. ASSUME NEW a \in Handles, NEW d \in Handles \ {a} PROVE Alone(a, d)'
    <3>1. CASE a = s BY <1>8, <3>1 DEF Alone
    <3>2. CASE a # s
      <4>1. Alone(a, d) BY DEF IInv, Apart
      <4> QED BY <1>8, <2>1, <3>2, <4>1 DEF Alone
    <3> QED BY <3>1, <3>2
  <2> QED BY <2>2 DEF Apart
<1>12. Stored'
  <2>1. \A i \in 0..n - 1 : blocks'[s][BlockOf(i)] = blocks[s][BlockOf(i)] BY <1>3, <1>8, RowsFit DEF k
  <2>2. \A i \in 0..n - 1 : i \in 0..len[s] + Len(wrote[s]) - 1
    <3>1. Len(wrote[s]) \in Nat BY DEF IInv, Tabled
    <3> QED BY <1>1, <3>1
  <2>3. \A i \in 0..n - 1 : RowAt(s, i)' \in Tokens BY <1>5, <2>1, <2>2 DEF IInv, Stored, RowAt
  <2>4. \A i \in 0..n + Len(<<>>) - 1 : i \in 0..n - 1 OBVIOUS
  <2>5. \A d \in Handles \ {s} : \A i \in 0..len'[d] + Len(wrote'[d]) - 1 : RowAt(d, i)' \in Tokens
    BY <1>5, <1>8 DEF IInv, Stored, RowAt
  <2>6. \A i \in 0..len'[s] + Len(wrote'[s]) - 1 : RowAt(s, i)' \in Tokens BY <1>8, <2>3, <2>4
  <2> QED BY <1>5, <2>5, <2>6 DEF IInv, Stored
<1> QED BY <1>7, <1>9, <1>10, <1>11, <1>12 DEF IInv

\* A block counted once has one holder.
LEMMA SoleHolder ==
    ASSUME Counted, NEW b \in Ids, refs[b] = 1, NEW s \in Handles, NEW d \in Handles \ {s}, b \in ToSet(blocks[s])
    PROVE  b \notin ToSet(blocks[d])
<1> DEFINE H == Holders(b)
<1>1. H \subseteq Handles /\ s \in H /\ (b \in ToSet(blocks[d]) => d \in H \ {s}) BY DEF Holders
<1>2. Cardinality(H) = 1 BY DEF Counted
<1> HIDE DEF H
<1>3. IsFiniteSet(H) BY <1>1, FS_Subset, KVCacheAssumption
<1>4. IsFiniteSet(H \ {s}) /\ Cardinality(H \ {s}) = 0 BY <1>1, <1>2, <1>3, FS_RemoveElement
<1>5. H \ {s} = {} BY <1>4, FS_EmptySet
<1> QED BY <1>1, <1>5

\* A step's blocks taken: they are nobody's, and the last one its history had
\* may be appended into only while nobody else holds it.
LEMMA PrepareKeeps ==
    ASSUME IInv, NEW s \in Handles, NEW n \in Nat, Prepare(s, n)
    PROVE  IInv'
<1> DEFINE k == Needed(s, n)
           ids == AllocIds(k)
           t == blocks[s]
           u == t \o ids
<1>1. /\ t \in Seq(Ids) /\ IsInjective(t) /\ len[s] \in Nat /\ pending[s] = 0 /\ Len(t) = BlocksFor(len[s])
      /\ Len(t) \in Nat /\ Len(wrote[s]) = 0 /\ s \in bound /\ n > 0 /\ len[s] + n <= MaxLength
  <2>1. /\ t \in Seq(Ids) /\ IsInjective(t) /\ len[s] \in Nat /\ pending[s] = 0 /\ Len(t) = BlocksFor(len[s] + pending[s])
        /\ Len(wrote[s]) <= pending[s] /\ wrote[s] \in Seq(Tokens) /\ s \in bound /\ n > 0 /\ len[s] + n <= MaxLength
    BY DEF IInv, Tabled, Fits, Prepare
  <2>2. len[s] + 0 = len[s] /\ Len(wrote[s]) = 0 BY <2>1
  <2> QED BY <2>1, <2>2
<1>2. k \in Nat /\ k = BlocksFor(len[s] + n) - Len(t) /\ k <= Available
  <2>1. len[s] + n \in Nat /\ len[s] <= len[s] + n BY <1>1
  <2>2. BlocksFor(len[s]) <= BlocksFor(len[s] + n) /\ BlocksFor(len[s]) \in Nat /\ BlocksFor(len[s] + n) \in Nat
    BY <1>1, <2>1, BlocksForGrows, BlocksForNat
  <2> QED BY <1>1, <2>2 DEF Prepare, Needed
<1>3. /\ Take(ids) /\ blocks' = [blocks EXCEPT ![s] = u] /\ pending' = [pending EXCEPT ![s] = n]
      /\ max' = max /\ bound' = bound /\ len' = len /\ cells' = cells /\ wrote' = wrote
  BY DEF Prepare
<1>4. ids \in Seq(Ids) /\ Len(ids) = k /\ IsInjective(ids) /\ \A b \in ToSet(ids) : refs[b] = 0
  <2> HIDE DEF k
  <2> QED BY <1>2, AllocFresh DEF IInv
<1>5. Pooled' /\ \A b \in Ids : refs'[b] = IF b \in ToSet(ids) THEN 1 ELSE refs[b]
  <2> HIDE DEF k
  <2> QED BY <1>2, <1>3, TakeKeepsPool DEF IInv
<1> HIDE DEF k, ids
<1>6. ToSet(ids) \subseteq Ids BY <1>4 DEF ToSet
<1>7. \A d \in Handles : ToSet(blocks[d]) \cap ToSet(ids) = {}
  BY <1>4, <1>6, HeldCounted DEF IInv
<1>8. /\ u \in Seq(Ids) /\ IsInjective(u) /\ Len(u) = BlocksFor(len[s] + n)
      /\ \A i \in 1..Len(t) : u[i] = t[i]
      /\ \A i \in Len(t) + 1..Len(u) : u[i] \in ToSet(ids)
      /\ ToSet(u) = ToSet(t) \cup ToSet(ids)
  <2>1. /\ u \in Seq(Ids) /\ IsInjective(u) /\ Len(u) = Len(t) + Len(ids)
        /\ \A i \in 1..Len(t) : u[i] = t[i]
        /\ \A i \in Len(t) + 1..Len(u) : u[i] \in ToSet(ids)
        /\ ToSet(u) = ToSet(t) \cup ToSet(ids)
    <3>1. t \in Seq(Ids) /\ ids \in Seq(Ids) /\ IsInjective(t) /\ IsInjective(ids) BY <1>1, <1>4
    <3>2. ToSet(t) \cap ToSet(ids) = {} BY <1>7, <1>1
    <3> HIDE DEF t
    <3>3. /\ t \o ids \in Seq(Ids) /\ IsInjective(t \o ids) /\ Len(t \o ids) = Len(t) + Len(ids)
          /\ \A i \in 1..Len(t) : (t \o ids)[i] = t[i]
          /\ \A i \in Len(t) + 1..Len(t \o ids) : (t \o ids)[i] \in ToSet(ids)
          /\ ToSet(t \o ids) = ToSet(t) \cup ToSet(ids)
      BY ONLY <3>1, <3>2, Joined
    <3> QED BY <3>3
  <2>2. BlocksFor(len[s] + n) \in Nat
    <3>1. len[s] + n \in Nat BY <1>1
    <3> QED BY ONLY <3>1, BlocksForNat
  <2>3. Len(t) + Len(ids) = BlocksFor(len[s] + n)
    <3> HIDE DEF t
    <3> QED BY <1>1, <1>2, <1>4, <2>2
  <2> QED BY <2>1, <2>3
<1>9. /\ blocks'[s] = u /\ pending'[s] = n
      /\ \A d \in Handles \ {s} : blocks'[d] = blocks[d] /\ pending'[d] = pending[d]
  BY <1>3 DEF IInv, Tabled
<1>10. Tabled'
  <2>1. /\ blocks' \in [Handles -> Seq(Ids)] /\ len' \in [Handles -> Nat] /\ pending' \in [Handles -> Nat]
        /\ wrote' \in [Handles -> Seq(Tokens)] /\ bound' \subseteq Handles
    BY <1>3, <1>8 DEF IInv, Tabled
  <2>2. Fits(s)' BY <1>1, <1>3, <1>8, <1>9 DEF Fits
  <2>3. ASSUME NEW d \in Handles \ {s} PROVE Fits(d)' BY <1>3, <1>9 DEF IInv, Tabled, Fits
  <2> QED BY <2>1, <2>2, <2>3 DEF Tabled
<1> HIDE DEF u
<1>11. Counted'
  <2>1. ASSUME NEW b \in Ids PROVE refs'[b] = Cardinality(Holders(b)')
    <3>1. refs[b] = Cardinality(Holders(b)) BY DEF IInv, Counted
    <3>2. \A d \in Handles \ {s} : b \in ToSet(blocks'[d]) <=> b \in ToSet(blocks[d]) BY <1>9
    <3>3. b \in ToSet(ids) => b \notin ToSet(blocks[s]) /\ refs[b] = 0 BY <1>4, <1>7
    <3> QED BY <1>5, <1>8, <1>9, <3>1, <3>2, <3>3, Recount
  <2> QED BY <2>1 DEF Counted
<1>12. Apart'
  <2> DEFINE q == len[s] \div BlockTokens
  <2>0. q \in Nat /\ len[s] % BlockTokens \in 0..BlockTokens - 1 /\ Len(u) \in Nat
    <3>1. len[s] \in Nat /\ BlockTokens \in Nat \ {0} BY <1>1, KVCacheAssumption
    <3>2. Len(u) \in Nat BY <1>8
    <3> QED BY <3>1, <3>2, DivMod
  <2>1. ASSUME NEW d \in Handles \ {s}, NEW i \in q + 1..Len(u) PROVE u[i] \notin ToSet(blocks[d])
    <3>1. CASE i <= Len(t)
      <4>1. q \in Nat /\ len[s] % BlockTokens \in Nat BY <2>0, KVCacheAssumption
      <4>2. i \in Nat /\ q + 1 <= i /\ i <= BlocksFor(len[s])
        <5> HIDE DEF q, t
        <5> QED BY <1>1, <2>0, <3>1
      <4>3. i = q + 1 /\ len[s] % BlockTokens # 0
        <5>1. BlocksFor(len[s]) \in Nat /\ BlocksFor(len[s]) <= q + 1 /\ (len[s] % BlockTokens = 0 => BlocksFor(len[s]) = q)
          BY <1>1, BlocksForRows
        <5> HIDE DEF q
        <5> QED BY <4>1, <4>2, <5>1
      <4>4. refs[t[i]] = 1 BY <4>3 DEF Prepare, MayAppend
      <4>5. i \in 1..Len(t) /\ i \in DOMAIN t
        <5>1. i \in 1..Len(t)
          <6> HIDE DEF q, t
          <6> QED BY <1>1, <2>0, <3>1
        <5>2. DOMAIN t = 1..Len(t) BY <1>1
        <5> QED BY <5>1, <5>2
      <4>6. t[i] \in ToSet(t) /\ t[i] \in Ids BY <1>1, <4>5 DEF ToSet
      <4>7. t[i] \notin ToSet(blocks[d]) BY <4>4, <4>6, SoleHolder DEF IInv
      <4> QED BY <1>8, <4>5, <4>7
    <3>2. CASE ~(i <= Len(t))
      <4>1. i \in Len(t) + 1..Len(u)
        <5> HIDE DEF q, t
        <5> QED BY <1>1, <2>0, <3>2
      <4> QED BY <1>7, <1>8, <4>1
    <3> QED BY <3>1, <3>2
  <2>2. ASSUME NEW a \in Handles, NEW d \in Handles \ {a} PROVE Alone(a, d)'
    <3>1. CASE a = s BY <1>3, <1>9, <2>1, <3>1 DEF Alone
    <3>2. CASE a # s
      <4>1. Alone(a, d) BY DEF IInv, Apart
      <4>2. len[a] \in Nat /\ blocks[a] \in Seq(Ids) BY DEF IInv, Tabled
      <4>3. \A i \in len[a] \div BlockTokens + 1..Len(blocks[a]) : blocks[a][i] \in ToSet(blocks[a])
        <5>1. len[a] \div BlockTokens \in Nat BY <4>2, KVCacheAssumption, DivMod
        <5>2. \A i \in len[a] \div BlockTokens + 1..Len(blocks[a]) : i \in DOMAIN blocks[a] BY <4>2, <5>1
        <5> QED BY <5>2 DEF ToSet
      <4>4. \A i \in len[a] \div BlockTokens + 1..Len(blocks[a]) : blocks[a][i] \notin ToSet(ids) BY <1>7, <4>3
      <4>5. ToSet(blocks'[d]) \subseteq ToSet(blocks[d]) \cup ToSet(ids) BY <1>8, <1>9
      <4> QED BY <1>3, <1>9, <3>2, <4>1, <4>4, <4>5 DEF Alone
    <3> QED BY <3>1, <3>2
  <2> QED BY <2>2 DEF Apart
<1>13. Stored'
  <2>1. \A i \in 0..len[s] + Len(wrote[s]) - 1 : i \in 0..len[s] - 1 BY <1>1
  <2>2. \A i \in 0..len[s] - 1 : blocks'[s][BlockOf(i)] = blocks[s][BlockOf(i)] BY <1>1, <1>8, <1>9, RowsFit
  <2>3. \A i \in 0..len[s] + Len(wrote[s]) - 1 : RowAt(s, i)' \in Tokens BY <1>3, <2>1, <2>2 DEF IInv, Stored, RowAt
  <2>4. \A d \in Handles \ {s} : \A i \in 0..len[d] + Len(wrote[d]) - 1 : RowAt(d, i)' \in Tokens
    BY <1>3, <1>9 DEF IInv, Stored, RowAt
  <2> QED BY <1>3, <2>3, <2>4 DEF IInv, Stored
<1> QED BY <1>5, <1>10, <1>11, <1>12, <1>13 DEF IInv

LEMMA InitHolds == Init => IInv
<1> SUFFICES ASSUME Init PROVE IInv OBVIOUS
<1>1. BlocksFor(0) = 0 /\ BlocksFor(0 + 0) = BlocksFor(0) BY BlocksForRows
<1>2. /\ <<>> \in Seq(Ids) /\ <<>> \in Seq(Tokens) /\ Len(<<>>) = 0 /\ DOMAIN <<>> = {} OBVIOUS
<1>3. ToSet(<<>>) = {} /\ IsInjective(<<>>) BY <1>2 DEF ToSet, IsInjective
<1>4. Pooled BY <1>2, <1>3, KVCacheAssumption DEF Init, Pooled
<1>5. Tabled
  <2>1. \A s \in Handles : Fits(s) BY <1>1, <1>2, <1>3, KVCacheAssumption DEF Init, Fits
  <2> QED BY <1>2, <2>1 DEF Init, Tabled
<1>6. Counted
  <2>1. ASSUME NEW b \in Ids PROVE Holders(b) = {} BY <1>3 DEF Init, Holders
  <2>2. Cardinality({}) = 0 BY FS_EmptySet
  <2> QED BY <2>1, <2>2 DEF Init, Counted
<1>7. Apart BY DEF Init, Apart, Alone
<1>8. Stored
  <2>1. \A s \in Handles : 0..len[s] + Len(wrote[s]) - 1 = {} BY <1>2 DEF Init
  <2>2. cells \in [Ids -> [Offsets -> Tokens \cup {NoToken}]] BY DEF Init
  <2> QED BY <2>1, <2>2 DEF Stored
<1> QED BY <1>4, <1>5, <1>6, <1>7, <1>8 DEF IInv

\* With nothing in use every id handed out is free again.
LEMMA AllFree ==
    ASSUME Pooled, InUse = 0
    PROVE  \A b \in Ids : refs[b] = 0
<1> DEFINE n == Len(free)
<1>1. /\ n \in Nat /\ next = n /\ free \in Seq(Ids) /\ DOMAIN free = 1..n /\ IsInjective(free)
      /\ ToSet(free) = {b \in 0..next - 1 : refs[b] = 0} /\ \A b \in Ids : b >= next => refs[b] = 0
  BY KVCacheAssumption DEF Pooled, InUse
<1>2. \A i \in 1..n : free[i] \in ToSet(free) BY <1>1 DEF ToSet
<1> HIDE DEF n
<1>3. \A i \in 1..n : free[i] \in 0..n - 1 BY <1>1, <1>2
<1>4. \A i, j \in 1..n : free[i] = free[j] => i = j BY <1>1 DEF IsInjective
<1> DEFINE f == [i \in 1..n |-> free[i]]
<1>5. f \in Injection(1..n, 0..n - 1) BY <1>3, <1>4 DEF Injection, IsInjective
<1>6. IsFiniteSet(0..n - 1) /\ Cardinality(0..n - 1) = n /\ IsFiniteSet(1..n) /\ Cardinality(1..n) = n
  <2>1. n \in Int /\ n - 1 \in Int /\ 0 \in Int /\ 1 \in Int BY <1>1
  <2>2. IsFiniteSet(0..n - 1) /\ Cardinality(0..n - 1) = IF 0 > n - 1 THEN 0 ELSE (n - 1) - 0 + 1 BY <2>1, FS_Interval
  <2>3. IsFiniteSet(1..n) /\ Cardinality(1..n) = IF 1 > n THEN 0 ELSE n - 1 + 1 BY <2>1, FS_Interval
  <2> QED BY <1>1, <2>2, <2>3
<1>7. f \in Surjection(1..n, 0..n - 1)
  <2> HIDE DEF f
  <2> QED BY <1>5, <1>6, FS_Injection
<1>8. \A b \in 0..n - 1 : \E i \in 1..n : free[i] = b BY <1>7 DEF Surjection
<1>9. \A b \in 0..n - 1 : refs[b] = 0 BY <1>1, <1>2, <1>8
<1> QED BY <1>1, <1>9 DEF Ids

LEMMA ConfigureKeeps ==
    ASSUME IInv, NEW m \in Budgets, Configure(m)
    PROVE  IInv'
<1>1. /\ max' = m /\ next' = 0 /\ free' = <<>> /\ refs' = [b \in Ids |-> 0]
      /\ bound' = bound /\ blocks' = blocks /\ len' = len /\ pending' = pending /\ cells' = cells /\ wrote' = wrote
  BY DEF Configure, table
<1>2. <<>> \in Seq(Ids) /\ ToSet(<<>>) = {} /\ IsInjective(<<>>)
  <2>1. DOMAIN <<>> = {} OBVIOUS
  <2> QED BY <2>1 DEF ToSet, IsInjective
<1>3. Pooled' BY <1>1, <1>2, KVCacheAssumption DEF Pooled
<1>4. \A b \in Ids : refs[b] = 0 BY AllFree DEF Configure, IInv
<1>5. Counted'
  <2>1. \A b \in Ids : Holders(b)' = Holders(b) BY <1>1 DEF Holders
  <2> QED BY <1>1, <1>4, <2>1 DEF IInv, Counted
<1>6. Tabled' BY <1>1 DEF IInv, Tabled, Fits
<1>7. Apart' BY <1>1 DEF IInv, Apart, Alone
<1>8. Stored' BY <1>1 DEF IInv, Stored, RowAt
<1> QED BY <1>3, <1>5, <1>6, <1>7, <1>8 DEF IInv

LEMMA ConstructKeeps ==
    ASSUME IInv, NEW s \in Handles, Construct(s)
    PROVE  IInv'
<1>1. /\ bound' = bound \cup {s}
      /\ max' = max /\ next' = next /\ free' = free /\ refs' = refs
      /\ blocks' = blocks /\ len' = len /\ pending' = pending /\ cells' = cells /\ wrote' = wrote
  BY DEF Construct, pool
<1>2. Pooled' BY <1>1 DEF IInv, Pooled
<1>3. Counted'
  <2>1. \A b \in Ids : Holders(b)' = Holders(b) BY <1>1 DEF Holders
  <2> QED BY <1>1, <2>1 DEF IInv, Counted
<1>4. Tabled' BY <1>1 DEF IInv, Tabled, Fits
<1>5. Apart' BY <1>1 DEF IInv, Apart, Alone
<1>6. Stored' BY <1>1 DEF IInv, Stored, RowAt
<1> QED BY <1>2, <1>3, <1>4, <1>5, <1>6 DEF IInv

LEMMA PrepareFailsKeeps ==
    ASSUME IInv, NEW s \in Handles, NEW n \in Nat, PrepareFails(s, n)
    PROVE  IInv'
<1>1. /\ next' = max /\ free' = Reverse(AllocIds(Available)) /\ bound' = bound /\ max' = max /\ refs' = refs
      /\ blocks' = blocks /\ len' = len /\ pending' = pending /\ cells' = cells /\ wrote' = wrote
  BY DEF PrepareFails, table
<1>2. Pooled' BY <1>1, FailedTakeKeepsPool DEF IInv
<1>3. Counted'
  <2>1. \A b \in Ids : Holders(b)' = Holders(b) BY <1>1 DEF Holders
  <2> QED BY <1>1, <2>1 DEF IInv, Counted
<1>4. Tabled' BY <1>1 DEF IInv, Tabled, Fits
<1>5. Apart' BY <1>1 DEF IInv, Apart, Alone
<1>6. Stored' BY <1>1 DEF IInv, Stored, RowAt
<1> QED BY <1>2, <1>3, <1>4, <1>5, <1>6 DEF IInv

LEMMA CommitKeeps ==
    ASSUME IInv, NEW s \in Handles, Commit(s)
    PROVE  IInv'
<1>1. /\ len' = [len EXCEPT ![s] = len[s] + pending[s]] /\ pending' = [pending EXCEPT ![s] = 0]
      /\ wrote' = [wrote EXCEPT ![s] = <<>>] /\ Len(wrote[s]) = pending[s]
      /\ max' = max /\ next' = next /\ free' = free /\ refs' = refs /\ bound' = bound /\ blocks' = blocks /\ cells' = cells
  BY DEF Commit, pool
<1>2. len[s] \in Nat /\ pending[s] \in Nat /\ len[s] + pending[s] \in Nat /\ (len[s] + pending[s]) + 0 = len[s] + pending[s]
  BY DEF IInv, Tabled
<1>3. /\ len'[s] = len[s] + pending[s] /\ pending'[s] = 0 /\ wrote'[s] = <<>>
      /\ \A d \in Handles \ {s} : len'[d] = len[d] /\ pending'[d] = pending[d] /\ wrote'[d] = wrote[d]
  BY <1>1 DEF IInv, Tabled
<1>4. Pooled' BY <1>1 DEF IInv, Pooled
<1>5. Counted'
  <2>1. \A b \in Ids : Holders(b)' = Holders(b) BY <1>1 DEF Holders
  <2> QED BY <1>1, <2>1 DEF IInv, Counted
<1>6. Tabled'
  <2>1. len' \in [Handles -> Nat] /\ pending' \in [Handles -> Nat] /\ wrote' \in [Handles -> Seq(Tokens)]
    BY <1>1, <1>2 DEF IInv, Tabled
  <2>2. Fits(s)'
    <3>1. Fits(s) BY DEF IInv, Tabled
    <3>2. Len(<<>>) = 0 OBVIOUS
    <3> QED BY <1>1, <1>2, <1>3, <3>1, <3>2 DEF Fits
  <2>3. ASSUME NEW d \in Handles \ {s} PROVE Fits(d)' BY <1>1, <1>3 DEF IInv, Tabled, Fits
  <2> QED BY <1>1, <2>1, <2>2, <2>3 DEF IInv, Tabled
<1>7. Apart'
  <2>1. ASSUME NEW a \in Handles, NEW d \in Handles \ {a} PROVE Alone(a, d)'
    <3>1. Alone(a, d) BY DEF IInv, Apart
    <3> QED BY <1>1, <1>3, <3>1 DEF Alone
  <2> QED BY <2>1 DEF Apart
<1>8. Stored'
  <2>1. \A i \in 0..len[s] + Len(wrote[s]) - 1 : RowAt(s, i)' \in Tokens BY <1>1 DEF IInv, Stored, RowAt
  <2>2. Len(<<>>) = 0 OBVIOUS
  <2>3. \A i \in 0..len'[s] + Len(wrote'[s]) - 1 : RowAt(s, i)' \in Tokens BY <1>1, <1>2, <1>3, <2>1, <2>2
  <2>4. \A d \in Handles \ {s} : \A i \in 0..len'[d] + Len(wrote'[d]) - 1 : RowAt(d, i)' \in Tokens
    BY <1>1, <1>3 DEF IInv, Stored, RowAt
  <2> QED BY <1>1, <2>3, <2>4 DEF IInv, Stored
<1> QED BY <1>4, <1>5, <1>6, <1>7, <1>8 DEF IInv

\* The row a step writes lies past its history, in a block no other table has.
LEMMA WriteAt ==
    ASSUME IInv, NEW s \in Handles, NEW t \in Tokens, Write(s, t)
    PROVE  LET at == len[s] + Len(wrote[s])
               b == blocks[s][BlockOf(at)]
               o == at % BlockTokens
           IN  /\ at \in Nat /\ at < len[s] + pending[s] /\ b \in Ids /\ o \in Offsets
               /\ cells'[b][o] = t
               /\ \A c \in Ids : \A p \in Offsets : c # b \/ p # o => cells'[c][p] = cells[c][p]
               /\ cells' \in [Ids -> [Offsets -> Tokens \cup {NoToken}]]
               /\ \A d \in Handles \ {s} : b \notin ToSet(blocks[d])
               /\ \A i \in 0..at - 1 : BlockOf(i) \in 1..Len(blocks[s]) /\ (blocks[s][BlockOf(i)] # b \/ i % BlockTokens # o)
<1> DEFINE at == len[s] + Len(wrote[s])
           u == blocks[s]
           b == u[BlockOf(at)]
           o == at % BlockTokens
           n == len[s] + pending[s]
<1>1. len[s] \in Nat /\ pending[s] \in Nat /\ Len(wrote[s]) \in Nat /\ Len(wrote[s]) < pending[s] BY DEF IInv, Tabled, Write
<1>2. at \in Nat /\ n \in Nat /\ at \in 0..n - 1 /\ at < n /\ len[s] <= at BY <1>1
<1>3. u \in Seq(Ids) /\ Len(u) = BlocksFor(n) /\ IsInjective(u) /\ DOMAIN u = 1..BlocksFor(n)
  <2>1. u \in Seq(Ids) /\ Len(u) = BlocksFor(n) /\ IsInjective(u) BY DEF IInv, Tabled, Fits
  <2> HIDE DEF u, n
  <2> QED BY <2>1
<1>4. BlockOf(at) \in 1..BlocksFor(n) /\ o \in Offsets
  <2> HIDE DEF at, n
  <2> QED BY <1>2, RowsFit
<1>5. b \in Ids
  <2> HIDE DEF u, at, n
  <2> QED BY <1>3, <1>4
<1>6. cells' = [cells EXCEPT ![b][o] = t] BY DEF Write, BlockOf
<1>7. cells \in [Ids -> [Offsets -> Tokens \cup {NoToken}]] BY DEF IInv, Stored
<1>8. /\ cells'[b][o] = t
      /\ \A c \in Ids : \A p \in Offsets : c # b \/ p # o => cells'[c][p] = cells[c][p]
      /\ cells' \in [Ids -> [Offsets -> Tokens \cup {NoToken}]]
  <2> HIDE DEF b, o
  <2> QED BY <1>4, <1>5, <1>6, <1>7
<1>9. \A d \in Handles \ {s} : b \notin ToSet(blocks[d])
  <2>1. len[s] \div BlockTokens <= at \div BlockTokens /\ len[s] \div BlockTokens \in Nat /\ at \div BlockTokens \in Nat
    <3>1. len[s] \in Nat /\ at \in Nat /\ len[s] <= at /\ BlockTokens \in Nat \ {0} BY <1>1, <1>2, KVCacheAssumption
    <3> HIDE DEF at
    <3> QED BY <3>1, DivGrows
  <2>2. BlockOf(at) \in len[s] \div BlockTokens + 1..Len(u)
    <3>1. BlockOf(at) = at \div BlockTokens + 1 BY DEF BlockOf
    <3> HIDE DEF at, n, u
    <3> QED BY <1>3, <1>4, <2>1, <3>1
  <2>3. \A d \in Handles \ {s} : Alone(s, d) /\ pending[s] > 0 BY <1>1 DEF IInv, Apart
  <2> HIDE DEF at
  <2> QED BY <2>2, <2>3 DEF Alone
<1>10. ASSUME NEW i \in 0..at - 1 PROVE BlockOf(i) \in 1..Len(u) /\ (u[BlockOf(i)] # b \/ i % BlockTokens # o)
  <2>1. i \in 0..n - 1 /\ i \in Nat /\ i # at BY <1>2
  <2>2. BlockOf(i) \in 1..BlocksFor(n)
    <3> HIDE DEF n
    <3> QED BY <1>2, <2>1, RowsFit
  <2>3. BlockOf(i) # BlockOf(at) \/ i % BlockTokens # at % BlockTokens
    <3> HIDE DEF at
    <3> QED BY <1>2, <2>1, RowsApart
  <2> HIDE DEF u, at, n
  <2> QED BY <1>3, <1>4, <2>2, <2>3 DEF IsInjective
<1> QED BY <1>2, <1>4, <1>5, <1>8, <1>9, <1>10

LEMMA WriteKeeps ==
    ASSUME IInv, NEW s \in Handles, NEW t \in Tokens, Write(s, t)
    PROVE  IInv'
<1> DEFINE at == len[s] + Len(wrote[s])
           b == blocks[s][BlockOf(at)]
           o == at % BlockTokens
<1>1. /\ at \in Nat /\ at < len[s] + pending[s] /\ b \in Ids /\ o \in Offsets
      /\ cells'[b][o] = t
      /\ \A c \in Ids : \A p \in Offsets : c # b \/ p # o => cells'[c][p] = cells[c][p]
      /\ cells' \in [Ids -> [Offsets -> Tokens \cup {NoToken}]]
      /\ \A d \in Handles \ {s} : b \notin ToSet(blocks[d])
      /\ \A i \in 0..at - 1 : BlockOf(i) \in 1..Len(blocks[s]) /\ (blocks[s][BlockOf(i)] # b \/ i % BlockTokens # o)
  BY WriteAt
<1>2. /\ wrote' = [wrote EXCEPT ![s] = Append(wrote[s], t)]
      /\ max' = max /\ next' = next /\ free' = free /\ refs' = refs
      /\ bound' = bound /\ blocks' = blocks /\ len' = len /\ pending' = pending
  BY DEF Write, pool, table
<1>3. len[s] \in Nat /\ pending[s] \in Nat /\ wrote[s] \in Seq(Tokens) /\ Len(wrote[s]) \in Nat BY DEF IInv, Tabled
<1>4. Append(wrote[s], t) \in Seq(Tokens) /\ Len(Append(wrote[s], t)) = Len(wrote[s]) + 1 BY <1>3
<1>5. wrote'[s] = Append(wrote[s], t) /\ \A d \in Handles \ {s} : wrote'[d] = wrote[d] BY <1>2 DEF IInv, Tabled
<1>6. Pooled' BY <1>2 DEF IInv, Pooled
<1>7. Counted'
  <2>1. \A c \in Ids : Holders(c)' = Holders(c) BY <1>2 DEF Holders
  <2> QED BY <1>2, <2>1 DEF IInv, Counted
<1>8. Tabled'
  <2>1. wrote' \in [Handles -> Seq(Tokens)] BY <1>2, <1>4 DEF IInv, Tabled
  <2>2. Fits(s)'
    <3>1. Fits(s) BY DEF IInv, Tabled
    <3>2. Len(wrote[s]) + 1 <= pending[s] BY <1>1, <1>3
    <3> QED BY <1>2, <1>4, <1>5, <3>1, <3>2 DEF Fits
  <2>3. ASSUME NEW d \in Handles \ {s} PROVE Fits(d)' BY <1>2, <1>5 DEF IInv, Tabled, Fits
  <2> QED BY <1>2, <2>1, <2>2, <2>3 DEF IInv, Tabled
<1>9. Apart' BY <1>2 DEF IInv, Apart, Alone
<1>10. \A d \in Handles \ {s} : \A i \in 0..len[d] + Len(wrote[d]) - 1 : RowAt(d, i)' = RowAt(d, i)
  <2>1. TAKE d \in Handles \ {s}
  <2>2. TAKE i \in 0..len[d] + Len(wrote[d]) - 1
  <2> DEFINE n == len[d] + pending[d]
  <2>3. n \in Nat /\ i \in 0..n - 1 /\ Len(blocks[d]) = BlocksFor(n) /\ blocks[d] \in Seq(Ids)
    <3>1. len[d] \in Nat /\ pending[d] \in Nat /\ Len(wrote[d]) \in Nat /\ Len(wrote[d]) <= pending[d] BY DEF IInv, Tabled, Fits
    <3>2. Len(blocks[d]) = BlocksFor(n) /\ blocks[d] \in Seq(Ids) BY DEF IInv, Tabled, Fits
    <3> QED BY <3>1, <3>2
  <2>4. BlockOf(i) \in 1..Len(blocks[d]) /\ i % BlockTokens \in Offsets
    <3> HIDE DEF n
    <3> QED BY <2>3, RowsFit
  <2>5. BlockOf(i) \in DOMAIN blocks[d] /\ blocks[d][BlockOf(i)] \in Ids BY <2>3, <2>4
  <2>6. blocks[d][BlockOf(i)] \in ToSet(blocks[d]) BY <2>5 DEF ToSet
  <2> HIDE DEF b, o
  <2> QED BY <1>1, <1>2, <2>4, <2>5, <2>6 DEF RowAt
<1>11. \A i \in 0..at - 1 : RowAt(s, i)' = RowAt(s, i)
  <2>1. TAKE i \in 0..at - 1
  <2>2. blocks[s] \in Seq(Ids) /\ BlockOf(i) \in 1..Len(blocks[s]) BY <1>1 DEF IInv, Tabled
  <2>3. blocks[s][BlockOf(i)] \in Ids BY <2>2
  <2>4. i % BlockTokens \in Offsets
    <3>1. i \in Nat /\ BlockTokens \in Nat \ {0} BY <1>1, KVCacheAssumption
    <3> QED BY <3>1, DivMod DEF Offsets
  <2>5. blocks[s][BlockOf(i)] # b \/ i % BlockTokens # o BY <1>1
  <2> HIDE DEF b, o
  <2> QED BY <1>1, <1>2, <2>3, <2>4, <2>5 DEF RowAt
<1>12. \A i \in 0..at - 1 : RowAt(s, i) \in Tokens
  <2>1. \A i \in 0..len[s] + Len(wrote[s]) - 1 : RowAt(s, i) \in Tokens BY DEF IInv, Stored
  <2> QED BY <1>3, <2>1
<1>13. Stored'
  <2>1. \A d \in Handles \ {s} : \A i \in 0..len'[d] + Len(wrote'[d]) - 1 : RowAt(d, i)' \in Tokens
    BY <1>2, <1>5, <1>10 DEF IInv, Stored
  <2>2. ASSUME NEW i \in 0..len'[s] + Len(wrote'[s]) - 1 PROVE RowAt(s, i)' \in Tokens
    <3>1. i \in 0..at BY <1>2, <1>3, <1>4, <1>5
    <3>2. CASE i \in 0..at - 1
      <4> HIDE DEF at
      <4> QED BY <1>11, <1>12, <3>2
    <3>3. CASE i = at
      <4>1. cells'[b][o] = t /\ blocks' = blocks BY <1>1, <1>2
      <4> QED BY <3>3, <4>1 DEF RowAt
    <3> QED BY <1>1, <3>1, <3>2, <3>3
  <2> QED BY <1>1, <2>1, <2>2 DEF Stored
<1> QED BY <1>6, <1>7, <1>8, <1>9, <1>13 DEF IInv

\* A handle with no pool has an empty table.
LEMMA UnboundEmpty ==
    ASSUME Tabled, NEW d \in Handles, d \notin bound
    PROVE  /\ blocks[d] = <<>> /\ len[d] = 0 /\ pending[d] = 0 /\ Len(wrote[d]) = 0 /\ ToSet(blocks[d]) = {}
<1>1. /\ len[d] = 0 /\ pending[d] = 0 /\ Len(blocks[d]) = BlocksFor(len[d] + pending[d]) /\ blocks[d] \in Seq(Ids)
      /\ Len(wrote[d]) <= pending[d] /\ wrote[d] \in Seq(Tokens)
  BY DEF Tabled, Fits
<1>2. BlocksFor(0 + 0) = 0 BY BlocksForRows
<1>3. blocks[d] = <<>> BY <1>1, <1>2
<1>4. Len(wrote[d]) = 0 BY <1>1
<1>5. ToSet(<<>>) = {}
  <2>1. DOMAIN <<>> = {} OBVIOUS
  <2> QED BY <2>1 DEF ToSet
<1> QED BY <1>1, <1>3, <1>4, <1>5

\* A fork shares whole blocks of a history between steps.
LEMMA ForkKeeps ==
    ASSUME IInv, NEW s \in Handles, NEW d \in Handles, NEW n \in Nat, Fork(s, d, n)
    PROVE  IInv'
<1> DEFINE k == BlocksFor(n)
           shared == SubSeq(blocks[s], 1, k)
<1>1. /\ s \in bound /\ d \notin bound /\ s # d /\ pending[s] = 0 /\ n <= len[s]
      /\ refs' = [b \in Ids |-> IF b \in ToSet(shared) THEN refs[b] + 1 ELSE refs[b]]
      /\ blocks' = [blocks EXCEPT ![d] = shared] /\ bound' = bound \cup {d} /\ len' = [len EXCEPT ![d] = n]
      /\ max' = max /\ next' = next /\ free' = free /\ pending' = pending /\ cells' = cells /\ wrote' = wrote
  BY DEF Fork, ForkBlocks
<1>2. blocks[s] \in Seq(Ids) /\ IsInjective(blocks[s]) /\ len[s] \in Nat /\ Len(blocks[s]) = BlocksFor(len[s]) /\ len[s] <= MaxLength
  <2>1. /\ blocks[s] \in Seq(Ids) /\ IsInjective(blocks[s]) /\ len[s] \in Nat
        /\ Len(blocks[s]) = BlocksFor(len[s] + pending[s]) /\ len[s] + pending[s] <= MaxLength
    BY DEF IInv, Tabled, Fits
  <2> QED BY <1>1, <2>1
<1>3. k \in 0..Len(blocks[s])
  <2>1. k \in Nat /\ k <= BlocksFor(len[s]) /\ BlocksFor(len[s]) \in Nat BY <1>1, <1>2, BlocksForGrows, BlocksForNat
  <2> QED BY <1>2, <2>1
<1>4. /\ shared \in Seq(Ids) /\ Len(shared) = k /\ IsInjective(shared) /\ \A i \in 1..k : shared[i] = blocks[s][i]
      /\ ToSet(shared) \subseteq ToSet(blocks[s])
  <2> HIDE DEF k
  <2>1. /\ SubSeq(blocks[s], 1, k) \in Seq(Ids) /\ Len(SubSeq(blocks[s], 1, k)) = k /\ IsInjective(SubSeq(blocks[s], 1, k))
        /\ \A i \in 1..k : SubSeq(blocks[s], 1, k)[i] = blocks[s][i]
        /\ ToSet(SubSeq(blocks[s], 1, k)) = ToSet(blocks[s]) \ ToSet(Dropped(s, k))
    BY <1>2, <1>3, Cut
  <2> QED BY <2>1
<1>5. blocks[d] = <<>> /\ len[d] = 0 /\ pending[d] = 0 /\ Len(wrote[d]) = 0 /\ ToSet(blocks[d]) = {}
  BY <1>1, UnboundEmpty DEF IInv
<1> HIDE DEF k, shared
<1>6. /\ blocks'[d] = shared /\ len'[d] = n
      /\ \A a \in Handles \ {d} : blocks'[a] = blocks[a] /\ len'[a] = len[a]
  BY <1>1 DEF IInv, Tabled
<1>7. ToSet(shared) \subseteq Ids /\ \A b \in ToSet(shared) : refs[b] \in Nat /\ refs[b] > 0
  <2>1. ToSet(shared) \subseteq Ids BY <1>4 DEF ToSet
  <2> QED BY <1>4, <2>1, HeldCounted DEF IInv
<1>8. Pooled'
  <2>1. /\ refs' \in [Ids -> Nat]
        /\ \A b \in Ids : refs'[b] = (IF b \in ToSet(shared) THEN refs[b] + 1 ELSE refs[b]) /\ (refs'[b] = 0 <=> refs[b] = 0)
    BY <1>1, <1>7 DEF IInv, Pooled
  <2>2. \A b \in 0..next - 1 : b \in Ids BY KVCacheAssumption DEF IInv, Pooled, Ids
  <2> QED BY <1>1, <2>1, <2>2 DEF IInv, Pooled
<1>9. Counted'
  <2>1. ASSUME NEW b \in Ids PROVE refs'[b] = Cardinality(Holders(b)')
    <3>1. refs[b] = Cardinality(Holders(b)) /\ refs'[b] = IF b \in ToSet(shared) THEN refs[b] + 1 ELSE refs[b]
      BY <1>1 DEF IInv, Counted
    <3>2. \A a \in Handles \ {d} : b \in ToSet(blocks'[a]) <=> b \in ToSet(blocks[a]) BY <1>6
    <3> QED BY <1>5, <1>6, <3>1, <3>2, Recount
  <2> QED BY <2>1 DEF Counted
<1>10. Tabled'
  <2>1. /\ blocks' \in [Handles -> Seq(Ids)] /\ len' \in [Handles -> Nat] /\ bound' \subseteq Handles
    BY <1>1, <1>4 DEF IInv, Tabled
  <2>2. Fits(d)'
    <3>1. n + 0 = n /\ n <= MaxLength BY <1>1, <1>2, KVCacheAssumption
    <3> QED BY <1>1, <1>4, <1>5, <1>6, <3>1 DEF Fits, k
  <2>3. ASSUME NEW a \in Handles \ {d} PROVE Fits(a)' BY <1>1, <1>6 DEF IInv, Tabled, Fits
  <2> QED BY <1>1, <2>1, <2>2, <2>3 DEF IInv, Tabled
<1>11. Apart'
  <2>1. ASSUME NEW a \in Handles, NEW e \in Handles \ {a} PROVE Alone(a, e)'
    <3>1. CASE a = d \/ a = s BY <1>1, <1>5, <3>1 DEF Alone
    <3>2. CASE a # d /\ a # s /\ e # d
      <4>1. Alone(a, e) BY DEF IInv, Apart
      <4> QED BY <1>1, <1>6, <3>2, <4>1 DEF Alone
    <3>3. CASE a # d /\ a # s /\ e = d
      <4>1. Alone(a, s) BY <3>3 DEF IInv, Apart
      <4> QED BY <1>1, <1>4, <1>6, <3>3, <4>1 DEF Alone
    <3> QED BY <3>1, <3>2, <3>3
  <2> QED BY <2>1 DEF Apart
<1>12. Stored'
  <2>1. \A i \in 0..n - 1 : blocks'[d][BlockOf(i)] = blocks[s][BlockOf(i)] BY <1>4, <1>6, RowsFit DEF k
  <2>2. \A i \in 0..n - 1 : i \in 0..len[s] + Len(wrote[s]) - 1
    <3>1. Len(wrote[s]) \in Nat BY DEF IInv, Tabled
    <3> QED BY <1>1, <1>2, <3>1
  <2>3. \A i \in 0..n - 1 : RowAt(d, i)' \in Tokens BY <1>1, <2>1, <2>2 DEF IInv, Stored, RowAt
  <2>4. \A i \in 0..len'[d] + Len(wrote'[d]) - 1 : RowAt(d, i)' \in Tokens BY <1>1, <1>5, <1>6, <2>3
  <2>5. \A a \in Handles \ {d} : \A i \in 0..len'[a] + Len(wrote'[a]) - 1 : RowAt(a, i)' \in Tokens
    BY <1>1, <1>6 DEF IInv, Stored, RowAt
  <2> QED BY <1>1, <2>4, <2>5 DEF IInv, Stored
<1> QED BY <1>8, <1>9, <1>10, <1>11, <1>12 DEF IInv

\* A table given back whole.
LEMMA GivesBackAll ==
    ASSUME IInv, NEW d \in Handles, Release(Dropped(d, 0)), max' = max, next' = next
    PROVE  Pooled' /\ \A b \in Ids : refs'[b] = IF b \in ToSet(blocks[d]) THEN refs[b] - 1 ELSE refs[b]
<1>1. blocks[d] \in Seq(Ids) /\ IsInjective(blocks[d]) /\ 0 \in 0..Len(blocks[d]) BY DEF IInv, Tabled, Fits
<1>2. Dropped(d, 0) \in Seq(Ids) /\ IsInjective(Dropped(d, 0)) /\ ToSet(Dropped(d, 0)) = ToSet(blocks[d])
  <2>1. /\ Dropped(d, 0) \in Seq(Ids) /\ IsInjective(Dropped(d, 0))
        /\ ToSet(Dropped(d, 0)) = {blocks[d][i] : i \in 0 + 1..Len(blocks[d])}
    BY <1>1, Cut
  <2>2. DOMAIN blocks[d] = 0 + 1..Len(blocks[d]) BY <1>1
  <2> QED BY <2>1, <2>2 DEF ToSet
<1>3. \A b \in ToSet(blocks[d]) : b \in Ids BY <1>1 DEF ToSet
<1>4. \A b \in ToSet(Dropped(d, 0)) : refs[b] > 0 BY <1>2, <1>3, HeldCounted DEF IInv
<1> QED BY <1>2, <1>4, ReleaseKeepsPool DEF IInv

LEMMA EmptyTable ==
    <<>> \in Seq(Ids) /\ <<>> \in Seq(Tokens) /\ Len(<<>>) = 0 /\ IsInjective(<<>>) /\ ToSet(<<>>) = {} /\ BlocksFor(0 + 0) = 0
<1>1. DOMAIN <<>> = {} OBVIOUS
<1>2. IsInjective(<<>>) /\ ToSet(<<>>) = {} BY <1>1 DEF IsInjective, ToSet
<1>3. BlocksFor(0 + 0) = 0 BY BlocksForRows
<1> QED BY <1>2, <1>3

LEMMA DestroyKeeps ==
    ASSUME IInv, NEW s \in Handles, Destroy(s)
    PROVE  IInv'
<1>1. /\ Release(Dropped(s, 0)) /\ bound' = bound \ {s} /\ blocks' = [blocks EXCEPT ![s] = <<>>]
      /\ len' = [len EXCEPT ![s] = 0] /\ pending' = [pending EXCEPT ![s] = 0] /\ wrote' = [wrote EXCEPT ![s] = <<>>]
      /\ max' = max /\ next' = next /\ cells' = cells
  BY DEF Destroy
<1>2. Pooled' /\ \A b \in Ids : refs'[b] = IF b \in ToSet(blocks[s]) THEN refs[b] - 1 ELSE refs[b] BY <1>1, GivesBackAll
<1>3. /\ blocks'[s] = <<>> /\ len'[s] = 0 /\ pending'[s] = 0 /\ wrote'[s] = <<>>
      /\ \A d \in Handles \ {s} : blocks'[d] = blocks[d] /\ len'[d] = len[d] /\ pending'[d] = pending[d] /\ wrote'[d] = wrote[d]
  BY <1>1 DEF IInv, Tabled
<1>4. Counted'
  <2>1. ASSUME NEW b \in Ids PROVE refs'[b] = Cardinality(Holders(b)')
    <3>1. refs[b] = Cardinality(Holders(b)) BY DEF IInv, Counted
    <3>2. \A d \in Handles \ {s} : b \in ToSet(blocks'[d]) <=> b \in ToSet(blocks[d]) BY <1>3
    <3> QED BY <1>2, <1>3, <3>1, <3>2, EmptyTable, Recount
  <2> QED BY <2>1 DEF Counted
<1>5. Tabled'
  <2>1. /\ blocks' \in [Handles -> Seq(Ids)] /\ len' \in [Handles -> Nat] /\ pending' \in [Handles -> Nat]
        /\ wrote' \in [Handles -> Seq(Tokens)] /\ bound' \subseteq Handles
    BY <1>1, EmptyTable DEF IInv, Tabled
  <2>2. Fits(s)'
    <3>1. 0 + 0 <= MaxLength /\ 0 <= 0 BY KVCacheAssumption
    <3> QED BY <1>3, <3>1, EmptyTable DEF Fits
  <2>3. ASSUME NEW d \in Handles \ {s} PROVE Fits(d)' BY <1>1, <1>3 DEF IInv, Tabled, Fits
  <2> QED BY <2>1, <2>2, <2>3 DEF Tabled
<1>6. Apart'
  <2>1. ASSUME NEW a \in Handles, NEW d \in Handles \ {a} PROVE Alone(a, d)'
    <3>1. Alone(a, d) BY DEF IInv, Apart
    <3>2. CASE a = s BY <1>3, <3>2 DEF Alone
    <3>3. CASE a # s /\ d = s BY <1>3, <3>3, EmptyTable DEF Alone
    <3>4. CASE a # s /\ d # s BY <1>3, <3>1, <3>4 DEF Alone
    <3> QED BY <3>2, <3>3, <3>4
  <2> QED BY <2>1 DEF Apart
<1>7. Stored'
  <2>1. 0..len'[s] + Len(wrote'[s]) - 1 = {} BY <1>3, EmptyTable
  <2>2. \A d \in Handles \ {s} : \A i \in 0..len'[d] + Len(wrote'[d]) - 1 : RowAt(d, i)' \in Tokens
    BY <1>1, <1>3 DEF IInv, Stored, RowAt
  <2> QED BY <1>1, <2>1, <2>2 DEF IInv, Stored
<1> QED BY <1>2, <1>4, <1>5, <1>6, <1>7 DEF IInv

\* A move hands the table over: whoever held a block through s holds it
\* through d.
LEMMA MoveKeeps ==
    ASSUME IInv, NEW s \in Handles, NEW d \in Handles, Move(s, d)
    PROVE  IInv'
<1>1. /\ s # d /\ Release(Dropped(d, 0))
      /\ blocks' = [blocks EXCEPT ![d] = blocks[s], ![s] = <<>>]
      /\ len' = [len EXCEPT ![d] = len[s], ![s] = 0] /\ pending' = [pending EXCEPT ![d] = pending[s], ![s] = 0]
      /\ wrote' = [wrote EXCEPT ![d] = wrote[s], ![s] = <<>>]
      /\ bound' = (bound \ {s, d}) \cup (IF s \in bound THEN {d} ELSE {}) \cup (IF d \in bound THEN {s} ELSE {})
      /\ max' = max /\ next' = next /\ cells' = cells
  BY DEF Move
<1>2. Pooled' /\ \A b \in Ids : refs'[b] = IF b \in ToSet(blocks[d]) THEN refs[b] - 1 ELSE refs[b] BY <1>1, GivesBackAll
<1>3. /\ blocks'[s] = <<>> /\ len'[s] = 0 /\ pending'[s] = 0 /\ wrote'[s] = <<>>
      /\ blocks'[d] = blocks[s] /\ len'[d] = len[s] /\ pending'[d] = pending[s] /\ wrote'[d] = wrote[s]
      /\ \A a \in Handles \ {s, d} : blocks'[a] = blocks[a] /\ len'[a] = len[a] /\ pending'[a] = pending[a] /\ wrote'[a] = wrote[a]
  BY <1>1 DEF IInv, Tabled
<1>4. Counted'
  <2>1. ASSUME NEW b \in Ids PROVE refs'[b] = Cardinality(Holders(b)')
    <3> DEFINE H == Holders(b)
               K == Holders(b)'
               J == H \ {d}
    <3>1. H \subseteq Handles /\ K \subseteq Handles BY DEF Holders
    <3>2. \A a \in Handles : (a \in H <=> b \in ToSet(blocks[a])) /\ (a \in K <=> b \in ToSet(blocks'[a])) BY DEF Holders
    <3>3. refs[b] = Cardinality(H) BY DEF IInv, Counted
    <3> HIDE DEF H, K
    <3>4. /\ s \notin K /\ (d \in K <=> s \in H) /\ \A a \in Handles \ {s, d} : a \in K <=> a \in H
      BY <1>3, <3>2, EmptyTable
    <3>5. IsFiniteSet(H) BY <3>1, FS_Subset, KVCacheAssumption
    <3>6. IsFiniteSet(J) /\ Cardinality(J) = refs'[b] /\ Cardinality(J) \in Nat
      <4>1. IsFiniteSet(J) /\ Cardinality(J) = IF d \in H THEN Cardinality(H) - 1 ELSE Cardinality(H) BY <3>5, FS_RemoveElement
      <4>2. Cardinality(J) \in Nat BY <4>1, FS_CardinalityType
      <4> QED BY <1>2, <3>2, <3>3, <4>1, <4>2
    <3>7. CASE s \in H
      <4>1. K = (J \ {s}) \cup {d} BY <1>1, <3>1, <3>4, <3>7
      <4>2. s \in J /\ d \notin J \ {s} BY <1>1, <3>7
      <4> HIDE DEF J
      <4>3. IsFiniteSet(J \ {s}) /\ Cardinality(J \ {s}) = Cardinality(J) - 1 BY <3>6, <4>2, FS_RemoveElement
      <4>4. Cardinality(K) = Cardinality(J \ {s}) + 1 BY <4>1, <4>2, <4>3, FS_AddElement
      <4>5. Cardinality(K) = refs'[b] BY <3>6, <4>3, <4>4
      <4> QED BY <4>5 DEF K
    <3>8. CASE s \notin H
      <4>1. K = J BY <3>1, <3>4, <3>8
      <4> QED BY <3>6, <4>1 DEF K
    <3> QED BY <3>7, <3>8
  <2> QED BY <2>1 DEF Counted
<1>5. Tabled'
  <2>1. /\ blocks' \in [Handles -> Seq(Ids)] /\ len' \in [Handles -> Nat] /\ pending' \in [Handles -> Nat]
        /\ wrote' \in [Handles -> Seq(Tokens)] /\ bound' \subseteq Handles
    BY <1>1, EmptyTable DEF IInv, Tabled
  <2>2. Fits(s)'
    <3>1. 0 + 0 <= MaxLength /\ 0 <= 0 BY KVCacheAssumption
    <3> QED BY <1>3, <3>1, EmptyTable DEF Fits
  <2>3. Fits(d)' BY <1>1, <1>3 DEF IInv, Tabled, Fits
  <2>4. ASSUME NEW a \in Handles \ {s, d} PROVE Fits(a)' BY <1>1, <1>3 DEF IInv, Tabled, Fits
  <2> QED BY <2>1, <2>2, <2>3, <2>4 DEF Tabled
<1>6. Apart'
  <2>1. ASSUME NEW a \in Handles, NEW e \in Handles \ {a} PROVE Alone(a, e)'
    <3>1. CASE a = s BY <1>3, <3>1 DEF Alone
    <3>2. CASE e = s BY <1>3, <3>2, EmptyTable DEF Alone
    <3>3. CASE a = d /\ e # s
      <4>1. Alone(s, e) BY <3>3 DEF IInv, Apart
      <4> QED BY <1>3, <3>3, <4>1 DEF Alone
    <3>4. CASE a # s /\ a # d /\ e = d
      <4>1. Alone(a, s) BY <3>4 DEF IInv, Apart
      <4> QED BY <1>3, <3>4, <4>1 DEF Alone
    <3>5. CASE a # s /\ a # d /\ e # s /\ e # d
      <4>1. Alone(a, e) BY DEF IInv, Apart
      <4> QED BY <1>3, <3>5, <4>1 DEF Alone
    <3> QED BY <3>1, <3>2, <3>3, <3>4, <3>5
  <2> QED BY <2>1 DEF Apart
<1>7. Stored'
  <2>1. 0..len'[s] + Len(wrote'[s]) - 1 = {} BY <1>3, EmptyTable
  <2>2. \A i \in 0..len'[d] + Len(wrote'[d]) - 1 : RowAt(d, i)' \in Tokens
    BY <1>1, <1>3 DEF IInv, Stored, RowAt
  <2>3. \A a \in Handles \ {s, d} : \A i \in 0..len'[a] + Len(wrote'[a]) - 1 : RowAt(a, i)' \in Tokens
    BY <1>1, <1>3 DEF IInv, Stored, RowAt
  <2> QED BY <1>1, <2>1, <2>2, <2>3 DEF IInv, Stored
<1> QED BY <1>2, <1>4, <1>5, <1>6, <1>7 DEF IInv

-----------------------------------------------------------------------------
LEMMA NextKeeps == IInv /\ [Next]_vars => IInv'
<1> SUFFICES ASSUME IInv, [Next]_vars PROVE IInv' OBVIOUS
<1>1. ASSUME NEW m \in Budgets, Configure(m) PROVE IInv' BY <1>1, ConfigureKeeps
<1>2. ASSUME NEW s \in Handles, Construct(s) PROVE IInv' BY <1>2, ConstructKeeps
<1>3. ASSUME NEW s \in Handles, Commit(s) PROVE IInv' BY <1>3, CommitKeeps
<1>4. ASSUME NEW s \in Handles, Abort(s) PROVE IInv'
  <2>1. len[s] \in Nat /\ len[s] <= len[s] BY DEF IInv, Tabled
  <2> QED BY <1>4, <2>1, CutKeeps DEF Abort
<1>5. ASSUME NEW s \in Handles, Destroy(s) PROVE IInv' BY <1>5, DestroyKeeps
<1>6. ASSUME NEW s \in Handles, NEW n \in 1..MaxLength, Prepare(s, n) \/ PrepareFails(s, n) PROVE IInv'
  <2>1. n \in Nat BY KVCacheAssumption
  <2> QED BY <1>6, <2>1, PrepareKeeps, PrepareFailsKeeps
<1>7. ASSUME NEW s \in Handles, NEW n \in 0..MaxLength, Truncate(s, n) PROVE IInv'
  <2>1. n \in Nat /\ n <= len[s] /\ CutTo(s, n)
    <3>1. len[s] \in Nat /\ n < len[s] /\ CutTo(s, n) BY <1>7 DEF Truncate, IInv, Tabled
    <3> QED BY <3>1
  <2> QED BY <2>1, CutKeeps
<1>8. ASSUME NEW s \in Handles, NEW t \in Tokens, Write(s, t) PROVE IInv' BY <1>8, WriteKeeps
<1>9. ASSUME NEW s \in Handles, NEW d \in Handles, Move(s, d) PROVE IInv' BY <1>9, MoveKeeps
<1>10. ASSUME NEW s \in Handles, NEW d \in Handles, NEW n \in 0..MaxLength, Fork(s, d, n) PROVE IInv'
  <2>1. n \in Nat OBVIOUS
  <2> QED BY <1>10, <2>1, ForkKeeps
<1>11. CASE UNCHANGED vars
  <2>1. /\ max' = max /\ next' = next /\ free' = free /\ refs' = refs
        /\ bound' = bound /\ blocks' = blocks /\ len' = len /\ pending' = pending /\ cells' = cells /\ wrote' = wrote
    BY <1>11 DEF vars, pool, table
  <2>2. Pooled' BY <2>1 DEF IInv, Pooled
  <2>3. Counted'
    <3>1. \A b \in Ids : Holders(b)' = Holders(b) BY <2>1 DEF Holders
    <3> QED BY <2>1, <3>1 DEF IInv, Counted
  <2>4. Tabled' BY <2>1 DEF IInv, Tabled, Fits
  <2>5. Apart' BY <2>1 DEF IInv, Apart, Alone
  <2>6. Stored' BY <2>1 DEF IInv, Stored, RowAt
  <2> QED BY <2>2, <2>3, <2>4, <2>5, <2>6 DEF IInv
<1> QED BY <1>1, <1>2, <1>3, <1>4, <1>5, <1>6, <1>7, <1>8, <1>9, <1>10, <1>11 DEF Next

LEMMA InvariantHolds == Spec => []IInv
  BY InitHolds, NextKeeps, PTL DEF Spec

LEMMA AccountedByInvariant == IInv => BlocksAccounted
<1> SUFFICES ASSUME IInv PROVE BlocksAccounted OBVIOUS
<1>1. ASSUME NEW s \in Handles
      PROVE  /\ len[s] \in 0..MaxLength /\ pending[s] \in 0..MaxLength
             /\ IsInjective(blocks[s]) /\ Len(blocks[s]) = BlocksFor(len[s] + pending[s])
  <2>1. /\ len[s] \in Nat /\ pending[s] \in Nat /\ len[s] + pending[s] <= MaxLength
        /\ IsInjective(blocks[s]) /\ Len(blocks[s]) = BlocksFor(len[s] + pending[s])
    BY DEF IInv, Tabled, Fits
  <2> QED BY <2>1, KVCacheAssumption
<1>2. TypeOK
  <2>1. len \in [Handles -> 0..MaxLength] /\ pending \in [Handles -> 0..MaxLength] BY <1>1 DEF IInv, Tabled
  <2> QED BY <2>1 DEF TypeOK, IInv, Pooled, Tabled, Stored
<1>3. RefsAreHolders BY <1>1 DEF RefsAreHolders, IInv, Pooled, Counted
<1>4. TableCoversRows BY <1>1 DEF TableCoversRows
<1> QED BY <1>2, <1>3, <1>4 DEF BlocksAccounted

\* Whatever steps are taken, fail, are forked, moved or rolled back, every block
\* is counted once for each table that names it, no id is lost or handed out
\* twice, and each table is as long as its rows need (BlockPool's alloc, retain
\* and release, KVSequence's prepare, commit, abort, truncate, fork and move).
THEOREM KVCacheBlocksAccounted == Spec => []BlocksAccounted
  BY InvariantHolds, AccountedByInvariant, PTL

-----------------------------------------------------------------------------
(***************************************************************************)
(* The refinement: each step, read through the tables, is a step of        *)
(* Histories or leaves every history as it was.                            *)
(***************************************************************************)
LEMMA RowsAre ==
    ASSUME NEW s \in Handles
    PROVE  /\ Rows(s) = [i \in 1..len[s] |-> RowAt(s, i - 1)]
           /\ Rows(s)' = [i \in 1..len'[s] |-> RowAt(s, i - 1)']
  BY DEF Rows, RowAt, BlockOf

LEMMA RowsAreTokens ==
    ASSUME Tabled, Stored, NEW s \in Handles
    PROVE  Rows(s) \in Seq(Tokens) /\ Len(Rows(s)) = len[s] /\ len[s] \in Nat /\ \A i \in 1..len[s] : Rows(s)[i] = RowAt(s, i - 1)
<1> DEFINE n == len[s]
<1>1. n \in Nat /\ Len(wrote[s]) \in Nat BY DEF Tabled
<1>2. Rows(s) = [i \in 1..n |-> RowAt(s, i - 1)] BY RowsAre
<1>3. \A i \in 1..n : i - 1 \in 0..len[s] + Len(wrote[s]) - 1 BY <1>1
<1>4. \A i \in 1..n : RowAt(s, i - 1) \in Tokens BY <1>3 DEF Stored
<1> HIDE DEF n
<1>5. Rows(s) \in [1..n -> Tokens] BY <1>2, <1>4
<1>6. Rows(s) \in Seq(Tokens) /\ Len(Rows(s)) = n BY <1>1, <1>2, <1>5
<1> QED BY <1>1, <1>2, <1>6 DEF n

TokensAt(s) == Rows(s) \in Seq(Tokens) /\ Len(Rows(s)) = len[s] /\ \A i \in 1..len[s] : Rows(s)[i] = RowAt(s, i - 1)

AllTokens == \A s \in Handles : TokensAt(s)

LEMMA RowsTyped == IInv => AllTokens
  BY RowsAreTokens DEF IInv, TokensAt, AllTokens

\* A history none of whose rows changed.
LEMMA SameRows ==
    ASSUME NEW s \in Handles, len[s] \in Nat, len'[s] = len[s], \A i \in 0..len[s] - 1 : RowAt(s, i)' = RowAt(s, i)
    PROVE  Rows(s)' = Rows(s)
<1>1. \A i \in 1..len[s] : i - 1 \in 0..len[s] - 1 OBVIOUS
<1>2. \A i \in 1..len[s] : RowAt(s, i - 1)' = RowAt(s, i - 1) BY <1>1
<1> QED BY <1>2, RowsAre

\* A history that is now the first n rows of what another one was.
LEMMA PrefixRows ==
    ASSUME Tabled, Stored, Tabled', Stored', NEW s \in Handles, NEW d \in Handles, NEW n \in Nat, n <= len[s], len'[d] = n,
           \A i \in 0..n - 1 : RowAt(d, i)' = RowAt(s, i)
    PROVE  Rows(d)' = SubSeq(Rows(s), 1, n)
<1> DEFINE u == Rows(s)
           v == Rows(d)'
<1>1. u \in Seq(Tokens) /\ Len(u) = len[s] /\ len[s] \in Nat /\ \A i \in 1..len[s] : u[i] = RowAt(s, i - 1) BY RowsAreTokens
<1>2. v = [i \in 1..n |-> RowAt(d, i - 1)'] BY RowsAre
<1>3. \A i \in 1..n : i - 1 \in 0..n - 1 /\ i \in 1..len[s] BY <1>1
<1>4. \A i \in 1..n : v[i] = u[i] BY <1>1, <1>2, <1>3
<1> HIDE DEF u, v
<1>5. SubSeq(u, 1, n) = [i \in 1..n |-> u[i]]
  <2>1. 1 \in 1..Len(u) + 1 /\ n \in 1 - 1..Len(u) /\ n - 1 + 1 = n BY <1>1
  <2>2. /\ SubSeq(u, 1, n) \in Seq(Tokens) /\ Len(SubSeq(u, 1, n)) = n - 1 + 1
        /\ \A i \in 1..n - 1 + 1 : SubSeq(u, 1, n)[i] = u[1 + i - 1]
    BY <1>1, <2>1, SubSeqProperties
  <2>3. \A i \in 1..n : 1 + i - 1 = i OBVIOUS
  <2>4. DOMAIN SubSeq(u, 1, n) = 1..n /\ SubSeq(u, 1, n) = [i \in DOMAIN SubSeq(u, 1, n) |-> SubSeq(u, 1, n)[i]] BY <2>1, <2>2
  <2>5. \A i \in 1..n : SubSeq(u, 1, n)[i] = u[i] BY <2>1, <2>2, <2>3
  <2> QED BY <2>4, <2>5
<1>6. SubSeq(u, 1, n) = v BY <1>2, <1>4, <1>5
<1> QED BY <1>6 DEF u, v

LEMMA CutRows ==
    ASSUME IInv, IInv', NEW s \in Handles, NEW n \in Nat, n <= len[s], CutTo(s, n)
    PROVE  Rows(s)' = SubSeq(Rows(s), 1, n) /\ \A d \in Handles \ {s} : Rows(d)' = Rows(d)
<1> DEFINE k == BlocksFor(n)
           head == SubSeq(blocks[s], 1, k)
<1>1. /\ blocks[s] \in Seq(Ids) /\ IsInjective(blocks[s]) /\ len[s] \in Nat /\ pending[s] \in Nat
      /\ Len(blocks[s]) = BlocksFor(len[s] + pending[s])
  BY DEF IInv, Tabled, Fits
<1>2. k \in 0..Len(blocks[s])
  <2>1. len[s] + pending[s] \in Nat /\ n <= len[s] + pending[s] BY <1>1
  <2> QED BY <1>1, <2>1, BlocksForGrows, BlocksForNat
<1>3. \A i \in 1..k : head[i] = blocks[s][i]
  <2> HIDE DEF k
  <2> QED BY <1>1, <1>2, Cut
<1>4. Min({Len(blocks[s]), k}) = k
  <2> HIDE DEF k
  <2> QED BY <1>1, <1>2 DEF Min
<1>5. blocks' = [blocks EXCEPT ![s] = head] /\ len' = [len EXCEPT ![s] = n] /\ cells' = cells BY <1>4 DEF CutTo
<1> HIDE DEF k, head
<1>6. /\ blocks'[s] = head /\ len'[s] = n /\ \A d \in Handles \ {s} : blocks'[d] = blocks[d] /\ len'[d] = len[d] /\ len[d] \in Nat
  BY <1>5 DEF IInv, Tabled
<1>7. \A i \in 0..n - 1 : RowAt(s, i)' = RowAt(s, i)
  <2>1. \A i \in 0..n - 1 : BlockOf(i) \in 1..k BY RowsFit DEF k
  <2> QED BY <1>3, <1>5, <1>6, <2>1 DEF RowAt
<1>8. Rows(s)' = SubSeq(Rows(s), 1, n) BY <1>6, <1>7, PrefixRows DEF IInv
<1>9. ASSUME NEW d \in Handles \ {s} PROVE Rows(d)' = Rows(d)
  <2>1. \A i \in 0..len[d] - 1 : RowAt(d, i)' = RowAt(d, i) BY <1>5, <1>6 DEF RowAt
  <2> QED BY <1>6, <2>1, SameRows
<1> QED BY <1>8, <1>9

LEMMA PrepareRows ==
    ASSUME IInv, NEW s \in Handles, NEW n \in Nat, Prepare(s, n), NEW d \in Handles
    PROVE  Rows(d)' = Rows(d)
<1> DEFINE t == blocks[s]
           ids == AllocIds(Needed(s, n))
<1>1. blocks' = [blocks EXCEPT ![s] = t \o ids] /\ len' = len /\ cells' = cells BY DEF Prepare
<1>2. /\ t \in Seq(Ids) /\ len[s] \in Nat /\ Len(t) = BlocksFor(len[s]) /\ len[d] \in Nat
  <2>1. t \in Seq(Ids) /\ len[s] \in Nat /\ Len(t) = BlocksFor(len[s] + pending[s]) /\ pending[s] = 0 /\ len[d] \in Nat
    BY DEF IInv, Tabled, Fits, Prepare
  <2>2. len[s] + 0 = len[s] BY <2>1
  <2> QED BY <2>1, <2>2
<1>3. ids \in Seq(Ids)
  <2>1. Needed(s, n) \in Nat /\ Needed(s, n) <= Available
    <3>1. len[s] + n \in Nat /\ len[s] <= len[s] + n BY <1>2
    <3>2. BlocksFor(len[s]) <= BlocksFor(len[s] + n) /\ BlocksFor(len[s]) \in Nat /\ BlocksFor(len[s] + n) \in Nat
      BY <1>2, <3>1, BlocksForGrows, BlocksForNat
    <3> QED BY <1>2, <3>2 DEF Prepare, Needed
  <2> QED BY <2>1, AllocFresh DEF IInv
<1>4. \A i \in 1..Len(t) : (t \o ids)[i] = t[i]
  <2> HIDE DEF t, ids
  <2> QED BY <1>2, <1>3
<1> HIDE DEF ids
<1>5. ASSUME NEW i \in 0..len[d] - 1 PROVE RowAt(d, i)' = RowAt(d, i)
  <2>1. CASE d = s
    <3>1. BlockOf(i) \in 1..Len(t) BY <1>2, <2>1, RowsFit
    <3>2. blocks'[s] = t \o ids BY <1>1 DEF IInv, Tabled
    <3> QED BY <1>1, <1>4, <2>1, <3>1, <3>2 DEF RowAt
  <2>2. CASE d # s
    <3>1. blocks'[d] = blocks[d] BY <1>1, <2>2 DEF IInv, Tabled
    <3> QED BY <1>1, <3>1 DEF RowAt
  <2> QED BY <2>1, <2>2
<1> QED BY <1>1, <1>2, <1>5, SameRows

LEMMA WriteRows ==
    ASSUME IInv, NEW s \in Handles, NEW t \in Tokens, Write(s, t), NEW d \in Handles
    PROVE  Rows(d)' = Rows(d)
<1> DEFINE at == len[s] + Len(wrote[s])
           b == blocks[s][BlockOf(at)]
           o == at % BlockTokens
<1>1. /\ at \in Nat /\ b \in Ids /\ o \in Offsets
      /\ \A c \in Ids : \A p \in Offsets : c # b \/ p # o => cells'[c][p] = cells[c][p]
      /\ \A e \in Handles \ {s} : b \notin ToSet(blocks[e])
      /\ \A i \in 0..at - 1 : BlockOf(i) \in 1..Len(blocks[s]) /\ (blocks[s][BlockOf(i)] # b \/ i % BlockTokens # o)
  BY WriteAt
<1>2. blocks' = blocks /\ len' = len BY DEF Write, table
<1>3. /\ len[d] \in Nat /\ pending[d] \in Nat /\ blocks[d] \in Seq(Ids) /\ Len(blocks[d]) = BlocksFor(len[d] + pending[d])
      /\ Len(wrote[d]) \in Nat
  BY DEF IInv, Tabled, Fits
<1>4. ASSUME NEW i \in 0..len[d] - 1 PROVE RowAt(d, i)' = RowAt(d, i)
  <2>1. len[d] + pending[d] \in Nat /\ i \in 0..(len[d] + pending[d]) - 1 /\ i \in Nat BY <1>3
  <2>2. BlockOf(i) \in 1..Len(blocks[d]) /\ i % BlockTokens \in Offsets BY <1>3, <2>1, RowsFit
  <2>3. BlockOf(i) \in DOMAIN blocks[d] /\ blocks[d][BlockOf(i)] \in Ids BY <1>3, <2>2
  <2>4. blocks[d][BlockOf(i)] # b \/ i % BlockTokens # o
    <3>1. CASE d = s
      <4>1. i \in 0..at - 1 BY <1>3, <3>1
      <4> HIDE DEF at
      <4> QED BY <1>1, <3>1, <4>1
    <3>2. CASE d # s
      <4>1. blocks[d][BlockOf(i)] \in ToSet(blocks[d]) BY <2>3 DEF ToSet
      <4> HIDE DEF b
      <4> QED BY <1>1, <3>2, <4>1
    <3> QED BY <3>1, <3>2
  <2> HIDE DEF b, o
  <2> QED BY <1>1, <1>2, <2>2, <2>3, <2>4 DEF RowAt
<1> QED BY <1>2, <1>3, <1>4, SameRows

\* The histories as the tables read.
ReadThrough == [s \in Handles |-> Rows(s)]

LEMMA MapsShorten ==
    ASSUME IInv, NEW s \in Handles, NEW n \in Nat, n < len[s], Rows(s)' = SubSeq(Rows(s), 1, n),
           \A d \in Handles \ {s} : Rows(d)' = Rows(d)
    PROVE  Promise!Next
<1>1. ReadThrough[s] = Rows(s) /\ Len(Rows(s)) = len[s] /\ len[s] \in Nat BY RowsAreTokens DEF ReadThrough, IInv
<1>2. n \in 0..Len(ReadThrough[s]) BY <1>1
<1>3. ReadThrough' = [ReadThrough EXCEPT ![s] = SubSeq(ReadThrough[s], 1, n)] BY <1>1 DEF ReadThrough
<1>4. Promise!Shorten(s, n) BY <1>1, <1>3 DEF Promise!Shorten, ReadThrough
<1> QED BY <1>2, <1>4 DEF Promise!Next, ReadThrough

LEMMA MapsCommit ==
    ASSUME IInv, IInv', NEW s \in Handles, Commit(s)
    PROVE  Promise!Next
<1> DEFINE u == Rows(s)
           v == Rows(s)'
<1>1. len[s] \in Nat /\ pending[s] \in Nat /\ pending[s] > 0 BY DEF IInv, Tabled, Commit
<1>2. blocks' = blocks /\ cells' = cells /\ len'[s] = len[s] + pending[s] /\ \A d \in Handles \ {s} : len'[d] = len[d]
  BY DEF Commit, IInv, Tabled
<1>3. u \in Seq(Tokens) /\ Len(u) = len[s] /\ \A i \in 1..len[s] : u[i] = RowAt(s, i - 1) BY RowsAreTokens DEF IInv
<1>4. v \in Seq(Tokens) /\ Len(v) = len'[s] /\ \A i \in 1..len'[s] : v[i] = RowAt(s, i - 1)'
  <2>1. AllTokens' BY RowsTyped, PTL
  <2> QED BY <2>1 DEF AllTokens, TokensAt
<1>5. \A i \in 1..len[s] : v[i] = u[i]
  <2>1. \A i \in 1..len[s] : RowAt(s, i - 1)' = RowAt(s, i - 1) BY <1>2 DEF RowAt
  <2>2. \A i \in 1..len[s] : i \in 1..len'[s] BY <1>1, <1>2
  <2> QED BY <1>3, <1>4, <2>1, <2>2
<1>6. ASSUME NEW d \in Handles \ {s} PROVE Rows(d)' = Rows(d)
  <2>1. \A i \in 0..len[d] - 1 : RowAt(d, i)' = RowAt(d, i) BY <1>2 DEF RowAt
  <2>2. len[d] \in Nat BY DEF IInv, Tabled
  <2> QED BY <1>2, <2>1, <2>2, SameRows
<1>7. Len(v) > Len(u) /\ Len(u) <= Len(v) BY <1>1, <1>2, <1>3, <1>4
<1>8. v = u \o SubSeq(v, Len(u) + 1, Len(v))
  <2> HIDE DEF u, v
  <2> QED BY <1>3, <1>4, <1>5, <1>7, Grown
<1>9. ReadThrough[s] = u /\ ReadThrough'[s] = v BY DEF ReadThrough
<1>10. ReadThrough' = [ReadThrough EXCEPT ![s] = ReadThrough[s] \o SubSeq(ReadThrough'[s], Len(ReadThrough[s]) + 1, Len(ReadThrough'[s]))]
  <2>1. ReadThrough' = [ReadThrough EXCEPT ![s] = v] BY <1>6 DEF ReadThrough
  <2> QED BY <1>8, <1>9, <2>1
<1>11. Promise!Extend(s, SubSeq(ReadThrough'[s], Len(ReadThrough[s]) + 1, Len(ReadThrough'[s]))) BY <1>10 DEF Promise!Extend, ReadThrough
<1> QED BY <1>4, <1>7, <1>9, <1>11 DEF Promise!Next, ReadThrough

LEMMA MapsFork ==
    ASSUME IInv, IInv', NEW s \in Handles, NEW d \in Handles, NEW n \in Nat, Fork(s, d, n)
    PROVE  Promise!Next
<1> DEFINE k == BlocksFor(n)
           shared == SubSeq(blocks[s], 1, k)
<1>1. /\ s # d /\ n <= len[s] /\ blocks' = [blocks EXCEPT ![d] = shared] /\ len' = [len EXCEPT ![d] = n] /\ cells' = cells
  BY DEF Fork, ForkBlocks
<1>2. blocks[s] \in Seq(Ids) /\ len[s] \in Nat /\ IsInjective(blocks[s]) /\ Len(blocks[s]) = BlocksFor(len[s])
  <2>1. /\ blocks[s] \in Seq(Ids) /\ IsInjective(blocks[s]) /\ len[s] \in Nat
        /\ Len(blocks[s]) = BlocksFor(len[s] + pending[s]) /\ pending[s] = 0
    BY DEF IInv, Tabled, Fits, Fork
  <2> QED BY <2>1
<1>3. \A i \in 1..k : shared[i] = blocks[s][i]
  <2>1. k \in 0..Len(blocks[s])
    <3>1. k \in Nat /\ k <= BlocksFor(len[s]) /\ BlocksFor(len[s]) \in Nat BY <1>1, <1>2, BlocksForGrows, BlocksForNat
    <3> QED BY <1>2, <3>1
  <2> HIDE DEF k
  <2> QED BY <1>2, <2>1, Cut
<1> HIDE DEF shared, k
<1>4. /\ blocks'[d] = shared /\ len'[d] = n /\ \A e \in Handles \ {d} : blocks'[e] = blocks[e] /\ len'[e] = len[e] /\ len[e] \in Nat
  BY <1>1 DEF IInv, Tabled
<1>5. Rows(d)' = SubSeq(Rows(s), 1, n)
  <2>1. \A i \in 0..n - 1 : BlockOf(i) \in 1..k BY RowsFit DEF k
  <2>2. \A i \in 0..n - 1 : RowAt(d, i)' = RowAt(s, i) BY <1>1, <1>3, <1>4, <2>1 DEF RowAt
  <2> QED BY <1>1, <1>4, <2>2, PrefixRows DEF IInv
<1>6. ASSUME NEW e \in Handles \ {d} PROVE Rows(e)' = Rows(e)
  <2>1. \A i \in 0..len[e] - 1 : RowAt(e, i)' = RowAt(e, i) BY <1>1, <1>4 DEF RowAt
  <2> QED BY <1>4, <2>1, SameRows
<1>7. ReadThrough[s] = Rows(s) /\ Len(Rows(s)) = len[s] /\ n \in 0..Len(ReadThrough[s])
  <2>1. ReadThrough[s] = Rows(s) /\ Len(Rows(s)) = len[s] BY RowsAreTokens DEF ReadThrough, IInv
  <2> QED BY <1>1, <1>2, <2>1
<1>8. ReadThrough' = [ReadThrough EXCEPT ![d] = SubSeq(ReadThrough[s], 1, n)] BY <1>5, <1>6, <1>7 DEF ReadThrough
<1>9. Promise!Fork(s, d, n) BY <1>1, <1>7, <1>8 DEF Promise!Fork, ReadThrough
<1> QED BY <1>7, <1>9 DEF Promise!Next, ReadThrough

\* An empty history.
LEMMA NoRows ==
    ASSUME NEW s \in Handles
    PROVE  (len[s] = 0 => Rows(s) = <<>>) /\ (len'[s] = 0 => Rows(s)' = <<>>)
<1>1. len[s] = 0 => 1..len[s] = {} OBVIOUS
<1>2. len'[s] = 0 => 1..len'[s] = {} OBVIOUS
<1>3. \A f : DOMAIN f = {} /\ f = [i \in {} |-> f[i]] => f = <<>> OBVIOUS
<1> QED BY <1>1, <1>2, RowsAre

LEMMA MapsMove ==
    ASSUME IInv, IInv', NEW s \in Handles, NEW d \in Handles, Move(s, d)
    PROVE  Promise!Next
<1>1. /\ s # d /\ blocks' = [blocks EXCEPT ![d] = blocks[s], ![s] = <<>>] /\ len' = [len EXCEPT ![d] = len[s], ![s] = 0]
      /\ cells' = cells
  BY DEF Move
<1>2. /\ blocks'[d] = blocks[s] /\ len'[d] = len[s] /\ len'[s] = 0 /\ len[s] \in Nat
      /\ \A e \in Handles \ {s, d} : blocks'[e] = blocks[e] /\ len'[e] = len[e] /\ len[e] \in Nat
  BY <1>1 DEF IInv, Tabled
<1>3. Rows(s)' = <<>> BY <1>2, NoRows
<1>4. Rows(d)' = Rows(s)
  <2>1. \A i \in 1..len[s] : RowAt(d, i - 1)' = RowAt(s, i - 1) BY <1>1, <1>2 DEF RowAt
  <2>2. Rows(d)' = [i \in 1..len[s] |-> RowAt(d, i - 1)'] /\ Rows(s) = [i \in 1..len[s] |-> RowAt(s, i - 1)] BY <1>2, RowsAre
  <2> QED BY <2>1, <2>2
<1>5. ASSUME NEW e \in Handles \ {s, d} PROVE Rows(e)' = Rows(e)
  <2>1. \A i \in 0..len[e] - 1 : RowAt(e, i)' = RowAt(e, i) BY <1>1, <1>2 DEF RowAt
  <2> QED BY <1>2, <2>1, SameRows
<1>6. ReadThrough' = [ReadThrough EXCEPT ![d] = ReadThrough[s], ![s] = <<>>] BY <1>1, <1>3, <1>4, <1>5 DEF ReadThrough
<1>7. Promise!Move(s, d) BY <1>1, <1>6 DEF Promise!Move, ReadThrough
<1> QED BY <1>7 DEF Promise!Next

LEMMA MapsCut ==
    ASSUME IInv, IInv', NEW s \in Handles, NEW n \in Nat, n <= len[s], CutTo(s, n)
    PROVE  Promise!Next \/ ReadThrough' = ReadThrough
<1>1. Rows(s)' = SubSeq(Rows(s), 1, n) /\ \A d \in Handles \ {s} : Rows(d)' = Rows(d) BY CutRows
<1>2. Rows(s) \in Seq(Tokens) /\ Len(Rows(s)) = len[s] /\ len[s] \in Nat BY RowsAreTokens DEF IInv
<1>3. CASE n < len[s] BY <1>1, <1>3, MapsShorten
<1>4. CASE n = len[s]
  <2> DEFINE u == Rows(s)
  <2> HIDE DEF u
  <2>1. u \in Seq(Tokens) /\ Len(u) = n BY <1>2, <1>4 DEF u
  <2>2. SubSeq(u, 1, Len(u)) = u BY <2>1
  <2>3. Rows(s)' = Rows(s) BY <1>1, <2>1, <2>2 DEF u
  <2>4. \A d \in Handles : Rows(d)' = Rows(d) BY <1>1, <2>3
  <2> QED BY <2>4 DEF ReadThrough
<1> QED BY <1>2, <1>3, <1>4

LEMMA MapsDestroy ==
    ASSUME IInv, IInv', NEW s \in Handles, Destroy(s)
    PROVE  Promise!Next \/ ReadThrough' = ReadThrough
<1>1. blocks' = [blocks EXCEPT ![s] = <<>>] /\ len' = [len EXCEPT ![s] = 0] /\ cells' = cells BY DEF Destroy
<1>2. len'[s] = 0 /\ len[s] \in Nat /\ \A d \in Handles \ {s} : blocks'[d] = blocks[d] /\ len'[d] = len[d] /\ len[d] \in Nat
  BY <1>1 DEF IInv, Tabled
<1>3. ASSUME NEW d \in Handles \ {s} PROVE Rows(d)' = Rows(d)
  <2>1. \A i \in 0..len[d] - 1 : RowAt(d, i)' = RowAt(d, i) BY <1>1, <1>2 DEF RowAt
  <2> QED BY <1>2, <2>1, SameRows
<1>4. CASE len[s] = 0
  <2>1. Rows(s)' = Rows(s) BY <1>2, <1>4, NoRows
  <2>2. \A d \in Handles : Rows(d)' = Rows(d) BY <1>3, <2>1
  <2> QED BY <2>2 DEF ReadThrough
<1>5. CASE 0 < len[s]
  <2>1. \A i \in 0..0 - 1 : RowAt(s, i)' = RowAt(s, i) OBVIOUS
  <2>2. Rows(s)' = SubSeq(Rows(s), 1, 0) BY <1>2, <1>5, <2>1, PrefixRows DEF IInv
  <2> QED BY <1>3, <1>5, <2>2, MapsShorten
<1> QED BY <1>2, <1>4, <1>5

LEMMA NextMaps == IInv /\ IInv' /\ [Next]_vars => Promise!Next \/ ReadThrough' = ReadThrough
<1> SUFFICES ASSUME IInv, IInv', [Next]_vars PROVE Promise!Next \/ ReadThrough' = ReadThrough OBVIOUS
<1>0. ASSUME blocks' = blocks /\ len' = len /\ cells' = cells PROVE ReadThrough' = ReadThrough
  <2>1. \A d \in Handles : Rows(d)' = Rows(d) BY <1>0 DEF Rows
  <2> QED BY <2>1 DEF ReadThrough
<1>1. ASSUME NEW m \in Budgets, Configure(m) PROVE ReadThrough' = ReadThrough BY <1>0, <1>1 DEF Configure, table
<1>2. ASSUME NEW s \in Handles, Construct(s) PROVE ReadThrough' = ReadThrough BY <1>0, <1>2 DEF Construct
<1>3. ASSUME NEW s \in Handles, Commit(s) PROVE Promise!Next BY <1>3, MapsCommit
<1>4. ASSUME NEW s \in Handles, Abort(s) PROVE Promise!Next \/ ReadThrough' = ReadThrough
  <2>1. len[s] \in Nat /\ len[s] <= len[s] BY DEF IInv, Tabled
  <2> QED BY <1>4, <2>1, MapsCut DEF Abort
<1>5. ASSUME NEW s \in Handles, Destroy(s) PROVE Promise!Next \/ ReadThrough' = ReadThrough BY <1>5, MapsDestroy
<1>6. ASSUME NEW s \in Handles, NEW n \in 1..MaxLength, Prepare(s, n) PROVE ReadThrough' = ReadThrough
  <2>1. n \in Nat BY KVCacheAssumption
  <2>2. \A d \in Handles : Rows(d)' = Rows(d) BY <1>6, <2>1, PrepareRows
  <2> QED BY <2>2 DEF ReadThrough
<1>7. ASSUME NEW s \in Handles, NEW n \in 1..MaxLength, PrepareFails(s, n) PROVE ReadThrough' = ReadThrough
  BY <1>0, <1>7 DEF PrepareFails, table
<1>8. ASSUME NEW s \in Handles, NEW n \in 0..MaxLength, Truncate(s, n) PROVE Promise!Next \/ ReadThrough' = ReadThrough
  <2>1. n \in Nat /\ n <= len[s] /\ CutTo(s, n)
    <3>1. len[s] \in Nat /\ n < len[s] /\ CutTo(s, n) BY <1>8 DEF Truncate, IInv, Tabled
    <3> QED BY <3>1
  <2> QED BY <2>1, MapsCut
<1>9. ASSUME NEW s \in Handles, NEW t \in Tokens, Write(s, t) PROVE ReadThrough' = ReadThrough
  <2>1. \A d \in Handles : Rows(d)' = Rows(d) BY <1>9, WriteRows
  <2> QED BY <2>1 DEF ReadThrough
<1>10. ASSUME NEW s \in Handles, NEW d \in Handles, Move(s, d) PROVE Promise!Next BY <1>10, MapsMove
<1>11. ASSUME NEW s \in Handles, NEW d \in Handles, NEW n \in 0..MaxLength, Fork(s, d, n) PROVE Promise!Next
  <2>1. n \in Nat OBVIOUS
  <2> QED BY <1>11, <2>1, MapsFork
<1>12. CASE UNCHANGED vars BY <1>0, <1>12 DEF vars, table
<1> QED BY <1>1, <1>2, <1>3, <1>4, <1>5, <1>6, <1>7, <1>8, <1>9, <1>10, <1>11, <1>12 DEF Next

\* Read through its table each history is a list of its own: whatever prepare,
\* a step's writes, commit, abort, truncate, fork, a move or the destructor do,
\* to one handle, is an append, a roll back, a fork or a move of that history
\* and leaves every other as it was, whichever blocks they share.
THEOREM KVCacheHistories == Spec => HistoriesOfTheirOwn
<1>1. Init => Promise!Init
  <2> SUFFICES ASSUME Init PROVE Promise!Init OBVIOUS
  <2>1. \A s \in Handles : Rows(s) = <<>> BY NoRows DEF Init
  <2> QED BY <2>1 DEF Promise!Init
<1>2. IInv /\ IInv' /\ [Next]_vars => [Promise!Next]_([s \in Handles |-> Rows(s)])
  BY NextMaps DEF ReadThrough
<1> QED BY <1>1, <1>2, InvariantHolds, PTL DEF Spec, HistoriesOfTheirOwn, Promise!Spec
=============================================================================
