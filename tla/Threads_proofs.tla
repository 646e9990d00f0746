--------------------------- MODULE Threads_proofs ---------------------------
(***************************************************************************)
(* Proofs about the three structures of MCThreads, in which a thread waits *)
(* for what others write: the pipelined prefill (RunChunks), the read ring *)
(* (R!) and the pulls of one cache (H!).                                   *)
(*                                                                         *)
(* No pass or hand-off buffer is reused under a stage, because no stage is *)
(* further ahead of another than the buffers between them allow (Counts),  *)
(* and so two chunks that are both wanted never share a remainder          *)
(* (ModDistinct).  No slot of the ring is written under a copy for the     *)
(* same reason: pieces read and not given back are fewer apart than slots, *)
(* and a reader's pieces are past those taken.  A pull's files are whole   *)
(* because what replaces an entry is whole, and was read whole.            *)
(***************************************************************************)
EXTENDS MCThreads, SequenceTheorems, FiniteSetTheorems, TLAPS

-----------------------------------------------------------------------------
\* Arithmetic: what c % S and c % 2 tell apart.

\* The remainder of a division and what it leaves.
LEMMA Division ==
    ASSUME NEW n \in Nat \ {0}, NEW a \in Nat
    PROVE  a = n * (a \div n) + (a % n) /\ a \div n \in Nat /\ a % n \in 0..n - 1
  OBVIOUS

\* Multiples of n are n apart.
LEMMA Multiples ==
    ASSUME NEW n \in Nat \ {0}, NEW p \in Nat, NEW q \in Nat, p < q
    PROVE  n * q >= n * p + n
<1>1. PICK d \in Nat : q = p + 1 + d
  <2>. q - p - 1 \in Nat /\ q = p + 1 + (q - p - 1)
    OBVIOUS
  <2> QED
    OBVIOUS
<1>2. n * q = n * p + n + n * d
  BY <1>1
<1>3. n * d \in Nat
  OBVIOUS
<1> QED
  BY <1>2, <1>3

\* Numbers less than n apart have different remainders.
LEMMA ModDistinct ==
    ASSUME NEW n \in Nat \ {0}, NEW a \in Nat, NEW b \in Nat, a < b, b < a + n
    PROVE  a % n # b % n
<1> DEFINE p == a \div n
           q == b \div n
<1>1. a = n * p + (a % n) /\ p \in Nat
  BY Division
<1>2. b = n * q + (b % n) /\ q \in Nat
  BY Division
<1>3. a % n \in 0..n - 1 /\ b % n \in 0..n - 1
  BY Division
<1> HIDE DEF p, q
<1>4. SUFFICES ASSUME a % n = b % n PROVE FALSE
  OBVIOUS
<1>5. n * p \in Nat /\ n * q \in Nat
  BY <1>1, <1>2
<1>6. n * p < n * q /\ n * q < n * p + n
  BY <1>1, <1>2, <1>3, <1>4, <1>5
<1>7. CASE p < q
  BY <1>7, <1>6, <1>1, <1>2, <1>5, Multiples
<1>8. CASE q < p
  BY <1>8, <1>6, <1>1, <1>2, <1>5, Multiples
<1>9. CASE p = q
  BY <1>9, <1>6, <1>5
<1> QED
  BY <1>7, <1>8, <1>9, <1>1, <1>2

\* A set of naturals has a least member.
LEMMA Least ==
    ASSUME NEW T, T \subseteq Nat, T # {}
    PROVE  \E x \in T : \A y \in T : x <= y
<1> DEFINE Below == {0..x : x \in T}
<1>1. Below \subseteq FiniteSubsetsOf(Nat)
  <2>1. \A x \in T : IsFiniteSet(0..x)
    BY FS_Interval
  <2>2. \A x \in T : 0..x \subseteq Nat
    OBVIOUS
  <2> QED
    BY <2>1, <2>2 DEF FiniteSubsetsOf
<1>2. Below # {}
  OBVIOUS
<1>3. PICK b \in Below : \A d \in Below : ~(<<d, b>> \in StrictSubsetOrdering(Nat))
  BY <1>1, <1>2, FS_StrictSubsetOrderingWellFounded, WFMin
<1>4. PICK x \in T : b = 0..x
  OBVIOUS
<1>5. ASSUME NEW y \in T, y < x
      PROVE  FALSE
  <2>1. 0..y \in Below /\ 0..y \subseteq 0..x /\ 0..y # 0..x
    BY <1>5
  <2>2. 0..y \subseteq Nat /\ 0..x \subseteq Nat
    OBVIOUS
  <2> QED
    BY <1>3, <1>4, <2>1, <2>2 DEF StrictSubsetOrdering
<1> QED
  BY <1>5
-----------------------------------------------------------------------------
\* The inductive invariant.

\* No stage is ahead of one before it, nor so far ahead of the one after, or
\* the first of the last, that it would need their buffer or pass again.
Counts ==
    /\ \A s \in Stages : committed[s] <= next[s] /\ next[s] <= committed[s] + 1
    /\ \A s, t \in Stages : s < t => next[t] <= committed[s]
    /\ \A s \in Stages : s < Last => next[s] <= committed[s + 1] + 2
    /\ next[0] <= committed[Last] + S

\* Stage s has chunk c: given to its lane, being recorded, or recorded and
\* not yet committed.
InHand(s, c) == todo[s] = c \/ work[s] = c \/ done[s] = c \/ <<s, c>> \in finished

\* A stage has in hand only the chunk it is to commit next.
InHandNext ==
    \A s \in Stages, c \in 0..Chunks - 1 :
        InHand(s, c) => committed[s] = c /\ next[s] = c + 1

\* It has it in one place only, and the calling thread's stages only while
\* they are recorded.
OnePlace ==
    \A s \in Stages :
        /\ todo[s] # None => work[s] = None /\ done[s] = None
        /\ work[s] # None => done[s] = None
        /\ s \notin Lanes => todo[s] = None /\ done[s] = None
        /\ \A c \in 0..Chunks - 1 : <<s, c>> \in finished =>
               s \in Lanes /\ todo[s] = None /\ work[s] = None /\ done[s] = None

\* A pass keeps its chunk until the last stage has committed it.
PassKept ==
    /\ \A c \in 0..Chunks - 1 : committed[Last] <= c /\ c < committed[0] => holds[c % S] = c
    /\ \A c \in 0..Chunks - 1 : InHand(0, c) => holds[c % S] = c

\* A buffer keeps its chunk's rows until the stage after has committed it.
RowsKept ==
    \A s \in Stages, c \in 0..Chunks - 1 :
        s < Last =>
            /\ committed[s + 1] <= c /\ c < committed[s] => rows[s][c % 2] = c
            /\ done[s] = c \/ <<s, c>> \in finished => rows[s][c % 2] = c

\* Who records: a lane in its record, the calling thread in its own.
Recording ==
    /\ \A s \in Lanes : lane[s] = "record" <=> work[s] # None
    /\ \A s \in Stages \ Lanes : work[s] # None => pc = "inline"
    /\ \A s, t \in Stages \ Lanes : work[s] # None /\ work[t] # None => s = t
    /\ pc = "start" => \A s \in Lanes : lane[s] = "unborn"
    /\ pc = "over" => \A s \in Lanes : lane[s] \in {"unborn", "gone"}

\* What the calling thread knows in each of its places.
InCall == {"start", "round", "go", "inline", "look", "asleep", "commit"}
Places ==
    /\ pc \in {"go", "inline"} => \A s \in go : Ready(s)
    /\ pc = "go" /\ ~moved => \A s \in Stages : Ready(s) => s \in go
    /\ pc = "go" /\ ~moved => committed[Last] < Chunks
    /\ pc = "inline" => moved
    /\ pc = "look" => Arrived
    /\ pc \in InCall \ {"commit"} => finished = {}
    /\ pc \in InCall => \A s \in Stages :
           \/ next[s] = committed[s] \/ s \in busy
           \/ s \notin Lanes /\ work[s] # None
           \/ \E c \in 0..Chunks - 1 : <<s, c>> \in finished
    /\ pc \in {"join", "joining", "over"} => failed \/ \A s \in Stages : committed[s] = Chunks

IInv == TypeOK /\ Counts /\ InHandNext /\ OnePlace /\ PassKept /\ RowsKept /\ Recording /\ Places

-----------------------------------------------------------------------------
\* What the constants' assumption gives.
LEMMA Constants ==
    /\ S \in Nat \ {0} /\ Chunks \in Nat \ {0}
    /\ 0 \in Stages /\ Last \in Stages /\ Stages \subseteq Nat
    /\ Lanes \subseteq Stages
    /\ \A s \in Stages : 0 <= s /\ s <= Last /\ (s < Last => s + 1 \in Stages)
                         /\ (s > 0 => s - 1 \in Stages)
  BY RunChunksAssumption DEF Stages, Last

\* The call begins with nothing taken and nothing held.
LEMMA InitIInv == Init => IInv
<1> SUFFICES ASSUME Init PROVE IInv
  OBVIOUS
<1> USE Constants DEF Init
<1>1. TypeOK
  <2>1. None \in None..Chunks - 1 /\ 0 \in 0..Chunks
    BY DEF None
  <2>2. \A s \in Stages : rows[s] \in [0..1 -> None..Chunks - 1]
    BY <2>1
  <2>3. rows \in [Stages -> [0..1 -> None..Chunks - 1]]
    BY <2>2
  <2> QED
    BY <2>1, <2>3 DEF TypeOK
<1>2. Counts
  BY DEF Counts
<1>3. InHandNext
  BY DEF InHandNext, InHand, None
<1>4. OnePlace
  BY DEF OnePlace, None
<1>5. PassKept
  BY DEF PassKept, InHand, None
<1>6. RowsKept
  BY DEF RowsKept, None
<1>7. Recording
  BY DEF Recording, None
<1>8. Places
  BY DEF Places, InCall
<1> QED
  BY <1>1, <1>2, <1>3, <1>4, <1>5, <1>6, <1>7, <1>8 DEF IInv

-----------------------------------------------------------------------------
\* A taken stage has nothing in hand.
LEMMA NothingInHand ==
    ASSUME IInv, NEW s \in Stages, next[s] = committed[s]
    PROVE  /\ todo[s] = None /\ work[s] = None /\ done[s] = None
           /\ \A c \in 0..Chunks - 1 : <<s, c>> \notin finished
<1>1. \A c \in 0..Chunks - 1 : ~InHand(s, c)
  BY Constants DEF IInv, TypeOK, InHandNext
<1>2. \A c \in None..Chunks - 1 : c # None => c \in 0..Chunks - 1
  BY DEF None
<1>3. todo[s] \in None..Chunks - 1 /\ work[s] \in None..Chunks - 1 /\ done[s] \in None..Chunks - 1
  BY DEF IInv, TypeOK
<1> QED
  BY <1>1, <1>2, <1>3 DEF InHand

\* A ready stage may take its chunk: it stays within its neighbours' buffers.
LEMMA TakeCounts ==
    ASSUME IInv, NEW s \in Stages, Ready(s),
           next' = [next EXCEPT ![s] = next[s] + 1], UNCHANGED committed
    PROVE  Counts'
<1> USE Constants
<1>1. committed[s] = next[s]
  BY DEF Ready
<1>2. \A t \in Stages : t < s => next[s] < committed[t]
  BY <1>1 DEF Ready, AfterPrior, IInv, TypeOK, Counts
<1>3. s < Last => next[s] < committed[s + 1] + 2
  BY DEF Ready, AfterNext
<1>4. s = 0 => next[s] < committed[Last] + S
  BY DEF Ready, PassFree
<1> QED
  BY <1>1, <1>2, <1>3, <1>4 DEF IInv, TypeOK, Counts

\* Take: the chunk goes to the stage, its pass to the chunk.
LEMMA TakeStep == ASSUME IInv, NEW s \in Stages, Take(s) PROVE IInv'
<1> DEFINE c == next[s]
<1> USE Constants
<1>1. Ready(s) /\ pc = "go"
  BY DEF Take, IInv, Places
<1>2. c \in 0..Chunks - 1 /\ s \notin busy /\ committed[s] = c
  BY <1>1 DEF Ready, IInv, TypeOK
<1>3. todo[s] = None /\ work[s] = None /\ done[s] = None
      /\ \A d \in 0..Chunks - 1 : <<s, d>> \notin finished
  BY <1>2, NothingInHand
<1>4. next' = [next EXCEPT ![s] = c + 1] /\ UNCHANGED <<committed, done, finished, rows, failed>>
  BY DEF Take
<1>5. /\ \A t \in Stages \ {s} : todo'[t] = todo[t] /\ work'[t] = work[t]
      /\ s \in Lanes => todo'[s] = c /\ work'[s] = None
      /\ s \notin Lanes => todo'[s] = None /\ work'[s] = c
      /\ todo' \in [Stages -> None..Chunks - 1] /\ work' \in [Stages -> None..Chunks - 1]
  BY <1>2, <1>3 DEF Take, IInv, TypeOK, None
<1>6. /\ \A t \in Stages \ {s}, d \in 0..Chunks - 1 : InHand(t, d)' <=> InHand(t, d)
      /\ \A d \in 0..Chunks - 1 : InHand(s, d)' <=> d = c
  BY <1>2, <1>3, <1>4, <1>5 DEF InHand, None
<1>7. TypeOK'
  <2>1. next' \in [Stages -> 0..Chunks]
    BY <1>2, <1>4 DEF IInv, TypeOK
  <2>2. holds' \in [Stages -> None..Chunks - 1]
    <3>1. c \in None..Chunks - 1
      BY <1>2 DEF None
    <3>2. holds' = holds \/ holds' = [holds EXCEPT ![c % S] = c]
      BY DEF Take
    <3> QED
      BY <3>1, <3>2 DEF IInv, TypeOK
  <2>3. lane' \in [Stages -> {"unborn", "look", "asleep", "record", "gone"}]
    BY DEF Take, IInv, TypeOK
  <2>4. busy' \subseteq Lanes /\ go' \subseteq Stages /\ moved' \in BOOLEAN
        /\ pc' \in {"go", "inline"}
    BY <1>1 DEF Take, IInv, TypeOK
  <2> QED
    BY <2>1, <2>2, <2>3, <2>4, <1>5 DEF Take, IInv, TypeOK
<1>8. Counts'
  BY <1>1, <1>4, TakeCounts
<1>9. InHandNext'
  BY <1>2, <1>4, <1>6 DEF IInv, TypeOK, InHandNext
<1>10. OnePlace'
  BY <1>2, <1>3, <1>4, <1>5 DEF IInv, OnePlace, None
<1>11. PassKept'
  <2>1. CASE s = 0
    <3>1. holds' = [holds EXCEPT ![c % S] = c] /\ c % S \in Stages
      BY <2>1, <1>2 DEF Take, Stages
    <3>2. ASSUME NEW d \in 0..Chunks - 1, committed[Last] <= d, d < committed[0]
          PROVE  holds'[d % S] = d
      <4>1. d < c /\ c < d + S
        BY <2>1, <3>2, <1>1, <1>2 DEF Ready, PassFree, IInv, TypeOK
      <4>2. d % S # c % S /\ d % S \in Stages
        BY <4>1, <1>2, ModDistinct DEF Stages
      <4> QED
        BY <4>2, <3>1, <3>2 DEF IInv, TypeOK, PassKept
    <3> QED
      BY <3>1, <3>2, <2>1, <1>4, <1>6 DEF IInv, TypeOK, PassKept
  <2>2. CASE s # 0
    BY <2>2, <1>4, <1>6 DEF Take, IInv, PassKept
  <2> QED
    BY <2>1, <2>2
<1>12. RowsKept'
  BY <1>4 DEF IInv, RowsKept
<1>13. Recording'
  <2>1. \A t \in Lanes : lane'[t] = "record" <=> lane[t] = "record"
    BY DEF Take, IInv, TypeOK
  <2>2. \A t \in Stages \ Lanes : work[t] = None
    BY <1>1 DEF IInv, Recording
  <2>3. s \notin Lanes => pc' = "inline"
    BY DEF Take
  <2>4. pc' # "start" /\ pc' # "over"
    BY <1>1 DEF Take
  <2>5. \A t \in Lanes : work'[t] # None <=> work[t] # None
    BY <1>3, <1>5
  <2>6. \A t \in Stages \ Lanes : work'[t] # None => t = s
    BY <2>2, <1>5
  <2> QED
    BY <2>1, <2>3, <2>4, <2>5, <2>6 DEF IInv, Recording
<1>14. Places'
  <2>1. pc' \in {"go", "inline"} /\ moved' /\ go' = go \ {s}
    BY <1>1 DEF Take
  <2>2. \A t \in go' : Ready(t)'
    <3>1. \A t \in go' : Ready(t) /\ t # s /\ t \in Stages
      BY <1>1, <2>1 DEF IInv, TypeOK, Places
    <3>2. \A t \in go' : next'[t] = next[t] /\ (t \in busy' <=> t \in busy)
      BY <3>1, <1>4 DEF Take, IInv, TypeOK
    <3> QED
      BY <3>1, <3>2, <1>4 DEF Ready, AfterPrior, AfterNext, PassFree
  <2>3. finished' = {}
    BY <1>1, <1>4 DEF IInv, Places, InCall
  <2>4. \A t \in Stages : next'[t] = committed'[t] \/ t \in busy' \/ (t \notin Lanes /\ work'[t] # None)
    BY <1>1, <1>2, <1>4, <1>5, <2>3 DEF Take, IInv, TypeOK, Places, InCall, None
  <2> QED
    BY <2>1, <2>2, <2>3, <2>4 DEF Places, InCall
<1> QED
  BY <1>7, <1>8, <1>9, <1>10, <1>11, <1>12, <1>13, <1>14 DEF IInv

\* The step's stages hold what they held: what the caller alone changes.
LEMMA Kept ==
    ASSUME IInv, UNCHANGED <<progress, todo, done, data, finished>>
    PROVE  Counts' /\ InHandNext' /\ OnePlace' /\ PassKept' /\ RowsKept'
  BY DEF IInv, progress, data, Counts, InHandNext, InHand, OnePlace, PassKept, RowsKept

\* Start: the lanes' threads run, or one cannot be started.
LEMMA StartStep == ASSUME IInv, Start PROVE IInv'
<1>1. TypeOK'
  BY DEF Start, IInv, TypeOK, progress, data
<1>2. Counts' /\ InHandNext' /\ OnePlace' /\ PassKept' /\ RowsKept'
  BY Kept DEF Start
<1>3. Recording'
  <2>1. \A s \in Lanes : work[s] = None /\ lane'[s] \in {"look", "unborn"}
    BY Constants DEF Start, IInv, Recording
  <2>2. \A s \in Stages \ Lanes : work[s] = None
    BY DEF Start, IInv, Recording
  <2> QED
    BY <2>1, <2>2 DEF Start, Recording, data
<1>4. Places'
  <2>1. pc = "start" /\ (pc' = "round" \/ (pc' = "join" /\ failed'))
    BY DEF Start
  <2>2. UNCHANGED <<next, committed, busy, work, finished>>
    BY DEF Start, progress, data
  <2> QED
    BY <2>1, <2>2 DEF IInv, Places, InCall
<1> QED
  BY <1>1, <1>2, <1>3, <1>4 DEF IInv

\* Round: the ready stages are the round's, or the last has them all.
LEMMA RoundStep == ASSUME IInv, Round PROVE IInv'
<1>1. TypeOK'
  BY DEF Round, IInv, TypeOK, progress, data, lanes
<1>2. Counts' /\ InHandNext' /\ OnePlace' /\ PassKept' /\ RowsKept'
  BY Kept DEF Round, lanes
<1>3. Recording'
  BY DEF Round, lanes, data, IInv, Recording
<1>4. Places'
  <2>1. CASE committed[Last] = Chunks
    <3>1. \A s \in Stages : committed[s] = Chunks
      BY <2>1, Constants DEF IInv, TypeOK, Counts
    <3> QED
      BY <2>1, <3>1 DEF Round, progress, Places, InCall
  <2>2. CASE committed[Last] # Chunks
    <3>1. committed[Last] < Chunks
      BY <2>2, Constants DEF IInv, TypeOK
    <3>2. finished = {} /\ \A s \in Stages : next[s] = committed[s] \/ s \in busy
      BY DEF Round, IInv, Places, Recording, InCall
    <3>3. /\ pc' = "go" /\ go' = {s \in Stages : Ready(s)}
          /\ UNCHANGED <<next, committed, busy, finished>>
      BY <2>2 DEF Round, progress, lanes
    <3>4. \A s \in Stages : Ready(s)' <=> Ready(s)
      BY <3>3 DEF Ready, AfterPrior, AfterNext, PassFree
    <3> QED
      BY <3>1, <3>2, <3>3, <3>4 DEF Places, InCall
  <2> QED
    BY <2>1, <2>2
<1> QED
  BY <1>1, <1>2, <1>3, <1>4 DEF IInv

\* TakeFails: the chunk is counted as taken and never in hand.
LEMMA TakeFailsStep == ASSUME IInv, NEW s \in Stages, TakeFails(s) PROVE IInv'
<1> DEFINE c == next[s]
<1> USE Constants
<1>1. Ready(s) /\ pc = "go" /\ pc' = "join" /\ failed'
  BY DEF TakeFails, IInv, Places
<1>2. c \in 0..Chunks - 1 /\ committed[s] = c
  BY <1>1 DEF Ready, IInv, TypeOK
<1>3. next' = [next EXCEPT ![s] = c + 1] /\ UNCHANGED <<committed, lanes, data, go, moved, finished>>
  BY DEF TakeFails
<1>4. TypeOK'
  <2>1. next' \in [Stages -> 0..Chunks]
    BY <1>2, <1>3 DEF IInv, TypeOK
  <2> QED
    BY <2>1, <1>1, <1>3 DEF lanes, data, IInv, TypeOK
<1>5. Counts'
  BY <1>1, <1>3, TakeCounts
<1>6. InHandNext'
  <2>1. \A d \in 0..Chunks - 1 : ~InHand(s, d)
    BY <1>2, NothingInHand DEF InHand, None
  <2> QED
    BY <2>1, <1>2, <1>3 DEF lanes, data, IInv, TypeOK, InHandNext, InHand
<1>7. OnePlace' /\ PassKept' /\ RowsKept'
  BY <1>3 DEF lanes, data, IInv, OnePlace, PassKept, RowsKept, InHand
<1>8. Recording'
  BY <1>1, <1>3 DEF lanes, data, IInv, Recording
<1>9. Places'
  BY <1>1 DEF Places, InCall
<1> QED
  BY <1>4, <1>5, <1>6, <1>7, <1>8, <1>9 DEF IInv

\* Stages that commit the chunk they have in hand.
LEMMA CommitsInHand ==
    ASSUME IInv, NEW D \in SUBSET Stages, UNCHANGED <<next, holds>>,
           committed' = [s \in Stages |-> IF s \in D THEN committed[s] + 1 ELSE committed[s]],
           \A s \in D : \E c \in 0..Chunks - 1 : InHand(s, c),
           \A s \in Stages, c \in 0..Chunks - 1 : InHand(s, c)' => InHand(s, c) /\ s \notin D
    PROVE  /\ committed' \in [Stages -> 0..Chunks]
           /\ \A s \in D : InHand(s, committed[s]) /\ committed[s] \in 0..Chunks - 1
           /\ Counts' /\ InHandNext' /\ PassKept'
<1> USE Constants
<1>1. \A s \in D : InHand(s, committed[s]) /\ next[s] = committed[s] + 1 /\ committed[s] \in 0..Chunks - 1
  BY DEF IInv, InHandNext
<1>2. committed' \in [Stages -> 0..Chunks]
  BY <1>1 DEF IInv, TypeOK
<1>3. \A s \in Stages : committed[s] <= committed'[s] /\ committed'[s] <= next[s] /\ next[s] <= committed'[s] + 1
  BY <1>1 DEF IInv, TypeOK, Counts
<1>4. Counts'
  BY <1>2, <1>3 DEF IInv, TypeOK, Counts
<1>5. InHandNext'
  BY DEF IInv, InHandNext
<1>6. PassKept'
  <2>1. ASSUME NEW c \in 0..Chunks - 1, committed'[Last] <= c, c < committed'[0]
        PROVE  holds'[c % S] = c
    <3>1. committed[Last] <= c
      BY <2>1, <1>2, <1>3 DEF IInv, TypeOK
    <3>2. c < committed[0] \/ (0 \in D /\ c = committed[0])
      BY <2>1, <1>1 DEF IInv, TypeOK
    <3> QED
      BY <3>1, <3>2, <1>1 DEF IInv, PassKept
  <2> QED
    BY <2>1 DEF IInv, PassKept
<1> QED
  BY <1>1, <1>2, <1>4, <1>5, <1>6

\* Commit: every ended record's stage moves on, or a commit throws.
LEMMA CommitStep == ASSUME IInv, Commit PROVE IInv'
<1> DEFINE D == {s \in Stages : \E c \in 0..Chunks - 1 : <<s, c>> \in finished}
<1> USE Constants
<1>1. pc = "commit" /\ finished' = {} /\ UNCHANGED <<next, lanes, data, go, moved>>
  BY DEF Commit
<1>2. CASE /\ pc' = "round" /\ UNCHANGED failed
           /\ committed' = [s \in Stages |-> IF \E c \in 0..Chunks - 1 : <<s, c>> \in finished
                                             THEN committed[s] + 1 ELSE committed[s]]
  <2>1. committed' = [s \in Stages |-> IF s \in D THEN committed[s] + 1 ELSE committed[s]]
    BY <1>2
  <2>2. \A s \in D : \E c \in 0..Chunks - 1 : InHand(s, c)
    BY DEF InHand
  <2>3. \A s \in Stages, c \in 0..Chunks - 1 : InHand(s, c)' => InHand(s, c) /\ s \notin D
    <3>1. \A s \in D : todo[s] = None /\ work[s] = None /\ done[s] = None
      BY DEF IInv, OnePlace
    <3>2. \A c \in 0..Chunks - 1 : c # None
      BY DEF None
    <3> QED
      BY <1>1, <3>1, <3>2 DEF InHand, lanes, data
  <2>4. /\ committed' \in [Stages -> 0..Chunks]
        /\ \A s \in D : InHand(s, committed[s]) /\ committed[s] \in 0..Chunks - 1
        /\ Counts' /\ InHandNext' /\ PassKept'
    <3>1. D \in SUBSET Stages /\ UNCHANGED <<next, holds>>
      BY <1>1 DEF data
    <3> HIDE DEF D
    <3> QED
      BY <3>1, <2>1, <2>2, <2>3, CommitsInHand
  <2>5. TypeOK'
    BY <1>1, <1>2, <2>4 DEF lanes, data, IInv, TypeOK
  <2>6. OnePlace'
    BY <1>1 DEF lanes, data, IInv, OnePlace
  <2>7. RowsKept'
    <3>1. ASSUME NEW s \in Stages, NEW c \in 0..Chunks - 1, s < Last,
                 committed'[s + 1] <= c, c < committed'[s]
          PROVE  rows'[s][c % 2] = c
      <4>1. committed[s + 1] <= c
        BY <3>1, <2>1 DEF IInv, TypeOK
      <4>2. c < committed[s] \/ (s \in D /\ c = committed[s])
        <5>1. committed'[s] = IF s \in D THEN committed[s] + 1 ELSE committed[s]
          BY <2>1
        <5>2. committed[s] \in Nat /\ c \in Nat
          BY DEF IInv, TypeOK
        <5> HIDE DEF D
        <5>3. CASE s \in D
          BY <3>1, <5>1, <5>2, <5>3
        <5>4. CASE s \notin D
          BY <3>1, <5>1, <5>2, <5>4
        <5> QED
          BY <5>3, <5>4
      <4>3. s \in D /\ c = committed[s] => <<s, c>> \in finished
        BY <2>4 DEF InHand, IInv, OnePlace, InHandNext, None
      <4> QED
        BY <3>1, <4>1, <4>2, <4>3, <1>1 DEF IInv, RowsKept, data
    <3> QED
      BY <3>1, <1>1 DEF IInv, RowsKept, lanes, data
  <2>8. Recording'
    BY <1>1, <1>2 DEF lanes, data, IInv, Recording
  <2>9. Places'
    <3>1. \A s \in Stages : next[s] = committed[s] \/ s \in busy \/ s \in D
      BY <1>1 DEF IInv, Places, Recording, InCall
    <3>2. \A s \in D : next'[s] = committed'[s]
      BY <1>1, <2>1, <2>2 DEF IInv, InHandNext
    <3>3. \A s \in Stages : next'[s] = committed'[s] \/ s \in busy'
      BY <3>1, <3>2, <1>1, <2>1 DEF lanes
    <3> QED
      BY <3>3, <1>1, <1>2 DEF Places, InCall
  <2> QED
    BY <2>4, <2>5, <2>6, <2>7, <2>8, <2>9 DEF IInv
<1>3. CASE finished # {} /\ failed' /\ pc' = "join" /\ UNCHANGED committed
  <2>1. \A s \in Stages, c \in 0..Chunks - 1 : InHand(s, c)' => InHand(s, c)
    BY <1>1 DEF InHand, lanes, data
  <2>2. TypeOK' /\ Counts'
    BY <1>1, <1>3 DEF lanes, data, IInv, TypeOK, Counts
  <2>3. InHandNext' /\ PassKept'
    BY <2>1, <1>1, <1>3 DEF data, IInv, InHandNext, PassKept
  <2>4. OnePlace' /\ Recording'
    BY <1>1, <1>3 DEF lanes, data, IInv, OnePlace, Recording
  <2>5. RowsKept'
    BY <1>1, <1>3 DEF lanes, data, IInv, RowsKept
  <2>6. Places'
    BY <1>3 DEF Places, InCall
  <2> QED
    BY <2>2, <2>3, <2>4, <2>5, <2>6 DEF IInv
<1> QED
  BY <1>2, <1>3 DEF Commit

\* Inline: a stage without a lane is recorded and committed, or throws.
LEMMA InlineStep == ASSUME IInv, NEW s \in Stages, Inline(s) PROVE IInv'
<1> DEFINE c == work[s]
<1> USE Constants
<1>1. /\ pc = "inline" /\ s \notin Lanes /\ c # None
      /\ work' = [work EXCEPT ![s] = None]
      /\ UNCHANGED <<next, lanes, holds, go, moved, finished>>
  BY DEF Inline
<1>2. c \in 0..Chunks - 1 /\ c % 2 \in 0..1
  BY <1>1 DEF IInv, TypeOK, None
<1>3. InHand(s, c) /\ committed[s] = c /\ next[s] = c + 1
  BY <1>2 DEF InHand, IInv, InHandNext
<1>4. work' \in [Stages -> None..Chunks - 1] /\ work'[s] = None
      /\ \A t \in Stages \ {s} : work'[t] = work[t]
  BY <1>1, <1>2 DEF IInv, TypeOK, None
<1>5. finished = {} /\ todo[s] = None /\ done[s] = None
  BY <1>1 DEF IInv, OnePlace, Places, InCall
<1>6. \A t \in Stages, d \in 0..Chunks - 1 : InHand(t, d)' => InHand(t, d) /\ t # s
  BY <1>1, <1>4, <1>5 DEF InHand, lanes, None
<1>7. OnePlace'
  BY <1>1, <1>4 DEF lanes, IInv, OnePlace, None
<1>8. \A t \in Stages : work'[t] # None => t \in Lanes
  BY <1>1, <1>4 DEF IInv, Recording
<1>9. CASE /\ rows' = Sent(s, c) /\ UNCHANGED failed /\ pc' = "go"
           /\ committed' = [committed EXCEPT ![s] = committed[s] + 1]
  <2>1. committed' = [t \in Stages |-> IF t \in {s} THEN committed[t] + 1 ELSE committed[t]]
    BY <1>9 DEF IInv, TypeOK
  <2>2. committed' \in [Stages -> 0..Chunks] /\ Counts' /\ InHandNext' /\ PassKept'
    <3>1. {s} \in SUBSET Stages /\ UNCHANGED <<next, holds>>
      BY <1>1
    <3>2. \A t \in {s} : \E d \in 0..Chunks - 1 : InHand(t, d)
      BY <1>2, <1>3
    <3>3. \A t \in Stages, d \in 0..Chunks - 1 : InHand(t, d)' => InHand(t, d) /\ t \notin {s}
      BY <1>6
    <3> QED
      BY <3>1, <3>2, <3>3, <2>1, CommitsInHand
  <2>3. /\ rows' \in [Stages -> [0..1 -> None..Chunks - 1]]
        /\ \A t \in Stages \ {s} : rows'[t] = rows[t]
        /\ s < Last => rows'[s] = [rows[s] EXCEPT ![c % 2] = c]
    <3>1. [rows[s] EXCEPT ![c % 2] = c] \in [0..1 -> None..Chunks - 1]
      BY <1>2 DEF IInv, TypeOK, None
    <3>2. rows' = rows \/ rows' = [rows EXCEPT ![s] = [rows[s] EXCEPT ![c % 2] = c]]
      BY <1>9 DEF Sent
    <3>3. s < Last => rows' = [rows EXCEPT ![s] = [rows[s] EXCEPT ![c % 2] = c]]
      BY <1>9 DEF Sent
    <3> QED
      BY <3>1, <3>2, <3>3 DEF IInv, TypeOK
  <2>4. TypeOK'
    BY <1>1, <1>4, <1>9, <2>2, <2>3 DEF lanes, IInv, TypeOK
  <2>5. RowsKept'
    <3>1. ASSUME NEW t \in Stages, NEW d \in 0..Chunks - 1, t < Last,
                 committed'[t + 1] <= d, d < committed'[t]
          PROVE  rows'[t][d % 2] = d
      <4>1. committed[t + 1] <= d
        BY <3>1, <2>1 DEF IInv, TypeOK
      <4>2. CASE t # s
        BY <3>1, <4>1, <4>2, <2>1, <2>3 DEF IInv, RowsKept
      <4>3. CASE t = s /\ d = c
        BY <3>1, <4>3, <1>2, <2>3 DEF IInv, TypeOK
      <4>4. CASE t = s /\ d # c
        <5>1. d < c /\ c < d + 2
          <6>1. committed'[t] = c + 1 /\ c + 1 <= committed[t + 1] + 2
            BY <3>1, <4>4, <1>3, <2>1 DEF IInv, Counts
          <6>2. committed[t + 1] \in Nat
            BY <3>1 DEF IInv, TypeOK
          <6> QED
            BY <3>1, <4>1, <4>4, <6>1, <6>2, <1>2
        <5>2. d % 2 # c % 2 /\ d % 2 \in 0..1
          BY <5>1, <1>2, ModDistinct
        <5> QED
          <6>1. rows[t][d % 2] = d
            BY <3>1, <4>1, <4>4, <5>1, <1>3 DEF IInv, RowsKept
          <6>2. rows'[t][d % 2] = rows[t][d % 2]
            BY <3>1, <4>4, <5>2, <2>3, <1>2 DEF IInv, TypeOK
          <6> QED
            BY <6>1, <6>2
      <4> QED
        BY <4>2, <4>3, <4>4
    <3>2. \A t \in Stages, d \in 0..Chunks - 1 : done'[t] = d => t # s
      BY <1>1, <1>5 DEF lanes, None
    <3> QED
      BY <3>1, <3>2, <1>1, <1>5, <2>3 DEF lanes, IInv, RowsKept
  <2>6. Recording'
    BY <1>1, <1>8, <1>4, <1>9 DEF lanes, IInv, Recording
  <2>7. Places'
    <3>1. s \notin go
      BY <1>1, <1>3 DEF IInv, TypeOK, Places, Ready
    <3>2. \A t \in go : Ready(t)'
      <4>1. \A t \in go : Ready(t) /\ t # s /\ t \in Stages
        BY <1>1, <3>1 DEF IInv, TypeOK, Places
      <4>2. \A t \in Stages : committed[t] <= committed'[t]
        BY <2>1 DEF IInv, TypeOK
      <4>3. \A t \in Stages \ {s} : committed[t] = committed'[t]
        BY <2>1
      <4>4. \A t \in Stages : committed[t] \in Nat /\ committed'[t] \in Nat /\ next[t] \in Nat
        BY <2>2 DEF IInv, TypeOK
      <4>5. ASSUME NEW t \in go
            PROVE  AfterPrior(t, next[t])' /\ AfterNext(t, next[t])' /\ PassFree(t, next[t])'
        <5>1. t \in Stages /\ next'[t] = next[t]
              /\ AfterPrior(t, next[t]) /\ AfterNext(t, next[t]) /\ PassFree(t, next[t])
          BY <4>1, <1>1 DEF Ready
        <5> QED
          BY <5>1, <4>2, <4>4 DEF AfterPrior, AfterNext, PassFree
      <4> QED
        BY <4>1, <4>3, <4>5, <1>1 DEF lanes, Ready
    <3>3. \A t \in Stages : next[t] = committed[t] \/ t \in busy \/ t = s
      BY <1>1, <1>5 DEF IInv, Places, Recording, InCall
    <3>4. next'[s] = committed'[s] /\ \A t \in Stages \ {s} : next'[t] = next[t] /\ committed'[t] = committed[t]
      BY <1>1, <1>3, <2>1
    <3>5. moved
      BY <1>1 DEF IInv, Places
    <3> QED
      BY <3>2, <3>3, <3>4, <3>5, <1>1, <1>5, <1>9 DEF lanes, Places, InCall
  <2> QED
    BY <2>2, <2>4, <2>5, <2>6, <2>7, <1>7 DEF IInv
<1>10. CASE failed' /\ pc' = "join" /\ UNCHANGED <<rows, committed>>
  <2>1. TypeOK' /\ Counts'
    BY <1>1, <1>4, <1>10 DEF lanes, IInv, TypeOK, Counts
  <2>2. InHandNext' /\ PassKept'
    BY <1>1, <1>6, <1>10 DEF IInv, InHandNext, PassKept
  <2>3. RowsKept'
    BY <1>1, <1>10 DEF lanes, IInv, RowsKept
  <2>4. Recording' /\ Places'
    BY <1>1, <1>4, <1>8, <1>10 DEF lanes, IInv, Recording, Places, InCall
  <2> QED
    BY <2>1, <2>2, <2>3, <2>4, <1>7 DEF IInv
<1> QED
  BY <1>9, <1>10 DEF Inline

\* Wait: nothing but the caller's place changes.
LEMMA WaitStep == ASSUME IInv, Wait PROVE IInv'
<1>1. /\ UNCHANGED <<progress, lanes, data, go, moved, finished>> /\ pc \in {"go", "look"}
      /\ (pc' = "join" /\ failed') \/ (pc' = "asleep" /\ UNCHANGED failed)
  BY DEF Wait, Looking
<1>2. TypeOK'
  BY <1>1 DEF IInv, TypeOK, progress, lanes, data
<1>3. Counts' /\ InHandNext' /\ OnePlace' /\ PassKept' /\ RowsKept'
  BY <1>1, Kept DEF lanes
<1>4. Recording'
  BY <1>1 DEF lanes, data, IInv, Recording
<1>5. Places'
  BY <1>1 DEF progress, lanes, data, IInv, Places, InCall
<1> QED
  BY <1>2, <1>3, <1>4, <1>5 DEF IInv

\* Join: every lane is told to stop.
LEMMA JoinStep == ASSUME IInv, Join PROVE IInv'
<1>1. /\ UNCHANGED <<progress, busy, todo, done, error, data, go, moved, finished, failed>>
      /\ pc = "join" /\ pc' = "joining" /\ stop' = Lanes
      /\ lane' = [s \in Stages |-> IF lane[s] = "asleep" THEN "look" ELSE lane[s]]
  BY DEF Join
<1>2. TypeOK'
  <2>1. lane' \in [Stages -> {"unborn", "look", "asleep", "record", "gone"}]
    BY <1>1 DEF IInv, TypeOK
  <2> QED
    BY <2>1, <1>1 DEF IInv, TypeOK, progress, data
<1>3. Counts' /\ InHandNext' /\ OnePlace' /\ PassKept' /\ RowsKept'
  BY <1>1, Kept
<1>4. Recording'
  <2>1. \A s \in Lanes : lane'[s] = "record" <=> lane[s] = "record"
    BY <1>1, Constants
  <2> QED
    BY <2>1, <1>1 DEF data, IInv, Recording
<1>5. Places'
  BY <1>1 DEF progress, IInv, Places, InCall
<1> QED
  BY <1>2, <1>3, <1>4, <1>5 DEF IInv

\* Joined: every lane has ended.
LEMMA JoinedStep == ASSUME IInv, Joined PROVE IInv'
<1>1. /\ UNCHANGED <<progress, lanes, data, go, moved, finished, failed>>
      /\ pc = "joining" /\ pc' = "over" /\ \A s \in Lanes : lane[s] \in {"unborn", "gone"}
  BY DEF Joined
<1>2. TypeOK'
  BY <1>1 DEF IInv, TypeOK, progress, lanes, data
<1>3. Counts' /\ InHandNext' /\ OnePlace' /\ PassKept' /\ RowsKept'
  BY <1>1, Kept DEF lanes
<1>4. Recording'
  BY <1>1 DEF lanes, data, IInv, Recording
<1>5. Places'
  BY <1>1 DEF progress, IInv, Places, InCall
<1> QED
  BY <1>2, <1>3, <1>4, <1>5 DEF IInv

\* Collect: what the lanes ended moves to the caller's list.
LEMMA CollectStep == ASSUME IInv, Collect PROVE IInv'
<1> USE Constants
<1>1. /\ pc \in {"go", "look"} /\ finished = {}
      /\ UNCHANGED <<progress, todo, work, lane, stop, holds, rows, go, moved>>
  BY DEF Collect, Looking, data, IInv, Places, InCall
<1>2. \A s \in Stages : done'[s] = None
  BY DEF Collect
<1>3. \A s \in Stages, c \in 0..Chunks - 1 : <<s, c>> \in finished' <=> s \in Lanes /\ done[s] = c
  <2>1. finished' = {<<s, done[s]>> : s \in {t \in Lanes : done[t] # None}}
    BY DEF Collect
  <2>2. \A c \in 0..Chunks - 1 : c # None
    BY DEF None
  <2> QED
    BY <2>1, <2>2
<1>4. \A s \in Stages, c \in 0..Chunks - 1 : InHand(s, c)' => InHand(s, c)
  BY <1>1, <1>2, <1>3 DEF InHand, None
<1>5. TypeOK'
  <2>1. done' \in [Stages -> None..Chunks - 1]
    BY DEF Collect, None
  <2>2. finished' \subseteq Stages \X (0..Chunks - 1)
    <3>1. \A s \in Lanes : done[s] # None => done[s] \in 0..Chunks - 1
      BY DEF IInv, TypeOK, None
    <3> QED
      BY <3>1 DEF Collect
  <2>3. failed' \in BOOLEAN /\ error' \subseteq Lanes /\ busy' \subseteq Lanes /\ pc' \in {"join", "commit"}
    BY DEF Collect, IInv, TypeOK
  <2> QED
    BY <2>1, <2>2, <2>3, <1>1 DEF progress, IInv, TypeOK
<1>6. Counts' /\ InHandNext' /\ PassKept'
  <2>1. UNCHANGED <<next, committed, holds>>
    BY <1>1 DEF progress
  <2> QED
    BY <2>1, <1>4 DEF IInv, Counts, InHandNext, PassKept
<1>7. OnePlace'
  <2>1. \A s \in Stages, c \in 0..Chunks - 1 : <<s, c>> \in finished' =>
          s \in Lanes /\ todo[s] = None /\ work[s] = None
    BY <1>3 DEF IInv, OnePlace, None
  <2> QED
    BY <2>1, <1>1, <1>2 DEF IInv, OnePlace
<1>8. RowsKept'
  <2>1. \A s \in Stages, c \in 0..Chunks - 1 : done'[s] = c \/ <<s, c>> \in finished' => done[s] = c
    BY <1>2, <1>3 DEF None
  <2> QED
    BY <2>1, <1>1 DEF progress, IInv, RowsKept
<1>9. Recording'
  <2>1. pc' # "start" /\ pc' # "over"
    BY DEF Collect
  <2>2. \A s \in Stages \ Lanes : work[s] = None
    BY <1>1 DEF IInv, Recording
  <2> QED
    BY <2>1, <2>2, <1>1 DEF IInv, Recording
<1>10. Places'
  <2>1. CASE error # {}
    BY <2>1 DEF Collect, Places, InCall
  <2>2. CASE error = {}
    <3>1. pc' = "commit" /\ busy' = busy \ {s \in Lanes : done[s] # None}
      BY <2>2 DEF Collect, Ended
    <3>2. \A s \in Stages : next[s] = committed[s] \/ s \in busy
      BY <1>1 DEF IInv, Places, Recording, InCall
    <3>3. \A s \in Lanes : done[s] # None => \E c \in 0..Chunks - 1 : <<s, c>> \in finished'
      BY <1>3 DEF IInv, TypeOK, None
    <3> QED
      BY <3>1, <3>2, <3>3, <1>1 DEF progress, Places, InCall
  <2> QED
    BY <2>1, <2>2
<1> QED
  BY <1>5, <1>6, <1>7, <1>8, <1>9, <1>10 DEF IInv

-----------------------------------------------------------------------------
\* LaneLook: a chunk given becomes a chunk recorded.
LEMMA LaneLookStep == ASSUME IInv, NEW s \in Lanes, LaneLook(s) PROVE IInv'
<1> USE Constants
<1>1. /\ lane[s] = "look" /\ UNCHANGED <<progress, busy, done, error, stop, holds, rows, main>>
      /\ \A t \in Stages \ {s} : todo'[t] = todo[t] /\ work'[t] = work[t] /\ lane'[t] = lane[t]
  BY DEF LaneLook, IInv, TypeOK
<1>2. work[s] = None
  BY <1>1 DEF IInv, Recording
<1>3. \/ todo'[s] = todo[s] /\ work'[s] = None /\ lane'[s] \in {"gone", "asleep"}
      \/ todo[s] # None /\ todo'[s] = None /\ work'[s] = todo[s] /\ lane'[s] = "record"
  BY <1>1, <1>2 DEF LaneLook, IInv, TypeOK
<1>4. TypeOK'
  <2>1. /\ todo' \in [Stages -> None..Chunks - 1] /\ work' \in [Stages -> None..Chunks - 1]
        /\ lane' \in [Stages -> {"unborn", "look", "asleep", "record", "gone"}]
    BY DEF LaneLook, IInv, TypeOK, None
  <2> QED
    BY <2>1, <1>1 DEF progress, main, IInv, TypeOK
<1>5. \A t \in Stages, c \in 0..Chunks - 1 : InHand(t, c)' => InHand(t, c)
  <2>1. \A c \in 0..Chunks - 1 : c # None
    BY DEF None
  <2> QED
    BY <2>1, <1>1, <1>2, <1>3 DEF main, InHand
<1>6. Counts' /\ InHandNext' /\ PassKept'
  <2>1. UNCHANGED <<next, committed, holds>>
    BY <1>1 DEF progress
  <2> QED
    BY <2>1, <1>5 DEF IInv, Counts, InHandNext, PassKept
<1>7. OnePlace'
  <2>1. done'[s] = done[s] /\ finished' = finished
    BY <1>1 DEF main
  <2>2. /\ todo'[s] # None => work'[s] = None /\ done'[s] = None
        /\ work'[s] # None => done'[s] = None
    BY <1>2, <1>3, <2>1 DEF IInv, OnePlace
  <2>3. \A c \in 0..Chunks - 1 : <<s, c>> \in finished' =>
          todo'[s] = None /\ work'[s] = None /\ done'[s] = None
    BY <1>2, <1>3, <2>1 DEF IInv, OnePlace
  <2>4. \A t \in Stages \ {s} : todo'[t] = todo[t] /\ work'[t] = work[t] /\ done'[t] = done[t]
    BY <1>1
  <2> QED
    BY <2>1, <2>2, <2>3, <2>4 DEF IInv, OnePlace
<1>8. RowsKept'
  BY <1>1 DEF progress, main, IInv, RowsKept
<1>9. Recording'
  <2>1. lane'[s] = "record" <=> work'[s] # None
    BY <1>3
  <2>2. pc' = pc /\ pc # "start" /\ pc # "over"
    BY <1>1 DEF main, IInv, Recording
  <2>3. \A t \in Stages \ Lanes : work'[t] = work[t]
    BY <1>1
  <2> QED
    BY <1>1, <2>1, <2>2, <2>3 DEF IInv, Recording
<1>10. Places'
  <2>1. \A t \in Stages \ Lanes : work'[t] = work[t]
    BY <1>1
  <2>2. Arrived' <=> Arrived
    BY <1>1 DEF Arrived
  <2>3. \A t \in Stages : Ready(t)' <=> Ready(t)
    BY <1>1 DEF progress, Ready, AfterPrior, AfterNext, PassFree
  <2> QED
    BY <2>1, <2>2, <2>3, <1>1 DEF progress, main, IInv, TypeOK, Places, InCall
<1> QED
  BY <1>4, <1>6, <1>7, <1>8, <1>9, <1>10 DEF IInv

\* LaneEnds: the rows are written while no later stage wants the buffer's last.
LEMMA LaneEndsStep == ASSUME IInv, NEW s \in Lanes, LaneEnds(s) PROVE IInv'
<1> DEFINE c == work[s]
<1> USE Constants
<1>1. /\ lane[s] = "record" /\ UNCHANGED <<progress, busy, todo, stop, holds, go, moved, finished, failed>>
      /\ pc' = IF pc = "asleep" THEN "look" ELSE pc
      /\ lane' = [lane EXCEPT ![s] = "look"] /\ work' = [work EXCEPT ![s] = None]
      /\ \/ rows' = Sent(s, c) /\ done' = [done EXCEPT ![s] = c] /\ UNCHANGED error
         \/ error' = error \cup {s} /\ UNCHANGED <<rows, done>>
  BY DEF LaneEnds
<1>2. c \in 0..Chunks - 1 /\ c # None /\ c % 2 \in 0..1
  BY <1>1 DEF IInv, TypeOK, Recording, None
<1>3. InHand(s, c) /\ committed[s] = c /\ next[s] = c + 1
  BY <1>2 DEF InHand, IInv, InHandNext
<1>4. todo[s] = None /\ done[s] = None /\ \A d \in 0..Chunks - 1 : <<s, d>> \notin finished
  BY <1>2 DEF IInv, OnePlace
<1>5. /\ work'[s] = None
      /\ \A t \in Stages \ {s} : work'[t] = work[t] /\ done'[t] = done[t] /\ lane'[t] = lane[t]
      /\ done'[s] \in {None, c} /\ lane'[s] = "look"
  BY <1>1, <1>4 DEF IInv, TypeOK
<1>6. /\ rows' = rows \/ (s < Last /\ rows' = [rows EXCEPT ![s] = [rows[s] EXCEPT ![c % 2] = c]])
      /\ \A t \in Stages \ {s} : rows'[t] = rows[t]
  <2>1. rows' = rows \/ (s < Last /\ rows' = [rows EXCEPT ![s] = [rows[s] EXCEPT ![c % 2] = c]])
    BY <1>1 DEF Sent
  <2> QED
    BY <2>1 DEF IInv, TypeOK
<1>7. TypeOK'
  <2>1. done' \in [Stages -> None..Chunks - 1] /\ work' \in [Stages -> None..Chunks - 1]
        /\ lane' \in [Stages -> {"unborn", "look", "asleep", "record", "gone"}]
    BY <1>1, <1>2 DEF IInv, TypeOK, None
  <2>2. rows' \in [Stages -> [0..1 -> None..Chunks - 1]]
    <3>1. [rows[s] EXCEPT ![c % 2] = c] \in [0..1 -> None..Chunks - 1]
      BY <1>2 DEF IInv, TypeOK, None
    <3> QED
      BY <3>1, <1>6 DEF IInv, TypeOK
  <2>3. pc' \in {"start", "round", "go", "inline", "look", "asleep", "commit", "join", "joining", "over"}
    BY <1>1 DEF IInv, TypeOK
  <2>4. error' \subseteq Lanes
    BY <1>1 DEF IInv, TypeOK
  <2> QED
    BY <2>1, <2>2, <2>3, <2>4, <1>1 DEF progress, IInv, TypeOK
<1>8. \A t \in Stages, d \in 0..Chunks - 1 : InHand(t, d)' => InHand(t, d)
  <2>1. \A d \in 0..Chunks - 1 : d # None
    BY DEF None
  <2> QED
    BY <2>1, <1>1, <1>5 DEF InHand
<1>9. Counts' /\ InHandNext' /\ PassKept'
  <2>1. UNCHANGED <<next, committed, holds>>
    BY <1>1 DEF progress
  <2> QED
    BY <2>1, <1>8 DEF IInv, Counts, InHandNext, PassKept
<1>10. OnePlace'
  BY <1>1, <1>4, <1>5 DEF IInv, OnePlace
<1>11. RowsKept'
  <2>1. UNCHANGED <<committed, finished>>
    BY <1>1 DEF progress
  <2>2. ASSUME NEW t \in Stages, NEW d \in 0..Chunks - 1, t < Last,
               committed[t + 1] <= d, d < committed[t]
        PROVE  rows'[t][d % 2] = d
    <3>1. rows[t][d % 2] = d
      BY <2>2 DEF IInv, RowsKept
    <3>2. CASE t # s
      BY <3>1, <3>2, <1>6
    <3>3. CASE t = s
      <4>1. d < c /\ c < d + 2
        <5>1. c + 1 <= committed[t + 1] + 2 /\ committed[t + 1] \in Nat
          BY <2>2, <3>3, <1>3 DEF IInv, TypeOK, Counts
        <5> QED
          BY <2>2, <3>3, <5>1, <1>2, <1>3
      <4>2. d % 2 # c % 2 /\ d % 2 \in 0..1
        BY <4>1, <1>2, ModDistinct
      <4> QED
        BY <3>1, <3>3, <4>2, <1>2, <1>6 DEF IInv, TypeOK
    <3> QED
      BY <3>2, <3>3
  <2>3. ASSUME NEW t \in Stages, NEW d \in 0..Chunks - 1, t < Last, done'[t] = d
        PROVE  rows'[t][d % 2] = d
    <3>1. CASE t # s
      <4>1. done[t] = d /\ rows'[t] = rows[t]
        BY <2>3, <3>1, <1>5, <1>6
      <4> QED
        BY <2>3, <4>1 DEF IInv, RowsKept
    <3>2. CASE t = s
      <4>1. d = c /\ d # None
        BY <2>3, <3>2, <1>5 DEF None
      <4>2. rows' = [rows EXCEPT ![s] = [rows[s] EXCEPT ![c % 2] = c]]
        BY <2>3, <3>2, <4>1, <1>1, <1>4 DEF Sent
      <4> QED
        BY <3>2, <4>1, <4>2, <1>2 DEF IInv, TypeOK
    <3> QED
      BY <3>1, <3>2
  <2>4. ASSUME NEW t \in Stages, NEW d \in 0..Chunks - 1, t < Last, <<t, d>> \in finished
        PROVE  rows'[t][d % 2] = d
    <3>1. t # s
      BY <2>4, <1>4
    <3>2. rows[t][d % 2] = d
      BY <2>4 DEF IInv, RowsKept
    <3> QED
      BY <3>1, <3>2, <1>6
  <2> QED
    BY <2>1, <2>2, <2>3, <2>4 DEF RowsKept
<1>12. Recording'
  <2>1. \A t \in Stages \ Lanes : work'[t] = work[t]
    BY <1>5
  <2>2. pc # "start" /\ pc # "over"
    BY <1>1 DEF IInv, Recording
  <2>3. pc = "inline" => pc' = "inline"
    BY <1>1
  <2>4. pc' # "start" /\ pc' # "over"
    BY <1>1, <2>2
  <2> QED
    BY <2>1, <2>3, <2>4, <1>5 DEF IInv, Recording
<1>13. Places'
  <2>1. \A t \in Stages \ Lanes : work'[t] = work[t]
    BY <1>5
  <2>2. Arrived'
    <3>1. s \in error' \/ done'[s] # None
      BY <1>1, <1>2 DEF IInv, TypeOK
    <3> QED
      BY <3>1 DEF Arrived
  <2>3. \A t \in Stages : Ready(t)' <=> Ready(t)
    BY <1>1 DEF progress, Ready, AfterPrior, AfterNext, PassFree
  <2>4. UNCHANGED <<next, committed, busy, go, moved, finished, failed>>
    BY <1>1 DEF progress
  <2>5. pc' = pc \/ (pc = "asleep" /\ pc' = "look")
    BY <1>1
  <2> QED
    BY <2>1, <2>2, <2>3, <2>4, <2>5 DEF IInv, TypeOK, Places, InCall
<1> QED
  BY <1>7, <1>9, <1>10, <1>11, <1>12, <1>13 DEF IInv

\* A step that changes nothing.
LEMMA StutterStep == ASSUME IInv, UNCHANGED vars PROVE IInv'
<1>1. TypeOK' /\ Recording'
  BY DEF vars, progress, lanes, data, main, IInv, TypeOK, Recording
<1>2. Counts' /\ InHandNext' /\ OnePlace' /\ PassKept' /\ RowsKept'
  BY Kept DEF vars, lanes, main
<1>3. Places'
  BY DEF vars, progress, lanes, data, main, IInv, Places, InCall, Arrived, Ready, AfterPrior, AfterNext, PassFree
<1> QED
  BY <1>1, <1>2, <1>3 DEF IInv

-----------------------------------------------------------------------------
\* Every step keeps the invariant.
LEMMA NextIInv == IInv /\ [Next]_vars => IInv'
<1> SUFFICES ASSUME IInv, [Next]_vars PROVE IInv'
  OBVIOUS
<1>1. CASE Next
  <2>1. ASSUME NEW s \in Stages, Take(s) \/ TakeFails(s) \/ Inline(s)
        PROVE  IInv'
    BY <2>1, TakeStep, TakeFailsStep, InlineStep
  <2>2. ASSUME NEW s \in Lanes, Lane(s)
        PROVE  IInv'
    BY <2>2, LaneLookStep, LaneEndsStep DEF Lane
  <2>3. CASE Start \/ Round \/ Wait \/ Collect \/ Commit \/ Join \/ Joined
    BY <2>3, StartStep, RoundStep, WaitStep, CollectStep, CommitStep, JoinStep, JoinedStep
  <2>4. Over => UNCHANGED vars
    BY DEF Over
  <2>5. CASE Over
    BY <2>4, <2>5, StutterStep
  <2> QED
    BY <1>1, <2>1, <2>2, <2>3, <2>5 DEF Next, CallingThread
<1>2. CASE UNCHANGED vars
  BY <1>2, StutterStep
<1> QED
  BY <1>1, <1>2

\* The inductive invariant holds in every behaviour of Model::run_chunks.
THEOREM RunChunksInvariant == Spec => []IInv
  BY InitIInv, NextIInv, PTL DEF Spec

\* Counts, hand-overs and places keep their types.
THEOREM RunChunksTypeOK == Spec => []TypeOK
<1>1. IInv => TypeOK
  BY DEF IInv
<1> QED
  BY <1>1, RunChunksInvariant, PTL

\* A chunk in hand is between what the last stage and the first have committed.
LEMMA Between ==
    ASSUME IInv, NEW s \in Stages, NEW c \in 0..Chunks - 1, InHand(s, c)
    PROVE  /\ committed[Last] <= c
           /\ s > 0 => c < committed[s - 1] /\ c < committed[0] /\ committed[s] <= c
<1> USE Constants
<1>1. committed[s] = c /\ next[s] = c + 1
  BY DEF IInv, InHandNext
<1>2. committed[Last] <= committed[s]
  BY DEF IInv, TypeOK, Counts
<1>3. \A t \in Stages : t < s => next[s] <= committed[t]
  BY DEF IInv, Counts
<1> QED
  BY <1>1, <1>2, <1>3 DEF IInv, TypeOK

\* No later chunk takes a pass a stage still records in.
THEOREM RunChunksPassOfItsChunk == Spec => []PassOfItsChunk
<1>1. ASSUME IInv, NEW s \in Stages, work[s] # None
      PROVE  holds[work[s] % S] = work[s]
  <2>1. work[s] \in 0..Chunks - 1 /\ InHand(s, work[s])
    BY <1>1, Constants DEF IInv, TypeOK, InHand, None
  <2>2. CASE s = 0
    BY <1>1, <2>1, <2>2 DEF IInv, PassKept
  <2>3. CASE s # 0
    BY <1>1, <2>1, <2>3, Between, Constants DEF IInv, PassKept
  <2> QED
    BY <2>2, <2>3
<1>2. IInv => PassOfItsChunk
  BY <1>1 DEF PassOfItsChunk
<1> QED
  BY <1>2, RunChunksInvariant, PTL

\* No stage writes over rows the stage after it still reads.
THEOREM RunChunksRowsOfItsChunk == Spec => []RowsOfItsChunk
<1>1. ASSUME IInv, NEW s \in Stages \ {0}, work[s] # None
      PROVE  rows[s - 1][work[s] % 2] = work[s]
  <2>1. work[s] \in 0..Chunks - 1 /\ InHand(s, work[s])
    BY <1>1, Constants DEF IInv, TypeOK, InHand, None
  <2>2. s - 1 \in Stages /\ s - 1 < Last /\ (s - 1) + 1 = s /\ s > 0
    BY Constants
  <2>3. committed[s] <= work[s] /\ work[s] < committed[s - 1]
    BY <1>1, <2>1, <2>2, Between
  <2> QED
    BY <1>1, <2>1, <2>2, <2>3 DEF IInv, RowsKept
<1>2. IInv => RowsOfItsChunk
  BY <1>1 DEF RowsOfItsChunk
<1> QED
  BY <1>2, RunChunksInvariant, PTL

\* With nothing recorded, the first of the stages furthest behind is ready:
\* the std::logic_error of passes.hpp:405 is never thrown.
THEOREM RunChunksNeverStuck == Spec => []NeverStuck
<1>1. ASSUME IInv, Looking, Idle, busy = {}
      PROVE  FALSE
  <2> USE Constants
  <2>1. pc = "go" /\ go = {} /\ ~moved
    BY <1>1 DEF Looking, Idle, IInv, Places
  <2>2. \A s \in Stages : next[s] = committed[s] /\ ~Ready(s)
    BY <1>1, <2>1 DEF IInv, Places, Recording, InCall
  <2> DEFINE Behind == {s \in Stages : committed[s] = committed[Last]}
  <2>3. PICK s \in Behind : \A t \in Behind : s <= t
    BY Least
  <2>4. s \in Stages /\ committed[s] = committed[Last] /\ committed[Last] < Chunks
    BY <1>1, <2>1 DEF IInv, Places
  <2>5. \A t \in Stages : committed[Last] <= committed[t] /\ committed[t] \in Nat
    <3>1. \A t \in Stages : committed[t] \in Nat /\ next[t] \in Nat
      BY <1>1 DEF IInv, TypeOK
    <3>2. \A t \in Stages : t < Last => next[Last] <= committed[t]
      BY <1>1 DEF IInv, Counts
    <3>3. committed[Last] <= next[Last]
      BY <1>1 DEF IInv, Counts
    <3>4. \A t \in Stages : t < Last \/ t = Last
      OBVIOUS
    <3> QED
      BY <3>1, <3>2, <3>3, <3>4
  <2>6. AfterPrior(s, next[s])
    <3>1. CASE s > 0
      <4>1. s - 1 \in Stages /\ s - 1 \notin Behind
        BY <2>3, <2>4, <3>1
      <4>2. committed[s - 1] > committed[Last]
        BY <4>1, <2>5
      <4> QED
        BY <4>2, <2>2, <2>4 DEF AfterPrior
    <3> QED
      BY <3>1 DEF AfterPrior
  <2>7. AfterNext(s, next[s])
    BY <2>2, <2>4, <2>5 DEF AfterNext
  <2>8. PassFree(s, next[s])
    BY <2>2, <2>4, <2>5 DEF PassFree
  <2>9. Ready(s)
    BY <1>1, <2>2, <2>4, <2>6, <2>7, <2>8 DEF Ready
  <2> QED
    BY <2>2, <2>4, <2>9
<1>2. IInv => NeverStuck
  BY <1>1 DEF NeverStuck
<1> QED
  BY <1>2, RunChunksInvariant, PTL

\* The call returns only with every chunk through every stage, or failed, and
\* with no lane at work.
THEOREM RunChunksCallReturnsWhole == Spec => []CallReturnsWhole
<1>1. ASSUME IInv, pc = "over"
      PROVE  /\ failed \/ committed = [s \in Stages |-> Chunks]
             /\ \A s \in Stages : work[s] = None
  <2>1. failed \/ committed = [s \in Stages |-> Chunks]
    BY <1>1 DEF IInv, TypeOK, Places
  <2>2. \A s \in Lanes : work[s] = None
    BY <1>1 DEF IInv, Recording
  <2>3. \A s \in Stages \ Lanes : work[s] = None
    BY <1>1 DEF IInv, Recording
  <2> QED
    BY <2>1, <2>2, <2>3
<1>2. IInv => CallReturnsWhole
  BY <1>1 DEF CallReturnsWhole
<1> QED
  BY <1>2, RunChunksInvariant, PTL


-----------------------------------------------------------------------------
\* The read ring.

\* A remainder comes back after n, and numbers below n are their own.
LEMMA ModUnique ==
    ASSUME NEW n \in Nat \ {0}, NEW p \in Nat, NEW q \in Nat, NEW r \in 0..n - 1, NEW s \in 0..n - 1, n * p + r = n * q + s
    PROVE  r = s
<1>1. n * p \in Nat /\ n * q \in Nat
  OBVIOUS
<1>2. CASE p < q
  <2>1. n * q >= n * p + n BY <1>2, Multiples
  <2> QED BY <2>1, <1>1
<1>3. CASE q < p
  <2>1. n * p >= n * q + n BY <1>3, Multiples
  <2> QED BY <2>1, <1>1
<1>4. CASE p = q
  BY <1>4, <1>1
<1> QED
  BY <1>2, <1>3, <1>4

\* The next piece of a reader has its remainder.
LEMMA ModAgain == ASSUME NEW n \in Nat \ {0}, NEW a \in Nat PROVE (a + n) % n = a % n /\ (a < n => a % n = a)
<1>1. a = n * (a \div n) + (a % n) /\ a \div n \in Nat /\ a % n \in 0..n - 1
  BY Division
<1>2. a + n \in Nat
  OBVIOUS
<1>3. a + n = n * ((a + n) \div n) + ((a + n) % n) /\ (a + n) \div n \in Nat /\ (a + n) % n \in 0..n - 1
  BY <1>2, Division
<1> DEFINE p == a \div n
           q == (a + n) \div n
           r == a % n
           s == (a + n) % n
<1>4. a = n * p + r /\ a + n = n * q + s /\ p \in Nat /\ q \in Nat /\ r \in 0..n - 1 /\ s \in 0..n - 1
  BY <1>1, <1>3
<1> HIDE DEF p, q, r, s
<1>5. n * (p + 1) = n * p + n
  BY <1>4
<1>6. n * p \in Nat /\ n * q \in Nat
  BY <1>4
<1>7. n * (p + 1) + r = n * q + s
  BY <1>4, <1>5, <1>6
<1>8. p + 1 \in Nat
  BY <1>4
<1>9. r = s
  BY <1>4, <1>7, <1>8, ModUnique
<1>10. ASSUME a < n PROVE r = a
  <2>1. n * 0 + a = n * p + r /\ a \in 0..n - 1
    BY <1>4, <1>10
  <2> QED
    BY <2>1, <1>4, ModUnique
<1> QED
  BY <1>9, <1>10 DEF r, s

-----------------------------------------------------------------------------
RingReading(j) == readers[j] \in {"fill", "wake", "publish", "fail"}

\* A reader's pieces are Threads apart, and one it reads has its slot.
Pieces(j) ==
    /\ piece[j] % R!Threads = j /\ piece[j] < Count + R!Threads
    /\ RingReading(j) => piece[j] < Count /\ R!HasRoom(piece[j])
    /\ readers[j] \in {"wake", "publish"} => slots[R!Slot(piece[j])] = piece[j] + 1
\* What a slot is said to hold was read by its reader, is in reach of what was given back, and is there until it is.
Says(s) ==
    ready[s] # 0 =>
        LET k == ready[s] - 1
        IN /\ R!Slot(k) = s /\ R!HasRoom(k) /\ k < piece[k % R!Threads]
           /\ k >= consumed => slots[s] = ready[s]
\* The pieces taken were read; those held are still said to be there.
RingTaken == \A k \in 0..taken - 1 : k < piece[k % R!Threads]
RingHeld == \A k \in consumed..taken - 1 : ready[R!Slot(k)] = k + 1
\* running_ counts the readers that have begun or may yet, and not ended.
Counted(j) == readers[j] # "gone" /\ (readers[j] = "unborn" => con = "start")
Runs == running = Cardinality({j \in R!ReaderIds : Counted(j)})
Asks == con \in {"test", "asleep"} => taken < Count
Newborn == con = "new" => \A j \in R!ReaderIds : readers[j] = "unborn"

Sound == (\A j \in R!ReaderIds : Pieces(j)) /\ (\A s \in R!SlotIds : Says(s)) /\ RingTaken /\ RingHeld
RingInv ==
    /\ R!TypeOK /\ Sound /\ Runs /\ Asks /\ Newborn

RingPlaces == {"unborn", "wait", "asleep", "fill", "wake", "publish", "fail", "end", "gone"}
Spots == {"new", "start", "undo", "threw", "idle", "test", "asleep", "join", "gone"}

\* The ring has as many slots as pieces at most, and as many readers as slots.
LEMMA SizesT ==
    /\ Count \in Nat \ {0} /\ R!Size \in Nat \ {0} /\ R!Threads \in Nat \ {0} /\ R!Threads <= R!Size /\ R!Size <= Count
    /\ \A k \in Nat : R!Slot(k) \in R!SlotIds /\ k % R!Threads \in R!ReaderIds
  <1>1. Count \in Nat \ {0} /\ Slots \in Nat \ {0} /\ MaxReaders \in Nat \ {0} BY RingAssumption DEF R!ReadRingAssumption
  <1>2. R!Size \in Nat \ {0} /\ R!Size <= Count BY <1>1 DEF R!Size, R!Least
  <1>3. R!Threads \in Nat \ {0} /\ R!Threads <= R!Size BY <1>1, <1>2 DEF R!Threads, R!Least
  <1>4. \A k \in Nat : R!Slot(k) \in R!SlotIds /\ k % R!Threads \in R!ReaderIds BY <1>2, <1>3, Division DEF R!Slot, R!SlotIds, R!ReaderIds
  <1>. QED BY <1>1, <1>2, <1>3, <1>4

\* The readers are counted by a number of at most Threads.
LEMMA CountedT ==
    ASSUME NEW T \in SUBSET R!ReaderIds PROVE IsFiniteSet(T) /\ Cardinality(T) \in 0..R!Threads
  <1>1. IsFiniteSet(R!ReaderIds) /\ Cardinality(R!ReaderIds) = R!Threads BY SizesT, FS_Interval DEF R!ReaderIds
  <1>2. IsFiniteSet(T) /\ Cardinality(T) <= R!Threads /\ Cardinality(T) \in Nat BY <1>1, FS_Subset, FS_CardinalityType
  <1>. QED BY <1>2, SizesT

\* Of two different pieces in reach of what was given back, each has a slot of its own.
LEMMA SlotsApart ==
    ASSUME NEW a \in Nat, NEW b \in Nat, NEW c \in Nat, c <= a, c <= b, a < c + R!Size, b < c + R!Size, R!Slot(a) = R!Slot(b)
    PROVE  a = b
  <1>1. R!Size \in Nat \ {0} /\ a % R!Size = b % R!Size BY SizesT DEF R!Slot
  <1>2. CASE a < b
    <2>1. b < a + R!Size BY <1>1
    <2>. QED BY <1>1, <1>2, <2>1, ModDistinct
  <1>3. CASE b < a
    <2>1. a < b + R!Size BY <1>1
    <2>. QED BY <1>1, <1>3, <2>1, ModDistinct
  <1>. QED BY <1>2, <1>3

\* A piece its reader has yet to read is past those taken.
LEMMA Ahead ==
    ASSUME RingInv, NEW j \in R!ReaderIds
    PROVE  /\ piece[j] \in Nat /\ piece[j] % R!Threads = j /\ taken \in Nat /\ consumed \in Nat /\ consumed <= taken /\ piece[j] >= taken
           /\ readers[j] \in {"unborn", "wait", "asleep", "fill", "wake", "publish", "fail", "end", "gone"}
  <1>1. piece[j] \in Nat /\ taken \in Nat /\ consumed \in Nat /\ consumed <= taken BY SizesT DEF RingInv, R!TypeOK
  <1>2. piece[j] % R!Threads = j BY DEF RingInv, Sound, Pieces
  <1>3. piece[j] >= taken
    <2>. SUFFICES ASSUME piece[j] < taken PROVE FALSE BY <1>1
    <2>1. piece[j] \in 0..taken - 1 BY <1>1
    <2>2. piece[j] < piece[piece[j] % R!Threads] BY <2>1 DEF RingInv, Sound, RingTaken
    <2>. QED BY <2>2, <1>1, <1>2
  <1>4. readers[j] \in {"unborn", "wait", "asleep", "fill", "wake", "publish", "fail", "end", "gone"} BY DEF RingInv, R!TypeOK
  <1>. QED BY <1>1, <1>2, <1>3, <1>4

\* The invariant holds of a ring not started.
LEMMA RingInit == R!Init => RingInv
  <1>. SUFFICES ASSUME R!Init PROVE RingInv OBVIOUS
  <1>1. R!TypeOK
    <2>1. Count \in Nat \ {0} /\ R!Threads \in Nat \ {0} BY SizesT
    <2>2. consumer \in Consumers /\ taken = 0 /\ consumed = 0 /\ running = 0 /\ halted \in BOOLEAN /\ broken \in BOOLEAN
      BY DEF R!Init
    <2>5. taken \in 0..Count /\ consumed \in 0..taken /\ running \in 0..R!Threads
      BY <2>1, <2>2
    <2>3. ready \in [R!SlotIds -> 0..Count] /\ slots \in [R!SlotIds -> -1..Count] BY <2>1 DEF R!Init
    <2>4. piece \in [R!ReaderIds -> 0..Count + R!Threads] BY <2>1 DEF R!Init, R!ReaderIds
    <2>. QED BY <2>2, <2>3, <2>4, <2>5 DEF R!Init, R!TypeOK
  <1>2. ASSUME NEW j \in R!ReaderIds PROVE Pieces(j)
    <2>1. piece[j] = j /\ readers[j] = "unborn" BY DEF R!Init
    <2>2. j \in Nat /\ j < R!Threads BY SizesT DEF R!ReaderIds
    <2>3. j % R!Threads = j BY <2>2, SizesT, ModAgain
    <2>. QED BY <2>1, <2>2, <2>3, SizesT DEF Pieces, RingReading
  <1>3. \A s \in R!SlotIds : Says(s) BY DEF R!Init, Says
  <1>4. RingTaken /\ RingHeld BY SizesT DEF R!Init, RingTaken, RingHeld
  <1>5. {j \in R!ReaderIds : Counted(j)} = {} BY DEF R!Init, Counted
  <1>6. Runs BY <1>5, FS_EmptySet DEF Runs, R!Init
  <1>. QED BY <1>1, <1>2, <1>3, <1>4, <1>6 DEF RingInv, Sound, Asks, Newborn, R!Init

\* The types of the parts.
LEMMA Typed ==
    ASSUME RingInv
    PROVE  /\ taken \in Nat /\ taken <= Count /\ consumed \in Nat /\ consumed <= taken
           /\ ready \in [R!SlotIds -> 0..Count] /\ slots \in [R!SlotIds -> -1..Count]
           /\ readers \in [R!ReaderIds -> RingPlaces] /\ piece \in [R!ReaderIds -> 0..Count + R!Threads] /\ con \in Spots
           /\ consumer \in Consumers /\ running \in 0..R!Threads /\ halted \in BOOLEAN /\ broken \in BOOLEAN
  <1>1. R!TypeOK BY DEF RingInv
  <1>2. taken \in 0..Count /\ consumed \in 0..taken BY <1>1 DEF R!TypeOK
  <1>3. Count \in Nat BY SizesT
  <1>. QED BY <1>1, <1>2, <1>3 DEF R!TypeOK, RingPlaces, Spots

\* And back.
LEMMA Retyped ==
    ASSUME taken' \in Nat, taken' <= Count, consumed' \in Nat, consumed' <= taken',
           ready' \in [R!SlotIds -> 0..Count], slots' \in [R!SlotIds -> -1..Count],
           readers' \in [R!ReaderIds -> RingPlaces], piece' \in [R!ReaderIds -> 0..Count + R!Threads], con' \in Spots,
           consumer' \in Consumers, running' \in 0..R!Threads, halted' \in BOOLEAN, broken' \in BOOLEAN
    PROVE  R!TypeOK'
  <1>1. Count \in Nat BY SizesT
  <1>2. taken' \in 0..Count /\ consumed' \in 0..taken' BY <1>1
  <1>. QED BY <1>2 DEF R!TypeOK, RingPlaces, Spots

\* Who was asleep waits again; nobody else moves.
LEMMA WokenT ==
    ASSUME RingInv
    PROVE  /\ R!Woken(readers) \in [R!ReaderIds -> RingPlaces]
           /\ \A j \in R!ReaderIds : R!Woken(readers)[j] = readers[j] \/ (readers[j] = "asleep" /\ R!Woken(readers)[j] = "wait")
           /\ R!WokenConsumer \in Spots /\ (R!WokenConsumer = con \/ (con = "asleep" /\ R!WokenConsumer = "test"))
  <1>1. readers \in [R!ReaderIds -> RingPlaces] /\ con \in Spots BY Typed
  <1>2. \A j \in R!ReaderIds : R!Woken(readers)[j] = IF readers[j] = "asleep" THEN "wait" ELSE readers[j] BY DEF R!Woken
  <1>3. R!Woken(readers) \in [R!ReaderIds -> RingPlaces] BY <1>1 DEF R!Woken, RingPlaces
  <1>4. R!WokenConsumer \in Spots BY <1>1 DEF R!WokenConsumer, Spots
  <1>. QED BY <1>2, <1>3, <1>4 DEF R!WokenConsumer

\* A step that leaves the pieces and the slots as they are, and begins no read.
LEMMA SoundKept ==
    ASSUME RingInv, UNCHANGED <<taken, consumed, ready, slots, piece>>,
           \A j \in R!ReaderIds : (RingReading(j)' => RingReading(j)) /\ (readers'[j] \in {"wake", "publish"} => readers[j] \in {"wake", "publish"})
    PROVE  Sound'
  <1>1. Sound BY DEF RingInv
  <1>2. ASSUME NEW j \in R!ReaderIds PROVE Pieces(j)' BY <1>1 DEF Sound, Pieces, R!HasRoom, R!Slot
  <1>3. ASSUME NEW s \in R!SlotIds PROVE Says(s)' BY <1>1 DEF Sound, Says, R!HasRoom, R!Slot
  <1>4. RingTaken' /\ RingHeld' BY <1>1 DEF Sound, RingTaken, RingHeld, R!Slot
  <1>. QED BY <1>2, <1>3, <1>4 DEF Sound

\* running_ counts the readers it did.
LEMMA RunsKept ==
    ASSUME RingInv, running' = running, \A j \in R!ReaderIds : Counted(j)' <=> Counted(j)
    PROVE  Runs'
  <1>1. {j \in R!ReaderIds : Counted(j)'} = {j \in R!ReaderIds : Counted(j)} OBVIOUS
  <1>. QED BY <1>1 DEF RingInv, Runs

\* A reader writes the slot of a piece it has room for.
LEMMA SoundWrites ==
    ASSUME RingInv, NEW j \in R!ReaderIds, piece[j] < Count, R!HasRoom(piece[j]), NEW x \in -1..Count,
           slots' = [slots EXCEPT ![R!Slot(piece[j])] = x], UNCHANGED <<taken, consumed, ready, piece>>,
           \A i \in R!ReaderIds \ {j} : readers'[i] = readers[i], readers'[j] \in {"wake", "publish"} => x = piece[j] + 1
    PROVE  Sound'
  <1>1. Sound BY DEF RingInv
  <1>. DEFINE p == piece[j]
  <1>2. p \in Nat /\ p % R!Threads = j /\ p >= taken /\ taken \in Nat /\ consumed \in Nat /\ consumed <= taken BY Ahead
  <1>3. slots \in [R!SlotIds -> -1..Count] BY Typed
  <1>4. R!Slot(p) \in R!SlotIds BY <1>2, SizesT
  <1>5. p < consumed + R!Size BY DEF R!HasRoom
  <1>6. consumed <= p BY <1>2
  <1>7. \A s \in R!SlotIds : slots'[s] = IF s = R!Slot(p) THEN x ELSE slots[s] BY <1>3, <1>4
  <1>8. ASSUME NEW i \in R!ReaderIds PROVE Pieces(i)'
    <2>1. CASE i = j
      <3>1. readers'[j] \in {"wake", "publish"} => slots'[R!Slot(p)] = p + 1 BY <1>4, <1>7
      <3>2. piece[j] % R!Threads = j /\ piece[j] < Count + R!Threads BY <1>1 DEF Sound, Pieces
      <3>3. piece'[j] = piece[j] /\ R!HasRoom(piece[j])' BY DEF R!HasRoom
      <3>. QED BY <2>1, <3>1, <3>2, <3>3 DEF Pieces
    <2>2. CASE i # j
      <3>1. readers'[i] = readers[i] /\ piece'[i] = piece[i] BY <2>2
      <3>2. Pieces(i) BY <1>1 DEF Sound
      <3>3. ASSUME readers[i] \in {"wake", "publish"} PROVE slots'[R!Slot(piece[i])] = piece[i] + 1
        <4>1. piece[i] \in Nat /\ piece[i] % R!Threads = i /\ piece[i] >= taken BY Ahead
        <4>2. piece[i] # p BY <4>1, <1>2, <2>2
        <4>3. piece[i] < consumed + R!Size BY <3>2, <3>3 DEF Pieces, RingReading, R!HasRoom
        <4>4. consumed <= piece[i] BY <4>1, <1>2
        <4>5. R!Slot(piece[i]) # R!Slot(p) BY <4>1, <4>2, <4>3, <4>4, <1>2, <1>5, <1>6, SlotsApart
        <4>6. R!Slot(piece[i]) \in R!SlotIds BY <4>1, SizesT
        <4>7. slots[R!Slot(piece[i])] = piece[i] + 1 BY <3>2, <3>3 DEF Pieces
        <4>. QED BY <4>5, <4>6, <4>7, <1>7
      <3>4. R!HasRoom(piece[i])' = R!HasRoom(piece[i]) /\ RingReading(i)' = RingReading(i) BY <3>1 DEF R!HasRoom, RingReading
      <3>. QED BY <3>1, <3>2, <3>3, <3>4 DEF Pieces
    <2>. QED BY <2>1, <2>2
  <1>9. ASSUME NEW s \in R!SlotIds, ready[s] # 0 PROVE Says(s)'
    <2>. DEFINE k == ready[s] - 1
    <2>1. ready[s] \in 0..Count /\ Count \in Nat BY Typed, SizesT
    <2>2. k \in Nat BY <2>1, <1>9
    <2>3. R!Slot(k) = s /\ R!HasRoom(k) /\ k < piece[k % R!Threads] /\ (k >= consumed => slots[s] = ready[s]) BY <1>1, <1>9 DEF Sound, Says
    <2>4. k >= consumed => s # R!Slot(p)
      <3>. SUFFICES ASSUME k >= consumed, s = R!Slot(p) PROVE FALSE OBVIOUS
      <3>1. k < consumed + R!Size BY <2>3 DEF R!HasRoom
      <3>2. k = p BY <3>1, <2>2, <2>3, <1>2, <1>5, <1>6, SlotsApart
      <3>. QED BY <3>2, <2>3, <1>2
    <2>5. k >= consumed => slots'[s] = ready[s] BY <2>3, <2>4, <1>7
    <2>. QED BY <2>3, <2>5 DEF Says, R!HasRoom
  <1>10. \A s \in R!SlotIds : Says(s)' BY <1>9 DEF Says
  <1>11. RingTaken' /\ RingHeld' BY <1>1 DEF Sound, RingTaken, RingHeld
  <1>. QED BY <1>8, <1>10, <1>11 DEF Sound

\* The next piece is taken.
LEMMA SoundTakes ==
    ASSUME RingInv, R!NextReady, taken' = taken + 1, UNCHANGED <<consumed, ready, slots, piece, readers>>
    PROVE  Sound'
  <1>1. Sound /\ taken \in Nat /\ consumed \in Nat BY Typed DEF RingInv
  <1>2. \A j \in R!ReaderIds : Pieces(j)' BY <1>1 DEF Sound, Pieces, RingReading, R!HasRoom
  <1>3. \A s \in R!SlotIds : Says(s)' BY <1>1 DEF Sound, Says, R!HasRoom
  <1>4. R!Slot(taken) \in R!SlotIds /\ ready[R!Slot(taken)] = taken + 1 BY <1>1, SizesT DEF R!NextReady
  <1>5. taken < piece[taken % R!Threads]
    <2>1. ready[R!Slot(taken)] # 0 /\ ready[R!Slot(taken)] - 1 = taken BY <1>1, <1>4
    <2>. QED BY <1>1, <1>4, <2>1 DEF Sound, Says
  <1>6. RingTaken'
    <2>. SUFFICES ASSUME NEW k \in 0..taken PROVE k < piece[k % R!Threads] BY <1>1 DEF RingTaken
    <2>1. CASE k = taken BY <2>1, <1>5
    <2>2. CASE k # taken
      <3>1. k \in 0..taken - 1 BY <2>2, <1>1
      <3>. QED BY <3>1, <1>1 DEF Sound, RingTaken
    <2>. QED BY <2>1, <2>2
  <1>7. RingHeld'
    <2>. SUFFICES ASSUME NEW k \in consumed..taken PROVE ready[R!Slot(k)] = k + 1 BY <1>1 DEF RingHeld
    <2>1. CASE k = taken BY <2>1, <1>4
    <2>2. CASE k # taken
      <3>1. k \in consumed..taken - 1 BY <2>2, <1>1
      <3>. QED BY <3>1, <1>1 DEF Sound, RingHeld
    <2>. QED BY <2>1, <2>2
  <1>. QED BY <1>2, <1>3, <1>6, <1>7 DEF Sound

\* Slots are given back.
LEMMA SoundFrees ==
    ASSUME RingInv, NEW k \in consumed..taken - 1, consumed' = k + 1, UNCHANGED <<taken, ready, slots, piece>>, readers' = R!Woken(readers)
    PROVE  Sound'
  <1>1. Sound /\ taken \in Nat /\ consumed \in Nat /\ R!Size \in Nat BY Typed, SizesT DEF RingInv
  <1>2. k \in Nat /\ consumed' \in Nat /\ consumed' > consumed BY <1>1
  <1>3. \A j \in R!ReaderIds : readers'[j] = readers[j] \/ (readers[j] = "asleep" /\ readers'[j] = "wait") BY WokenT
  <1>4. \A n \in Nat : R!HasRoom(n) => R!HasRoom(n)' BY <1>1, <1>2 DEF R!HasRoom
  <1>5. ASSUME NEW j \in R!ReaderIds PROVE Pieces(j)'
    <2>1. Pieces(j) /\ piece[j] \in Nat BY <1>1, Ahead DEF Sound
    <2>2. R!HasRoom(piece[j]) => R!HasRoom(piece[j])' BY <2>1, <1>4
    <2>3. (RingReading(j)' => RingReading(j)) /\ (readers'[j] \in {"wake", "publish"} => readers[j] \in {"wake", "publish"}) BY <1>3 DEF RingReading
    <2>. QED BY <2>1, <2>2, <2>3 DEF Pieces
  <1>6. ASSUME NEW s \in R!SlotIds, ready[s] # 0 PROVE Says(s)'
    <2>. DEFINE n == ready[s] - 1
    <2>1. ready[s] \in 0..Count /\ Count \in Nat BY Typed, SizesT
    <2>2. n \in Nat BY <2>1, <1>6
    <2>3. R!Slot(n) = s /\ R!HasRoom(n) /\ n < piece[n % R!Threads] /\ (n >= consumed => slots[s] = ready[s]) BY <1>1, <1>6 DEF Sound, Says
    <2>4. R!HasRoom(n)' BY <2>2, <2>3, <1>4
    <2>5. n >= consumed' => n >= consumed BY <2>2, <1>1, <1>2
    <2>6. ready'[s] = ready[s] /\ slots'[s] = slots[s] /\ piece' = piece OBVIOUS
    <2>. QED BY <2>3, <2>4, <2>5, <2>6 DEF Says
  <1>7. \A s \in R!SlotIds : Says(s)' BY <1>6 DEF Says
  <1>8. RingTaken' BY <1>1 DEF Sound, RingTaken
  <1>9. RingHeld'
    <2>. SUFFICES ASSUME NEW n \in consumed'..taken - 1 PROVE ready[R!Slot(n)] = n + 1 BY DEF RingHeld
    <2>1. n \in consumed..taken - 1 BY <1>1, <1>2
    <2>. QED BY <2>1, <1>1 DEF Sound, RingHeld
  <1>. QED BY <1>5, <1>7, <1>8, <1>9 DEF Sound

\* A reader says that its piece is there, and goes on to its next.
LEMMA SoundPublishes ==
    ASSUME RingInv, NEW j \in R!ReaderIds, R!Publish(j)
    PROVE  Sound' /\ piece' \in [R!ReaderIds -> 0..Count + R!Threads] /\ ready' \in [R!SlotIds -> 0..Count]
  <1>1. Sound BY DEF RingInv
  <1>. DEFINE p == piece[j]
  <1>2. p \in Nat /\ p % R!Threads = j /\ p >= taken /\ taken \in Nat /\ consumed \in Nat /\ consumed <= taken BY Ahead
  <1>3. ready \in [R!SlotIds -> 0..Count] /\ piece \in [R!ReaderIds -> 0..Count + R!Threads] /\ readers \in [R!ReaderIds -> RingPlaces] BY Typed
  <1>4. R!Slot(p) \in R!SlotIds BY <1>2, SizesT
  <1>5. readers[j] = "publish" /\ ready' = [ready EXCEPT ![R!Slot(p)] = p + 1] /\ piece' = [piece EXCEPT ![j] = p + R!Threads] BY <1>3 DEF R!Publish
  <1>6. p < Count /\ R!HasRoom(p) /\ slots[R!Slot(p)] = p + 1 BY <1>1, <1>5 DEF Sound, Pieces, RingReading
  <1>7. Count \in Nat /\ R!Threads \in Nat \ {0} /\ R!Size \in Nat BY SizesT
  <1>8. p + 1 \in 0..Count /\ p + R!Threads \in 0..Count + R!Threads BY <1>2, <1>6, <1>7
  <1>9. ready' \in [R!SlotIds -> 0..Count] /\ piece' \in [R!ReaderIds -> 0..Count + R!Threads] BY <1>3, <1>5, <1>8
  <1>10. \A s \in R!SlotIds : ready'[s] = IF s = R!Slot(p) THEN p + 1 ELSE ready[s] BY <1>3, <1>4, <1>5
  <1>11. \A i \in R!ReaderIds : piece'[i] = IF i = j THEN p + R!Threads ELSE piece[i] BY <1>3, <1>5
  <1>12. \A i \in R!ReaderIds : piece[i] \in Nat /\ piece'[i] \in Nat /\ piece[i] <= piece'[i] BY <1>7, <1>11, <1>2, Ahead
  <1>13. readers' = [R!Woken(readers) EXCEPT ![j] = "wait"] /\ UNCHANGED <<taken, consumed, slots>> BY DEF R!Publish
  <1>14. \A i \in R!ReaderIds : IF i = j THEN readers'[i] = "wait" ELSE readers'[i] = readers[i] \/ (readers[i] = "asleep" /\ readers'[i] = "wait") BY <1>13, WokenT
  <1>15. ASSUME NEW i \in R!ReaderIds PROVE Pieces(i)'
    <2>1. CASE i = j
      <3>1. (p + R!Threads) % R!Threads = j BY <1>2, <1>7, ModAgain
      <3>2. p + R!Threads < Count + R!Threads BY <1>2, <1>6, <1>7
      <3>3. readers'[i] = "wait" /\ piece'[i] = p + R!Threads BY <2>1, <1>11, <1>14
      <3>. QED BY <2>1, <3>1, <3>2, <3>3 DEF Pieces, RingReading
    <2>2. CASE i # j
      <3>1. Pieces(i) /\ piece'[i] = piece[i] BY <2>2, <1>1, <1>11 DEF Sound
      <3>2. (RingReading(i)' => RingReading(i)) /\ (readers'[i] \in {"wake", "publish"} => readers[i] \in {"wake", "publish"}) BY <2>2, <1>14 DEF RingReading
      <3>3. R!HasRoom(piece[i])' = R!HasRoom(piece[i]) BY <3>1, <1>13 DEF R!HasRoom
      <3>. QED BY <3>1, <3>2, <3>3, <1>13 DEF Pieces
    <2>. QED BY <2>1, <2>2
  <1>16. ASSUME NEW s \in R!SlotIds, ready'[s] # 0 PROVE Says(s)'
    <2>1. CASE s = R!Slot(p)
      <3>1. ready'[s] = p + 1 /\ ready'[s] - 1 = p BY <2>1, <1>10, <1>2
      <3>2. p < piece'[p % R!Threads] BY <1>2, <1>7, <1>11
      <3>3. p < consumed' + R!Size BY <1>6, <1>13 DEF R!HasRoom
      <3>4. slots'[s] = p + 1 BY <2>1, <1>6, <1>13
      <3>. QED BY <2>1, <3>1, <3>2, <3>3, <3>4 DEF Says, R!HasRoom
    <2>2. CASE s # R!Slot(p)
      <3>. DEFINE k == ready[s] - 1
      <3>1. ready'[s] = ready[s] /\ ready[s] # 0 BY <2>2, <1>10, <1>16
      <3>2. k \in Nat BY <3>1, <1>3
      <3>3. R!Slot(k) = s /\ R!HasRoom(k) /\ k < piece[k % R!Threads] /\ (k >= consumed => slots[s] = ready[s]) BY <1>1, <3>1 DEF Sound, Says
      <3>4. k % R!Threads \in R!ReaderIds BY <3>2, SizesT
      <3>5. k < piece'[k % R!Threads] BY <3>2, <3>3, <3>4, <1>12
      <3>6. k < consumed' + R!Size BY <3>3, <1>13 DEF R!HasRoom
      <3>. QED BY <3>1, <3>3, <3>5, <3>6, <1>13 DEF Says, R!HasRoom
    <2>. QED BY <2>1, <2>2
  <1>17. \A s \in R!SlotIds : Says(s)' BY <1>16 DEF Says
  <1>18. RingTaken'
    <2>. SUFFICES ASSUME NEW k \in 0..taken - 1 PROVE k < piece'[k % R!Threads] BY <1>13 DEF RingTaken
    <2>0. k \in Nat BY <1>2
    <2>1. k \in Nat /\ k % R!Threads \in R!ReaderIds BY <2>0, SizesT
    <2>2. k < piece[k % R!Threads] BY <1>1 DEF Sound, RingTaken
    <2>. QED BY <2>1, <2>2, <1>12
  <1>19. RingHeld'
    <2>. SUFFICES ASSUME NEW k \in consumed..taken - 1 PROVE ready'[R!Slot(k)] = k + 1 BY <1>13 DEF RingHeld
    <2>1. k \in Nat /\ k < taken /\ consumed <= k /\ R!Slot(k) \in R!SlotIds BY <1>2, SizesT
    <2>2. k < p /\ p < consumed + R!Size BY <2>1, <1>2, <1>6 DEF R!HasRoom
    <2>3. k < consumed + R!Size /\ consumed <= p BY <2>1, <2>2, <1>2, <1>7
    <2>4. R!Slot(k) # R!Slot(p)
      <3>. SUFFICES ASSUME R!Slot(k) = R!Slot(p) PROVE FALSE OBVIOUS
      <3>1. k = p BY <2>1, <2>2, <2>3, <1>2, SlotsApart
      <3>. QED BY <3>1, <2>2, <1>2
    <2>5. ready[R!Slot(k)] = k + 1 BY <1>1 DEF Sound, RingHeld
    <2>. QED BY <2>1, <2>4, <2>5, <1>10
  <1>. QED BY <1>9, <1>15, <1>17, <1>18, <1>19 DEF Sound

\* A step of the consumer alone, which may wake those asleep.
LEMMA ConsumerStep ==
    ASSUME RingInv, UNCHANGED <<consumer, ready, slots, running, broken, piece>>, readers' = readers \/ readers' = R!Woken(readers),
           con' \in Spots, con \notin {"new", "start"}, con' \notin {"new", "start"}, halted' \in BOOLEAN, Sound', Asks',
           taken' \in Nat, taken' <= Count, consumed' \in Nat, consumed' <= taken'
    PROVE  RingInv'
  <1>1. R!TypeOK'
    <2>1. readers' \in [R!ReaderIds -> RingPlaces] BY WokenT, Typed
    <2>2. ready' = ready /\ slots' = slots /\ piece' = piece /\ consumer' = consumer /\ running' = running /\ broken' = broken OBVIOUS
    <2>. QED BY <2>1, <2>2, Typed, Retyped
  <1>2. \A j \in R!ReaderIds : readers'[j] = readers[j] \/ (readers[j] = "asleep" /\ readers'[j] = "wait") BY WokenT
  <1>3. \A j \in R!ReaderIds : Counted(j)' <=> Counted(j) BY <1>2 DEF Counted
  <1>4. Runs' BY <1>3, RunsKept
  <1>. QED BY <1>1, <1>4 DEF RingInv, Newborn

\* Waking those asleep changes no piece and no slot.
LEMMA SoundWoken ==
    ASSUME RingInv, UNCHANGED <<taken, consumed, ready, slots, piece>>, readers' = readers \/ readers' = R!Woken(readers)
    PROVE  Sound'
  <1>1. \A j \in R!ReaderIds : readers'[j] = readers[j] \/ (readers[j] = "asleep" /\ readers'[j] = "wait") BY WokenT
  <1>2. \A j \in R!ReaderIds : (RingReading(j)' => RingReading(j)) /\ (readers'[j] \in {"wake", "publish"} => readers[j] \in {"wake", "publish"}) BY <1>1 DEF RingReading
  <1>. QED BY <1>2, SoundKept

\* next(true) is called.
LEMMA AskStep == ASSUME RingInv, R!AskNext PROVE RingInv'
  <1>1. con = "idle" /\ con' = "test" /\ taken < Count /\ UNCHANGED <<consumer, taken, R!shared, readers, piece>> BY DEF R!AskNext
  <1>2. UNCHANGED <<consumed, ready, slots, running, halted, broken>> BY <1>1 DEF R!shared
  <1>3. Sound' BY <1>1, <1>2, SoundWoken
  <1>4. Asks' BY <1>1 DEF Asks
  <1>. QED BY <1>1, <1>2, <1>3, <1>4, Typed, ConsumerStep DEF Spots

\* A test of its wait.
LEMMA NextWaitStep == ASSUME RingInv, R!NextWait PROVE RingInv'
  <1>1. con = "test" /\ UNCHANGED <<consumer, consumed, ready, slots, running, broken, piece>> BY DEF R!NextWait
  <1>2. taken < Count BY <1>1 DEF RingInv, Asks
  <1>3. CASE R!NextReady /\ taken' = taken + 1 /\ con' = "idle" /\ UNCHANGED <<halted, readers>>
    <2>1. Sound' BY <1>1, <1>3, SoundTakes
    <2>2. Asks' BY <1>3 DEF Asks
    <2>3. taken' \in Nat /\ taken' <= Count /\ consumed' <= taken' /\ consumed' \in Nat BY <1>1, <1>2, <1>3, Typed, SizesT
    <2>. QED BY <1>1, <1>3, <2>1, <2>2, <2>3, Typed, ConsumerStep DEF Spots
  <1>4. CASE halted' = TRUE /\ readers' = R!Woken(readers) /\ con' = "idle" /\ UNCHANGED taken
    <2>1. Sound' BY <1>1, <1>4, SoundWoken
    <2>2. Asks' BY <1>4 DEF Asks
    <2>. QED BY <1>1, <1>4, <2>1, <2>2, Typed, ConsumerStep DEF Spots
  <1>5. CASE con' = "asleep" /\ UNCHANGED <<taken, halted, readers>>
    <2>1. Sound' BY <1>1, <1>5, SoundWoken
    <2>2. Asks' BY <1>2, <1>5 DEF Asks
    <2>. QED BY <1>1, <1>5, <2>1, <2>2, Typed, ConsumerStep DEF Spots
  <1>. QED BY <1>3, <1>4, <1>5 DEF R!NextWait

\* next(false).
LEMMA NextPollStep == ASSUME RingInv, R!NextPoll PROVE RingInv'
  <1>1. con = "idle" /\ con' = con /\ taken < Count /\ UNCHANGED <<consumer, consumed, ready, slots, running, broken, piece>> BY DEF R!NextPoll
  <1>2. Asks' BY <1>1 DEF Asks
  <1>3. CASE R!NextReady /\ taken' = taken + 1 /\ UNCHANGED <<halted, readers>>
    <2>1. Sound' BY <1>1, <1>3, SoundTakes
    <2>2. taken' \in Nat /\ taken' <= Count /\ consumed' <= taken' /\ consumed' \in Nat BY <1>1, <1>3, Typed, SizesT
    <2>. QED BY <1>1, <1>2, <1>3, <2>1, <2>2, Typed, ConsumerStep DEF Spots
  <1>4. CASE halted' = TRUE /\ readers' = R!Woken(readers) /\ UNCHANGED taken
    <2>1. Sound' BY <1>1, <1>4, SoundWoken
    <2>. QED BY <1>1, <1>2, <1>4, <2>1, Typed, ConsumerStep DEF Spots
  <1>. QED BY <1>3, <1>4 DEF R!NextPoll

\* free.
LEMMA FreeStep == ASSUME RingInv, NEW k \in 0..Count - 1, R!Free(k) PROVE RingInv'
  <1>1. con = "idle" /\ con' = con /\ readers' = R!Woken(readers) /\ consumed' = k + 1 /\ k \in consumed..taken - 1
        /\ UNCHANGED <<consumer, taken, ready, slots, running, halted, broken, piece>>
    BY DEF R!Free
  <1>2. Sound' BY <1>1, SoundFrees
  <1>3. Asks' BY <1>1 DEF Asks
  <1>4. consumed' \in Nat /\ consumed' <= taken' BY <1>1, Typed
  <1>. QED BY <1>1, <1>2, <1>3, <1>4, Typed, ConsumerStep DEF Spots

\* A stop, and the one of the destructor.
LEMMA StopStep == ASSUME RingInv, R!Stop \/ R!Destroy PROVE RingInv'
  <1>1. con = "idle" /\ con' \in {"idle", "join"} /\ halted' = TRUE /\ readers' = R!Woken(readers) /\ UNCHANGED <<consumer, taken, consumed, ready, slots, running, broken, piece>>
    BY DEF R!Stop, R!Destroy
  <1>2. Sound' BY <1>1, SoundWoken
  <1>3. Asks' BY <1>1 DEF Asks
  <1>. QED BY <1>1, <1>2, <1>3, Typed, ConsumerStep DEF Spots

\* The joins.
LEMMA EndedStep == ASSUME RingInv, R!StartThrows \/ R!Joined PROVE RingInv'
  <1>1. con \in {"undo", "join"} /\ con' \in {"threw", "gone"} /\ UNCHANGED <<consumer, taken, R!shared, readers, piece>>
    BY DEF R!StartThrows, R!Joined
  <1>2. UNCHANGED <<consumed, ready, slots, running, halted, broken>> BY <1>1 DEF R!shared
  <1>3. Sound' BY <1>1, <1>2, SoundWoken
  <1>4. Asks' BY <1>1 DEF Asks
  <1>. QED BY <1>1, <1>2, <1>3, <1>4, Typed, ConsumerStep DEF Spots

-----------------------------------------------------------------------------
\* The start: each reader counted before it begins.
LEMMA RingStartStep == ASSUME RingInv, R!Start PROVE RingInv'
  <1>1. con = "new" /\ con' = "start" /\ running' = R!Threads /\ UNCHANGED <<consumer, taken, consumed, ready, slots, halted, broken, readers, piece>> BY DEF R!Start
  <1>2. Sound' BY <1>1, SoundWoken
  <1>3. \A j \in R!ReaderIds : readers[j] = "unborn" BY <1>1 DEF RingInv, Newborn
  <1>4. {j \in R!ReaderIds : Counted(j)'} = R!ReaderIds BY <1>1, <1>3 DEF Counted
  <1>5. R!Threads \in Nat \ {0} /\ Cardinality(R!ReaderIds) = R!Threads BY SizesT, FS_Interval DEF R!ReaderIds
  <1>6. Runs' BY <1>1, <1>4, <1>5 DEF Runs
  <1>7. R!TypeOK' BY <1>1, <1>5, Typed, Retyped DEF Spots
  <1>. QED BY <1>1, <1>2, <1>6, <1>7 DEF RingInv, Asks, Newborn

\* A reader begins.
LEMMA StartReaderStep == ASSUME RingInv, NEW j \in R!ReaderIds, R!StartReader(j) PROVE RingInv'
  <1>1. con = "start" /\ R!Started = 0..j - 1 /\ readers' = [readers EXCEPT ![j] = "wait"] /\ con' = (IF j = R!Threads - 1 THEN "idle" ELSE "start")
        /\ UNCHANGED <<consumer, taken, R!shared, piece>>
    BY DEF R!StartReader
  <1>2. UNCHANGED <<consumed, ready, slots, running, halted, broken>> BY <1>1 DEF R!shared
  <1>3. readers \in [R!ReaderIds -> RingPlaces] BY Typed
  <1>4. \A i \in R!ReaderIds : readers'[i] = IF i = j THEN "wait" ELSE readers[i] BY <1>1, <1>3
  <1>5. readers' \in [R!ReaderIds -> RingPlaces] BY <1>1, <1>3 DEF RingPlaces
  <1>6. \A i \in R!ReaderIds : (RingReading(i)' => RingReading(i)) /\ (readers'[i] \in {"wake", "publish"} => readers[i] \in {"wake", "publish"}) BY <1>4 DEF RingReading
  <1>7. Sound' BY <1>1, <1>2, <1>6, SoundKept
  <1>8. j \in Nat /\ R!Threads \in Nat BY SizesT DEF R!ReaderIds
  <1>9. \A i \in R!ReaderIds : (readers[i] # "unborn") <=> i < j
    <2>1. \A i \in R!ReaderIds : i \in Nat /\ ((readers[i] # "unborn") <=> i \in R!Started) BY SizesT DEF R!Started, R!ReaderIds
    <2>. QED BY <2>1, <1>1, <1>8
  <1>10. ASSUME NEW i \in R!ReaderIds PROVE Counted(i)' <=> Counted(i)
    <2>1. CASE i = j
      <3>1. readers[i] = "unborn" BY <2>1, <1>8, <1>9
      <3>. QED BY <2>1, <3>1, <1>1, <1>4 DEF Counted
    <2>2. CASE i # j
      <3>1. readers'[i] = readers[i] BY <2>2, <1>4
      <3>2. readers[i] = "unborn" => j # R!Threads - 1 BY <2>2, <1>8, <1>9 DEF R!ReaderIds
      <3>. QED BY <3>1, <3>2, <1>1 DEF Counted
    <2>. QED BY <2>1, <2>2
  <1>11. Runs' BY <1>2, <1>10, RunsKept
  <1>12. con' \in Spots /\ con' \notin {"new", "test", "asleep"} BY <1>1 DEF Spots
  <1>13. R!TypeOK' BY <1>1, <1>2, <1>5, <1>12, Typed, Retyped
  <1>. QED BY <1>7, <1>11, <1>12, <1>13 DEF RingInv, Asks, Newborn

\* A reader fails to start: those that never will are no longer counted.
LEMMA StartFailsStep == ASSUME RingInv, NEW j \in R!ReaderIds, R!StartFails(j) PROVE RingInv'
  <1>1. con = "start" /\ R!Started = 0..j - 1 /\ running' = running - (R!Threads - j) /\ halted' = TRUE /\ readers' = R!Woken(readers) /\ con' = "undo"
        /\ UNCHANGED <<consumer, taken, consumed, ready, slots, broken, piece>>
    BY DEF R!StartFails
  <1>2. Sound' BY <1>1, SoundWoken
  <1>3. \A i \in R!ReaderIds : readers'[i] = readers[i] \/ (readers[i] = "asleep" /\ readers'[i] = "wait") BY <1>1, WokenT
  <1>4. j \in Nat /\ R!Threads \in Nat /\ j < R!Threads BY SizesT DEF R!ReaderIds
  <1>5. \A i \in R!ReaderIds : i \in Nat /\ i < R!Threads /\ ((readers[i] # "unborn") <=> i < j)
    <2>1. \A i \in R!ReaderIds : i \in Nat /\ i < R!Threads /\ ((readers[i] # "unborn") <=> i \in R!Started) BY SizesT DEF R!Started, R!ReaderIds
    <2>. QED BY <2>1, <1>1, <1>4
  <1>. DEFINE A == {i \in R!ReaderIds : Counted(i)}
              B == {i \in R!ReaderIds : Counted(i)'}
              U == j..R!Threads - 1
  <1>6. U \subseteq R!ReaderIds BY <1>4 DEF R!ReaderIds
  <1>7. \A i \in R!ReaderIds : i \in U <=> readers[i] = "unborn" BY <1>4, <1>5
  <1>8. \A i \in R!ReaderIds : i \in A <=> readers[i] # "gone" BY <1>1 DEF Counted
  <1>9. \A i \in R!ReaderIds : i \in B <=> readers[i] # "gone" /\ readers[i] # "unborn" BY <1>1, <1>3 DEF Counted
  <1>10. B = A \ U BY <1>7, <1>8, <1>9
  <1>11. U \subseteq A BY <1>6, <1>7, <1>8
  <1>12. A \cap U = U BY <1>11
  <1>13. running = Cardinality(A) BY DEF RingInv, Runs
  <1>14. A \subseteq R!ReaderIds /\ B \subseteq R!ReaderIds OBVIOUS
  <1>. HIDE DEF A, B, U
  <1>15. IsFiniteSet(A) /\ Cardinality(A) \in Nat /\ Cardinality(B) \in 0..R!Threads BY <1>4, <1>14, CountedT
  <1>16. Cardinality(U) = R!Threads - j
    <2>1. Cardinality(j..R!Threads - 1) = (R!Threads - 1) - j + 1 BY <1>4, FS_Interval
    <2>. QED BY <2>1, <1>4 DEF U
  <1>17. Cardinality(B) = Cardinality(A) - Cardinality(U)
    <2>1. Cardinality(A \ U) = Cardinality(A) - Cardinality(A \cap U) BY <1>15, FS_Difference
    <2>. QED BY <2>1, <1>10, <1>12
  <1>18. running' = Cardinality(B) BY <1>1, <1>13, <1>16, <1>17
  <1>19. Runs' BY <1>18 DEF Runs, B
  <1>20. R!TypeOK'
    <2>1. readers' \in [R!ReaderIds -> RingPlaces] BY <1>1, WokenT
    <2>2. running' \in 0..R!Threads BY <1>15, <1>18
    <2>. QED BY <1>1, <2>1, <2>2, Typed, Retyped DEF Spots
  <1>. QED BY <1>1, <1>2, <1>19, <1>20 DEF RingInv, Asks, Newborn

-----------------------------------------------------------------------------
\* A reader's step, but for its end.
LEMMA ReaderStep ==
    ASSUME RingInv, NEW j \in R!ReaderIds, readers[j] \notin {"unborn", "gone"}, readers'[j] \notin {"unborn", "gone"}, readers' \in [R!ReaderIds -> RingPlaces],
           \A i \in R!ReaderIds \ {j} : readers'[i] = readers[i] \/ (readers[i] = "asleep" /\ readers'[i] = "wait"),
           UNCHANGED <<consumer, taken, consumed, running, halted>>, broken' \in BOOLEAN, con' = con \/ con' = R!WokenConsumer,
           ready' \in [R!SlotIds -> 0..Count], slots' \in [R!SlotIds -> -1..Count], piece' \in [R!ReaderIds -> 0..Count + R!Threads], Sound'
    PROVE  RingInv'
  <1>1. con' \in Spots /\ (con' = con \/ (con = "asleep" /\ con' = "test")) BY Typed, WokenT
  <1>2. con # "new" BY DEF RingInv, Newborn
  <1>3. Asks' BY <1>1 DEF RingInv, Asks
  <1>4. \A i \in R!ReaderIds : Counted(i)' <=> Counted(i) BY <1>1 DEF Counted
  <1>5. Runs' BY <1>4, RunsKept
  <1>6. R!TypeOK' BY <1>1, Typed, Retyped
  <1>. QED BY <1>1, <1>2, <1>3, <1>5, <1>6 DEF RingInv, Newborn

\* A reader's turn: its end, a slot, or sleep.
LEMMA RingWaitStep == ASSUME RingInv, NEW j \in R!ReaderIds, R!Wait(j) PROVE RingInv'
  <1>. DEFINE k == piece[j]
              place == IF R!Ends(k) THEN "end" ELSE IF R!HasRoom(k) THEN "fill" ELSE "asleep"
  <1>1. readers[j] = "wait" /\ readers' = [readers EXCEPT ![j] = place] /\ slots' = (IF place = "fill" THEN [slots EXCEPT ![R!Slot(k)] = -1] ELSE slots)
        /\ UNCHANGED <<consumer, taken, consumed, ready, running, halted, broken, piece, con>>
    BY DEF R!Wait
  <1>2. readers \in [R!ReaderIds -> RingPlaces] /\ slots \in [R!SlotIds -> -1..Count] /\ Count \in Nat BY Typed, SizesT
  <1>3. place \in {"end", "fill", "asleep"} OBVIOUS
  <1>4. k \in Nat BY Ahead
  <1>5. place = "fill" => k < Count /\ R!HasRoom(k) BY <1>2, <1>4 DEF R!Ends
  <1>. HIDE DEF place
  <1>6. \A i \in R!ReaderIds : readers'[i] = IF i = j THEN place ELSE readers[i] BY <1>1, <1>2
  <1>7. readers' \in [R!ReaderIds -> RingPlaces] BY <1>1, <1>2, <1>3 DEF RingPlaces
  <1>8. -1 \in -1..Count BY <1>2
  <1>9. slots' \in [R!SlotIds -> -1..Count] BY <1>1, <1>2, <1>8
  <1>10. Sound'
    <2>1. CASE place = "fill"
      <3>1. slots' = [slots EXCEPT ![R!Slot(piece[j])] = -1] BY <1>1, <2>1
      <3>2. readers'[j] \notin {"wake", "publish"} BY <1>6, <2>1
      <3>3. \A i \in R!ReaderIds \ {j} : readers'[i] = readers[i] BY <1>6
      <3>. QED BY <1>1, <1>5, <1>8, <2>1, <3>1, <3>2, <3>3, SoundWrites
    <2>2. CASE place # "fill"
      <3>1. \A i \in R!ReaderIds : (RingReading(i)' => RingReading(i)) /\ (readers'[i] \in {"wake", "publish"} => readers[i] \in {"wake", "publish"})
        BY <1>3, <1>6, <2>2 DEF RingReading
      <3>. QED BY <1>1, <2>2, <3>1, SoundKept
    <2>. QED BY <2>1, <2>2
  <1>11. readers'[j] \notin {"unborn", "gone"} /\ \A i \in R!ReaderIds \ {j} : readers'[i] = readers[i] BY <1>3, <1>6
  <1>. QED BY <1>1, <1>7, <1>9, <1>10, <1>11, Typed, ReaderStep

\* The piece is read whole, or the read throws.
LEMMA FillStep == ASSUME RingInv, NEW j \in R!ReaderIds, R!Fill(j) PROVE RingInv'
  <1>1. readers[j] = "fill" /\ UNCHANGED <<consumer, taken, consumed, ready, running, halted, broken, piece, con>> BY DEF R!Fill
  <1>2. readers \in [R!ReaderIds -> RingPlaces] /\ slots \in [R!SlotIds -> -1..Count] /\ Count \in Nat BY Typed, SizesT
  <1>3. piece[j] < Count /\ R!HasRoom(piece[j]) BY <1>1 DEF RingInv, Sound, Pieces, RingReading
  <1>4. piece[j] \in Nat BY Ahead
  <1>5. CASE /\ readers' = [readers EXCEPT ![j] = IF R!Streamed THEN "wake" ELSE "publish"]
             /\ slots' = [slots EXCEPT ![R!Slot(piece[j])] = piece[j] + 1]
    <2>1. PICK place \in {"wake", "publish"} : readers' = [readers EXCEPT ![j] = place] BY <1>5
    <2>2. \A i \in R!ReaderIds : readers'[i] = IF i = j THEN place ELSE readers[i] BY <1>2, <2>1
    <2>3. readers' \in [R!ReaderIds -> RingPlaces] BY <1>2, <2>1 DEF RingPlaces
    <2>4. piece[j] + 1 \in -1..Count BY <1>2, <1>3, <1>4
    <2>5. slots' \in [R!SlotIds -> -1..Count] BY <1>2, <1>5, <2>4
    <2>6. \A i \in R!ReaderIds \ {j} : readers'[i] = readers[i] BY <2>2
    <2>7. Sound' BY <1>1, <1>3, <1>5, <2>4, <2>6, SoundWrites
    <2>8. readers'[j] \notin {"unborn", "gone"} BY <2>2
    <2>. QED BY <1>1, <2>3, <2>5, <2>6, <2>7, <2>8, Typed, ReaderStep
  <1>6. CASE readers' = [readers EXCEPT ![j] = "fail"] /\ UNCHANGED slots
    <2>2. \A i \in R!ReaderIds : readers'[i] = IF i = j THEN "fail" ELSE readers[i] BY <1>2, <1>6
    <2>3. readers' \in [R!ReaderIds -> RingPlaces] BY <1>2, <1>6 DEF RingPlaces
    <2>4. \A i \in R!ReaderIds : (RingReading(i)' => RingReading(i)) /\ (readers'[i] \in {"wake", "publish"} => readers[i] \in {"wake", "publish"})
      BY <1>1, <2>2 DEF RingReading
    <2>5. Sound' BY <1>1, <1>6, <2>4, SoundKept
    <2>6. readers'[j] \notin {"unborn", "gone"} /\ \A i \in R!ReaderIds \ {j} : readers'[i] = readers[i] BY <2>2
    <2>. QED BY <1>1, <1>6, <2>3, <2>5, <2>6, Typed, ReaderStep
  <1>. QED BY <1>5, <1>6 DEF R!Fill

\* The scheduler is told, or the failure kept.
LEMMA WakeStep == ASSUME RingInv, NEW j \in R!ReaderIds, R!Wake(j) \/ R!Fail(j) PROVE RingInv'
  <1>1. PICK place \in {"publish", "end"} : readers' = [readers EXCEPT ![j] = place] /\ (place = "publish" => readers[j] = "wake")
    BY DEF R!Wake, R!Fail
  <1>2. readers[j] \in {"wake", "fail"} /\ broken' \in BOOLEAN /\ UNCHANGED <<consumer, taken, consumed, ready, slots, running, halted, piece, con>>
    BY Typed DEF R!Wake, R!Fail, R!shared
  <1>3. readers \in [R!ReaderIds -> RingPlaces] BY Typed
  <1>4. \A i \in R!ReaderIds : readers'[i] = IF i = j THEN place ELSE readers[i] BY <1>1, <1>3
  <1>5. readers' \in [R!ReaderIds -> RingPlaces] BY <1>1, <1>3 DEF RingPlaces
  <1>6. \A i \in R!ReaderIds : (RingReading(i)' => RingReading(i)) /\ (readers'[i] \in {"wake", "publish"} => readers[i] \in {"wake", "publish"})
    BY <1>1, <1>2, <1>4 DEF RingReading
  <1>7. Sound' BY <1>2, <1>6, SoundKept
  <1>8. readers'[j] \notin {"unborn", "gone"} /\ \A i \in R!ReaderIds \ {j} : readers'[i] = readers[i] BY <1>4
  <1>. QED BY <1>2, <1>5, <1>7, <1>8, Typed, ReaderStep

\* The piece is said to be there.
LEMMA PublishStep == ASSUME RingInv, NEW j \in R!ReaderIds, R!Publish(j) PROVE RingInv'
  <1>1. readers[j] = "publish" /\ readers' = [R!Woken(readers) EXCEPT ![j] = "wait"] /\ con' = R!WokenConsumer
        /\ UNCHANGED <<consumer, taken, consumed, slots, running, halted, broken>>
    BY DEF R!Publish
  <1>2. Sound' /\ piece' \in [R!ReaderIds -> 0..Count + R!Threads] /\ ready' \in [R!SlotIds -> 0..Count] BY SoundPublishes
  <1>3. R!Woken(readers) \in [R!ReaderIds -> RingPlaces] BY WokenT
  <1>4. readers' \in [R!ReaderIds -> RingPlaces] BY <1>1, <1>3 DEF RingPlaces
  <1>5. \A i \in R!ReaderIds : readers'[i] = IF i = j THEN "wait" ELSE R!Woken(readers)[i] BY <1>1, <1>3
  <1>6. \A i \in R!ReaderIds \ {j} : readers'[i] = readers[i] \/ (readers[i] = "asleep" /\ readers'[i] = "wait") BY <1>5, WokenT
  <1>7. readers'[j] \notin {"unborn", "gone"} BY <1>5
  <1>8. slots' \in [R!SlotIds -> -1..Count] /\ broken' \in BOOLEAN BY <1>1, Typed
  <1>. QED BY <1>1, <1>2, <1>4, <1>6, <1>7, <1>8, ReaderStep

\* A reader ends, and is no longer counted.
LEMMA EndStep == ASSUME RingInv, NEW j \in R!ReaderIds, R!End(j) PROVE RingInv'
  <1>1. readers[j] = "end" /\ running' = running - 1 /\ readers' = [R!Woken(readers) EXCEPT ![j] = "gone"] /\ con' = R!WokenConsumer
        /\ UNCHANGED <<consumer, taken, consumed, ready, slots, halted, broken, piece>>
    BY DEF R!End
  <1>2. R!Woken(readers) \in [R!ReaderIds -> RingPlaces] BY WokenT
  <1>3. readers' \in [R!ReaderIds -> RingPlaces] BY <1>1, <1>2 DEF RingPlaces
  <1>4. \A i \in R!ReaderIds : readers'[i] = IF i = j THEN "gone" ELSE R!Woken(readers)[i] BY <1>1, <1>2
  <1>5. \A i \in R!ReaderIds : IF i = j THEN readers'[i] = "gone" ELSE readers'[i] = readers[i] \/ (readers[i] = "asleep" /\ readers'[i] = "wait") BY <1>4, WokenT
  <1>6. con' \in Spots /\ (con' = con \/ (con = "asleep" /\ con' = "test")) BY <1>1, WokenT
  <1>7. \A i \in R!ReaderIds : (RingReading(i)' => RingReading(i)) /\ (readers'[i] \in {"wake", "publish"} => readers[i] \in {"wake", "publish"})
    BY <1>5 DEF RingReading
  <1>8. Sound' BY <1>1, <1>7, SoundKept
  <1>9. con # "new" BY <1>1 DEF RingInv, Newborn
  <1>10. Asks' BY <1>1, <1>6 DEF RingInv, Asks
  <1>. DEFINE A == {i \in R!ReaderIds : Counted(i)}
              B == {i \in R!ReaderIds : Counted(i)'}
  <1>11. j \in A BY <1>1 DEF Counted
  <1>12. B = A \ {j} BY <1>1, <1>5, <1>6 DEF Counted
  <1>13. running = Cardinality(A) BY DEF RingInv, Runs
  <1>14. A \subseteq R!ReaderIds /\ B \subseteq R!ReaderIds OBVIOUS
  <1>. HIDE DEF A, B
  <1>15. IsFiniteSet(A) /\ Cardinality(A) \in Nat /\ Cardinality(B) \in 0..R!Threads BY SizesT, <1>14, CountedT
  <1>16. Cardinality(B) = Cardinality(A) - 1 BY <1>11, <1>12, <1>15, FS_RemoveElement
  <1>17. running' = Cardinality(B) BY <1>1, <1>13, <1>16
  <1>18. Runs' BY <1>17 DEF Runs, B
  <1>19. R!TypeOK'
    <2>1. running' \in 0..R!Threads BY <1>15, <1>17
    <2>. QED BY <1>1, <1>3, <1>6, <2>1, Typed, Retyped
  <1>. QED BY <1>6, <1>8, <1>9, <1>10, <1>18, <1>19 DEF RingInv, Newborn

\* A step in which nothing changes.
LEMMA RingStutters == ASSUME RingInv, UNCHANGED R!vars PROVE RingInv'
  <1>1. UNCHANGED <<consumer, taken, consumed, ready, slots, running, halted, broken, readers, piece, con>> BY DEF R!vars, R!shared
  <1>2. Sound' BY <1>1, SoundWoken
  <1>3. \A j \in R!ReaderIds : Counted(j)' <=> Counted(j) BY <1>1 DEF Counted
  <1>4. Runs' BY <1>1, <1>3, RunsKept
  <1>5. R!TypeOK' BY <1>1, Typed, Retyped
  <1>. QED BY <1>1, <1>2, <1>4, <1>5 DEF RingInv, Asks, Newborn

\* What the consumer holds is whole, and the counts are in their bounds: no reader writes over what a copy still reads, however far apart
\* the readers are, whichever fails and whenever the ring is stopped (ReadRing::read, next, free).
THEOREM ReadRingSound == R!Spec => []RingSound
  <1>1. RingInv /\ [R!Next]_R!vars => RingInv'
    <2>. SUFFICES ASSUME RingInv, [R!Next]_R!vars PROVE RingInv' OBVIOUS
    <2>1. CASE R!Start BY <2>1, RingStartStep
    <2>2. CASE R!StartThrows \/ R!Joined BY <2>2, EndedStep
    <2>3. CASE R!AskNext BY <2>3, AskStep
    <2>4. CASE R!NextWait BY <2>4, NextWaitStep
    <2>5. CASE R!NextPoll BY <2>5, NextPollStep
    <2>6. ASSUME NEW k \in 0..Count - 1, R!Free(k) PROVE RingInv' BY <2>6, FreeStep
    <2>7. CASE R!Stop \/ R!Destroy BY <2>7, StopStep
    <2>8. CASE UNCHANGED R!vars BY <2>8, RingStutters
    <2>9. ASSUME NEW j \in R!ReaderIds, R!StartReader(j) PROVE RingInv' BY <2>9, StartReaderStep
    <2>10. ASSUME NEW j \in R!ReaderIds, R!StartFails(j) PROVE RingInv' BY <2>10, StartFailsStep
    <2>11. ASSUME NEW j \in R!ReaderIds, R!Reader(j) PROVE RingInv' BY <2>11, RingWaitStep, FillStep, WakeStep, PublishStep, EndStep DEF R!Reader
    <2>. QED BY <2>1, <2>2, <2>3, <2>4, <2>5, <2>6, <2>7, <2>8, <2>9, <2>10, <2>11 DEF R!Next, R!Consume, R!Over
  <1>2. RingInv => RingSound
    <2>. SUFFICES ASSUME RingInv, NEW k \in consumed..taken - 1 PROVE slots[R!Slot(k)] = k + 1 BY DEF RingSound, R!RingSound, R!HeldPiecesWhole, RingInv
    <2>1. k \in Nat /\ k >= consumed BY Typed
    <2>2. R!Slot(k) \in R!SlotIds BY <2>1, SizesT
    <2>3. ready[R!Slot(k)] = k + 1 BY DEF RingInv, Sound, RingHeld
    <2>4. ready[R!Slot(k)] # 0 /\ ready[R!Slot(k)] - 1 = k BY <2>1, <2>3
    <2>. QED BY <2>1, <2>2, <2>3, <2>4 DEF RingInv, Sound, Says
  <1>. QED BY RingInit, <1>1, <1>2, PTL DEF R!Spec

-----------------------------------------------------------------------------
\* The pulls.

\* A stream, and what its part file holds.
Stream == [at : {"request", "failed", "done"}, attempt : Nat, bytes : H!Bytes]
Begun == {"metadata", "check", "open", "digest", "fetch", "verify", "publish"}
Pull == [at : Begun \cup H!Ended \cup {"start"}, file : H!Files, streams : Seq(Stream), opened : H!Bytes, temporary : BOOLEAN]
PullType == entry \in [H!Files -> H!Bytes] /\ settled \in [H!Files -> BOOLEAN] /\ pull \in [Pulls -> Pull] /\ outages \in Nat

\* What a pull in state r stands on: the files before its own are whole in the cache en, and only a fetch has streams.
Requests(r) == {i \in DOMAIN r.streams : r.streams[i].at = "request"}
Own(r, en) ==
    /\ r.at \in Begun => r.temporary
    /\ r.at # "fetch" => Requests(r) = {}
    /\ r.at \in {"returned", "threw"} => ~r.temporary
    /\ r.at \in {"start", "metadata"} => r.file = 1
    /\ r.at \in Begun => \A f \in H!Files : f < r.file => en[f] = "whole"
    /\ r.at = "returned" => \A f \in H!Files : en[f] = "whole"
    /\ r.at = "digest" /\ r.opened = "whole" => en[r.file] = "whole"
    /\ r.at = "publish" => \A i \in DOMAIN r.streams : r.streams[i].bytes = "whole"
\* Each pull stands on its files; an entry not settled was renamed whole.
PullInv ==
    /\ PullType
    /\ \A p \in Pulls : Own(pull[p], entry)
    /\ \A f \in H!Files : ~settled[f] => entry[f] = "whole"

\* The manifest's files, each of one stream or more.
LEMMA FilesT == H!Files = 1..Len(Streams) /\ Len(Streams) \in Nat \ {0} /\ (\A f \in H!Files : Streams[f] \in Nat \ {0})
  <1>1. Streams \in Seq(Nat \ {0}) /\ Streams # <<>> BY PullAssumption DEF H!HubPullAssumption
  <1>. QED BY <1>1 DEF H!Files

\* No streams, no requests.
LEMMA NoneLeft == ASSUME NEW r, r.streams = <<>> PROVE Requests(r) = {} /\ DOMAIN r.streams = {}
  BY DEF Requests

\* The invariant holds before any pull.
LEMMA PullInit == H!Init => PullInv
  <1>. SUFFICES ASSUME H!Init PROVE PullInv OBVIOUS
  <1>1. entry \in [H!Files -> H!Bytes] BY PullAssumption DEF H!Init, H!HubPullAssumption
  <1>2. H!NotBegun \in Pull BY FilesT DEF H!NotBegun, Pull, H!Bytes
  <1>3. PullType BY <1>1, <1>2 DEF H!Init, PullType
  <1>4. Own(H!NotBegun, entry) BY NoneLeft DEF Own, H!NotBegun, Begun
  <1>. QED BY <1>3, <1>4 DEF H!Init, PullInv

\* A pull's step that leaves the cache.
LEMMA PullAlone ==
    ASSUME PullInv, NEW p \in Pulls, NEW r \in Pull, Own(r, entry), pull' = [pull EXCEPT ![p] = r], UNCHANGED <<entry, settled, outages>>
    PROVE  PullInv'
  <1>1. pull \in [Pulls -> Pull] BY DEF PullInv, PullType
  <1>2. \A q \in Pulls : pull'[q] = IF q = p THEN r ELSE pull[q] BY <1>1
  <1>3. pull' \in [Pulls -> Pull] BY <1>1
  <1>4. \A q \in Pulls : Own(pull'[q], entry) BY <1>2 DEF PullInv
  <1>5. \A q \in Pulls : Own(pull'[q], entry') BY <1>4
  <1>. QED BY <1>3, <1>5 DEF PullInv, PullType

\* The records a step leaves.
LEMMA PlacesT ==
    ASSUME PullInv, NEW p \in Pulls, NEW at \in Begun \cup H!Ended
    PROVE  /\ pull[p] \in Pull
           /\ H!At(p, at) \in Pull /\ H!At(p, at).at = at /\ H!At(p, at).file = pull[p].file /\ H!At(p, at).streams = pull[p].streams
           /\ H!At(p, at).opened = "none" /\ H!At(p, at).temporary = pull[p].temporary
  <1>1. pull[p] \in Pull BY DEF PullInv, PullType
  <1>2. H!At(p, at) \in Pull BY <1>1 DEF Pull, H!Bytes, H!At
  <1>3. H!At(p, at).at = at /\ H!At(p, at).opened = "none" BY <1>1 DEF Pull, H!At
  <1>4. H!At(p, at).file = pull[p].file /\ H!At(p, at).streams = pull[p].streams /\ H!At(p, at).temporary = pull[p].temporary BY <1>1 DEF Pull, H!At
  <1>. QED BY <1>1, <1>2, <1>3, <1>4

\* What a pull stands on.
LEMMA Stands == ASSUME PullInv, NEW p \in Pulls PROVE pull[p] \in Pull /\ Own(pull[p], entry)
  BY DEF PullInv, PullType

\* The streams of a fetch.
LEMMA AsksT == ASSUME NEW n \in Nat PROVE [i \in 1 .. n |-> [at |-> "request", attempt |-> 1, bytes |-> "none"]] \in Seq(Stream)
  <1>1. [at |-> "request", attempt |-> 1, bytes |-> "none"] \in Stream BY DEF Stream, H!Bytes
  <1>. QED BY <1>1

\* A pull that leaves has no stream and no directory.
LEMMA LeaveT ==
    ASSUME PullInv, NEW p \in Pulls, NEW how \in H!Ended, pull[p].at # "fetch" \/ H!Running(p) = {}
    PROVE  H!Leave(p, how) \in Pull /\ H!Leave(p, how).at = how /\ H!Leave(p, how).streams = <<>> /\ ~H!Leave(p, how).temporary
  <1>1. H!At(p, how) \in Pull /\ H!At(p, how).at = how BY PlacesT
  <1>2. H!Running(p) = {} BY DEF PullInv, Own, H!Running, Requests
  <1>. DEFINE r == H!At(p, how)
  <1>3. H!Leave(p, how) = [r EXCEPT !.temporary = FALSE, !.streams = <<>>] BY <1>2 DEF H!Leave
  <1>4. r \in Pull /\ r.at = how BY <1>1
  <1>. HIDE DEF r
  <1>5. <<>> \in Seq(Stream) OBVIOUS
  <1>6. [r EXCEPT !.temporary = FALSE, !.streams = <<>>] \in Pull BY <1>4, <1>5 DEF Pull
  <1>7. H!Leave(p, how).at = how /\ H!Leave(p, how).streams = <<>> /\ ~H!Leave(p, how).temporary BY <1>3, <1>4 DEF Pull
  <1>. QED BY <1>3, <1>6, <1>7

\* A pull that throws.
LEMMA ThrowsT ==
    ASSUME PullInv, NEW p \in Pulls, pull[p].at # "fetch" \/ H!Running(p) = {}, pull' = [pull EXCEPT ![p] = H!Leave(p, "threw")], UNCHANGED <<entry, settled, outages>>
    PROVE  PullInv'
  <1>1. H!Leave(p, "threw") \in Pull /\ H!Leave(p, "threw").at = "threw" /\ H!Leave(p, "threw").streams = <<>> /\ ~H!Leave(p, "threw").temporary
    BY LeaveT DEF H!Ended
  <1>2. Own(H!Leave(p, "threw"), entry) BY <1>1, NoneLeft DEF Own, Begun
  <1>. QED BY <1>1, <1>2, PullAlone

\* A file found or put in the cache: the next, or the end.
LEMMA CachedT ==
    ASSUME PullInv, NEW p \in Pulls, pull[p].at \in {"digest", "publish"}, NEW en, \A f \in H!Files : f <= pull[p].file => en[f] = "whole"
    PROVE  H!Cached(p) \in Pull /\ Own(H!Cached(p), en)
  <1>1. pull[p] \in Pull /\ Own(pull[p], entry) BY Stands
  <1>2. CASE pull[p].file = Len(Streams)
    <2>1. H!Cached(p) = H!Leave(p, "returned") BY <1>2 DEF H!Cached
    <2>2. H!Cached(p) \in Pull /\ H!Cached(p).at = "returned" /\ H!Cached(p).streams = <<>> /\ ~H!Cached(p).temporary BY <2>1, LeaveT DEF H!Ended
    <2>3. \A f \in H!Files : en[f] = "whole" BY <1>2, FilesT
    <2>. QED BY <2>2, <2>3, NoneLeft DEF Own, Begun
  <1>3. CASE pull[p].file # Len(Streams)
    <2>1. H!At(p, "check") \in Pull /\ H!At(p, "check").at = "check" /\ H!At(p, "check").file = pull[p].file /\ H!At(p, "check").temporary = pull[p].temporary
      BY PlacesT DEF Begun
    <2>2. H!Cached(p) = [at |-> "check", file |-> pull[p].file + 1, streams |-> <<>>, opened |-> H!At(p, "check").opened, temporary |-> pull[p].temporary]
      BY <1>3, <2>1 DEF H!Cached, Pull
    <2>3. pull[p].file \in H!Files /\ pull[p].file + 1 \in H!Files BY <1>1, <1>3, FilesT DEF Pull
    <2>4. H!Cached(p) \in Pull BY <2>1, <2>2, <2>3 DEF Pull, Begun
    <2>5. Requests(H!Cached(p)) = {} BY <2>2, NoneLeft
    <2>6. pull[p].temporary BY <1>1 DEF Own, Begun
    <2>7. \A f \in H!Files : f < pull[p].file + 1 => en[f] = "whole" BY <2>3, FilesT
    <2>8. H!Cached(p).at = "check" /\ H!Cached(p).temporary = pull[p].temporary /\ H!Cached(p).file = pull[p].file + 1 BY <2>2
    <2>9. Own(H!Cached(p), en) BY <2>5, <2>6, <2>7, <2>8 DEF Own
    <2>. QED BY <2>4, <2>9
  <1>. QED BY <1>2, <1>3

\* A file to fetch.
LEMMA FetchingT ==
    ASSUME PullInv, NEW p \in Pulls, pull[p].at \in {"check", "digest"}
    PROVE  H!Fetching(p) \in Pull /\ Own(H!Fetching(p), entry)
  <1>1. pull[p] \in Pull /\ Own(pull[p], entry) BY Stands
  <1>2. H!At(p, "fetch") \in Pull /\ H!At(p, "fetch").at = "fetch" /\ H!At(p, "fetch").file = pull[p].file /\ H!At(p, "fetch").temporary = pull[p].temporary
        /\ H!At(p, "fetch").opened = "none"
    BY PlacesT DEF Begun
  <1>. DEFINE ss == [i \in 1 .. Streams[pull[p].file] |-> [at |-> "request", attempt |-> 1, bytes |-> "none"]]
  <1>3. Streams[pull[p].file] \in Nat BY <1>1, FilesT DEF Pull
  <1>4. ss \in Seq(Stream) BY <1>3, AsksT
  <1>. DEFINE r == H!At(p, "fetch")
  <1>5. H!Fetching(p) = [r EXCEPT !.streams = ss] BY DEF H!Fetching
  <1>6. r \in Pull /\ r.at = "fetch" /\ r.file = pull[p].file /\ r.temporary = pull[p].temporary BY <1>2
  <1>. HIDE DEF ss, r
  <1>7. [r EXCEPT !.streams = ss] \in Pull BY <1>4, <1>6 DEF Pull
  <1>8. H!Fetching(p).at = "fetch" /\ H!Fetching(p).file = pull[p].file /\ H!Fetching(p).temporary = pull[p].temporary BY <1>5, <1>6 DEF Pull
  <1>. QED BY <1>1, <1>5, <1>7, <1>8 DEF Own, Begun

\* An attempt of a stream's ends.
LEMMA AttemptT ==
    ASSUME PullInv, NEW p \in Pulls, NEW i, NEW outcome \in {"whole", "damaged", "transient", "fatal"}, H!Attempt(p, i, outcome)
    PROVE  PullInv'
  <1>1. pull[p] \in Pull /\ Own(pull[p], entry) BY Stands
  <1>. DEFINE r == pull[p]
              t == H!Tried(r.streams[i], outcome)
              n == [r EXCEPT !.streams = [r.streams EXCEPT ![i] = t]]
  <1>2. i \in DOMAIN r.streams /\ r.streams[i].at = "request" /\ r.streams[i] \in Stream BY <1>1 DEF H!Attempt, H!Running, Pull
  <1>3. pull' = [pull EXCEPT ![p] = n] BY DEF H!Attempt
  <1>4. r.at = "fetch" BY <1>1, <1>2 DEF Own, Requests
  <1>5. t \in Stream
    <2>. DEFINE x == r.streams[i]
    <2>1. x \in Stream BY <1>2
    <2>. HIDE DEF x
    <2>2. [x EXCEPT !.attempt = (x.attempt % Attempts) + 1, !.bytes = "short"] \in Stream
      <3>1. (x.attempt % Attempts) + 1 \in Nat BY <2>1, PullAssumption DEF Stream, H!HubPullAssumption
      <3>. QED BY <3>1, <2>1 DEF Stream, H!Bytes
    <2>3. [x EXCEPT !.at = "failed", !.bytes = "short"] \in Stream BY <2>1 DEF Stream, H!Bytes
    <2>4. outcome \notin {"transient", "fatal"} => [x EXCEPT !.at = "done", !.bytes = outcome] \in Stream BY <2>1 DEF Stream, H!Bytes
    <2>5. H!Tried(x, outcome) \in Stream BY <2>2, <2>3, <2>4 DEF H!Tried
    <2>. QED BY <2>5 DEF x
  <1>6. r \in Pull BY <1>1
  <1>. HIDE DEF r, t, n
  <1>7. [r.streams EXCEPT ![i] = t] \in Seq(Stream)
    <2>1. r.streams \in Seq(Stream) BY <1>6 DEF Pull
    <2>. QED BY <2>1, <1>5, <1>2, ExceptSeq
  <1>8. n \in Pull BY <1>6, <1>7 DEF n, Pull
  <1>9. n.at = "fetch" /\ n.file = r.file /\ n.temporary = r.temporary BY <1>4, <1>6 DEF n, Pull
  <1>10. Own(r, entry) BY <1>1 DEF r
  <1>11. Own(n, entry) BY <1>4, <1>9, <1>10 DEF Own, Begun
  <1>12. UNCHANGED <<entry, settled, outages>> BY DEF H!Attempt
  <1>. QED BY <1>3, <1>8, <1>11, <1>12, PullAlone

\* A whole file renamed into the cache, which spoils nothing another pull has seen.
LEMMA PublishT ==
    ASSUME PullInv, NEW p \in Pulls, H!Publish(p) PROVE PullInv'
  <1>1. pull[p] \in Pull /\ Own(pull[p], entry) BY Stands
  <1>2. pull[p].at = "publish" BY DEF H!Publish, H!Step
  <1>3. CASE pull' = [pull EXCEPT ![p] = H!Leave(p, "threw")] /\ UNCHANGED <<entry, settled, outages>>
    BY <1>2, <1>3, ThrowsT
  <1>4. CASE /\ pull' = [pull EXCEPT ![p] = H!Cached(p)] /\ UNCHANGED outages
             /\ entry' = [entry EXCEPT ![pull[p].file] = H!Made(p)] /\ settled' = [settled EXCEPT ![pull[p].file] = FALSE]
    <2>1. H!Made(p) = "whole" BY <1>1, <1>2 DEF Own, H!Made
    <2>2. PullType BY DEF PullInv
    <2>3. pull[p].file \in H!Files BY <1>1 DEF Pull
    <2>. DEFINE g == pull[p].file
    <2>4. entry' = [entry EXCEPT ![g] = "whole"] /\ settled' = [settled EXCEPT ![g] = FALSE] BY <1>4, <2>1
    <2>5. g \in H!Files /\ entry \in [H!Files -> H!Bytes] /\ settled \in [H!Files -> BOOLEAN] BY <2>2, <2>3 DEF PullType
    <2>6. \A f \in H!Files : f <= pull[p].file => entry'[f] = "whole" BY <1>1, <1>2, <2>4, <2>5, FilesT DEF Own, Begun
    <2>7. H!Cached(p) \in Pull /\ Own(H!Cached(p), entry') BY <1>2, <2>6, CachedT
    <2>. HIDE DEF g
    <2>8. entry' \in [H!Files -> H!Bytes] /\ settled' \in [H!Files -> BOOLEAN] BY <2>4, <2>5 DEF H!Bytes
    <2>9. \A f \in H!Files : entry'[f] = "whole" \/ entry'[f] = entry[f] BY <2>4, <2>5
    <2>10. pull \in [Pulls -> Pull] BY <2>2 DEF PullType
    <2>11. \A q \in Pulls : pull'[q] = IF q = p THEN H!Cached(p) ELSE pull[q] BY <1>4, <2>10
    <2>12. pull' \in [Pulls -> Pull] BY <1>4, <2>7, <2>10
    <2>13. ASSUME NEW q \in Pulls PROVE Own(pull'[q], entry')
      <3>1. CASE q = p BY <3>1, <2>7, <2>11
      <3>2. CASE q # p
        <4>1. pull'[q] = pull[q] /\ pull[q] \in Pull /\ Own(pull[q], entry) BY <3>2, <2>11, Stands
        <4>2. pull[q].file \in H!Files BY <4>1 DEF Pull
        <4>3. Own(pull[q], entry') BY <4>1, <4>2, <2>9 DEF Own
        <4>. QED BY <4>1, <4>3
      <3>. QED BY <3>1, <3>2
    <2>14. \A f \in H!Files : ~settled'[f] => entry'[f] = "whole" BY <2>4, <2>5, <2>9 DEF PullInv
    <2>15. outages' \in Nat BY <1>4, <2>2 DEF PullType
    <2>. QED BY <2>8, <2>12, <2>13, <2>14, <2>15 DEF PullInv, PullType
  <1>. QED BY <1>3, <1>4 DEF H!Publish, H!Step

\* A pull whose process is gone.
LEMMA StoppedT == ASSUME PullInv, NEW p \in Pulls, NEW en PROVE H!Stopped(p) \in Pull /\ Own(H!Stopped(p), en)
  <1>. DEFINE r == H!At(p, "killed")
  <1>1. r \in Pull /\ r.at = "killed" BY PlacesT DEF H!Ended
  <1>2. H!Stopped(p) = [r EXCEPT !.streams = <<>>] BY DEF H!Stopped
  <1>. HIDE DEF r
  <1>3. <<>> \in Seq(Stream) OBVIOUS
  <1>4. H!Stopped(p) \in Pull BY <1>1, <1>2, <1>3 DEF Pull
  <1>5. H!Stopped(p).at = "killed" /\ H!Stopped(p).streams = <<>> BY <1>1, <1>2 DEF Pull
  <1>6. Own(H!Stopped(p), en) BY <1>5, NoneLeft DEF Own, Begun
  <1>. QED BY <1>4, <1>6

\* A power loss, which ends every pull begun and spares the entries settled.
LEMMA PowerT == ASSUME PullInv, H!PowerLoss PROVE PullInv'
  <1>1. pull \in [Pulls -> Pull] /\ outages \in Nat BY DEF PullInv, PullType
  <1>2. pull' = [p \in Pulls |-> IF pull[p].at = "start" THEN pull[p] ELSE H!Stopped(p)] BY DEF H!PowerLoss
  <1>3. pull' \in [Pulls -> Pull] BY <1>1, <1>2, StoppedT
  <1>4. entry' \in [H!Files -> H!Bytes] /\ settled' = [f \in H!Files |-> TRUE] /\ outages' = outages + 1 BY DEF H!PowerLoss
  <1>5. ASSUME NEW q \in Pulls PROVE Own(pull'[q], entry')
    <2>1. CASE pull[q].at = "start"
      <3>1. pull'[q] = pull[q] BY <1>2, <2>1
      <3>2. Own(pull[q], entry') BY <2>1, Stands DEF Own, Begun
      <3>. QED BY <3>1, <3>2
    <2>2. CASE pull[q].at # "start" BY <2>2, <1>2, StoppedT
    <2>. QED BY <2>1, <2>2
  <1>. QED BY <1>1, <1>3, <1>4, <1>5 DEF PullInv, PullType

\* The other steps of a pull.
LEMMA PullPullStep == ASSUME PullInv, NEW p \in Pulls, H!Begin(p) \/ H!Process(p) \/ H!Kill(p) PROVE PullInv'
  <1>1. pull[p] \in Pull /\ Own(pull[p], entry) BY Stands
  <1>2. CASE H!Begin(p)
    <2>1. pull[p].at = "start" /\ UNCHANGED <<entry, settled, outages>> BY <1>2 DEF H!Begin, H!Step
    <2>2. CASE pull' = [pull EXCEPT ![p] = H!Leave(p, "threw")] BY <2>1, <2>2, ThrowsT
    <2>3. CASE pull' = [pull EXCEPT ![p] = [H!At(p, "metadata") EXCEPT !.temporary = TRUE]]
      <3>. DEFINE a == H!At(p, "metadata")
                  r == [a EXCEPT !.temporary = TRUE]
      <3>1. a \in Pull /\ a.at = "metadata" /\ a.file = pull[p].file /\ a.streams = pull[p].streams BY PlacesT DEF Begun
      <3>2. pull' = [pull EXCEPT ![p] = r] BY <2>3
      <3>. HIDE DEF a
      <3>3. r \in Pull /\ r.at = "metadata" /\ r.file = pull[p].file /\ r.streams = pull[p].streams /\ r.temporary BY <3>1 DEF Pull
      <3>. HIDE DEF r
      <3>4. r.file = 1 /\ Requests(r) = {} BY <3>3, <1>1, <2>1 DEF Own, Requests
      <3>5. Own(r, entry) BY <3>3, <3>4, FilesT DEF Own
      <3>. QED BY <3>2, <3>3, <3>5, <2>1, PullAlone
    <2>. QED BY <1>2, <2>2, <2>3 DEF H!Begin, H!Step
  <1>3. CASE H!Resolve(p)
    <2>1. pull[p].at = "metadata" /\ UNCHANGED <<entry, settled, outages>> BY <1>3 DEF H!Resolve, H!Step
    <2>2. CASE pull' = [pull EXCEPT ![p] = H!Leave(p, "threw")] BY <2>1, <2>2, ThrowsT
    <2>3. CASE pull' = [pull EXCEPT ![p] = H!At(p, "check")]
      <3>. DEFINE r == H!At(p, "check")
      <3>1. r \in Pull /\ r.at = "check" /\ r.file = pull[p].file /\ r.streams = pull[p].streams /\ r.temporary = pull[p].temporary BY PlacesT DEF Begun
      <3>2. pull' = [pull EXCEPT ![p] = r] BY <2>3
      <3>. HIDE DEF r
      <3>3. r.file = 1 /\ Requests(r) = {} /\ r.temporary BY <3>1, <1>1, <2>1 DEF Own, Requests, Begun
      <3>4. Own(r, entry) BY <3>1, <3>3, FilesT DEF Own
      <3>. QED BY <3>1, <3>2, <3>4, <2>1, PullAlone
    <2>. QED BY <1>3, <2>2, <2>3 DEF H!Resolve, H!Step
  <1>4. CASE H!CheckSize(p)
    <2>1. pull[p].at = "check" /\ UNCHANGED <<entry, settled, outages>> BY <1>4 DEF H!CheckSize, H!Step
    <2>2. CASE pull' = [pull EXCEPT ![p] = H!Leave(p, "threw")] BY <2>1, <2>2, ThrowsT
    <2>3. CASE pull' = [pull EXCEPT ![p] = H!Fetching(p)] BY <2>1, <2>3, FetchingT, PullAlone
    <2>4. CASE pull' = [pull EXCEPT ![p] = H!At(p, "open")]
      <3>. DEFINE r == H!At(p, "open")
      <3>1. r \in Pull /\ r.at = "open" /\ r.file = pull[p].file /\ r.streams = pull[p].streams /\ r.temporary = pull[p].temporary BY PlacesT DEF Begun
      <3>2. pull' = [pull EXCEPT ![p] = r] BY <2>4
      <3>. HIDE DEF r
      <3>3. Requests(r) = {} /\ r.temporary BY <3>1, <1>1, <2>1 DEF Own, Requests, Begun
      <3>4. Own(r, entry) BY <3>1, <3>3, <1>1, <2>1 DEF Own, Begun
      <3>. QED BY <3>1, <3>2, <3>4, <2>1, PullAlone
    <2>. QED BY <1>4, <2>2, <2>3, <2>4 DEF H!CheckSize, H!Step
  <1>5. CASE H!Open(p)
    <2>1. pull[p].at = "open" /\ UNCHANGED <<entry, settled, outages>> BY <1>5 DEF H!Open, H!Step
    <2>. DEFINE a == H!At(p, "digest")
                r == [a EXCEPT !.opened = entry[pull[p].file]]
    <2>2. a \in Pull /\ a.at = "digest" /\ a.file = pull[p].file /\ a.streams = pull[p].streams /\ a.temporary = pull[p].temporary BY PlacesT DEF Begun
    <2>3. pull' = [pull EXCEPT ![p] = r] BY <1>5 DEF H!Open, H!Step
    <2>. HIDE DEF a
    <2>4. entry[pull[p].file] \in H!Bytes BY <1>1 DEF Pull, PullInv, PullType
    <2>5. r \in Pull /\ r.at = "digest" /\ r.file = pull[p].file /\ r.streams = pull[p].streams /\ r.temporary = pull[p].temporary /\ r.opened = entry[pull[p].file]
      BY <2>2, <2>4 DEF Pull
    <2>. HIDE DEF r
    <2>6. Requests(r) = {} /\ r.temporary BY <2>5, <1>1, <2>1 DEF Own, Requests, Begun
    <2>7. Own(r, entry) BY <2>5, <2>6, <1>1, <2>1 DEF Own, Begun
    <2>. QED BY <2>1, <2>3, <2>5, <2>7, PullAlone
  <1>6. CASE H!CheckDigest(p)
    <2>1. pull[p].at = "digest" /\ UNCHANGED <<entry, settled, outages>> BY <1>6 DEF H!CheckDigest, H!Step
    <2>2. CASE pull' = [pull EXCEPT ![p] = H!Leave(p, "threw")] BY <2>1, <2>2, ThrowsT
    <2>3. CASE pull' = [pull EXCEPT ![p] = H!Fetching(p)] BY <2>1, <2>3, FetchingT, PullAlone
    <2>4. CASE pull[p].opened = "whole" /\ pull' = [pull EXCEPT ![p] = H!Cached(p)]
      <3>1. \A f \in H!Files : f <= pull[p].file => entry[f] = "whole" BY <1>1, <2>1, <2>4, FilesT DEF Own, Begun, Pull
      <3>2. H!Cached(p) \in Pull /\ Own(H!Cached(p), entry) BY <2>1, <3>1, CachedT
      <3>. QED BY <2>1, <2>4, <3>2, PullAlone
    <2>. QED BY <1>6, <2>2, <2>3, <2>4 DEF H!CheckDigest, H!Step
  <1>7. CASE H!Join(p)
    <2>1. pull[p].at = "fetch" /\ H!Running(p) = {} /\ UNCHANGED <<entry, settled, outages>> BY <1>7 DEF H!Join, H!Joined, H!Step
    <2>2. CASE pull' = [pull EXCEPT ![p] = H!Leave(p, "threw")] BY <2>1, <2>2, ThrowsT
    <2>3. CASE pull' = [pull EXCEPT ![p] = H!At(p, "verify")]
      <3>. DEFINE r == H!At(p, "verify")
      <3>1. r \in Pull /\ r.at = "verify" /\ r.file = pull[p].file /\ r.streams = pull[p].streams /\ r.temporary = pull[p].temporary BY PlacesT DEF Begun
      <3>2. pull' = [pull EXCEPT ![p] = r] BY <2>3
      <3>. HIDE DEF r
      <3>3. Requests(r) = {} /\ r.temporary BY <3>1, <1>1, <2>1 DEF Own, Requests, H!Running, Begun
      <3>4. Own(r, entry) BY <3>1, <3>3, <1>1, <2>1 DEF Own, Begun
      <3>. QED BY <3>1, <3>2, <3>4, <2>1, PullAlone
    <2>. QED BY <1>7, <2>2, <2>3 DEF H!Join, H!Step
  <1>8. CASE H!Verify(p)
    <2>1. pull[p].at = "verify" /\ UNCHANGED <<entry, settled, outages>> BY <1>8 DEF H!Verify, H!Step
    <2>2. CASE pull' = [pull EXCEPT ![p] = H!Leave(p, "threw")] BY <2>1, <2>2, ThrowsT
    <2>3. CASE H!Answers(p) /\ pull' = [pull EXCEPT ![p] = H!At(p, "publish")]
      <3>. DEFINE r == H!At(p, "publish")
      <3>1. r \in Pull /\ r.at = "publish" /\ r.file = pull[p].file /\ r.streams = pull[p].streams /\ r.temporary = pull[p].temporary BY PlacesT DEF Begun
      <3>2. pull' = [pull EXCEPT ![p] = r] BY <2>3
      <3>. HIDE DEF r
      <3>3. Requests(r) = {} /\ r.temporary BY <3>1, <1>1, <2>1 DEF Own, Requests, Begun
      <3>4. \A i \in DOMAIN r.streams : r.streams[i].bytes = "whole" BY <3>1, <2>3 DEF H!Answers, H!Made
      <3>5. Own(r, entry) BY <3>1, <3>3, <3>4, <1>1, <2>1 DEF Own, Begun
      <3>. QED BY <3>1, <3>2, <3>5, <2>1, PullAlone
    <2>. QED BY <1>8, <2>2, <2>3 DEF H!Verify, H!Step
  <1>9. CASE H!Publish(p) BY <1>9, PublishT
  <1>10. CASE H!Kill(p)
    <2>1. pull' = [pull EXCEPT ![p] = H!Stopped(p)] /\ UNCHANGED <<entry, settled, outages>> BY <1>10 DEF H!Kill
    <2>. QED BY <2>1, StoppedT, PullAlone
  <1>11. ASSUME NEW i \in DOMAIN pull[p].streams, NEW outcome \in {"whole", "damaged", "transient", "fatal"}, H!Attempt(p, i, outcome) PROVE PullInv'
    BY <1>11, AttemptT
  <1>. QED BY <1>2, <1>3, <1>4, <1>5, <1>6, <1>7, <1>8, <1>9, <1>10, <1>11 DEF H!Process

\* What a pull returned with answers for the manifest, whatever other pulls of the cache rename, fail or are killed in between,
\* and no stream outlives its directory (acquire, publish, Temporary).
THEOREM HubPullSound == H!Spec => []PullSound
  <1>1. PullInv /\ [H!Next]_H!vars => PullInv'
    <2>. SUFFICES ASSUME PullInv, [H!Next]_H!vars PROVE PullInv' OBVIOUS
    <2>1. CASE H!PowerLoss BY <2>1, PowerT
    <2>2. ASSUME NEW p \in Pulls, H!Begin(p) \/ H!Process(p) \/ H!Kill(p) PROVE PullInv' BY <2>2, PullPullStep
    <2>3. CASE UNCHANGED H!vars BY <2>3 DEF H!vars, PullInv, PullType, Own
    <2>. QED BY <2>1, <2>2, <2>3 DEF H!Next, H!Over
  <1>2. PullInv => PullSound
    <2>. SUFFICES ASSUME PullInv PROVE PullSound OBVIOUS
    <2>1. \A p \in Pulls : Own(pull[p], entry) /\ H!Running(p) = Requests(pull[p]) BY DEF PullInv, H!Running, Requests
    <2>. QED BY <2>1 DEF PullSound, H!PullSound, PullInv, Own, Begun
  <1>. QED BY PullInit, <1>1, <1>2, PTL DEF H!Spec
=============================================================================
