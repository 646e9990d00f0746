----------------------------- MODULE MCOneThread -----------------------------
(***************************************************************************)
(* The parts one thread runs alone, every sequence of calls; `of` says      *)
(* which.  The logits rows of four pass slots that want five rows together; *)
(* state slots (two sequences, two live slots, a checkpoint and a mark, two *)
(* stages) of recurrent states; and those of one sequence's rings, with     *)
(* headroom for two rows, which two passes in flight may exceed, which a    *)
(* checkpoint's pass and the next may fit together, and so may the rows of  *)
(* a verify of which one is kept.                                           *)
(***************************************************************************)
EXTENDS LogitRows, TLC, FiniteSets

CONSTANTS k1, k2, k3, k4, q1, q2, m1, Seqs, NoSlot, Buffers, NoBuffer, NLive, NKept, S, MaxLen
Symmetry == Permutations(Slots) \cup Permutations(Seqs)

VARIABLES of, slotPool, seqs, flights, hist, state
slotVars == <<slotPool, seqs, flights, hist, state>>

K == INSTANCE StateSlots WITH Headroom <- 0
R == INSTANCE StateSlots WITH Headroom <- 2, Seqs <- {q1}, Slots <- {k1, k2, k3}, NLive <- 1, MaxLen <- 6
ASSUME OneThreadAssumption == K!SlotsCounted /\ R!SlotsCounted

OneInit == Init /\ of \in {"rows", "states", "rings"} /\ (IF of = "rings" THEN R!Init ELSE K!Init)
Rows == of = "rows" /\ Next /\ UNCHANGED <<of, slotVars>>
States ==
    /\ UNCHANGED <<of, vars>>
    /\ \/ of = "states" /\ K!Next
       \/ of = "rings" /\ R!Next
OneNext == Rows \/ States
OneSpec == OneInit /\ [][OneNext]_<<vars, slotVars, of>>

\* State slots are held as they are counted, each by its own holders (SlotPool in kv_cache.hpp).
SlotsAccounted == IF of = "rings" THEN R!SlotsAccounted ELSE of = "states" => K!SlotsAccounted
\* A stage reads a state that has seen its history's tokens, a ring the rows below its end (history.hpp, passes.hpp).
ReadsItsState ==
    /\ of = "states" => K!ReadsItsState
    /\ of = "rings" => R!ReadsItsState
\* A checkpoint is one a fork or a retract can continue from (runtime.hpp); an abort by lengths may leave it beyond the history's end.
CheckpointReached == of = "rings" => R!CheckpointReached
=============================================================================
