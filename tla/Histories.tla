------------------------------ MODULE Histories ------------------------------
(***************************************************************************)
(* What the KV cache promises of a set of histories: each one is a list of *)
(* tokens of its own.  A step appends to one history, a roll back shortens *)
(* one, a fork starts one with a prefix of another, and nothing else ever  *)
(* changes a history, whatever storage they share underneath.              *)
(***************************************************************************)
EXTENDS Naturals, Sequences

CONSTANTS Handles, Tokens

VARIABLE history   \* the tokens of each handle's history

Init == history = [s \in Handles |-> <<>>]

Extend(s, rows) == history' = [history EXCEPT ![s] = @ \o rows]

Shorten(s, n) == n < Len(history[s]) /\ history' = [history EXCEPT ![s] = SubSeq(@, 1, n)]

Fork(s, d, n) ==
    /\ s # d /\ n <= Len(history[s])
    /\ history' = [history EXCEPT ![d] = SubSeq(history[s], 1, n)]

Move(s, d) == s # d /\ history' = [history EXCEPT ![d] = history[s], ![s] = <<>>]

\* Every history that grew did so at its end, all others are as they were.
Next ==
    \/ \E s \in Handles : \E n \in 0..Len(history[s]) : Shorten(s, n)
    \/ \E s, d \in Handles : Move(s, d) \/ \E n \in 0..Len(history[s]) : Fork(s, d, n)
    \/ \E s \in Handles : /\ history'[s] \in Seq(Tokens)
                          /\ Len(history'[s]) > Len(history[s])
                          /\ Extend(s, SubSeq(history'[s], Len(history[s]) + 1, Len(history'[s])))

Spec == Init /\ [][Next]_history
=============================================================================
