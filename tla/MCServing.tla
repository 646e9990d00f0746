----------------------------- MODULE MCServing -----------------------------
\* Two clients' instances of Serving.
EXTENDS Serving
CONSTANTS c1, c2
Limits == (c1 :> 2) @@ (c2 :> 1)
One == [c \in Conns |-> 1]
=============================================================================
