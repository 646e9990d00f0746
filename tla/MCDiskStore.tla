---------------------------- MODULE MCDiskStore ----------------------------
\* A server that writes for one build, then two at once of which one may be another build's.
EXTENDS DiskStore, TLC

CONSTANTS s1, s2, s3, e1, A, B
Exact == [build |-> A, keep |-> TRUE, proved |-> FALSE]
Proving == [build |-> B, keep |-> TRUE, proved |-> TRUE]
Leaving == [build |-> A, keep |-> FALSE, proved |-> FALSE]
OneThenTwo == <<{s1}, {s2, s3}>>
Mixed == s1 :> {Exact} @@ s2 :> {Exact, Leaving, Proving} @@ s3 :> {Proving}
=============================================================================
