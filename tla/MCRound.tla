------------------------------ MODULE MCRound ------------------------------
\* Small instances of Round: two requests over two or three stages.
EXTENDS Round, TLC

CONSTANTS r1, r2
Symmetry == Permutations({r1, r2})
=============================================================================
