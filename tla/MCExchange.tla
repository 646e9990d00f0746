------------------------------ MODULE MCExchange ------------------------------
(***************************************************************************)
(* Two members of two passes in flight; three sums in a row, so that a     *)
(* parity comes round; a record split in the middle; three members, with a *)
(* sum of two shots; and one failing call anywhere, or two.                *)
(***************************************************************************)
EXTENDS Exchange

Group(members, passes, sums, large, n, splits) ==
    [members |-> members, passes |-> passes, sums |-> sums, large |-> large, fails |-> n, splits |-> splits]
MCSettings ==
    {Group(2, 2, 2, {}, 1, FALSE), Group(2, 2, 3, {}, 0, FALSE), Group(2, 1, 2, {}, 1, TRUE), Group(2, 1, 2, {}, 2, FALSE),
     Group(3, 1, 2, {1}, 0, FALSE), Group(3, 1, 1, {1}, 1, FALSE)}
\* One pass of two sums, and a call that fails.
OneFailure == {Group(2, 1, 2, {}, 1, FALSE)}
=============================================================================
