------------------------------ MODULE MCService ------------------------------
(***************************************************************************)
(* The service rule over three requests with prompts of one or two passes    *)
(* and replies of any length: three clients' on two stages where each        *)
(* reply takes a pass, two clients' and a job where a pass holds them all,   *)
(* and both on one pass in flight; for replies' passes that leave a chunk    *)
(* room by the objective and for ones that do not.                           *)
(***************************************************************************)
EXTENDS Service
CONSTANTS r1, r2, r3
On(stages, slots, columns, decode, jobs, most) ==
    [stages |-> stages, slots |-> slots, columns |-> columns, decode |-> decode, fixed |-> 1, row |-> 1, jobs |-> jobs, stalls |-> most]
SomeSettings ==
    {On(2, 4, 1, 1, {}, 0), On(2, 4, 1, 4, {}, 0), On(2, 4, 2, 1, {r3}, 1), On(2, 4, 2, 4, {r3}, 0), On(1, 1, 2, 1, {r3}, 1), On(1, 1, 2, 8, {}, 0)}
=============================================================================
