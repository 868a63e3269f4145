-------------------------------- MODULE Jobs --------------------------------
(***************************************************************************)
(* The frame of the checks of sequential code.  A job is one input of one   *)
(* part of the program, chosen by the initial predicate; the actions of     *)
(* that part run it, one call of the code per step, and leave what the call *)
(* returned in out; the invariants compare job and out.                     *)
(***************************************************************************)
VARIABLES
    job,   \* the input: a record with its kind
    pc,    \* how far the job is
    out    \* what the last call returned

vars == <<job, pc, out>>
Is(kind, at) == job.kind = kind /\ pc = at
Done(kind) == Is(kind, "done")
\* A job of one call.
Run(kind, result) == Is(kind, "start") /\ out' = result /\ pc' = "done" /\ UNCHANGED job
=============================================================================
