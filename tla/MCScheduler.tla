---------------------------- MODULE MCScheduler ----------------------------
(***************************************************************************)
(* Instance of the scheduler: three requests with a shared input and one   *)
(* longer prompt, on a cache of one page less than two long requests need. *)
(***************************************************************************)
EXTENDS Scheduler, TLC

CONSTANTS r1, r2, r3, r4, a, b

MCRequests == {r1, r2, r3, r4}
MCInputs == {a, b}
MCInputOf == (r1 :> a) @@ (r2 :> a) @@ (r3 :> a) @@ (r4 :> b)
MCInputTokenCount == (a :> 2) @@ (b :> 3)
MCMaxNewTokenCount == [r \in MCRequests |-> IF r = r1 THEN 2 ELSE 1]
=============================================================================
