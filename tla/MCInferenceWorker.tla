------------------------- MODULE MCInferenceWorker -------------------------
(***************************************************************************)
(* Instance of the inference worker: two requests that share an input and  *)
(* one that does not, on a cache that cannot hold all three.               *)
(***************************************************************************)
EXTENDS InferenceWorker, TLC

CONSTANTS r1, r2, r3, a, b

MCRequests == {r1, r2, r3}
MCInputs == {a, b}
MCInputOf == (r1 :> a) @@ (r2 :> a) @@ (r3 :> b)
MCInputTokenCount == (a :> 2) @@ (b :> 1)
MCMaxNewTokenCount == [r \in MCRequests |-> IF r = r3 THEN 1 ELSE 2]

\* r3 may decode while another request has a prefill as long as the whole batch.
MCLongMaxNewTokenCount == [r \in MCRequests |-> 2]
=============================================================================
