-------------------------- MODULE MCRequestHandler --------------------------
(* Instances of RequestHandler: two threads and one call more than threads.   *)
(* The runner may accept one of the calls, streamed or buffered; the others   *)
(* compete with it for the pool.                                              *)
EXTENDS RequestHandler

CONSTANTS r1, r2, r3, w1, w2

MCRequests == {r1, r2, r3}
MCMaxTokens == r1 :> 2 @@ r2 :> 0 @@ r3 :> 0
MCStreamedSets == {{}, {r1}}

=============================================================================
