------------------------ MODULE MCPrefixCacheFlight ------------------------
(***************************************************************************)
(* Instance of the flight coordinator: three requests share an input, one  *)
(* carries another.                                                        *)
(***************************************************************************)
EXTENDS FlightRefinement, TLC

CONSTANTS r1, r2, r3, r4, a, b

MCRequests == {r1, r2, r3, r4}
MCInputs == {a, b}
MCInputOf == (r1 :> a) @@ (r2 :> a) @@ (r3 :> a) @@ (r4 :> b)
=============================================================================
