----------------------- MODULE MCRequestOrchestrator -----------------------
(***************************************************************************)
(* Instance of the orchestrator: two backends of unequal speed and three   *)
(* requests, of which one has a reusable prefix and one names a backend.   *)
(***************************************************************************)
EXTENDS RequestOrchestrator, TLC

CONSTANTS r1, r2, r3

MCRequests == {r1, r2, r3}
MCInputTokenCount == (r1 :> 2) @@ (r2 :> 1) @@ (r3 :> 1)
MCMaxNewTokenCount == (r1 :> 1) @@ (r2 :> 2) @@ (r3 :> 1)
MCCachedTokenCount == [r \in MCRequests |-> IF r = r1 THEN 1 ELSE 0]
MCBackendOverride == [r \in MCRequests |-> IF r = r3 THEN 2 ELSE NoBackend]
MCProfiles ==
  << [input |-> 1, output |-> 1, prefill |-> <<1, 4>>, decode |-> <<1, 2>>],
     [input |-> 2, output |-> 2, prefill |-> <<1, 8>>, decode |-> <<2, 1>>] >>
MCPolicies == {"RoundRobin", "LeastRequests", "LeastEstimatedWork", "MostCachedPrefix",
               "CacheAwareLeastEstimatedWork"}
=============================================================================
