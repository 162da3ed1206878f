--------------------------- MODULE MCPagedKvCache ---------------------------
(***************************************************************************)
(* Instance of the paged KV cache.  All requests share their first block;  *)
(* r1 and r2 differ in the second, and r3 is too short to restore its      *)
(* block.  A prefix is the sequence of its blocks.                         *)
(***************************************************************************)
EXTENDS PagedKvCache, TLC

CONSTANTS r1, r2, r3, p1, p2, p3, p4, p5, p6, x, y, z

MCRequests == {r1, r2, r3}
MCRoot == <<>>
MCPrefixes == {<<x>>, <<x, y>>, <<x, z>>}
MCPages == {p1, p2, p3, p4, p5, p6}
MCPrefixAt == [r \in Requests |-> CASE r = r1 -> <<<<x>>, <<x, y>>>>
                                    [] r = r2 -> <<<<x>>, <<x, z>>>>
                                    [] r = r3 -> <<<<x>>>>]
MCInputTokenCount == [r \in Requests |-> IF r = r3 THEN 2 ELSE 3]
MCMaxCachedTokenCount == [r \in Requests |-> IF r = r3 THEN 2 ELSE 4]
PageSymmetry == Permutations(Pages)
=============================================================================
