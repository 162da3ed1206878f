-------------------------- MODULE MCTextGeneration --------------------------
(* Two requests of one model executor, one greedy and one stochastic.      *)
EXTENDS TextGeneration, TLC

CONSTANTS greedy, stochastic, a, b, end

MCRequests == {greedy, stochastic}
MCGreedyRequests == {greedy}
MCTokens == {a, b, end}
MCEndOfSequenceTokens == {end}

\* An input of three tokens is cut into chunks and partly restored; one of one token needs no
\* prefill before speculative decoding.
MCInputTokens == (greedy :> <<a, b, a>>) @@ (stochastic :> <<b>>)

\* The greedy request has room for a proposal that is accepted, and another after it.
MCMaxNewTokenCount == (greedy :> 3) @@ (stochastic :> 2)

MCPolicy(name, initial, minimum, maximum) ==
  [name |-> name, initial |-> initial, minimum |-> minimum, maximum |-> maximum,
   decrease_threshold |-> 1, increase_threshold |-> 2]

\* Proposals of up to three tokens, in thirds of which the adaptive policies decide.
MCPolicies == {MCPolicy("Fixed", 2, 2, 2), MCPolicy("AcceptanceRate", 2, 1, 3),
               MCPolicy("AcceptedLength", 2, 1, 3)}
=============================================================================
