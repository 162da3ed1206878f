------------------------------ MODULE Sampling ------------------------------
(***************************************************************************)
(* Token selection (generation/sampler.rs): the repetition window, the     *)
(* vocabulary, and the verification of a draft token against the target    *)
(* distribution, with the total-variation budget that lets a draft token   *)
(* stand although the target model would not have it.                      *)
(*                                                                         *)
(* A token is its index, from 1.  Logits are natural weights, the softmax  *)
(* of a token being its weight over the sum: a distribution is a function  *)
(* to the naturals together with its sum, and probabilities are compared   *)
(* as fractions over a common denominator.  The code rounds in f64.        *)
(***************************************************************************)
EXTENDS Integers, Sequences, FiniteSets, FiniteSetsExt, SequencesExt

Mass(weights) == MapThenSumSet(LAMBDA x : weights[x], DOMAIN weights)

\* The tokens that apply_repetition_penalty penalises: the last repeat_last_n of the committed
\* tokens and the speculative prefix after them.
RepetitionWindow(committed, appended, repeat_last_n) ==
  LET total == Len(committed) + Len(appended)
      start == IF total > repeat_last_n THEN total - repeat_last_n ELSE 0
      appended_start == IF start > Len(committed) THEN start - Len(committed) ELSE 0
  IN  SubSeq(committed, start + 1, Len(committed))
      \o SubSeq(appended, appended_start + 1, Len(appended))

\* apply_repeat_penalty of the candle library: once for each token, however often it occurs.
Penalised(logits, window) ==
  [x \in DOMAIN logits |-> IF x \in ToSet(window) THEN logits[x] \div 2 ELSE logits[x]]

\* calculate_probabilities: rows of the model beyond the tokenizer's vocabulary are cut off.
CalculateProbabilities(logits, window, vocabulary_size) ==
  [x \in 1 .. vocabulary_size |-> Penalised(logits, window)[x]]

\* Both distributions over the product of their sums.
Normalised(p, q) == [p |-> [x \in DOMAIN p |-> p[x] * Mass(q)],
                     q |-> [x \in DOMAIN q |-> q[x] * Mass(p)]]

\* Mutant: a rejected token is replaced by a sample of the target distribution.
ResidualOfTarget(p, q) == p

Residual(p, q) == [x \in DOMAIN p |-> IF p[x] > q[x] THEN p[x] - q[x] ELSE 0]

TotalVariation(p, q) == MapThenSumSet(LAMBDA x : IF p[x] > q[x] THEN p[x] - q[x] ELSE 0, DOMAIN p)

\* The probability that verify_stochastic_draft_token keeps the draft token x, as <<numerator,
\* denominator>>; budget is over the same denominator as p and q.
Acceptance(p, q, budget, x) ==
  LET tv == TotalVariation(p, q)
  IN  IF p[x] >= q[x] \/ tv <= budget THEN <<1, 1>>
      ELSE <<budget * q[x] + (tv - budget) * p[x], tv * q[x]>>

\* The law of the token that comes out of one verification, as weights: the draft token is
\* drawn from q and kept, or rejected and replaced by a draw from the residual.
OutcomeLaw(p, q, budget) ==
  LET scale == IF TotalVariation(p, q) = 0 THEN 1 ELSE TotalVariation(p, q)
      residual == Residual(p, q)
      Kept(x) == LET a == Acceptance(p, q, budget, x)
                 IN  (q[x] * scale * a[1]) \div a[2]
      rejected == MapThenSumSet(LAMBDA x : q[x] * scale - Kept(x), DOMAIN p)
  IN  IF rejected = 0 THEN [x \in DOMAIN p |-> Kept(x)]
      ELSE [x \in DOMAIN p |-> Kept(x) * Mass(residual) + rejected * residual[x]]

-----------------------------------------------------------------------------
(* One position of a proposal                                              *)

\* The verification of case c; its budget is over the common denominator of p and q.
Verification(c) ==
  LET window == RepetitionWindow(c.committed, c.appended, c.repeat_last_n)
      p == CalculateProbabilities(c.target_logits, window, c.vocabulary_size)
      q == CalculateProbabilities(c.draft_logits, window, c.vocabulary_size)
      n == Normalised(p, q)
  IN  [p |-> n.p, q |-> n.q, law |-> OutcomeLaw(n.p, n.q, c.budget)]

\* The distribution that the target model alone would sample from, had it generated the draft.
TargetAlone(c) ==
  LET tokens == c.committed \o c.appended
      recent == {tokens[i] : i \in {j \in DOMAIN tokens : j > Len(tokens) - c.repeat_last_n}}
  IN  [x \in 1 .. c.vocabulary_size |->
         IF x \in recent THEN c.target_logits[x] \div 2 ELSE c.target_logits[x]]

SameLaw(f, g) == \A x \in DOMAIN f : f[x] * Mass(g) = g[x] * Mass(f)

\* The token that comes out of a verification follows the mentored distribution
\* theta * q + (1 - theta) * p that the code announces, theta = min(1, D / D_TV): it is no
\* further from the target's own law than the budget D, and is exactly the target's law when D
\* is zero - the law the target has after the same tokens, its repetition window reaching into
\* the draft.
SamplingFollowsTheTarget(c) ==
  LET v == Verification(c)
      tv == TotalVariation(v.p, v.q)
      mentored == IF tv <= c.budget THEN v.q
                  ELSE [x \in DOMAIN v.p |-> c.budget * v.q[x] + (tv - c.budget) * v.p[x]]
      n == Normalised(v.law, v.p)
  IN  Mass(v.p) > 0 =>
        /\ SameLaw(v.p, TargetAlone(c))
        /\ SameLaw(v.law, mentored)
        /\ TotalVariation(n.p, n.q) <= c.budget * Mass(v.law)
        /\ c.budget = 0 => SameLaw(v.law, TargetAlone(c))
=============================================================================
