--------------------------- MODULE TextGeneration ---------------------------
(***************************************************************************)
(* Generation of text for the requests of one model executor               *)
(* (generation/text_generation.rs, draft_token_count.rs,                   *)
(* model_executor.rs): chunked prefill, decoding with the target model     *)
(* alone, and speculative decoding, where a draft model proposes tokens    *)
(* and the target model verifies them in one forward pass.                 *)
(*                                                                         *)
(* The data are abstracted to what the requests' answers depend on.  A     *)
(* model's KV cache is the sequence of the tokens that went through the    *)
(* model; what the model computes at a position depends on the cached      *)
(* tokens up to it.  A draft model may propose any token.  A target model  *)
(* that samples greedily has one continuation of every input, `reference`; *)
(* one that samples stochastically may select any token.                   *)
(*                                                                         *)
(* One thread runs a step for a batch of requests: it prepares the step,   *)
(* runs the draft model until every proposal is complete, runs the target  *)
(* model once, then completes the requests one by one.  Each of these may  *)
(* fail, and then the worker aborts every request of the batch.  The index *)
(* of published prefixes is the module PagedKvCache's: here a request      *)
(* restores any prefix of its input that ends before its last token.       *)
(***************************************************************************)
EXTENDS Integers, Sequences, FiniteSets

CONSTANTS
  Requests,
  GreedyRequests,       \* requests of temperature 0
  Tokens,
  EndOfSequenceTokens,
  InputTokens,          \* request -> its input, a nonempty sequence
  MaxNewTokenCount,     \* request -> the output limit, after normalisation
  MaxTokenBudget,       \* bound on the tokens one step gives to a prefill
  Policies,             \* the configured draft token-count policies
  ThresholdUnit,        \* thresholds are fractions of this
  NoToken

ASSUME TextGenerationAssumption ==
  /\ IsFiniteSet(Requests)
  /\ GreedyRequests \subseteq Requests
  /\ EndOfSequenceTokens \subseteq Tokens
  /\ InputTokens \in [Requests -> Seq(Tokens) \ {<<>>}]
  /\ MaxNewTokenCount \in [Requests -> Nat \ {0}]
  /\ MaxTokenBudget \in Nat \ {0}
  /\ ThresholdUnit \in Nat \ {0}
  /\ NoToken \notin Tokens
  /\ Policies \subseteq [name: {"Fixed", "AcceptanceRate", "AcceptedLength"},
                         initial: Nat, minimum: Nat, maximum: Nat,
                         decrease_threshold: Nat, increase_threshold: Nat]
  /\ \A p \in Policies :
       /\ 0 < p.minimum /\ p.minimum <= p.initial /\ p.initial <= p.maximum
       /\ p.name = "Fixed" => p.minimum = p.maximum
       /\ p.decrease_threshold <= p.increase_threshold /\ p.increase_threshold <= ThresholdUnit

VARIABLES
  speculative,               \* ModelExecutor::draft is Some
  policy,                    \* DraftModel::token_count_policy
  reference,                 \* greedy request -> what the target model alone would select
  stage,                     \* request -> New, Executing, Completed or Aborted
  tokens,                    \* request -> input and committed output
  generation_phase,          \* request -> <<phase, remaining or generated tokens>>
  target_position,           \* prefill_current_positions
  draft_position,
  target_cache,              \* request -> the tokens in the model's KV cache
  draft_cache,
  draft_token_count,         \* request -> the controller's selection
  smoothed_accepted_length,  \* request -> the controller's average, rounded
  step,                      \* Idle, DraftPrefill, Drafting or Completing
  batch,                     \* requests of the current step
  pending,                   \* requests of the batch that are not yet completed
  token_budget,              \* request -> its share of the step's tokens
  proposals                  \* request -> DraftProposal::token_ids

modelVars == <<speculative, policy, reference>>
stateVars == <<tokens, generation_phase, target_position, draft_position,
               draft_token_count, smoothed_accepted_length>>
stepVars == <<step, batch, pending, token_budget, proposals>>
vars == <<modelVars, stage, stateVars, target_cache, draft_cache, stepVars>>

Stages == {"New", "Executing", "Completed", "Aborted"}
Finished == {"EndOfSequenceToken", "MaxNewTokensReached"}
Phases == {"Prefill", "Decode"} \cup Finished

Smaller(a, b) == IF a < b THEN a ELSE b
Larger(a, b) == IF a < b THEN b ELSE a

InputTokenCount(r) == Len(InputTokens[r])
Phase(r) == generation_phase[r][1]
Output(r) == SubSeq(tokens[r], InputTokenCount(r) + 1, Len(tokens[r]))

Runnable == {r \in Requests : stage[r] = "Executing" /\ Phase(r) \notin Finished}

\* The tokens of s before its first end-of-sequence token: what is committed of it.
BeforeEndOfSequence(s) ==
  SubSeq(s, 1, Cardinality({i \in DOMAIN s : \A j \in 1 .. i : s[j] \notin EndOfSequenceTokens}))

-----------------------------------------------------------------------------
(* The draft token-count controller.                                       *)

Clamp(count, minimum, maximum) == Larger(minimum, Smaller(count, maximum))

\* Mutant of ControllerUpdates: the average sets the count, without the bounds.
UnboundedUpdates(r, accepted, proposed) ==
  LET smoothed == smoothed_accepted_length[r]
  IN  {<<average + 1, average>> :
         average \in Smaller(accepted, smoothed) .. Larger(accepted, smoothed)}

\* AcceptanceRate moves by one; AcceptedLength follows an average of the accepted counts, whose
\* rounded value stays between the last one and the new count, whatever the smoothing factor.
ControllerUpdates(r, accepted, proposed) ==
  LET rate == accepted * ThresholdUnit
      count == draft_token_count[r]
      smoothed == smoothed_accepted_length[r]
  IN  CASE policy.name = "Fixed" -> {<<count, smoothed>>}
        [] policy.name = "AcceptanceRate" ->
             {<<IF rate < policy.decrease_threshold * proposed
                  THEN Larger(count - 1, policy.minimum)
                ELSE IF rate > policy.increase_threshold * proposed
                  THEN Smaller(count + 1, policy.maximum)
                ELSE count, smoothed>>}
        [] policy.name = "AcceptedLength" ->
             {<<Clamp(average + 1, policy.minimum, policy.maximum), average>> :
                average \in Smaller(accepted, smoothed) .. Larger(accepted, smoothed)}

-----------------------------------------------------------------------------
(* What a step feeds to the models.                                        *)

PrefillEnd(r) == IF speculative THEN InputTokenCount(r) - 1 ELSE InputTokenCount(r)
\* Mutant of PrefillPosition: the chunk starts where the more advanced model stands.
FurthestPosition(r) == Larger(target_position[r], draft_position[r])

PrefillPosition(r) ==
  IF speculative THEN Smaller(target_position[r], draft_position[r]) ELSE target_position[r]
ChunkEnd(r) == Smaller(PrefillPosition(r) + token_budget[r], PrefillEnd(r))

\* A prefill feeds tokens of the input to each model that is behind the end of the chunk.
PrefillInput(r, position) ==
  [start |-> position, tokens |-> SubSeq(tokens[r], position + 1, ChunkEnd(r))]

LastToken(s) == s[Len(s)]

\* The cached tokens before a decode: all but the last committed token.
OriginalCachedTokenCount(r) == Len(tokens[r]) - 1

\* Decoding with the target alone feeds the last token; verification feeds it and every proposed
\* token but the last.
TargetInput(r) ==
  IF Phase(r) = "Prefill"
  THEN PrefillInput(r, target_position[r])
  ELSE [start |-> OriginalCachedTokenCount(r),
        tokens |-> <<LastToken(tokens[r])>>
                     \o SubSeq(proposals[r], 1, Len(proposals[r]) - 1)]

DraftPrefillInput(r) == PrefillInput(r, draft_position[r])

DraftProposalInput(r) ==
  [start |-> OriginalCachedTokenCount(r) + Len(proposals[r]),
   tokens |-> <<LastToken(tokens[r] \o proposals[r])>>]

Verifies(r) == speculative /\ Phase(r) = "Decode"

\* Mutants of MaximumDraftTokenCount: the output limit is ignored, or one place is kept back.
UnlimitedDraftTokenCount(r) == draft_token_count[r]
ReservingDraftTokenCount(r) ==
  Smaller(draft_token_count[r], MaxNewTokenCount[r] - generation_phase[r][2] - 1)

MaximumDraftTokenCount(r) ==
  Smaller(draft_token_count[r], MaxNewTokenCount[r] - generation_phase[r][2])

ActiveProposals ==
  {r \in batch : /\ Verifies(r)
                 /\ Len(proposals[r]) < MaximumDraftTokenCount(r)
                 /\ proposals[r] # <<>> => LastToken(proposals[r]) \notin EndOfSequenceTokens}

\* A model appends its input to the request's cache, and rejects one that starts elsewhere than
\* at the cache's end.  A request without input is not part of the forward.
Fits(cache, input) == input.tokens # <<>> => input.start = Len(cache)
Fed(cache, input) == cache \o input.tokens

-----------------------------------------------------------------------------
(* What the models answer.                                                 *)

IsOnReference(r, context) ==
  LET count == Len(context) - InputTokenCount(r)
  IN  /\ count \in 0 .. MaxNewTokenCount[r] - 1
      /\ context = InputTokens[r] \o SubSeq(reference[r], 1, count)

\* The tokens the target's sampler may select: the logits depend on the tokens the model saw, the
\* repetition penalty on the committed tokens and those appended to them.
TargetSelections(r, seen, penalized) ==
  IF r \in GreedyRequests /\ seen = penalized /\ IsOnReference(r, seen)
  THEN {reference[r][Len(seen) - InputTokenCount(r) + 1]}
  ELSE Tokens

\* Those after the last token fed to the target, and in place of the i-th proposed token.
NextSelections(r) == TargetSelections(r, target_cache[r], tokens[r])
\* Mutant of VerifiedSelections: the penalty forgets the proposed tokens before the i-th.
UnappendedSelections(r, i) ==
  TargetSelections(r, SubSeq(target_cache[r], 1, OriginalCachedTokenCount(r) + i), tokens[r])

VerifiedSelections(r, i) ==
  TargetSelections(r, SubSeq(target_cache[r], 1, OriginalCachedTokenCount(r) + i),
                   tokens[r] \o SubSeq(proposals[r], 1, i - 1))

\* verify_draft_tokens accepts proposed tokens up to the first one the target replaces, or to an
\* end-of-sequence token.  No sampler replaces a token by itself.
Verifications(r) ==
  {v \in [accepted: 0 .. Len(proposals[r]), replacement: Tokens \cup {NoToken}] :
     /\ \A i \in 1 .. v.accepted : proposals[r][i] \in VerifiedSelections(r, i)
     /\ \A i \in 1 .. v.accepted - 1 : proposals[r][i] \notin EndOfSequenceTokens
     /\ LET ended == v.accepted > 0 /\ proposals[r][v.accepted] \in EndOfSequenceTokens
            complete == v.accepted = Len(proposals[r]) \/ ended
        IN  IF complete
            THEN v.replacement = NoToken
            ELSE /\ v.replacement \in VerifiedSelections(r, v.accepted + 1)
                 /\ v.replacement # proposals[r][v.accepted + 1]}

ReplacementOf(v) == IF v.replacement = NoToken THEN <<>> ELSE <<v.replacement>>

\* Mutant of RetainedCachedTokenCount: the entry of the token before the replacement is dropped.
AcceptedCachedTokenCount(r, v) == OriginalCachedTokenCount(r) + v.accepted

RetainedCachedTokenCount(r, v) ==
  OriginalCachedTokenCount(r) + v.accepted + Len(ReplacementOf(v))

-----------------------------------------------------------------------------
(* The phases.                                                             *)

DeterminePrefillPhase(remaining) ==
  IF remaining = 0 THEN <<"Decode", 0>> ELSE <<"Prefill", remaining>>

DetermineDecodePhase(r, generated, should_continue) ==
  IF ~should_continue THEN <<"EndOfSequenceToken", 0>>
  ELSE IF generated < MaxNewTokenCount[r] THEN <<"Decode", generated>>
  ELSE <<"MaxNewTokensReached", 0>>

\* Commits `selected` up to an end-of-sequence token and determines the phase after it.
Commit(r, generated, selected) ==
  LET committed == BeforeEndOfSequence(selected)
  IN  /\ tokens' = [tokens EXCEPT ![r] = @ \o committed]
      /\ generation_phase' = [generation_phase EXCEPT ![r] =
           DetermineDecodePhase(r, generated + Len(committed), committed = selected)]

-----------------------------------------------------------------------------

TextGenerationInit ==
  /\ speculative \in BOOLEAN
  /\ policy \in Policies
  /\ reference \in [GreedyRequests -> UNION {[1 .. n -> Tokens] : n \in
                      {MaxNewTokenCount[r] : r \in GreedyRequests}}]
  /\ \A r \in GreedyRequests : DOMAIN reference[r] = 1 .. MaxNewTokenCount[r]
  /\ stage = [r \in Requests |-> "New"]
  /\ tokens = InputTokens
  /\ generation_phase = [r \in Requests |-> <<"Prefill", Len(InputTokens[r])>>]
  /\ target_position = [r \in Requests |-> 0]
  /\ draft_position = [r \in Requests |-> 0]
  /\ target_cache = [r \in Requests |-> <<>>]
  /\ draft_cache = [r \in Requests |-> <<>>]
  /\ draft_token_count = [r \in Requests |-> policy.initial]
  /\ smoothed_accepted_length = [r \in Requests |-> policy.initial - 1]
  /\ step = "Idle"
  /\ batch = {}
  /\ pending = {}
  /\ token_budget = [r \in Requests |-> 0]
  /\ proposals = [r \in Requests |-> <<>>]

\* ModelExecutor::start_request: each model restores a prefix of the input without its last
\* token, independently of the other.
StartRequest(r) ==
  /\ step = "Idle"
  /\ stage[r] = "New"
  /\ \E target \in 0 .. InputTokenCount(r) - 1,
        draft \in IF speculative THEN 0 .. InputTokenCount(r) - 1 ELSE {0} :
       /\ target_position' = [target_position EXCEPT ![r] = target]
       /\ draft_position' = [draft_position EXCEPT ![r] = draft]
       /\ target_cache' = [target_cache EXCEPT ![r] = SubSeq(InputTokens[r], 1, target)]
       /\ draft_cache' = [draft_cache EXCEPT ![r] = SubSeq(InputTokens[r], 1, draft)]
       /\ generation_phase' = [generation_phase EXCEPT ![r] = DeterminePrefillPhase(
            IF speculative THEN InputTokenCount(r) - 1 - Smaller(target, draft)
            ELSE InputTokenCount(r) - target)]
  /\ stage' = [stage EXCEPT ![r] = "Executing"]
  /\ UNCHANGED <<modelVars, tokens, draft_token_count, smoothed_accepted_length, stepVars>>

\* A model that cannot start or restore: the caches of both are cleared.
FailToStartRequest(r) ==
  /\ step = "Idle"
  /\ stage[r] = "New"
  /\ stage' = [stage EXCEPT ![r] = "Aborted"]
  /\ UNCHANGED <<modelVars, stateVars, target_cache, draft_cache, stepVars>>

\* run_steps, prepare_forward: the worker selects the batch and the budgets.
PrepareStep ==
  /\ step = "Idle"
  /\ \E selected \in SUBSET Runnable \ {{}} :
       /\ batch' = selected
       /\ pending' = selected
       /\ \E budget \in [selected -> 1 .. MaxTokenBudget] :
            token_budget' = [r \in Requests |-> IF r \in selected THEN budget[r] ELSE 0]
  /\ step' = IF speculative THEN "DraftPrefill" ELSE "Drafting"
  /\ UNCHANGED <<modelVars, stage, stateVars, target_cache, draft_cache, proposals>>

\* run_speculative_decoding_steps: one draft forward for all the prefills of the batch.
RunDraftPrefill ==
  LET prefills == {r \in batch : Phase(r) = "Prefill"}
  IN  /\ step = "DraftPrefill"
      /\ \A r \in prefills : Fits(draft_cache[r], DraftPrefillInput(r))
      /\ draft_cache' = [r \in Requests |->
           IF r \in prefills THEN Fed(draft_cache[r], DraftPrefillInput(r)) ELSE draft_cache[r]]
      /\ step' = "Drafting"
      /\ UNCHANGED <<modelVars, stage, stateVars, target_cache,
                     batch, pending, token_budget, proposals>>

\* generate_draft_proposals: one draft forward for all the incomplete proposals.
ProposeDraftTokens ==
  /\ step = "Drafting"
  /\ ActiveProposals # {}
  /\ \A r \in ActiveProposals : Fits(draft_cache[r], DraftProposalInput(r))
  /\ draft_cache' = [r \in Requests |->
       IF r \in ActiveProposals THEN Fed(draft_cache[r], DraftProposalInput(r))
       ELSE draft_cache[r]]
  /\ \E sampled \in [ActiveProposals -> Tokens] :
       proposals' = [r \in Requests |->
         IF r \in ActiveProposals THEN Append(proposals[r], sampled[r]) ELSE proposals[r]]
  /\ UNCHANGED <<modelVars, stage, stateVars, target_cache, step, batch, pending, token_budget>>

\* run_combined_target_forward: prefills, decodes and verifications in one forward.
RunTargetForward ==
  /\ step = "Drafting"
  /\ ActiveProposals = {}
  /\ \A r \in batch : /\ Verifies(r) => proposals[r] # <<>>
                      /\ Fits(target_cache[r], TargetInput(r))
  /\ target_cache' = [r \in Requests |->
       IF r \in batch THEN Fed(target_cache[r], TargetInput(r)) ELSE target_cache[r]]
  /\ step' = "Completing"
  /\ UNCHANGED <<modelVars, stage, stateVars, draft_cache,
                 batch, pending, token_budget, proposals>>

\* The request's step is complete; the last one ends the step of the batch.
EndStepOf(r) ==
  /\ step = "Completing"
  /\ r \in pending
  /\ pending' = pending \ {r}
  /\ IF pending = {r}
     THEN step' = "Idle" /\ batch' = {}
     ELSE UNCHANGED <<step, batch>>
  /\ token_budget' = [token_budget EXCEPT ![r] = 0]
  /\ proposals' = [proposals EXCEPT ![r] = <<>>]
  /\ UNCHANGED <<modelVars, stage>>

\* complete_forward, Prefill: the chunk that ends the input also gives the first token.
CompletePrefill(r) ==
  /\ EndStepOf(r)
  /\ ~speculative
  /\ Phase(r) = "Prefill"
  /\ target_position' = [target_position EXCEPT ![r] = ChunkEnd(r)]
  /\ IF ChunkEnd(r) < InputTokenCount(r)
     THEN /\ generation_phase' = [generation_phase EXCEPT ![r] =
               DeterminePrefillPhase(InputTokenCount(r) - ChunkEnd(r))]
          /\ UNCHANGED tokens
     ELSE \E token \in NextSelections(r) : Commit(r, 0, <<token>>)
  /\ UNCHANGED <<draft_position, draft_token_count, smoothed_accepted_length,
                 target_cache, draft_cache>>

\* complete_forward, Decode.
CompleteDecode(r) ==
  /\ EndStepOf(r)
  /\ ~speculative
  /\ Phase(r) = "Decode"
  /\ \E token \in NextSelections(r) : Commit(r, generation_phase[r][2], <<token>>)
  /\ UNCHANGED <<target_position, draft_position, draft_token_count, smoothed_accepted_length,
                 target_cache, draft_cache>>

\* complete_speculative_prefill: the phase follows the model that is behind.
CompleteSpeculativePrefill(r) ==
  LET target == Larger(target_position[r], ChunkEnd(r))
      draft == Larger(draft_position[r], ChunkEnd(r))
  IN  /\ EndStepOf(r)
      /\ speculative
      /\ Phase(r) = "Prefill"
      /\ PrefillPosition(r) < ChunkEnd(r)
      /\ target_position' = [target_position EXCEPT ![r] = target]
      /\ draft_position' = [draft_position EXCEPT ![r] = draft]
      /\ generation_phase' = [generation_phase EXCEPT ![r] =
           DeterminePrefillPhase(PrefillEnd(r) - Smaller(target, draft))]
      /\ UNCHANGED <<tokens, draft_token_count, smoothed_accepted_length,
                     target_cache, draft_cache>>

\* complete_speculative_decode: verify the proposal, adapt the draft token count, cut both caches
\* back to the verified tokens, commit them.
CompleteSpeculativeDecode(r) ==
  /\ EndStepOf(r)
  /\ Verifies(r)
  /\ \E v \in Verifications(r) :
     \E update \in ControllerUpdates(r, v.accepted, Len(proposals[r])) :
       LET retained == RetainedCachedTokenCount(r, v)
       IN  /\ draft_token_count' = [draft_token_count EXCEPT ![r] = update[1]]
           /\ smoothed_accepted_length' = [smoothed_accepted_length EXCEPT ![r] = update[2]]
           /\ retained <= Len(target_cache[r])
           /\ target_cache' = [target_cache EXCEPT ![r] = SubSeq(@, 1, retained)]
           /\ retained <= Len(draft_cache[r])
           /\ draft_cache' = [draft_cache EXCEPT ![r] = SubSeq(@, 1, retained)]
           /\ Commit(r, generation_phase[r][2],
                     SubSeq(proposals[r], 1, v.accepted) \o ReplacementOf(v))
  /\ UNCHANGED <<target_position, draft_position>>

\* run_steps returns an error, from a model, a sampler or a check: the worker aborts the batch.
FailStep ==
  /\ step # "Idle"
  /\ stage' = [r \in Requests |-> IF r \in batch THEN "Aborted" ELSE stage[r]]
  /\ target_cache' = [r \in Requests |-> IF r \in batch THEN <<>> ELSE target_cache[r]]
  /\ draft_cache' = [r \in Requests |-> IF r \in batch THEN <<>> ELSE draft_cache[r]]
  /\ step' = "Idle"
  /\ batch' = {}
  /\ pending' = {}
  /\ token_budget' = [r \in Requests |-> 0]
  /\ proposals' = [r \in Requests |-> <<>>]
  /\ UNCHANGED <<modelVars, stateVars>>

ReleaseCaches(r, outcome) ==
  /\ step = "Idle"
  /\ stage[r] = "Executing"
  /\ stage' = [stage EXCEPT ![r] = outcome]
  /\ target_cache' = [target_cache EXCEPT ![r] = <<>>]
  /\ draft_cache' = [draft_cache EXCEPT ![r] = <<>>]
  /\ UNCHANGED <<modelVars, stateVars, stepVars>>

\* ModelExecutor::abort_request, between steps.
AbortRequest(r) == ReleaseCaches(r, "Aborted")

\* ModelExecutor::finish_request: both models publish and release, or the request is aborted.
FinishRequest(r) ==
  /\ Phase(r) \in Finished
  /\ \E outcome \in {"Completed", "Aborted"} : ReleaseCaches(r, outcome)

CompleteRequest(r) ==
  \/ CompletePrefill(r)
  \/ CompleteDecode(r)
  \/ CompleteSpeculativePrefill(r)
  \/ CompleteSpeculativeDecode(r)

TextGenerationNext ==
  \/ PrepareStep
  \/ RunDraftPrefill
  \/ ProposeDraftTokens
  \/ RunTargetForward
  \/ FailStep
  \/ \E r \in Requests :
       \/ StartRequest(r)
       \/ FailToStartRequest(r)
       \/ CompleteRequest(r)
       \/ AbortRequest(r)
       \/ FinishRequest(r)

TextGenerationSpec == TextGenerationInit /\ [][TextGenerationNext]_vars

-----------------------------------------------------------------------------
(* Properties.                                                             *)

\* Every value is in its range; in particular the draft token count stays within the bounds of its
\* policy whatever is accepted (draft_token_count.rs).
GenerationTypeOK ==
  /\ speculative \in BOOLEAN
  /\ policy \in Policies
  /\ stage \in [Requests -> Stages]
  /\ tokens \in [Requests -> Seq(Tokens)]
  /\ generation_phase \in [Requests -> Phases \X Nat]
  /\ target_position \in [Requests -> Nat]
  /\ draft_position \in [Requests -> Nat]
  /\ target_cache \in [Requests -> Seq(Tokens)]
  /\ draft_cache \in [Requests -> Seq(Tokens)]
  /\ draft_token_count \in [Requests -> policy.minimum .. policy.maximum]
  /\ smoothed_accepted_length \in [Requests -> Nat]
  /\ step \in {"Idle", "DraftPrefill", "Drafting", "Completing"}
  /\ batch \subseteq Requests /\ pending \subseteq batch \cap Runnable
  /\ token_budget \in [Requests -> 0 .. MaxTokenBudget]
  /\ proposals \in [Requests -> Seq(Tokens)]

BeginsWith(s, prefix) == Len(prefix) <= Len(s) /\ prefix = SubSeq(s, 1, Len(prefix))

\* Between steps every cache holds the beginning of the committed sequence and nothing else: a
\* decoding request has all but the last token in each of its models' caches, so neither a rejected
\* proposal nor a gap is left for the next step, or published for other requests
\* (complete_speculative_iteration: "retain exactly the verified input prefix").
CachesHoldCommittedTokens ==
  \A r \in Requests : stage[r] = "Executing" /\ r \notin pending =>
    /\ BeginsWith(tokens[r], target_cache[r])
    /\ BeginsWith(tokens[r], draft_cache[r])
    /\ Phase(r) = "Prefill" => /\ Len(target_cache[r]) = target_position[r]
                               /\ Len(draft_cache[r]) = draft_position[r]
    /\ Phase(r) = "Decode" => /\ Len(target_cache[r]) = Len(tokens[r]) - 1
                              /\ speculative => Len(draft_cache[r]) = Len(tokens[r]) - 1

\* Even while proposals are verified no cache exceeds what the scheduler reserved for the request,
\* its input and its output without the last token (get_maximum_cached_token_count).
ReservationCoversThePeak ==
  \A r \in Requests :
    /\ Len(target_cache[r]) <= InputTokenCount(r) + MaxNewTokenCount[r] - 1
    /\ Len(draft_cache[r]) <= InputTokenCount(r) + MaxNewTokenCount[r] - 1

\* A greedy request gets the output of its target model alone, whatever the draft model proposes,
\* however the input is cut into chunks and whatever the batch; and every request ends for the
\* reason it reports: an end-of-sequence token, which is not part of the output, or its limit.
OutputIsTheTargetsOwn ==
  \A r \in Requests :
    /\ Phase(r) = "MaxNewTokensReached" => Len(Output(r)) = MaxNewTokenCount[r]
    /\ Phase(r) \in {"Decode", "EndOfSequenceToken"} => Len(Output(r)) < MaxNewTokenCount[r]
    /\ r \in GreedyRequests =>
         LET own == BeforeEndOfSequence(reference[r])
         IN  /\ BeginsWith(own, Output(r))
             /\ Phase(r) = "EndOfSequenceToken" => Output(r) = own

\* No check of the step can fail and no value leaves its range: each forward starts where the cache ends, a proposal is never
\* empty, a prefill always advances a model, and a truncation never asks for more than is cached.
SelfChecksNeverFail ==
  /\ GenerationTypeOK
  /\ step # "Idle" => \A r \in pending :
       Phase(r) = "Prefill" => PrefillPosition(r) < ChunkEnd(r)
  /\ step = "DraftPrefill" => \A r \in batch :
       Phase(r) = "Prefill" => Fits(draft_cache[r], DraftPrefillInput(r))
  /\ step = "Drafting" =>
       /\ \A r \in ActiveProposals : Fits(draft_cache[r], DraftProposalInput(r))
       /\ \A r \in batch : Fits(target_cache[r], TargetInput(r))
       /\ ActiveProposals = {} => \A r \in batch : Verifies(r) => proposals[r] # <<>>
  /\ step = "Completing" => \A r \in pending : Verifies(r) =>
       \A v \in Verifications(r) :
         /\ RetainedCachedTokenCount(r, v) <= Len(target_cache[r])
         /\ RetainedCachedTokenCount(r, v) <= Len(draft_cache[r])

\* A completed step does what the scheduler counts on: a prefill advances by its budget, even if
\* the two models stand at different positions, and a decode adds a token or ends the request.
StepAdvances(r) ==
  LET before == generation_phase[r][2]
      left == before - Smaller(token_budget[r], before)
  IN  IF Phase(r) = "Prefill"
      THEN IF left > 0 THEN generation_phase'[r] = <<"Prefill", left>> ELSE Phase(r)' # "Prefill"
      ELSE \/ Phase(r)' \in Finished
           \/ generation_phase'[r] = <<"Decode", Len(Output(r)')>> /\ Len(Output(r)') > before

StepsAdvance ==
  [][\A r \in pending : r \notin pending' /\ stage'[r] = "Executing" => StepAdvances(r)]_vars
=============================================================================
