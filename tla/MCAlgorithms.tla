---------------------------- MODULE MCAlgorithms ----------------------------
(***************************************************************************)
(* The computations without concurrency, each against its reference: the   *)
(* attention of a model over its caches, which has a state of its own, and *)
(* three functions of their inputs (sampling and verification, the limits  *)
(* of a start-up, the configuration), of which a behaviour computes one.   *)
(***************************************************************************)
EXTENDS Attention, Sampling, Limits, Configuration

CONSTANTS r1, r2, t1, t2

VARIABLE input

None == [kind |-> "none"]

-----------------------------------------------------------------------------
(* Attention                                                               *)

MCRequests == {r1, r2}

MCTokens == {t1, t2}

MCGenerationInputs == {<<t1>>, <<t2, t1, t1>>}

MCVerificationInputs == {<<t2, t1>>}

Mode(cache_type, device, grouped, paged_attention, pagewise) ==
  [cache |-> cache_type, device |-> device, grouped |-> grouped,
   paged_attention |-> paged_attention, pagewise |-> pagewise]

MCModes ==
  {Mode("Contiguous", "cpu", TRUE, FALSE, FALSE), Mode("Contiguous", "metal", FALSE, FALSE, FALSE),
   Mode("Paged", "cuda", FALSE, FALSE, FALSE), Mode("Paged", "cpu", TRUE, TRUE, TRUE),
   Mode("Paged", "cpu", FALSE, TRUE, FALSE)}

-----------------------------------------------------------------------------
(* Sampling: logits are logarithms of small weights, budgets are shares of *)
(* the probability that the verification may give up.                      *)

SamplingCases ==
  [target_logits : {l \in [1 .. 4 -> 0 .. 2] : l[4] = 1},
   draft_logits : [1 .. 3 -> {0, 2}] \cup {<<3, 0, 2>>}, vocabulary_size : {3},
   budget : {0, 5, 20}, committed : {<<1, 2>>}, appended : {<<>>, <<3>>},
   repeat_last_n : {0, 2, 3}]

-----------------------------------------------------------------------------
(* Limits                                                                  *)

File(layer_count, key_value_width, context_length, unused, input_size, output_size) ==
  [layer_count |-> layer_count, key_value_width |-> key_value_width,
   context_length |-> context_length, unused |-> unused, input_size |-> input_size,
   output_size |-> output_size]

Targets ==
  {File(2, 1, 7, <<FALSE, FALSE, TRUE>>, 2, 3), File(3, 2, 20, <<FALSE, FALSE>>, 2, 3)}

Drafts ==
  {{}, {File(1, 1, 5, <<FALSE, FALSE>>, 2, 2)}, {File(3, 1, 30, <<FALSE, FALSE, FALSE>>, 3, 3)},
   {File(3, 1, 30, <<FALSE, TRUE, FALSE, TRUE>>, 3, 3)}}

StartupCases ==
  [target : Targets, draft : Drafts, tokenizer_size : {2, 3},
   draft_tokenizer : {"none", "same", "other"},
   devices : {<<>>, <<"Cpu">>, <<"Gpu", "Cpu", "Gpu">>}, activation : {"F16", "F32"},
   gpu_build : {TRUE},
   cache : {[type |-> "Contiguous", page_tokens |-> 1], [type |-> "Paged", page_tokens |-> 2]},
   target_bytes : {24, 130}, draft_bytes : {0, 50}, max_active : {3}]

-----------------------------------------------------------------------------
(* Configurations: the cache with the policies that depend on it; the      *)
(* scheduler; the profiles; the models.  Each varies against a command     *)
(* line that leaves the rest to the defaults.                              *)

GoodModel == [named |-> TRUE, gguf |-> TRUE, revision |-> "v1"]

Models == {GoodModel, [GoodModel EXCEPT !.revision = ""], [GoodModel EXCEPT !.gguf = FALSE]}

Quiet ==
  [kv |-> [type |-> "Unspecified", page_tokens |-> 0, target_bytes |-> 0, draft_bytes |-> 0,
           publication |-> "Unspecified"],
   scheduler |-> [batched |-> 0, active |-> 0, policy |-> "Unspecified",
                  coordination |-> "Unspecified"],
   orchestrator |-> {}, files |-> {}, threads |-> 0, model |-> GoodModel, draft |-> {},
   devices |-> <<"Gpu">>]

KvCaches ==
  [type : {"Unspecified", "Unknown", "Contiguous", "Paged", "PagedPrefix"}, page_tokens : {0, 8},
   target_bytes : {0, 64}, draft_bytes : {0, 32},
   publication : {"Unspecified", "Unknown", "OnRequestCompletion", "Incremental"}]

Coordinations ==
  {"Unspecified", "Unknown", "Independent", "ExactInputSingleFlightUntilPrefixPublished"}

Routings == {"Unspecified", "Unknown", "LeastRequests", "MostCachedPrefix"}

CacheCases ==
  {[Quiet EXCEPT !.kv = kv, !.scheduler.coordination = c,
                 !.orchestrator = {[routing |-> r, profiles |-> {}]}] :
     kv \in KvCaches, c \in Coordinations, r \in Routings}

SchedulerCases ==
  {[Quiet EXCEPT !.scheduler = s, !.threads = t] :
     s \in [batched : {0, 9}, active : {0, 3}, coordination : {"Unspecified", "Independent"},
            policy : {"Unspecified", "Unknown", "ShortestPrefillFirst"}], t \in {0, 2}}

SlowProfile == [DefaultProfile EXCEPT !.gpu_decode = 0]

FastProfile == [DefaultProfile EXCEPT !.gpu_decode = 5, !.cpu_decode = 7]

ProfileLists == {<<>>, <<FastProfile>>, <<FastProfile, SlowProfile>>, <<FastProfile, DefaultProfile>>}

ProfileCases ==
  {[Quiet EXCEPT !.orchestrator = o, !.files = f] :
     o \in {{}} \cup {{[routing |-> "RoundRobin", profiles |-> p]} :
                        p \in {{}} \cup {{l} : l \in ProfileLists}},
     f \in {{}} \cup {{[readable |-> y, parses |-> z, profiles |-> l]} :
                        y, z \in BOOLEAN, l \in ProfileLists}}

AdaptiveCounts == {<<1, 1, 3>>, <<2, 1, 3>>, <<3, 1, 3>>, <<4, 1, 3>>, <<1, 2, 3>>, <<0, 0, 3>>}

DraftPolicies ==
  {[kind |-> "None"]}
    \cup [kind : {"Fixed"}, count : {0, 2}]
    \cup {[kind |-> "AcceptanceRate", initial |-> c[1], minimum |-> c[2], maximum |-> c[3],
           decrease |-> t[1], increase |-> t[2]] :
            c \in AdaptiveCounts, t \in {<<0, 100>>, <<50, 50>>, <<-1, 50>>, <<50, 101>>}}
    \cup {[kind |-> "AcceptedLength", initial |-> c[1], minimum |-> c[2], maximum |-> c[3],
           smoothing |-> s] : c \in AdaptiveCounts, s \in {0, 1, 100, 101}}

ModelCases ==
  {[Quiet EXCEPT !.model = m,
                 !.draft = {[model |-> d, policy |-> p]}] :
     m \in Models, d \in {{}} \cup {{n} : n \in Models},
     p \in {{}} \cup {{q} : q \in DraftPolicies}}

ConfigurationCases == CacheCases \cup SchedulerCases \cup ProfileCases \cup ModelCases

-----------------------------------------------------------------------------

Init == AttentionInit /\ input = None

\* The three functions need no state of the attention: one of its initial states does.
FirstState ==
  /\ calls = 0
  /\ mode = Mode("Contiguous", "cpu", TRUE, FALSE, FALSE)
  /\ input = None

Compute(kind, cases) ==
  /\ FirstState
  /\ \E c \in cases : input' = [kind |-> kind, case |-> c]
  /\ UNCHANGED attentionVars

Next ==
  \/ input = None /\ AttentionNext /\ UNCHANGED input
  \/ Compute("sampling", SamplingCases)
  \/ Compute("startup", StartupCases)
  \/ Compute("configuration", ConfigurationCases)

Spec == Init /\ [][Next]_<<attentionVars, input>>

\* Sampler and verification: Sampling.tla says it of one case.
SamplingIsFaithful == input.kind = "sampling" => SamplingFollowsTheTarget(input.case)

\* A request that passes the limits of its start-up fits in it: Limits.tla says it of one case.
LimitsHold == input.kind = "startup" => AcceptedRequestsFit(input.case, 0 .. 8, 0 .. 8)

\* Both processes work with the configuration that was validated: Configuration.tla says it of
\* one command line.
ConfigurationsAgree == input.kind = "configuration" => ConfigurationAgrees(input.case)
=============================================================================
