---------------------------- MODULE Configuration ----------------------------
(***************************************************************************)
(* The way of a configuration from the command line of the main process to *)
(* the model runner: resolved and normalized (main_process/cli.rs),        *)
(* validated (proto/inference_config.rs), converted to the program's own   *)
(* types (model_runner/mod.rs), written on the runner's command line as    *)
(* text (model_runner/client.rs, proto/textproto.rs), read back and        *)
(* converted again there.                                                  *)
(*                                                                         *)
(* A message is a record.  An optional part is a set of at most one value. *)
(* An enumeration that the message leaves out reads "Unspecified", and a   *)
(* number that names no variant is "Unknown".  Thresholds and smoothing    *)
(* factors are percentages; a value that is not finite is like any other   *)
(* one out of range.                                                       *)
(***************************************************************************)
EXTENDS Integers, Sequences

Named(policy) == policy \notin {"Unspecified", "Unknown"}

\* What unreachable! and expect end a conversion with.
Panic == "panic"

Variant(policy) == IF Named(policy) THEN policy ELSE Panic

OrDefault(value, unset, default) == IF value = unset THEN default ELSE value

DefaultPageTokenCount == 16

\* 2 GiB: the model counts the bytes of a cache in MiB.
DefaultTargetBytes == 2048

DefaultBatchedTokenCount == 512

DefaultActiveRequestCount == 4

DefaultThreadCount == 4

DefaultDraftTokenCount == 4

DefaultProfile ==
  [input |-> 128, output |-> 512, cpu_prefill |-> 75, cpu_decode |-> 48, gpu_prefill |-> 12086,
   gpu_decode |-> 396]

-----------------------------------------------------------------------------
(* Resolving and normalizing                                               *)

\* resolve_request_orchestrator_config.  A file is [readable, parses, profiles]; the result
\* is empty when the command line is refused.
ResolvedOrchestrator(options, files) ==
  LET inline == \E o \in options : o.profiles # {}
      base == IF options = {} THEN [routing |-> "RoundRobin", profiles |-> {<<DefaultProfile>>}]
              ELSE CHOOSE o \in options : TRUE
      usable == {f \in files : f.readable /\ f.parses /\ f.profiles # <<>>}
  IN  IF files = {} THEN {base}
      ELSE IF inline THEN {}
      ELSE {[base EXCEPT !.profiles = {f.profiles}] : f \in usable}

\* normalize_kv_cache_config: a type that it does not know leaves the rest as it is.
NormalizedKvCache(kv) ==
  LET type == OrDefault(kv.type, "Unspecified", "Contiguous")
      sized == [kv EXCEPT !.type = type,
                          !.target_bytes = OrDefault(@, 0, DefaultTargetBytes)]
  IN  IF type = "Unknown" THEN sized
      ELSE [sized EXCEPT
              !.page_tokens = IF type = "Contiguous" THEN @
                              ELSE OrDefault(@, 0, DefaultPageTokenCount),
              !.publication = OrDefault(@, "Unspecified", "OnRequestCompletion")]

\* normalize_scheduler_config
NormalizedScheduler(scheduler) ==
  [scheduler EXCEPT !.batched = OrDefault(@, 0, DefaultBatchedTokenCount),
                    !.active = OrDefault(@, 0, DefaultActiveRequestCount),
                    !.policy = OrDefault(@, "Unspecified", "FirstComeFirstServed"),
                    !.coordination = OrDefault(@, "Unspecified", "Independent")]

\* normalize_request_orchestrator_config
NormalizedOrchestrator(orchestrator) ==
  [orchestrator EXCEPT !.routing = OrDefault(@, "Unspecified", "RoundRobin"),
                       !.profiles = OrDefault(@, {}, {<<DefaultProfile>>})]

NormalizedModel(model) == [model EXCEPT !.revision = OrDefault(@, "", "main")]

\* The end of normalize.  A policy message that selects no policy is not a missing one.
NormalizedDraft(draft) ==
  [model |-> {NormalizedModel(m) : m \in draft.model},
   policy |-> OrDefault(draft.policy, {}, {[kind |-> "Fixed", count |-> DefaultDraftTokenCount]})]

\* normalize, after RawMainProcessArgs::resolve
Normalized(args) ==
  [args EXCEPT !.kv = NormalizedKvCache(@), !.scheduler = NormalizedScheduler(@),
               !.orchestrator = NormalizedOrchestrator(@),
               !.threads = OrDefault(@, 0, DefaultThreadCount),
               !.model = NormalizedModel(@),
               !.draft = {NormalizedDraft(d) : d \in @}]

\* MainProcessArgs::from_args and parse
Parsed(raw) ==
  {Normalized([kv |-> raw.kv, scheduler |-> raw.scheduler, orchestrator |-> o,
               threads |-> raw.threads, model |-> raw.model, draft |-> raw.draft,
               devices |-> raw.devices]) : o \in ResolvedOrchestrator(raw.orchestrator, raw.files)}

-----------------------------------------------------------------------------
(* Validating                                                              *)

ModelIsValid(model) == model.named /\ model.gguf

KvCacheIsValid(kv) ==
  /\ kv.target_bytes > 0
  /\ Named(kv.type)
  /\ kv.type # "Contiguous" => kv.page_tokens > 0
  /\ Named(kv.publication)
  /\ kv.publication = "Incremental" => kv.type = "PagedPrefix"

SchedulerIsValid(scheduler) ==
  /\ scheduler.batched > 0 /\ scheduler.active > 0
  /\ Named(scheduler.policy) /\ Named(scheduler.coordination)

ProfilesAreValid(profiles) ==
  profiles # <<>> /\ \A n \in DOMAIN profiles : \A f \in DOMAIN profiles[n] : profiles[n][f] > 0

OrchestratorIsValid(orchestrator) ==
  /\ Named(orchestrator.routing)
  /\ orchestrator.profiles # {}
  /\ \A p \in orchestrator.profiles : ProfilesAreValid(p)

\* PrefixCacheCoordinationPolicy::validate
CoordinationIsValid(policy, type) ==
  policy # "Unspecified" /\ (policy = "Independent" \/ type = "PagedPrefix")

\* RequestRoutingPolicy::validate
RoutingIsValid(policy, type) ==
  policy \in {"MostCachedPrefix", "CacheAwareLeastEstimatedWork"} => type = "PagedPrefix"

\* validate_adaptive_draft_token_counts
CountsAreValid(policy) ==
  policy.minimum > 0 /\ policy.minimum <= policy.initial /\ policy.initial <= policy.maximum

\* DraftTokenCountPolicy::validate
DraftPolicyIsValid(policy) ==
  \/ policy.kind = "Fixed" /\ policy.count > 0
  \/ /\ policy.kind = "AcceptanceRate"
     /\ CountsAreValid(policy)
     /\ {policy.decrease, policy.increase} \subseteq 0 .. 100
     /\ policy.decrease < policy.increase
  \/ policy.kind = "AcceptedLength" /\ CountsAreValid(policy) /\ policy.smoothing \in 1 .. 100

\* DraftModelConfig::validate
DraftIsValid(draft) ==
  /\ \E m \in draft.model : ModelIsValid(m)
  /\ \E p \in draft.policy : DraftPolicyIsValid(p)

\* MainProcessArgs::validate
Accepted(args) ==
  /\ args.devices # <<>>
  /\ ModelIsValid(args.model)
  /\ \A d \in args.draft : DraftIsValid(d)
  /\ KvCacheIsValid(args.kv)
  /\ SchedulerIsValid(args.scheduler)
  /\ OrchestratorIsValid(args.orchestrator)
  /\ CoordinationIsValid(args.scheduler.coordination, args.kv.type)
  /\ RoutingIsValid(args.orchestrator.routing, args.kv.type)

-----------------------------------------------------------------------------
(* Converting: From in the direction of the program, Proto back            *)

FromKvCache(kv) ==
  [cache |-> CASE kv.type \in {"Paged", "PagedPrefix"} ->
                    [type |-> "Paged", page_tokens |-> kv.page_tokens,
                     prefix_caching |-> kv.type = "PagedPrefix"]
               [] OTHER -> [type |-> Variant(kv.type)],
   target_bytes |-> kv.target_bytes,
   draft_bytes |-> {kv.draft_bytes} \ {0},
   publication |-> Variant(kv.publication)]

\* Mutant: every paged cache is written as the plain one.
ProtoKvCacheWithoutPrefix(config) ==
  [type |-> config.cache.type,
   page_tokens |-> IF config.cache.type = "Paged" THEN config.cache.page_tokens ELSE 0,
   target_bytes |-> config.target_bytes,
   draft_bytes |-> IF config.draft_bytes = {} THEN 0 ELSE CHOOSE n \in config.draft_bytes : TRUE,
   publication |-> config.publication]

ProtoKvCache(config) ==
  [type |-> IF config.cache.type # "Paged" THEN "Contiguous"
            ELSE IF config.cache.prefix_caching THEN "PagedPrefix" ELSE "Paged",
   page_tokens |-> IF config.cache.type = "Paged" THEN config.cache.page_tokens ELSE 0,
   target_bytes |-> config.target_bytes,
   draft_bytes |-> IF config.draft_bytes = {} THEN 0 ELSE CHOOSE n \in config.draft_bytes : TRUE,
   publication |-> config.publication]

FromScheduler(scheduler) ==
  [batched |-> scheduler.batched, active |-> scheduler.active,
   policy |-> Variant(scheduler.policy), coordination |-> Variant(scheduler.coordination)]

ProtoScheduler(config) ==
  [batched |-> config.batched, active |-> config.active, policy |-> config.policy,
   coordination |-> config.coordination]

FromProfile(p) ==
  [input |-> p.input, output |-> p.output,
   cpu |-> [prefill |-> p.cpu_prefill, decode |-> p.cpu_decode],
   gpu |-> [prefill |-> p.gpu_prefill, decode |-> p.gpu_decode]]

ProtoProfile(p) ==
  [input |-> p.input, output |-> p.output, cpu_prefill |-> p.cpu.prefill,
   cpu_decode |-> p.cpu.decode, gpu_prefill |-> p.gpu.prefill, gpu_decode |-> p.gpu.decode]

\* A missing profile message reads as no profile.
FromOrchestrator(orchestrator) ==
  LET profiles == IF orchestrator.profiles = {} THEN <<>>
                  ELSE CHOOSE p \in orchestrator.profiles : TRUE
  IN  [routing |-> Variant(orchestrator.routing),
       profiles |-> [n \in DOMAIN profiles |-> FromProfile(profiles[n])]]

ProtoOrchestrator(config) ==
  [routing |-> config.routing,
   profiles |-> {[n \in DOMAIN config.profiles |-> ProtoProfile(config.profiles[n])]}]

\* DraftTokenCountController::new, and what its policy starts from
DraftController(policy) ==
  CASE policy.kind = "Fixed" -> [bounds |-> <<policy.count, policy.count>>, current |-> policy.count]
    [] policy.kind = "AcceptanceRate" ->
         [bounds |-> <<policy.minimum, policy.maximum>>, current |-> policy.initial,
          thresholds |-> <<policy.decrease, policy.increase>>]
    [] policy.kind = "AcceptedLength" ->
         [bounds |-> <<policy.minimum, policy.maximum>>, current |-> policy.initial,
          smoothed_accepted_length |-> policy.initial - 1, smoothing |-> policy.smoothing]

-----------------------------------------------------------------------------
(* From one process to the other                                           *)

\* The value a message field has when its text leaves the field out
FieldDefault(field) ==
  CASE field \in {"type", "publication", "policy", "coordination", "routing"} -> "Unspecified"
    [] field = "profiles" -> {}
    [] OTHER -> 0

\* format_textproto: the text holds the fields that differ from their defaults.
FormatTextproto(message) ==
  [f \in {g \in DOMAIN message : message[g] # FieldDefault(g)} |-> message[f]]

\* parse_textproto, for a message with the given fields
ParseTextproto(text, fields) ==
  [f \in fields |-> IF f \in DOMAIN text THEN text[f] ELSE FieldDefault(f)]

\* supervisor::run up to the spawn: what the main process itself works with.
MainProcess(args) ==
  [kv |-> FromKvCache(args.kv), scheduler |-> FromScheduler(args.scheduler),
   orchestrator |-> FromOrchestrator(args.orchestrator), devices |-> args.devices,
   draft |-> {[policy |-> CHOOSE p \in d.policy : TRUE] : d \in args.draft}]

\* spawn: the runner's command line
CommandLine(main) ==
  [kv |-> FormatTextproto(ProtoKvCache(main.kv)),
   scheduler |-> FormatTextproto(ProtoScheduler(main.scheduler)),
   orchestrator |-> FormatTextproto(ProtoOrchestrator(main.orchestrator)),
   devices |-> main.devices, draft |-> main.draft]

\* ModelRunnerProcessArgs
RunnerArgs(line) ==
  [kv |-> ParseTextproto(line.kv, {"type", "page_tokens", "target_bytes", "draft_bytes",
                                   "publication"}),
   scheduler |-> ParseTextproto(line.scheduler, {"batched", "active", "policy", "coordination"}),
   orchestrator |-> ParseTextproto(line.orchestrator, {"routing", "profiles"}),
   devices |-> line.devices, draft |-> line.draft]

\* run_server and create_draft_model_config: the checks that the runner makes again
RunnerAccepts(args) ==
  /\ OrchestratorIsValid(args.orchestrator)
  /\ args.devices # <<>>
  /\ \A d \in args.draft : DraftPolicyIsValid(d.policy)

\* What the runner builds its backends from.
ModelRunner(args) ==
  [kv |-> FromKvCache(args.kv), scheduler |-> FromScheduler(args.scheduler),
   orchestrator |-> FromOrchestrator(args.orchestrator), devices |-> args.devices,
   draft |-> args.draft]

-----------------------------------------------------------------------------

Panics(config) ==
  Panic \in {config.kv.cache.type, config.kv.publication, config.scheduler.policy,
             config.scheduler.coordination, config.orchestrator.routing}

UsesPrefixCache(config) ==
  \/ config.kv.publication = "Incremental"
  \/ config.scheduler.coordination # "Independent"
  \/ config.orchestrator.routing \in {"MostCachedPrefix", "CacheAwareLeastEstimatedWork"}

\* A configuration that the main process accepts ends in no panic of a conversion, in
\* either process; the runner accepts it too and works with exactly what the main process
\* has validated, which is what the user asked for wherever the user said something; what
\* relies on prefix caching runs on a cache that has it; and the controller of the draft
\* token count starts inside its bounds.  Normalizing twice changes nothing, and a command
\* line that gives profiles has them from one place.
ConfigurationAgrees(raw) ==
  \A args \in Parsed(raw) :
    /\ Normalized(args) = args
    /\ \A f \in DOMAIN raw.kv : raw.kv[f] \in {FieldDefault(f), args.kv[f]}
    /\ \A f \in DOMAIN raw.scheduler : raw.scheduler[f] \in {FieldDefault(f), args.scheduler[f]}
    /\ \A f \in raw.files : args.orchestrator.profiles = {f.profiles}
    /\ \A o \in raw.orchestrator : o.profiles # {} => args.orchestrator.profiles = o.profiles
    /\ Accepted(args) =>
         LET main == MainProcess(args)
             runner_args == RunnerArgs(CommandLine(main))
             runner == ModelRunner(runner_args)
         IN  /\ ~Panics(main) /\ RunnerAccepts(runner_args) /\ ~Panics(runner)
             /\ runner = main
             /\ UsesPrefixCache(runner) =>
                  runner.kv.cache.type = "Paged" /\ runner.kv.cache.prefix_caching
             /\ \A d \in runner.draft :
                  LET controller == DraftController(d.policy)
                  IN  /\ 0 < controller.bounds[1]
                      /\ controller.bounds[1] <= controller.current
                      /\ controller.current <= controller.bounds[2]
=============================================================================
