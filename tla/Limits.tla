------------------------------- MODULE Limits -------------------------------
(***************************************************************************)
(* The capacities that a model runner derives at start-up and the limits   *)
(* that it then holds every request to (model_runner/server/mod.rs,        *)
(* model_executor.rs, kv_cache/mod.rs, the constructors of the two caches, *)
(* models/loaded_model.rs, request_handler/server/tokenizer.rs).           *)
(*                                                                         *)
(* A start-up is a record of what the command line and the model files     *)
(* say; Failed stands for every error that ends it.                        *)
(***************************************************************************)
EXTENDS Naturals, Sequences, FiniteSets, FiniteSetsExt, SequencesExt

Failed == [status |-> "failed"]

-----------------------------------------------------------------------------
(* Model files                                                             *)

\* get_tokenizer_vocabulary_size: the tokens up to the last that is not marked unused.
\* `unused` tells it for each token of tokenizer.ggml.tokens.
TokenizerVocabularySize(unused) ==
  LET used == {i \in DOMAIN unused : ~unused[i]}
  IN  IF used = {} THEN 0 ELSE Max(used)

\* LoadedModel::new refuses the empty vocabulary and one that the tensors do not cover.
LoadedModel(file) ==
  LET size == TokenizerVocabularySize(file.unused)
  IN  IF size = 0 \/ size > file.input_size \/ size > file.output_size THEN Failed
      ELSE [status |-> "loaded", tokenizer_vocabulary_size |-> size]

\* validate_model_vocabulary, in the request handler: the tokenizer file against the metadata
\* that the runner reports.  The tokenizer's IDs are 0 .. size - 1 at most.
ModelVocabularyIsValid(tokenizer_size, file) ==
  /\ TokenizerVocabularySize(file.unused) = tokenizer_size
  /\ file.input_size >= tokenizer_size
  /\ file.output_size >= tokenizer_size

\* TokenizerWrapper::new.  The tokenizer of the draft model must be the target's.
TokenizersAreValid(s) ==
  /\ ModelVocabularyIsValid(s.tokenizer_size, s.target)
  /\ (s.draft = {}) = (s.draft_tokenizer = "none")
  /\ \A d \in s.draft : ModelVocabularyIsValid(s.tokenizer_size, d) /\ s.draft_tokenizer = "same"

-----------------------------------------------------------------------------
(* Devices                                                                 *)

\* normalize_activation_dtype: a GPU of a Metal or CUDA build computes in F32.
ActivationBytes(s, device) ==
  IF s.activation = "F32" \/ (s.gpu_build /\ device = "Gpu") THEN 4 ELSE 2

\* The device index a backend gets: GPUs are numbered in their order on the command line.
GpuDeviceIndex(devices, n) ==
  IF devices[n] = "Gpu" THEN Cardinality({i \in 1 .. n - 1 : devices[i] = "Gpu"}) ELSE 0

-----------------------------------------------------------------------------
(* Caches                                                                  *)

BytesPerToken(file, bytes) == file.key_value_width * bytes

\* PhysicalPagePool::new: the pages of one pool; half of the bytes are for the values.
PhysicalPageCount(file, bytes, page_tokens, total) ==
  (total \div 2) \div (BytesPerToken(file, bytes) * page_tokens)

\* Mutant: the tokens of the pool, for all the layers together.
TokenCapacityOfPool(file, bytes, cache, total) ==
  (total \div 2) \div BytesPerToken(file, bytes)

\* The tokens that a request can have in every layer.  Zero fails.
TokenCapacity(file, bytes, cache, total) ==
  IF cache.type = "Contiguous"
  THEN ((total \div 2) \div file.layer_count) \div BytesPerToken(file, bytes)
  ELSE (PhysicalPageCount(file, bytes, cache.page_tokens, total) \div file.layer_count)
       * cache.page_tokens

\* The pool of a paged cache must hold a page, the contiguous cache a token of each layer.
CacheIsAllocated(file, bytes, cache, total) ==
  IF cache.type = "Contiguous" THEN TokenCapacity(file, bytes, cache, total) > 0
                               ELSE PhysicalPageCount(file, bytes, cache.page_tokens, total) > 0

\* resolve_draft_kv_cache_size_bytes: 0 stands for None.
DraftCacheBytes(s, file, bytes, target_capacity) ==
  IF s.draft_bytes > 0 THEN s.draft_bytes
  ELSE 2 * target_capacity * file.layer_count * BytesPerToken(file, bytes)

\* KvCacheGeometry: the contiguous cache counts in tokens.
GeometryPageTokens(cache) == IF cache.type = "Contiguous" THEN 1 ELSE cache.page_tokens
PageCapacity(capacity, cache) == capacity \div GeometryPageTokens(cache)
RequiredPageCount(tokens, cache) ==
  (tokens + GeometryPageTokens(cache) - 1) \div GeometryPageTokens(cache)

-----------------------------------------------------------------------------
(* Start-up                                                                *)

\* One backend, with ModelExecutor::new; its capacity is the smaller of its two caches'.
InferenceBackend(s, device) ==
  LET bytes == ActivationBytes(s, device)
      target_capacity == TokenCapacity(s.target, bytes, s.cache, s.target_bytes)
      drafts == {[capacity |-> TokenCapacity(d, bytes, s.cache,
                                             DraftCacheBytes(s, d, bytes, target_capacity)),
                  allocated |-> CacheIsAllocated(d, bytes, s.cache,
                                             DraftCacheBytes(s, d, bytes, target_capacity))] :
                   d \in s.draft}
  IN  IF \/ LoadedModel(s.target) = Failed
         \/ \E d \in s.draft :
              \/ LoadedModel(d) = Failed
              \/ TokenizerVocabularySize(d.unused) # TokenizerVocabularySize(s.target.unused)
         \/ ~CacheIsAllocated(s.target, bytes, s.cache, s.target_bytes)
         \/ \E d \in drafts : ~d.allocated
      THEN Failed
      ELSE [status |-> "started",
            target_capacity |-> target_capacity,
            draft_capacities |-> {d.capacity : d \in drafts},
            capacity |-> Min({target_capacity} \cup {d.capacity : d \in drafts}),
            \* normalize_scheduler_config
            max_active |-> IF s.cache.type = "Contiguous" THEN Min({1, s.max_active})
                                                          ELSE s.max_active]

Backends(s) == [n \in DOMAIN s.devices |-> InferenceBackend(s, s.devices[n])]

\* create_inference_backends, ModelRunnerRpcService::new and TokenizerWrapper::new: the capacity
\* that requests are held to is the smallest of the backends', the context the models' smaller.
Started(s) ==
  /\ s.devices # <<>>
  /\ \A n \in DOMAIN s.devices : Backends(s)[n] # Failed
  /\ TokenizersAreValid(s)

AdvertisedCapacity(s) == Min({Backends(s)[n].capacity : n \in DOMAIN s.devices})

EffectiveContextLength(s) == Min({s.target.context_length} \cup {d.context_length : d \in s.draft})

-----------------------------------------------------------------------------
(* Requests                                                                *)

\* resolve_benchmark_backend_id: 0 is no override, an unknown backend is refused.
BackendIdIsValid(s, id) == id = 0 \/ id - 1 < Len(s.devices)

\* normalize_generate_text_request: refused, or with the output limit it is granted.
GrantedTokens(s, input, max_new) ==
  LET capacity == AdvertisedCapacity(s)
      context == EffectiveContextLength(s)
  IN  IF input = 0 \/ input > capacity \/ input >= context \/ max_new = 0 THEN 0
      ELSE Min({max_new, capacity - input + 1, context - input})

\* A request that the runner accepts can run to its granted limit on every backend it may be
\* sent to: its cached tokens, all but the last, fit the target's and the draft's cache in every
\* layer; the admission rule of the scheduler can be met; no position leaves the context of
\* either model; and every token ID it can name has a row in both models.  The grant is less
\* than the request only when one more token would not have fitted.
AcceptedRequestsFit(s, inputs, limits) ==
  Started(s) =>
    /\ \A n \in DOMAIN s.devices, m \in DOMAIN s.devices :
         n # m /\ s.devices[n] = "Gpu" /\ s.devices[m] = "Gpu" =>
           GpuDeviceIndex(s.devices, n) # GpuDeviceIndex(s.devices, m)
    /\ \A file \in {s.target} \cup s.draft :
         s.tokenizer_size <= Min({file.input_size, file.output_size})
    /\ \A input \in inputs, limit \in limits :
         LET granted == GrantedTokens(s, input, limit)
             cached == input + granted - 1
             context == EffectiveContextLength(s)
             Pages(file, bytes, total) ==
               file.layer_count * RequiredPageCount(cached, s.cache) * GeometryPageTokens(s.cache)
                 * BytesPerToken(file, bytes) * 2 <= total
         IN  granted > 0 =>
               /\ input + granted <= context
               /\ \A n \in DOMAIN s.devices :
                    LET backend == Backends(s)[n]
                        bytes == ActivationBytes(s, s.devices[n])
                    IN  /\ RequiredPageCount(cached, s.cache)
                             <= PageCapacity(backend.capacity, s.cache)
                        /\ Pages(s.target, bytes, s.target_bytes)
                        /\ \A d \in s.draft :
                             Pages(d, bytes, DraftCacheBytes(s, d, bytes, backend.target_capacity))
                        /\ s.cache.type = "Contiguous" => backend.max_active <= 1
                        \* a draft cache of no given size holds what the target's does
                        /\ s.draft_bytes = 0 => backend.capacity = backend.target_capacity
               /\ granted < limit =>
                    \/ input + granted + 1 > context
                    \/ \E n \in DOMAIN s.devices : cached + 1 > Backends(s)[n].capacity
=============================================================================
