------------------------------ MODULE Attention ------------------------------
(***************************************************************************)
(* Forward passes of a transformer model over a batch of requests, and the *)
(* key-value cache they read and write (models/backends/common.rs,         *)
(* kv_cache/contiguous_cache.rs, and the tensor side of paged_cache.rs and *)
(* physical_page_pool.rs).                                                 *)
(*                                                                         *)
(* Numbers are replaced by what they are computed from.  A query, key or   *)
(* value row is a term that names its projection, head, position and the   *)
(* hidden state it projects; a score is a pair <<query, key>>; a head's    *)
(* attention is the set of the <<score, value>> pairs it sums.  The hidden *)
(* state that a block returns records what each head attended to.  Two     *)
(* computations agree when their terms do.                                 *)
(* Every packing, narrowing, page and reshaping step of the code is kept.  *)
(* A tensor is a sequence of heads, a head a sequence of rows; indices     *)
(* start at 1 here and at 0 in the code.                                   *)
(***************************************************************************)
EXTENDS Naturals, Sequences, FiniteSets, SequencesExt

CONSTANTS
  Requests,
  Tokens,
  GenerationInputs,     \* token sequences that one pass may be given for a generation ...
  VerificationInputs,   \* ... and for a verification
  LayerCount,
  QueryHeadCount,
  KeyValueHeadCount,
  PageCount,            \* of the paged pool
  PageTokenCount,
  MetalGemvMaxRows,     \* MINI_VLLM_METAL_GEMV_MAX_ROWS
  Modes,                \* the cache, the device and the kernels that are enabled
  MaxLength,            \* bound on a request's tokens; the contiguous cache's capacity
  MaxCalls,             \* bound on the calls of one behaviour
  Stale                 \* what a slot holds before its first write

ASSUME AttentionAssumption ==
  /\ IsFiniteSet(Requests)
  /\ \A input \in GenerationInputs \cup VerificationInputs : input \in Seq(Tokens) /\ input # <<>>
  /\ {LayerCount, QueryHeadCount, KeyValueHeadCount, PageTokenCount} \subseteq Nat \ {0}
  /\ {PageCount, MaxLength} \subseteq Nat
  /\ QueryHeadCount % KeyValueHeadCount = 0
  /\ Modes \subseteq [cache: {"Contiguous", "Paged"}, device: {"cpu", "cuda", "metal"},
                      grouped: BOOLEAN, paged_attention: BOOLEAN, pagewise: BOOLEAN]

VARIABLES
  mode,
  context,    \* request -> the tokens the model was given and has not truncated
  pools,      \* page -> slot -> [key, value] of every key-value head
  free,       \* free_page_ids, a stack
  tables,     \* request -> layer -> [page_ids, cached_token_count]
  outputs,    \* the logits of the last pass: <<request, position, term>>
  calls

attentionVars == <<mode, context, pools, free, tables, outputs, calls>>

-----------------------------------------------------------------------------
(* Tensors *)

Narrow(s, start, length) == SubSeq(s, start + 1, start + length)

\* The same sequence, computed once: a tensor made contiguous.
Contiguous(s) == Narrow(s, 0, Len(s))

\* The sums of the first n counts, for each n.
Sums(counts) ==
  LET sum[n \in 0 .. Len(counts)] == IF n = 0 THEN 0 ELSE sum[n - 1] + counts[n]
  IN  sum

\* A contiguous tensor reshaped to `count` heads.
Reshape(t, count) ==
  LET rows == FlattenSeq(t)
      size == Len(rows) \div count
  IN  [h \in 1 .. count |-> Narrow(rows, (h - 1) * size, size)]

Repetition == QueryHeadCount \div KeyValueHeadCount

RepeatKv(t) == [h \in 1 .. QueryHeadCount |-> t[((h - 1) \div Repetition) + 1]]

\* Batched products: one for each head, a row for each row of the left operand.
Scores(q, k) ==
  [h \in DOMAIN q |-> [i \in DOMAIN q[h] |-> [j \in DOMAIN k[h] |-> <<q[h][i], k[h][j]>>]]]

Masked == <<>>

WeightedSums(w, v) ==
  [h \in DOMAIN w |-> [i \in DOMAIN w[h] |->
     LET row == w[h][i] IN {<<row[j], v[h][j]>> : j \in {c \in DOMAIN row : row[c] # Masked}}]]

MatmulQueryKey(q, k, grouped) ==
  IF grouped /\ Repetition > 1
  THEN Reshape(Scores(Reshape(q, KeyValueHeadCount), k), QueryHeadCount)
  ELSE Scores(q, RepeatKv(k))

MatmulAttentionValue(w, v, grouped) ==
  IF grouped /\ Repetition > 1
  THEN Reshape(WeightedSums(Reshape(w, KeyValueHeadCount), v), QueryHeadCount)
  ELSE WeightedSums(w, RepeatKv(v))

\* Mutant: the mask counts from the first query.
ApplyMaskWithoutCache(scores, cached_kv_len) ==
  [h \in DOMAIN scores |-> [i \in DOMAIN scores[h] |->
     LET row == scores[h][i] IN [j \in DOMAIN row |-> IF j > i THEN Masked ELSE row[j]]]]

\* Query i of the pass stands behind the cached tokens: later columns are masked, and softmax
\* gives a positive weight to every other.
ApplyCausalAttentionMask(scores, cached_kv_len) ==
  [h \in DOMAIN scores |-> [i \in DOMAIN scores[h] |->
     LET row == scores[h][i]
     IN  [j \in DOMAIN row |-> IF j > cached_kv_len + i THEN Masked ELSE row[j]]]]

\* QMatMul and apply_projection: one product, or one for each of a few rows on Metal.
Project(weights, rows) ==
  IF mode.device = "metal" /\ 1 < Len(rows) /\ Len(rows) <= MetalGemvMaxRows
  THEN FlattenSeq([i \in DOMAIN rows |-> <<<<weights, rows[i]>>>>])
  ELSE [i \in DOMAIN rows |-> <<weights, rows[i]>>]

\* forward_rope: row i stands at position index_pos + i.
Rope(t, index_pos) ==
  [h \in DOMAIN t |-> [i \in DOMAIN t[h] |-> <<index_pos + i, t[h][i]>>]]

-----------------------------------------------------------------------------
(* The cache.  A cache state is the record of pools, free and tables.      *)

cache == [pools |-> pools, free |-> free, tables |-> tables]

Entries(k, v, i) == [key |-> [h \in DOMAIN k |-> k[h][i]], value |-> [h \in DOMAIN v |-> v[h][i]]]

\* A page's rows as a tensor.
Slice(store, page, count, part) ==
  [h \in 1 .. KeyValueHeadCount |-> [s \in 1 .. count |-> store[page][s][part][h]]]

Cat(slices) == [h \in 1 .. KeyValueHeadCount |-> FlattenSeq([n \in DOMAIN slices |-> slices[n][h]])]

Written(store, page, offset, k, v, input_offset, count) ==
  [store EXCEPT ![page] = [s \in DOMAIN @ |->
     IF s \in offset + 1 .. offset + count
     THEN Entries(k, v, input_offset + s - offset) ELSE @[s]]]

\* ContiguousKvCache::append_new_key_value: layer l owns page l.
AppendContiguous(c, r, l, k, v) ==
  LET table == c.tables[r][l]
      count == Len(k[1])
  IN  [pools |-> Written(c.pools, l, table.cached_token_count, k, v, 0, count),
       free |-> c.free,
       tables |-> [c.tables EXCEPT ![r][l] =
                     [page_ids |-> @.page_ids,
                      cached_token_count |-> @.cached_token_count + count]]]

\* One round of append_to_pages, for the rows from input_offset on.
AppendToPage(c, r, l, k, v, input_offset) ==
  LET table == c.tables[r][l]
      offset == table.cached_token_count % PageTokenCount
      fresh == offset = 0
      page == IF fresh THEN Last(c.free) ELSE Last(table.page_ids)
      count == Min({PageTokenCount - offset, Len(k[1]) - input_offset})
  IN  [pools |-> Written(c.pools, page, offset, k, v, input_offset, count),
       free |-> IF fresh THEN Front(c.free) ELSE c.free,
       tables |-> [c.tables EXCEPT ![r][l] =
                     [page_ids |-> IF fresh THEN Append(@.page_ids, page) ELSE @.page_ids,
                      cached_token_count |-> @.cached_token_count + count]]]

\* The loop, for rows that follow the first `start` of the block table.
AppendRound(c, r, l, k, v, start) ==
  LET written == c.tables[r][l].cached_token_count - start
  IN  IF written < Len(k[1]) THEN AppendToPage(c, r, l, k, v, written) ELSE c

\* Every round writes a row, if one is left.
AppendToPages(c, r, l, k, v) ==
  LET start == c.tables[r][l].cached_token_count
      after[n \in 0 .. Len(k[1])] ==
        IF n = 0 THEN c ELSE AppendRound(after[n - 1], r, l, k, v, start)
  IN  after[Len(k[1])]

AppendNewKeyValue(c, r, l, k, v) ==
  IF mode.cache = "Contiguous" THEN AppendContiguous(c, r, l, k, v)
                               ELSE AppendToPages(c, r, l, k, v)

\* The rows of each page of a block table, as reconstruct_contiguous_tensor and
\* forward_paged_attention narrow them.
PageSlices(c, r, l, part) ==
  LET table == c.tables[r][l]
  IN  [n \in DOMAIN table.page_ids |->
         Slice(c.pools, table.page_ids[n],
               Min({PageTokenCount, table.cached_token_count - (n - 1) * PageTokenCount}), part)]

GetContiguousCacheTensor(c, r, l, part) ==
  IF mode.cache = "Contiguous"
  THEN Slice(c.pools, l, c.tables[r][l].cached_token_count, part)
  ELSE Cat(PageSlices(c, r, l, part))

-----------------------------------------------------------------------------
(* One forward pass *)

\* A ForwardContext: start_pos and cached_kv_len are both the input's start position.
Contexts(inputs) ==
  [n \in DOMAIN inputs |->
     [request_id |-> inputs[n].request_id,
      start_pos |-> inputs[n].start_position,
      q_start_index |-> Sums([m \in DOMAIN inputs |-> Len(inputs[m].input)])[n - 1],
      q_len |-> Len(inputs[n].input)]]

ForwardContiguousAttention(q, k, v, x, grouped) ==
  MatmulAttentionValue(
    ApplyCausalAttentionMask(MatmulQueryKey(q, k, grouped), x.start_pos), v, grouped)

\* The scores of every page side by side.
CatColumns(parts, q_len) ==
  [h \in 1 .. QueryHeadCount |-> [i \in 1 .. q_len |->
     FlattenSeq([n \in DOMAIN parts |-> parts[n][h][i]])]]

\* The columns of the weights that belong to page n.
PageColumns(weights, n, count) ==
  [h \in DOMAIN weights |-> [i \in DOMAIN weights[h] |->
     Narrow(weights[h][i], (n - 1) * PageTokenCount, count)]]

\* Every page gives the scores of its own columns; pagewise, every page also consumes its own
\* columns of the weights, and the pages' results are added.
ForwardPagedAttention(q, ks, vs, x) ==
  LET parts == Contiguous([n \in DOMAIN ks |-> MatmulQueryKey(q, ks[n], mode.grouped)])
      weights == ApplyCausalAttentionMask(CatColumns(parts, x.q_len), x.start_pos)
      page_ys == Contiguous([n \in DOMAIN vs |->
                   MatmulAttentionValue(PageColumns(weights, n, Len(vs[n][1])), vs[n],
                                        mode.grouped)])
  IN  IF mode.pagewise
      THEN [h \in 1 .. QueryHeadCount |-> [i \in 1 .. x.q_len |->
              UNION {page_ys[n][h][i] : n \in DOMAIN page_ys}]]
      ELSE MatmulAttentionValue(weights, Cat(vs), mode.grouped)

ForwardSelfAttention(c, x, l, q) ==
  LET r == x.request_id
      k == GetContiguousCacheTensor(c, r, l, "key")
      v == GetContiguousCacheTensor(c, r, l, "value")
  IN  CASE mode.device = "cpu" /\ mode.paged_attention /\ mode.cache = "Paged" ->
             ForwardPagedAttention(q, PageSlices(c, r, l, "key"), PageSlices(c, r, l, "value"), x)
        [] mode.device = "metal" /\ x.q_len = 1 ->      \* sdpa: no mask, heads shared
             WeightedSums(Scores(q, RepeatKv(k)), RepeatKv(v))
        [] OTHER -> ForwardContiguousAttention(q, k, v, x, mode.device = "cpu" /\ mode.grouped)

\* What the hidden state of a row depends on: its own previous state and, from every head, the
\* positions and heads of the queries, keys and values, and the states these project.
Hidden(own, heads) ==
  LET Query(p) == p[1][1]
      Key(p) == p[1][2]
      Position(term) == term[1]
      HeadOf(term) == term[2][1]
      Projected(term) == term[2][2]
  IN  [own |-> own,
       heads |-> Contiguous([h \in DOMAIN heads |->
                   {<<HeadOf(Query(p)), HeadOf(Key(p)), p[2][1],
                      Position(Query(p)), Position(Key(p))>> : p \in heads[h]}]),
       seen |-> UNION {{<<Projected(Query(p)), Position(Key(p)), Projected(Key(p)), p[2][2]>> :
                          p \in heads[h]} : h \in DOMAIN heads}]

\* The packed rows of all requests, projected to heads.
ProjectHeads(name, l, count, rows) ==
  LET projected == Project(<<name, l>>, rows)
  IN  [h \in 1 .. count |-> [i \in DOMAIN rows |-> <<h, projected[i]>>]]

OwnRows(t, x) == [h \in DOMAIN t |-> Narrow(t[h], x.q_start_index, x.q_len)]

\* Each request narrows its own rows, appends its keys and values, and attends to everything it
\* then has cached.
Attend(done, x, l, packed_q, packed_k, packed_v) ==
  LET c == AppendNewKeyValue(done.cache, x.request_id, l,
                             Rope(OwnRows(packed_k, x), x.start_pos), OwnRows(packed_v, x))
  IN  [cache |-> c,
       ys |-> Append(done.ys, ForwardSelfAttention(c, x, l,
                                                   Rope(OwnRows(packed_q, x), x.start_pos)))]

ForwardAttention(c, contexts, l, packed_q, packed_k, packed_v) ==
  LET done[n \in 0 .. Len(contexts)] ==
        IF n = 0 THEN [cache |-> c, ys |-> <<>>]
        ELSE Attend(done[n - 1], contexts[n], l, packed_q, packed_k, packed_v)
  IN  done[Len(contexts)]

PackedOutput(ys) == [h \in 1 .. QueryHeadCount |-> FlattenSeq([n \in DOMAIN ys |-> ys[n][h]])]

\* A transformer block over the packed rows: transpose(1, 2), the output projection, the residual
\* and the MLP go row by row.
ForwardBlock(c, rows, contexts, l) ==
  LET attended == ForwardAttention(c, contexts, l,
                                   ProjectHeads("query", l, QueryHeadCount, rows),
                                   ProjectHeads("key", l, KeyValueHeadCount, rows),
                                   ProjectHeads("value", l, KeyValueHeadCount, rows))
      packed_y == Contiguous(PackedOutput(attended.ys))
      Row(i) == Hidden(rows[i], [h \in 1 .. QueryHeadCount |-> packed_y[h][i]])
  IN  [cache |-> attended.cache, rows |-> Contiguous([i \in DOMAIN rows |-> Row(i)])]

ForwardLayers(c, embeddings, contexts) ==
  LET after[l \in 0 .. LayerCount] ==
        IF l = 0 THEN [cache |-> c, rows |-> embeddings]
        ELSE LET before == after[l - 1] IN ForwardBlock(before.cache, before.rows, contexts, l)
  IN  after[LayerCount]

\* A generation keeps its last row, a verification all of its rows.
PackOutputHiddenStates(rows, generation, verification) ==
  [n \in DOMAIN generation |-> rows[generation[n].q_start_index + generation[n].q_len]]
  \o FlattenSeq([n \in DOMAIN verification |->
                   Narrow(rows, verification[n].q_start_index, verification[n].q_len)])

\* create_forward_output: which request and position each row of the logits is taken for.
CreateForwardOutput(logits, generation, verification) ==
  LET Start(n) == Len(generation)
                    + Sums([m \in DOMAIN verification |-> verification[m].q_len])[n - 1]
  IN  {<<generation[n].request_id, generation[n].start_pos + generation[n].q_len, logits[n]>> :
         n \in DOMAIN generation}
      \cup UNION {{<<verification[n].request_id, verification[n].start_pos + i,
                     logits[Start(n) + i]>> : i \in 1 .. verification[n].q_len} :
                    n \in DOMAIN verification}

-----------------------------------------------------------------------------
AttentionInit ==
  /\ mode \in Modes
  /\ context = [r \in Requests |-> <<>>]
  /\ pools = IF mode.cache = "Paged"
             THEN [p \in 1 .. PageCount |-> [s \in 1 .. PageTokenCount |-> Stale]]
             ELSE [l \in 1 .. LayerCount |-> [s \in 1 .. MaxLength |-> Stale]]
  /\ free = IF mode.cache = "Paged" THEN [n \in 1 .. PageCount |-> PageCount + 1 - n] ELSE <<>>
  /\ tables = [r \in Requests |->
                 [l \in 1 .. LayerCount |-> [page_ids |-> <<>>, cached_token_count |-> 0]]]
  /\ outputs = {}
  /\ calls = 0

\* The contiguous cache has room for one request.
MayRun(batch) ==
  mode.cache = "Contiguous" =>
    /\ Cardinality(batch) = 1
    /\ \A r \in Requests \ batch : context[r] = <<>>

\* The requests' reservations leave room for the rows of a pass.
PagesFor(count) == (count + PageTokenCount - 1) \div PageTokenCount

HasRoom(contexts) ==
  LET pages == [n \in DOMAIN contexts |->
                  PagesFor(contexts[n].start_pos + contexts[n].q_len)
                    - PagesFor(contexts[n].start_pos)]
  IN  mode.cache = "Paged" => LayerCount * Sums(pages)[Len(contexts)] <= Len(free)

\* ForwardInput: the requests of a part of the batch, each with the tokens it is given.
Inputs(batch, input) ==
  LET order == SetToSeq(batch)
  IN  [n \in DOMAIN order |-> [request_id |-> order[n], input |-> input[order[n]],
                              start_position |-> Len(context[order[n]])]]

\* TransformerModelWeights::forward.
Pass(generation, verification, input) ==
  LET inputs == Inputs(generation, input) \o Inputs(verification, input)
      contexts == Contexts(inputs)
      generation_contexts == Narrow(contexts, 0, Cardinality(generation))
      verification_contexts == SubSeq(contexts, Cardinality(generation) + 1, Len(contexts))
      embeddings == FlattenSeq([n \in DOMAIN inputs |-> inputs[n].input])
      result == ForwardLayers(cache, embeddings, contexts)
      logits == Project(<<"output", 0>>,
                        PackOutputHiddenStates(result.rows, generation_contexts,
                                               verification_contexts))
  IN  /\ HasRoom(contexts)
      /\ context' = [r \in Requests |->
                       IF r \in DOMAIN input THEN context[r] \o input[r] ELSE context[r]]
      /\ pools' = result.cache.pools
      /\ free' = result.cache.free
      /\ tables' = result.cache.tables
      /\ outputs' = CreateForwardOutput(logits, generation_contexts, verification_contexts)

Forward ==
  \E generation \in SUBSET Requests, verification \in SUBSET Requests :
  \E input \in [generation \cup verification -> GenerationInputs \cup VerificationInputs] :
    /\ generation \cup verification # {}
    /\ generation \cap verification = {}
    /\ MayRun(generation \cup verification)
    /\ \A r \in generation : input[r] \in GenerationInputs
    /\ \A r \in verification : input[r] \in VerificationInputs
    /\ \A r \in DOMAIN input : Len(context[r]) + Len(input[r]) <= MaxLength
    /\ Pass(generation, verification, input)

\* A rejected draft, or the end of a request, takes tokens from the end of every layer.
\* Pages left without a token return to the free list in the order of the layers.
Truncate ==
  \E r \in Requests : \E target \in 0 .. Len(context[r]) - 1 :
    LET Retained(l) == IF target = 0 THEN 0 ELSE ((target - 1) \div PageTokenCount) + 1
        Released(l) == LET pages == tables[r][l].page_ids
                       IN  SubSeq(pages, Retained(l) + 1, Len(pages))
    IN  /\ context' = [context EXCEPT ![r] = Narrow(@, 0, target)]
        /\ tables' = [tables EXCEPT ![r] = [l \in DOMAIN @ |->
                        [page_ids |-> IF mode.cache = "Paged"
                                      THEN Narrow(@[l].page_ids, 0, Retained(l)) ELSE <<>>,
                         cached_token_count |-> target]]]
        /\ free' = free \o FlattenSeq([l \in 1 .. LayerCount |-> Released(l)])
        /\ outputs' = {}
        /\ UNCHANGED pools

AttentionNext ==
  /\ calls < MaxCalls
  /\ calls' = calls + 1
  /\ UNCHANGED mode
  /\ Forward \/ Truncate

-----------------------------------------------------------------------------
(* What a model promises: the logits at a position are a function of the   *)
(* request's tokens up to that position, by the textbook definition.       *)

KeyValueHead(h) == ((h - 1) \div Repetition) + 1

\* The states of all tokens after layer l, from those before it.
ReferenceBlock(states, l) ==
  Contiguous([i \in DOMAIN states |->
    [own |-> states[i],
     heads |-> [h \in 1 .. QueryHeadCount |->
                  {<<h, KeyValueHead(h), KeyValueHead(h), i, j>> : j \in 1 .. i}],
     seen |-> {<<<<<<"query", l>>, states[i]>>, j,
                 <<<<"key", l>>, states[j]>>, <<<<"value", l>>, states[j]>>>> : j \in 1 .. i}]])

\* The hidden states of the tokens s after each layer.
ReferenceStates(s) ==
  LET after[l \in 0 .. LayerCount] ==
        IF l = 0 THEN s ELSE ReferenceBlock(after[l - 1], l)
  IN  after

\* Every row of logits that a pass returns is the one of its request and position, computed from
\* that request's tokens up to there and nothing else: batching, the split into prefill chunks,
\* truncation of rejected drafts, reuse of dirty pages and the choice of kernel change nothing.
AttentionIsCausal ==
  \A o \in outputs :
    o[3] = <<<<"output", 0>>, ReferenceStates(context[o[1]])[LayerCount][o[2]]>>
=============================================================================
