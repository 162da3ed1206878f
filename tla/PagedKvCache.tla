---------------------------- MODULE PagedKvCache ----------------------------
(***************************************************************************)
(* The paged KV cache of one model instance (kv_cache/): the pool of       *)
(* physical pages, the index of reusable prefix blocks, the block tables   *)
(* of the active requests, and the calls of the model executor.            *)
(*                                                                         *)
(* One thread makes all the calls.  Only append_new_key_value is split, at *)
(* the iterations of its two loops, so that a failed append is seen where  *)
(* it stops.                                                               *)
(*                                                                         *)
(* An indexed block is named by the token prefix that ends with it.  The   *)
(* code names it by an ID that is never reused and finds it by its parent's *)
(* ID and its own tokens, which is the same name while no block outlives   *)
(* its parent and no cursor outlives its block (IndexIsATree,              *)
(* CursorsAreProtected).                                                   *)
(***************************************************************************)
EXTENDS Integers, Sequences, FiniteSets, Totals

CONSTANTS
  Requests,
  Pages,                \* physical pages, each a key page and a value page
  LayerCount,
  PageTokenCount,
  PrefixCaching,        \* PagedKvCache::prefix_block_index is Some
  Prefixes,             \* token prefixes that end on a block boundary or are cut short
  PrefixAt,             \* request -> the prefixes that end with its 1st, 2nd, ... block
  InputTokenCount,      \* request -> tokens of its input
  MaxCachedTokenCount,  \* request -> input and output without the final token
  Root,                 \* the empty prefix
  NoAppend

Layers == 1 .. LayerCount

\* KvCacheGeometry::get_required_page_count of the longest cached sequence, per layer.
ReservedPageCount ==
  [r \in Requests |-> (MaxCachedTokenCount[r] + PageTokenCount - 1) \div PageTokenCount]

\* KvCacheGeometry::page_capacity: PagedKvCache::token_capacity in pages.
PageCapacity == Cardinality(Pages) \div LayerCount

\* Equal prefixes are at the same depth and extend equal prefixes.
ASSUME PagedKvCacheAssumption ==
  /\ IsFiniteSet(Requests) /\ IsFiniteSet(Pages)
  /\ LayerCount \in Nat \ {0}
  /\ PageTokenCount \in Nat \ {0}
  /\ PrefixCaching \in BOOLEAN
  /\ PrefixAt \in [Requests -> Seq(Prefixes)]
  /\ InputTokenCount \in [Requests -> Nat \ {0}]
  /\ MaxCachedTokenCount \in [Requests -> Nat \ {0}]
  /\ Root \notin Prefixes
  /\ \A r \in Requests :
       InputTokenCount[r] <= MaxCachedTokenCount[r] /\ Len(PrefixAt[r]) = ReservedPageCount[r]
  /\ \A r, q \in Requests : \A i \in DOMAIN PrefixAt[r], j \in DOMAIN PrefixAt[q] :
       PrefixAt[r][i] = PrefixAt[q][j] =>
         i = j /\ (i > 1 => PrefixAt[r][i - 1] = PrefixAt[q][i - 1])

VARIABLES
  page_states,           \* page -> Unallocated, PendingWrite or its reader count
  free_page_ids,
  contents,              \* page -> the layer and prefix whose KV values it holds
  active,                \* requests with a state in the KvCacheManager
  block_tables,          \* request -> layer -> its pages in token order
  cached_token_count,    \* request -> layer -> tokens in its pages
  committed,             \* request -> tokens that the last verification left
  cursors,               \* request -> blocks of its prefix_block_cursor
  block_pages,           \* indexed prefix -> layer -> page
  child_counts,          \* indexed prefix -> child_count
  leaf_blocks,           \* leaf_block_keys
  append                 \* the running append_new_key_value, or NoAppend

poolVars == <<page_states, free_page_ids, contents>>
requestVars == <<active, block_tables, cached_token_count, committed, cursors>>
indexVars == <<block_pages, child_counts, leaf_blocks>>
cacheVars == <<poolVars, requestVars, indexVars, append>>

-----------------------------------------------------------------------------
(* PageState: WrittenInUse { reader_count } is the count itself.             *)

Unallocated == -2
PendingWrite == -1
WrittenNotInUse == 0

IndexedBlocks == DOMAIN block_pages
Parent(r, i) == IF i = 1 THEN Root ELSE PrefixAt[r][i - 1]
ParentOf(b) ==
  CHOOSE parent \in Prefixes \cup {Root} :
    \E r \in Requests : \E i \in DOMAIN PrefixAt[r] :
      PrefixAt[r][i] = b /\ Parent(r, i) = parent

\* Retaining an unallocated page, or releasing one, is an error that changes nothing.
Retained(s) == IF s = Unallocated THEN s ELSE IF s = PendingWrite THEN 1 ELSE s + 1

\* Mutant: the last reader's release frees the page although the index owns it.
ReleasedToFreeList(s) ==
  IF s \in {Unallocated, PendingWrite, WrittenNotInUse, 1} THEN Unallocated ELSE s - 1

Released(s) ==
  IF s \in {Unallocated, PendingWrite, WrittenNotInUse} THEN Unallocated ELSE s - 1

RetainPages(states, S) == [p \in Pages |-> IF p \in S THEN Retained(states[p]) ELSE states[p]]
ReleasePages(states, S) == [p \in Pages |-> IF p \in S THEN Released(states[p]) ELSE states[p]]

\* release_allocated_pages after the pages of S were retained.
Exchange(retained, released) ==
  /\ page_states' = ReleasePages(RetainPages(page_states, retained), released)
  /\ free_page_ids' = free_page_ids \cup
       {p \in released : RetainPages(page_states, retained)[p] # Unallocated
                         /\ page_states'[p] = Unallocated}

-----------------------------------------------------------------------------

CacheInit ==
  /\ page_states = [p \in Pages |-> Unallocated]
  /\ free_page_ids = Pages
  /\ contents = [p \in Pages |-> <<1, Root>>]
  /\ active = {}
  /\ block_tables = [r \in Requests |-> [l \in Layers |-> <<>>]]
  /\ cached_token_count = [r \in Requests |-> [l \in Layers |-> 0]]
  /\ committed = [r \in Requests |-> 0]
  /\ cursors = [r \in Requests |-> 0]
  /\ block_pages = [b \in {} |-> [l \in Layers |-> 0]]
  /\ child_counts = [b \in {} |-> 0]
  /\ leaf_blocks = {}
  /\ append = NoAppend

-----------------------------------------------------------------------------
(* ModelInstance::start_request and restore_cached_prefix.                   *)

\* find_longest_cached_prefix of the input without its final token.
IsCachedPrefix(r, n) ==
  /\ n <= (InputTokenCount[r] - 1) \div PageTokenCount
  /\ \A i \in 1 .. n : PrefixAt[r][i] \in IndexedBlocks

LongestCachedPrefix(r) ==
  CHOOSE n \in 0 .. InputTokenCount[r] :
    IsCachedPrefix(r, n) /\ ~IsCachedPrefix(r, n + 1)

\* The scheduler's reservations admit r (Scheduler!ReservationsFit).
IsAdmitted(r) == Total(ReservedPageCount, active \cup {r}) <= PageCapacity

StartRequest(r) ==
  /\ append = NoAppend /\ r \notin active /\ IsAdmitted(r)
  /\ LET n == IF PrefixCaching THEN LongestCachedPrefix(r) ELSE 0
         pages == [l \in Layers |-> [i \in 1 .. n |-> block_pages[PrefixAt[r][i]][l]]]
     IN  /\ page_states' =
              RetainPages(page_states, UNION {{pages[l][i] : i \in 1 .. n} : l \in Layers})
         /\ block_tables' = [block_tables EXCEPT ![r] = pages]
         /\ cached_token_count' =
              [cached_token_count EXCEPT ![r] = [l \in Layers |-> n * PageTokenCount]]
         /\ committed' = [committed EXCEPT ![r] = n * PageTokenCount]
         /\ cursors' = [cursors EXCEPT ![r] = n]
  /\ active' = active \cup {r}
  /\ UNCHANGED <<free_page_ids, contents, indexVars, append>>

-----------------------------------------------------------------------------
(* append_new_key_value: evict until the tokens fit, then fill pages.        *)

\* Mutant: the room in the last page is not counted.
RequiredPageCountFromBoundary(current, appending) ==
  (appending + PageTokenCount - 1) \div PageTokenCount

\* compute_required_page_count
RequiredPageCount(current, appending) ==
  LET rest == (PageTokenCount - (current % PageTokenCount)) % PageTokenCount IN
  IF appending <= rest THEN 0
  ELSE (appending - rest + PageTokenCount - 1) \div PageTokenCount

\* A forward pass appends the same tokens to every layer, in layer order.
IsNextAppend(r, l, n) ==
  /\ \A k \in Layers : cached_token_count[r][k] =
       IF k < l THEN cached_token_count[r][l] + n ELSE cached_token_count[r][l]
  /\ cached_token_count[r][l] + n <= MaxCachedTokenCount[r]

BeginAppend(r, l, n) ==
  /\ append = NoAppend /\ r \in active
  /\ IsNextAppend(r, l, n)
  /\ append' = [request |-> r, layer |-> l, left |-> n]
  /\ UNCHANGED <<poolVars, requestVars, indexVars>>

Appended == cached_token_count[append.request][append.layer]
AppendTable == block_tables[append.request][append.layer]
Fits == RequiredPageCount(Appended, append.left) <= Cardinality(free_page_ids)

ArePagesInactive(b) == \A l \in Layers : page_states[block_pages[b][l]] = WrittenNotInUse

\* evict_least_recently_used_leaf, whichever eligible leaf that is.
EvictLeaf ==
  /\ append # NoAppend /\ ~Fits
  /\ \E b \in leaf_blocks :
       /\ ArePagesInactive(b)
       /\ Exchange({}, {block_pages[b][l] : l \in Layers})
       /\ block_pages' = [c \in IndexedBlocks \ {b} |-> block_pages[c]]
       /\ child_counts' =
            [c \in IndexedBlocks \ {b} |->
               IF c = ParentOf(b) THEN child_counts[c] - 1 ELSE child_counts[c]]
       /\ leaf_blocks' = (leaf_blocks \ {b}) \cup
            {c \in IndexedBlocks \ {b} : c = ParentOf(b) /\ child_counts[c] = 1}
  /\ UNCHANGED <<contents, requestVars, append>>

\* One iteration of append_to_pages.  Fits holds from the first iteration to the last.
WritePage ==
  /\ append # NoAppend /\ Fits
  /\ LET r == append.request
         l == append.layer
         offset == Appended % PageTokenCount
         room == PageTokenCount - offset
         n == IF append.left < room THEN append.left ELSE room
         prefix == PrefixAt[r][Appended \div PageTokenCount + 1]
     IN  /\ \/ /\ offset = 0
               /\ \E p \in free_page_ids :
                    /\ free_page_ids' = free_page_ids \ {p}
                    /\ page_states' = [page_states EXCEPT ![p] = PendingWrite]
                    /\ contents' = [contents EXCEPT ![p] = <<l, prefix>>]
                    /\ block_tables' =
                         [block_tables EXCEPT ![r][l] = Append(@, p)]
            \/ /\ offset > 0
               /\ page_states[AppendTable[Len(AppendTable)]] = PendingWrite
               /\ UNCHANGED <<poolVars, block_tables>>
         /\ cached_token_count' = [cached_token_count EXCEPT ![r][l] = @ + n]
         /\ append' = IF n = append.left THEN NoAppend
                      ELSE [append EXCEPT !.left = @ - n]
  /\ UNCHANGED <<active, committed, cursors, indexVars>>

\* The append returns an error: no page is left to evict, or the page may not be written.
AppendFails ==
  /\ append # NoAppend
  /\ \/ ~Fits /\ \A b \in leaf_blocks : ~ArePagesInactive(b)
     \/ /\ Appended % PageTokenCount > 0
        /\ page_states[AppendTable[Len(AppendTable)]] # PendingWrite

-----------------------------------------------------------------------------
(* truncate, after draft tokens were verified: at least one token stays.  A  *)
(* step without a draft model keeps all it appended.                         *)

IsBetweenForwards(r) ==
  /\ append = NoAppend /\ r \in active
  /\ \A l \in Layers : cached_token_count[r][l] = cached_token_count[r][1]

TablePages(r) == UNION {{block_tables[r][l][i] : i \in DOMAIN block_tables[r][l]} : l \in Layers}

\* Pages of r after its first k pages in every layer.
PagesAfter(r, k) ==
  UNION {{block_tables[r][l][i] : i \in {j \in DOMAIN block_tables[r][l] : j > k}} : l \in Layers}

RetainedPageCount(n) == (n + PageTokenCount - 1) \div PageTokenCount

Truncate(r, n) ==
  /\ IsBetweenForwards(r)
  /\ n \in committed[r] + 1 .. cached_token_count[r][1]
  /\ LET k == RetainedPageCount(n) IN
     /\ Exchange({}, PagesAfter(r, k))
     /\ block_tables' =
          [block_tables EXCEPT ![r] = [l \in Layers |-> SubSeq(block_tables[r][l], 1, k)]]
  /\ cached_token_count' = [cached_token_count EXCEPT ![r] = [l \in Layers |-> n]]
  /\ committed' = [committed EXCEPT ![r] = n]
  /\ UNCHANGED <<contents, active, cursors, indexVars, append>>

-----------------------------------------------------------------------------
(* publish_completed_prefix                                                  *)

\* The blocks of r after its cursor that are complete.
Unpublished(r) == cursors[r] + 1 .. committed[r] \div PageTokenCount
NewBlocks(r) == {i \in Unpublished(r) : PrefixAt[r][i] \notin IndexedBlocks}
DuplicateBlocks(r) == Unpublished(r) \ NewBlocks(r)

\* Mutant: duplicates keep their own pages.
NoReplacements(r) == {}

\* Entries of r's tables whose block is indexed with another page.
Replacements(r) ==
  {e \in Layers \X DuplicateBlocks(r) :
     block_pages[PrefixAt[r][e[2]]][e[1]] # block_tables[r][e[1]][e[2]]}

\* Mutant: the parent of the first new block is not told.
NoBranchPoint(r, b) == FALSE

\* The indexed block that gets the first new block as a child.
IsBranchPoint(r, b) ==
  \E i \in NewBlocks(r) : b = Parent(r, i) /\ b \in IndexedBlocks

IndexNewBlocks(r) ==
  LET new == {PrefixAt[r][i] : i \in NewBlocks(r)}
      last == committed[r] \div PageTokenCount
  IN  /\ block_pages' =
           [b \in IndexedBlocks \cup new |->
              IF b \in new
              THEN [l \in Layers |->
                      block_tables[r][l][CHOOSE i \in NewBlocks(r) : PrefixAt[r][i] = b]]
              ELSE block_pages[b]]
      /\ child_counts' =
           [b \in IndexedBlocks \cup new |->
              IF b \in new THEN (IF b = PrefixAt[r][last] THEN 0 ELSE 1)
              ELSE IF IsBranchPoint(r, b) THEN child_counts[b] + 1 ELSE child_counts[b]]
      /\ leaf_blocks' =
           {b \in leaf_blocks : ~IsBranchPoint(r, b)} \cup
           {PrefixAt[r][i] : i \in {j \in NewBlocks(r) : j = last}}

PublishCompletedPrefix(r) ==
  /\ PrefixCaching
  /\ IsBetweenForwards(r) /\ cached_token_count[r][1] = committed[r]
  /\ Exchange({block_tables[r][e[1]][e[2]] : e \in Layers \X NewBlocks(r)} \cup
                {block_pages[PrefixAt[r][e[2]]][e[1]] : e \in Replacements(r)},
              {block_tables[r][e[1]][e[2]] : e \in Replacements(r)})
  /\ block_tables' =
       [block_tables EXCEPT ![r] =
          [l \in Layers |->
             [i \in DOMAIN block_tables[r][l] |->
                IF <<l, i>> \in Replacements(r) THEN block_pages[PrefixAt[r][i]][l]
                ELSE block_tables[r][l][i]]]]
  /\ cursors' = [cursors EXCEPT ![r] = committed[r] \div PageTokenCount]
  /\ IndexNewBlocks(r)
  /\ UNCHANGED <<contents, active, cached_token_count, committed, append>>

-----------------------------------------------------------------------------
\* remove_request: after a last publication when r has finished, at any time when
\* it is aborted.
RemoveRequest(r) ==
  /\ append = NoAppend /\ r \in active
  /\ Exchange({}, TablePages(r))
  /\ block_tables' = [block_tables EXCEPT ![r] = [l \in Layers |-> <<>>]]
  /\ cached_token_count' = [cached_token_count EXCEPT ![r] = [l \in Layers |-> 0]]
  /\ committed' = [committed EXCEPT ![r] = 0]
  /\ cursors' = [cursors EXCEPT ![r] = 0]
  /\ active' = active \ {r}
  /\ UNCHANGED <<contents, indexVars, append>>

CacheNext ==
  \/ EvictLeaf
  \/ WritePage
  \/ \E r \in Requests :
       \/ StartRequest(r)
       \/ \E l \in Layers, n \in 1 .. MaxCachedTokenCount[r] : BeginAppend(r, l, n)
       \/ \E n \in 1 .. MaxCachedTokenCount[r] : Truncate(r, n)
       \/ PublishCompletedPrefix(r)
       \/ RemoveRequest(r)

CacheSpec == CacheInit /\ [][CacheNext]_cacheVars

-----------------------------------------------------------------------------
(* Properties *)

Readers(p) == {r \in active : p \in TablePages(r)}
IndexEntries(p) == {e \in IndexedBlocks \X Layers : block_pages[e[1]][e[2]] = p}

CacheTypeOK ==
  /\ page_states \in [Pages -> Unallocated .. Cardinality(Requests)]
  /\ free_page_ids \subseteq Pages
  /\ contents \in [Pages -> Layers \X (Prefixes \cup {Root})]
  /\ active \subseteq Requests
  /\ block_tables \in [Requests -> [Layers -> Seq(Pages)]]
  /\ cached_token_count \in [Requests -> [Layers -> Nat]]
  /\ committed \in [Requests -> Nat]
  /\ cursors \in [Requests -> Nat]
  /\ IndexedBlocks \subseteq Prefixes
  /\ block_pages \in [IndexedBlocks -> [Layers -> Pages]]
  /\ child_counts \in [IndexedBlocks -> Nat]
  /\ leaf_blocks \subseteq IndexedBlocks
  /\ append \in {NoAppend} \cup
       [request : active, layer : Layers, left : 1 .. Cardinality(Pages) * PageTokenCount]

\* The state is well typed and every page is accounted for: it is free if and only if nobody holds it, writable
\* if and only if one request alone holds it, and otherwise its reader count is the
\* number of requests that hold it beside the index.  So no release frees a page
\* that is still read, and none is leaked by adoption, truncation or abort.
PageStatesMatchOwners == CacheTypeOK /\
  \A p \in Pages :
    /\ p \in free_page_ids <=> page_states[p] = Unallocated
    /\ page_states[p] = Unallocated <=> Readers(p) = {} /\ IndexEntries(p) = {}
    /\ page_states[p] = PendingWrite <=> Cardinality(Readers(p)) = 1 /\ IndexEntries(p) = {}
    /\ page_states[p] >= WrittenNotInUse <=> IndexEntries(p) # {}
    /\ page_states[p] >= WrittenNotInUse => page_states[p] = Cardinality(Readers(p))
    /\ Cardinality(IndexEntries(p)) <= 1

\* The index is a tree with exact child counts, and its leaves are the blocks that
\* may be evicted: no block outlives its parent, none becomes unreachable.
IndexIsATree ==
  /\ \A b \in IndexedBlocks :
       /\ ParentOf(b) \in IndexedBlocks \cup {Root}
       /\ child_counts[b] = Cardinality({c \in IndexedBlocks : ParentOf(c) = b})
  /\ leaf_blocks = {b \in IndexedBlocks : child_counts[b] = 0}

\* The blocks before a request's publication cursor stay indexed, with the very pages
\* the request holds, so a later publication extends a block that is still there.
CursorsAreProtected ==
  \A r \in active : \A i \in 1 .. cursors[r] :
    /\ PrefixAt[r][i] \in IndexedBlocks
    /\ \A l \in Layers : block_tables[r][l][i] = block_pages[PrefixAt[r][i]][l]

\* Every page a request reads, and every indexed page, holds the KV values of the
\* very prefix and layer it is read for, however pages were shared and reused.
CachedValuesAreRight ==
  /\ \A r \in active : \A l \in Layers : \A i \in DOMAIN block_tables[r][l] :
       contents[block_tables[r][l][i]] = <<l, PrefixAt[r][i]>>
  /\ \A b \in IndexedBlocks : \A l \in Layers : contents[block_pages[b][l]] = <<l, b>>

\* The scheduler's promise is kept by the pool: an admitted request can always append
\* up to its output limit, since whatever its reservation lacks can be evicted.
ReservedAppendsSucceed == ~AppendFails
=============================================================================
