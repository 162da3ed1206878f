------------------------- MODULE PagedKvCache_proofs -------------------------
(***************************************************************************)
(* The paged cache, for every number of requests, pages and layers, every  *)
(* page size and every way in which prompts share prefixes.                *)
(*                                                                         *)
(* What carries the proof is what a page holds: contents tells the layer   *)
(* and the prefix, a prefix tells its place in every prompt that has it,   *)
(* so whoever has a page has it at one place, and the index once.  A page  *)
(* that is not indexed has one reader, and no request has such a page      *)
(* before its cursor.                                                      *)
(***************************************************************************)
EXTENDS PagedKvCache, SequenceTheorems, FiniteSetTheorems, FunctionTheorems,
        WellFoundedInduction, TLAPS

-----------------------------------------------------------------------------
(* The inductive invariant *)

\* Pages of n tokens, and those of them that are full.
PageCount(n) == (n + PageTokenCount - 1) \div PageTokenCount
BlockCount(n) == n \div PageTokenCount

\* p is a page of an indexed block.
IsIndexed(p) == \E b \in IndexedBlocks, l \in Layers : block_pages[b][l] = p

\* CacheTypeOK without what follows from the rest.
TypeInv ==
  /\ page_states \in [Pages -> Int]
  /\ free_page_ids \subseteq Pages
  /\ contents \in [Pages -> Layers \X (Prefixes \cup {Root})]
  /\ active \subseteq Requests
  /\ block_tables \in [Requests -> [Layers -> Seq(Pages)]]
  /\ cached_token_count \in [Requests -> [Layers -> Nat]]
  /\ committed \in [Requests -> Nat]
  /\ cursors \in [Requests -> Nat]
  /\ block_pages \in [IndexedBlocks -> [Layers -> Pages]]
  /\ child_counts \in [IndexedBlocks -> Nat]

\* The free list has the unallocated pages.
FreeInv == \A p \in Pages : p \in free_page_ids <=> page_states[p] = Unallocated

\* The state of a page follows from its owners, and a page outside the index has one reader.
PageInv(p) ==
  /\ page_states[p] = IF IsIndexed(p) THEN Cardinality(Readers(p))
                      ELSE IF Readers(p) = {} THEN Unallocated ELSE PendingWrite
  /\ ~ IsIndexed(p) => \A q, r \in Readers(p) : q = r

\* r's tables have the pages of its tokens, and the index has none of the pages after its
\* cursor.
TableInv(r) ==
  /\ cursors[r] <= BlockCount(committed[r])
  /\ \A l \in Layers :
       /\ Len(block_tables[r][l]) = PageCount(cached_token_count[r][l])
       /\ committed[r] <= cached_token_count[r][l]
       /\ cached_token_count[r][l] <= MaxCachedTokenCount[r]
       /\ \A i \in DOMAIN block_tables[r][l] :
            i > cursors[r] => ~ IsIndexed(block_tables[r][l][i])

\* The prefixes that can be indexed.
Blocks == UNION {{PrefixAt[r][i] : i \in DOMAIN PrefixAt[r]} : r \in Requests}

\* The index is a finite tree of them.
IndexInv ==
  /\ IndexedBlocks \subseteq Blocks
  /\ IsFiniteSet(IndexedBlocks)
  /\ IndexIsATree

\* A running append stays within its request's limit.
AppendInv ==
  append = NoAppend \/
    /\ append \in [request : active, layer : Layers, left : Nat \ {0}]
    /\ cached_token_count[append.request][append.layer] + append.left
         <= MaxCachedTokenCount[append.request]

\* The reservations fit the pool.
AdmissionInv == Total(ReservedPageCount, active) <= PageCapacity

CacheInv ==
  /\ TypeInv
  /\ FreeInv
  /\ \A p \in Pages : PageInv(p)
  /\ \A r \in active : TableInv(r)
  /\ IndexInv
  /\ CursorsAreProtected
  /\ CachedValuesAreRight
  /\ AppendInv
  /\ AdmissionInv
-----------------------------------------------------------------------------
(* Counting tokens in pages *)

\* A product grows with its factor: the provers do not multiply variables by themselves.
LEMMA ProductGrows ==
  ASSUME NEW d \in Nat, NEW a \in Int, NEW b \in Int, a <= b
  PROVE  a * d <= b * d
<1>1. b - a \in Nat /\ b = a + (b - a)
  OBVIOUS
<1>2. (b - a) * d >= 0
  BY <1>1
<1>3. b * d = a * d + (b - a) * d
  OBVIOUS
<1>4. QED
  BY <1>2, <1>3

\* What a quotient and its remainder are, also for a divisor that is a constant.
LEMMA DivFacts ==
  ASSUME NEW d \in Nat \ {0}, NEW n \in Nat
  PROVE  /\ n \div d \in Nat /\ n % d \in 0 .. d - 1
         /\ n = (n \div d) * d + (n % d)
  OBVIOUS

\* A quotient is known from its bounds.
LEMMA QuotientIs ==
  ASSUME NEW d \in Nat \ {0}, NEW n \in Nat, NEW q \in Int, q * d <= n, n < (q + 1) * d
  PROVE  n \div d = q
<1> DEFINE k == n \div d
<1>1. k \in Nat /\ k * d <= n /\ n < (k + 1) * d
  <2>1. k \in Nat /\ n % d \in 0 .. d - 1 /\ n = k * d + (n % d)
    BY DivFacts
  <2>2. (k + 1) * d = k * d + d
    BY <2>1
  <2>3. QED
    BY <2>1, <2>2
<1> HIDE DEF k
<1>2. ~ (k < q)
  <2>1. SUFFICES ASSUME k + 1 <= q PROVE FALSE
    BY <1>1
  <2>2. (k + 1) * d <= q * d
    BY <1>1, <2>1, ProductGrows
  <2>3. QED
    BY <1>1, <2>2
<1>3. ~ (q < k)
  <2>1. SUFFICES ASSUME q + 1 <= k PROVE FALSE
    BY <1>1
  <2>2. (q + 1) * d <= k * d
    BY <1>1, <2>1, ProductGrows
  <2>3. QED
    BY <1>1, <2>2
<1>4. QED
  BY <1>1, <1>2, <1>3 DEF k

\* A number of pages is known from its bounds.
LEMMA PageCountIs ==
  ASSUME NEW n \in Nat, NEW q \in Nat,
         (q - 1) * PageTokenCount < n, n <= q * PageTokenCount
  PROVE  PageCount(n) = q
<1> DEFINE d == PageTokenCount
           m == n + d - 1
<1>1. d \in Nat \ {0}
  BY PagedKvCacheAssumption
<1> HIDE DEF d
<1>2. m \in Nat
  BY <1>1
<1>3. (q - 1) * d = q * d - d /\ (q + 1) * d = q * d + d /\ q * d \in Int
  BY <1>1
<1>4. q * d <= m /\ m < (q + 1) * d
  BY <1>1, <1>3 DEF d
<1> HIDE DEF m
<1>5. m \div d = q
  BY <1>1, <1>2, <1>4, QuotientIs
<1>6. QED
  BY <1>5 DEF m, d, PageCount

\* Pages and full pages of n tokens: they differ by the page that is partly filled.
LEMMA CountFacts ==
  ASSUME NEW n \in Nat
  PROVE  /\ BlockCount(n) \in Nat /\ PageCount(n) \in Nat
         /\ n % PageTokenCount \in 0 .. PageTokenCount - 1
         /\ n = BlockCount(n) * PageTokenCount + (n % PageTokenCount)
         /\ BlockCount(n) * PageTokenCount <= n
         /\ n < (BlockCount(n) + 1) * PageTokenCount
         /\ PageCount(n) = IF n % PageTokenCount = 0 THEN BlockCount(n) ELSE BlockCount(n) + 1
         /\ n <= PageCount(n) * PageTokenCount
<1> DEFINE d == PageTokenCount
           b == BlockCount(n)
<1>1. d \in Nat \ {0}
  BY PagedKvCacheAssumption
<1>2. b \in Nat /\ n % d \in 0 .. d - 1 /\ n = b * d + (n % d)
  BY <1>1, DivFacts DEF BlockCount
<1>3. (b + 1) * d = b * d + d /\ (b - 1) * d = b * d - d /\ b * d \in Nat
  <2> HIDE DEF b, d
  <2>1. QED
    BY <1>1, <1>2
<1>4. CASE n % d = 0
  <2>1. (b - 1) * d < n /\ n <= b * d
    <3> HIDE DEF b, d
    <3>1. QED
      BY <1>1, <1>2, <1>3, <1>4
  <2>2. PageCount(n) = b
    <3> HIDE DEF b
    <3>1. QED
      BY <1>2, <2>1, PageCountIs
  <2>3. QED
    BY <1>1, <1>2, <1>3, <1>4, <2>1, <2>2
<1>5. CASE n % d # 0
  <2>1. (b + 1 - 1) * d < n /\ n <= (b + 1) * d /\ b + 1 \in Nat
    <3> HIDE DEF b, d
    <3>1. n % d > 0
      BY <1>1, <1>2, <1>5
    <3>2. b + 1 - 1 = b
      BY <1>2
    <3>3. QED
      BY <1>1, <1>2, <1>3, <3>1, <3>2
  <2>2. PageCount(n) = b + 1
    <3> HIDE DEF b
    <3>1. QED
      BY <1>2, <2>1, PageCountIs
  <2>3. QED
    BY <1>1, <1>2, <1>3, <1>5, <2>1, <2>2
<1>6. QED
  BY <1>4, <1>5

\* A page more than the complete blocks, when they leave something over.
LEMMA GrowWithinPage ==
  ASSUME NEW n \in Nat, NEW k \in Nat \ {0}, k <= PageTokenCount - (n % PageTokenCount)
  PROVE  PageCount(n + k) = BlockCount(n) + 1
<1> DEFINE d == PageTokenCount
           b == BlockCount(n)
<1>1. /\ d \in Nat \ {0} /\ b \in Nat /\ n % d \in 0 .. d - 1
      /\ n = b * d + (n % d) /\ b * d <= n
  BY PagedKvCacheAssumption, CountFacts
<1> HIDE DEF d, b
<1>2. (b + 1) * d = b * d + d /\ b + 1 - 1 = b /\ b * d \in Int
  BY <1>1
<1>3. (b + 1 - 1) * d < n + k /\ n + k <= (b + 1) * d
  BY <1>1, <1>2 DEF d
<1> DEFINE sum == n + k
           pages == b + 1
<1>4. (pages - 1) * d < sum /\ sum <= pages * d /\ sum \in Nat /\ pages \in Nat
  BY <1>1, <1>3
<1> HIDE DEF sum, pages
<1>5. PageCount(sum) = pages
  BY <1>4, PageCountIs DEF d
<1>6. QED
  BY <1>5 DEF sum, pages, b

\* More tokens have no fewer pages.
LEMMA CountsGrow ==
  ASSUME NEW m \in Nat, NEW n \in Nat, m <= n
  PROVE  BlockCount(m) <= BlockCount(n) /\ PageCount(m) <= PageCount(n)
<1> DEFINE d == PageTokenCount
<1>0. d \in Nat \ {0}
  BY PagedKvCacheAssumption
<1>1. ASSUME NEW i \in Nat, NEW j \in Nat PROVE (i \div d) <= (j \div d) \/ ~ (i <= j)
  <2> DEFINE a == i \div d
             b == j \div d
  <2>1. /\ a \in Nat /\ i % d \in 0 .. d - 1 /\ i = a * d + (i % d)
        /\ b \in Nat /\ j % d \in 0 .. d - 1 /\ j = b * d + (j % d)
    BY <1>0, DivFacts
  <2> HIDE DEF a, b, d
  <2>2. ASSUME b < a, i <= j PROVE FALSE
    <3>1. b + 1 <= a
      BY <2>1, <2>2
    <3>2. (b + 1) * d <= a * d
      BY <1>0, <2>1, <3>1, ProductGrows
    <3>3. (b + 1) * d = b * d + d /\ a * d \in Int /\ b * d \in Int
      BY <1>0, <2>1
    <3>4. QED
      BY <1>0, <2>1, <2>2, <3>2, <3>3
  <2>3. QED
    BY <2>1, <2>2 DEF a, b
<1>2. m + d - 1 \in Nat /\ n + d - 1 \in Nat /\ m + d - 1 <= n + d - 1
  BY <1>0
<1>3. QED
  BY <1>1, <1>2 DEF BlockCount, PageCount

\* Complete pages before some tokens add to the pages of the tokens.
LEMMA CountsOfMultiple ==
  ASSUME NEW q \in Nat, NEW n \in Nat
  PROVE  /\ q * PageTokenCount \in Nat
         /\ BlockCount(q * PageTokenCount) = q
         /\ PageCount(q * PageTokenCount) = q
         /\ PageCount(q * PageTokenCount + n) = q + PageCount(n)
<1> DEFINE d == PageTokenCount
           p == PageCount(n)
<1>1. d \in Nat \ {0}
  BY PagedKvCacheAssumption
<1>2. q * d \in Nat /\ (q - 1) * d = q * d - d /\ (q + 1) * d = q * d + d
  <2> HIDE DEF d
  <2>1. QED
    BY <1>1
<1>3. BlockCount(q * d) = q
  <2>1. q * d <= q * d /\ q * d < (q + 1) * d
    BY <1>1, <1>2
  <2>2. QED
    BY <1>1, <1>2, <2>1, QuotientIs DEF BlockCount
<1>4. PageCount(q * d) = q
  <2>1. (q - 1) * d < q * d /\ q * d <= q * d
    BY <1>1, <1>2
  <2>2. QED
    BY <1>1, <1>2, <2>1, PageCountIs
<1>5. p \in Nat /\ n <= p * d /\ (p - 1) * d < n
  <2> DEFINE b == BlockCount(n)
  <2>1. /\ p \in Nat /\ b \in Nat /\ n % d \in 0 .. d - 1 /\ n = b * d + (n % d)
        /\ p = (IF n % d = 0 THEN b ELSE b + 1) /\ n <= p * d
    BY CountFacts
  <2> HIDE DEF b, p, d
  <2>2. (b - 1) * d = b * d - d /\ b * d \in Int /\ (b + 1 - 1) = b
    BY <1>1, <2>1
  <2>3. (p - 1) * d < n
    BY <1>1, <2>1, <2>2
  <2>4. QED
    BY <2>1, <2>3
<1>6. PageCount(q * d + n) = q + p
  <2>1. (q + p) * d = q * d + p * d /\ (q + p - 1) * d = q * d + (p - 1) * d /\ p * d \in Int
        /\ (p - 1) * d \in Int
    <3> HIDE DEF p, d
    <3>1. QED
      BY <1>1, <1>5
  <2>2. /\ (q + p - 1) * d < q * d + n /\ q * d + n <= (q + p) * d
        /\ q * d + n \in Nat /\ q + p \in Nat
    <3> HIDE DEF p, d
    <3>1. QED
      BY <1>1, <1>2, <1>5, <2>1
  <2> DEFINE sum == q * d + n
             pages == q + p
  <2> HIDE DEF p, d
  <2>3. (pages - 1) * d < sum /\ sum <= pages * d /\ sum \in Nat /\ pages \in Nat
    BY <1>1, <1>5, <2>2
  <2> HIDE DEF sum, pages
  <2>4. PageCount(sum) = pages
    BY <2>3, PageCountIs DEF d
  <2>5. QED
    BY <2>4 DEF sum, pages, p, d
<1>7. QED
  BY <1>2, <1>3, <1>4, <1>6

\* The pages that an append needs are those that its tokens add.
LEMMA RequiredPages ==
  ASSUME NEW c \in Nat, NEW n \in Nat \ {0}
  PROVE  RequiredPageCount(c, n) = PageCount(c + n) - PageCount(c)
<1> DEFINE d == PageTokenCount
           b == BlockCount(c)
           k == PageCount(c)
           rest == (d - (c % d)) % d
<1>1. /\ d \in Nat \ {0} /\ b \in Nat /\ k \in Nat /\ c % d \in 0 .. d - 1
      /\ c = b * d + (c % d) /\ k = IF c % d = 0 THEN b ELSE b + 1
  BY PagedKvCacheAssumption, CountFacts
<1>2. rest = IF c % d = 0 THEN 0 ELSE d - (c % d)
  <2>1. CASE c % d = 0
    <3>1. d - (c % d) = 1 * d
      BY <1>1, <2>1
    <3>2. (1 * d) % d = 0
      <4> HIDE DEF d
      <4>1. d % d = 0
        BY <1>1
      <4>2. QED
        BY <1>1, <4>1
    <3>3. QED
      BY <2>1, <3>1, <3>2
  <2>2. CASE c % d # 0
    <3>1. d - (c % d) \in 0 .. d - 1
      BY <1>1, <2>2
    <3>2. \A x \in 0 .. d - 1 : x % d = x
      BY <1>1
    <3>3. QED
      BY <2>2, <3>1, <3>2
  <2>3. QED
    BY <2>1, <2>2
<1>3. CASE n <= rest
  <2>1. c % d # 0 /\ n <= d - (c % d)
    BY <1>1, <1>2, <1>3
  <2>2. PageCount(c + n) = b + 1
    BY <2>1, GrowWithinPage
  <2>3. QED
    BY <1>1, <1>3, <2>1, <2>2 DEF RequiredPageCount
<1>4. CASE ~ (n <= rest)
  <2>1. rest \in Nat /\ n - rest \in Nat
    BY <1>1, <1>2, <1>4
  <2>2. c + rest = k * d
    <3> HIDE DEF d, b, k
    <3>1. (b + 1) * d = b * d + d /\ b * d \in Int
      BY <1>1
    <3>2. QED
      BY <1>1, <1>2, <3>1
  <2>3. c + n = k * d + (n - rest)
    BY <1>1, <2>1, <2>2
  <2>4. PageCount(c + n) = k + PageCount(n - rest)
    <3> DEFINE more == n - rest
    <3> HIDE DEF more, k, rest
    <3>1. PageCount(k * d + more) = k + PageCount(more)
      BY <1>1, <2>1, CountsOfMultiple DEF more
    <3>2. QED
      BY <2>3, <3>1 DEF more
  <2>5. RequiredPageCount(c, n) = PageCount(n - rest)
    BY <1>4 DEF RequiredPageCount, PageCount
  <2>6. PageCount(n - rest) \in Nat
    BY <2>1, CountFacts
  <2>7. QED
    BY <1>1, <2>4, <2>5, <2>6
<1>5. QED
  BY <1>3, <1>4
-----------------------------------------------------------------------------
(* Requests, prefixes and places *)

\* What a request asks for: its prompt fits its cache, and every page of it has a prefix.
LEMMA ConstantFacts ==
  ASSUME NEW r \in Requests
  PROVE  /\ MaxCachedTokenCount[r] \in Nat \ {0} /\ InputTokenCount[r] \in Nat \ {0}
         /\ InputTokenCount[r] <= MaxCachedTokenCount[r]
         /\ ReservedPageCount[r] = PageCount(MaxCachedTokenCount[r])
         /\ ReservedPageCount[r] \in Nat
         /\ DOMAIN PrefixAt[r] = 1 .. ReservedPageCount[r]
         /\ \A i \in DOMAIN PrefixAt[r] : PrefixAt[r][i] \in Prefixes /\ PrefixAt[r][i] # Root
<1>1. /\ MaxCachedTokenCount[r] \in Nat \ {0} /\ InputTokenCount[r] \in Nat \ {0}
      /\ InputTokenCount[r] <= MaxCachedTokenCount[r]
      /\ Len(PrefixAt[r]) = ReservedPageCount[r] /\ PrefixAt[r] \in Seq(Prefixes)
      /\ Root \notin Prefixes
  BY PagedKvCacheAssumption
<1>2. ReservedPageCount[r] = PageCount(MaxCachedTokenCount[r])
  BY DEF ReservedPageCount, PageCount
<1>3. ReservedPageCount[r] \in Nat
  BY <1>1, <1>2, CountFacts
<1>4. DOMAIN PrefixAt[r] = 1 .. ReservedPageCount[r]
  BY <1>1, LenProperties
<1>5. \A i \in DOMAIN PrefixAt[r] : PrefixAt[r][i] \in Prefixes
  BY <1>1, <1>4, ElementOfSeq
<1>6. QED
  BY <1>1, <1>2, <1>3, <1>4, <1>5

\* A prefix tells its place and its parent.
LEMMA SamePrefix ==
  ASSUME NEW r \in Requests, NEW i \in DOMAIN PrefixAt[r],
         NEW q \in Requests, NEW j \in DOMAIN PrefixAt[q], PrefixAt[r][i] = PrefixAt[q][j]
  PROVE  i = j /\ Parent(r, i) = Parent(q, j)
<1>1. i = j /\ (i > 1 => PrefixAt[r][i - 1] = PrefixAt[q][i - 1])
  BY PagedKvCacheAssumption
<1>2. i \in Nat /\ i >= 1
  BY ConstantFacts
<1>3. QED
  BY <1>1, <1>2 DEF Parent

\* A prefix tells its place in a prompt, and so its parent.
LEMMA ParentFacts ==
  ASSUME NEW r \in Requests, NEW i \in DOMAIN PrefixAt[r]
  PROVE  /\ ParentOf(PrefixAt[r][i]) = Parent(r, i)
         /\ Parent(r, i) \in Prefixes \cup {Root}
         /\ i > 1 => i - 1 \in DOMAIN PrefixAt[r] /\ Parent(r, i) = PrefixAt[r][i - 1]
         /\ i = 1 => Parent(r, i) = Root
<1> DEFINE b == PrefixAt[r][i]
           IsParent(parent) ==
             \E q \in Requests : \E j \in DOMAIN PrefixAt[q] :
               PrefixAt[q][j] = b /\ Parent(q, j) = parent
<1>1. /\ i \in 1 .. ReservedPageCount[r] /\ ReservedPageCount[r] \in Nat
      /\ DOMAIN PrefixAt[r] = 1 .. ReservedPageCount[r]
  BY ConstantFacts
<1>2. /\ i > 1 => i - 1 \in DOMAIN PrefixAt[r] /\ Parent(r, i) = PrefixAt[r][i - 1]
      /\ i = 1 => Parent(r, i) = Root
  BY <1>1 DEF Parent
<1>3. Parent(r, i) \in Prefixes \cup {Root}
  BY <1>1, <1>2, ConstantFacts
<1>4. \A parent : IsParent(parent) => parent = Parent(r, i)
  BY SamePrefix
<1>5. IsParent(Parent(r, i))
  OBVIOUS
<1>6. ParentOf(b) = Parent(r, i)
  BY <1>3, <1>4, <1>5 DEF ParentOf
<1>7. QED
  BY <1>2, <1>3, <1>6

\* A request's i-th page of a layer.
LEMMA PlaceFacts ==
  ASSUME CacheInv, NEW r \in active, NEW l \in Layers, NEW i \in DOMAIN block_tables[r][l]
  PROVE  /\ r \in Requests /\ i \in DOMAIN PrefixAt[r]
         /\ block_tables[r][l][i] \in Pages
         /\ contents[block_tables[r][l][i]] = <<l, PrefixAt[r][i]>>
         /\ r \in Readers(block_tables[r][l][i])
<1>1. r \in Requests
  BY DEF CacheInv, TypeInv
<1>2. block_tables[r][l] \in Seq(Pages) /\ cached_token_count[r][l] \in Nat
  BY <1>1 DEF CacheInv, TypeInv
<1>3. /\ Len(block_tables[r][l]) = PageCount(cached_token_count[r][l])
      /\ cached_token_count[r][l] <= MaxCachedTokenCount[r]
  BY DEF CacheInv, TableInv
<1>4. PageCount(cached_token_count[r][l]) <= ReservedPageCount[r]
  BY <1>1, <1>2, <1>3, CountsGrow, ConstantFacts
<1>5. DOMAIN block_tables[r][l] = 1 .. PageCount(cached_token_count[r][l])
      /\ PageCount(cached_token_count[r][l]) \in Nat
  BY <1>2, <1>3, LenProperties, CountFacts
<1>6. i \in DOMAIN PrefixAt[r]
  BY <1>1, <1>4, <1>5, ConstantFacts
<1>7. block_tables[r][l][i] \in Pages
  BY <1>2, <1>3, <1>5, ElementOfSeq
<1>8. contents[block_tables[r][l][i]] = <<l, PrefixAt[r][i]>>
  BY DEF CacheInv, CachedValuesAreRight
<1>9. QED
  BY <1>1, <1>6, <1>7, <1>8 DEF Readers, TablePages

\* What a page holds tells who may share it: requests at the same place, and one index entry.
LEMMA SameHolder ==
  ASSUME CacheInv, NEW r \in active, NEW l \in Layers, NEW i \in DOMAIN block_tables[r][l],
         NEW q \in active, NEW k \in Layers, NEW j \in DOMAIN block_tables[q][k],
         block_tables[r][l][i] = block_tables[q][k][j]
  PROVE  l = k /\ i = j /\ PrefixAt[r][i] = PrefixAt[q][j]
<1>1. l = k /\ PrefixAt[r][i] = PrefixAt[q][j]
  BY PlaceFacts
<1>2. QED
  BY <1>1, PlaceFacts, SamePrefix

\* A page of an indexed block belongs to that block and layer only.
LEMMA EntryFacts ==
  ASSUME CacheInv, NEW b \in IndexedBlocks, NEW l \in Layers
  PROVE  /\ b \in Prefixes /\ b # Root
         /\ block_pages[b][l] \in Pages
         /\ contents[block_pages[b][l]] = <<l, b>>
         /\ IsIndexed(block_pages[b][l])
         /\ \A c \in IndexedBlocks, k \in Layers :
              block_pages[c][k] = block_pages[b][l] => c = b /\ k = l
<1>1. b \in Prefixes /\ b # Root
  BY ConstantFacts DEF CacheInv, IndexInv, Blocks
<1>2. block_pages[b][l] \in Pages
  BY DEF CacheInv, TypeInv
<1>3. \A c \in IndexedBlocks, k \in Layers : contents[block_pages[c][k]] = <<k, c>>
  BY DEF CacheInv, CachedValuesAreRight
<1>4. QED
  BY <1>1, <1>2, <1>3 DEF IsIndexed

\* Whoever holds an indexed page holds it at the block's place, before its own cursor.
LEMMA EntryHolder ==
  ASSUME CacheInv, NEW b \in IndexedBlocks, NEW l \in Layers,
         NEW r \in active, NEW k \in Layers, NEW i \in DOMAIN block_tables[r][k],
         block_tables[r][k][i] = block_pages[b][l]
  PROVE  k = l /\ b = PrefixAt[r][i] /\ i <= cursors[r]
<1>1. k = l /\ b = PrefixAt[r][i]
  BY PlaceFacts, EntryFacts
<1>2. IsIndexed(block_tables[r][k][i])
  BY EntryFacts
<1>3. ~ (i > cursors[r])
  BY <1>2 DEF CacheInv, TableInv
<1>4. i \in Nat /\ cursors[r] \in Nat
  <2>1. r \in Requests /\ i \in DOMAIN PrefixAt[r]
    BY PlaceFacts
  <2>2. i \in 1 .. ReservedPageCount[r]
    BY <2>1, ConstantFacts
  <2>3. QED
    BY <2>1, <2>2 DEF CacheInv, TypeInv
<1>5. QED
  BY <1>1, <1>3, <1>4

\* The readers of a page, by the places it has in their tables.
LEMMA ReaderFacts ==
  ASSUME NEW p
  PROVE  /\ \A r : r \in Readers(p) <=>
                     r \in active /\ \E l \in Layers : \E i \in DOMAIN block_tables[r][l] :
                                       block_tables[r][l][i] = p
         /\ active \subseteq Requests =>
              Readers(p) \subseteq Requests /\ IsFiniteSet(Readers(p))
<1>1. active \subseteq Requests => Readers(p) \subseteq Requests
  BY DEF Readers
<1>2. IsFiniteSet(Requests)
  BY PagedKvCacheAssumption
<1>3. QED
  BY <1>1, <1>2, FS_Subset DEF Readers, TablePages

-----------------------------------------------------------------------------
(* What a step does to a page *)

\* Only r's table and counts change.
OnlyRequest(r) ==
  /\ active' \subseteq Requests
  /\ \A q \in Requests \ {r} :
       /\ q \in active' <=> q \in active
       /\ block_tables'[q] = block_tables[q]
       /\ cached_token_count'[q] = cached_token_count[q]
       /\ committed'[q] = committed[q]
       /\ cursors'[q] = cursors[q]

\* The ways in which the owners of a page and its state change together, when only r's table
\* changes.
PageStep(r, p) ==
  \/ /\ r \in Readers(p)' <=> r \in Readers(p)
     /\ IsIndexed(p)' <=> IsIndexed(p)
     /\ page_states'[p] = page_states[p]
  \/ /\ IsIndexed(p) /\ IsIndexed(p)'
     /\ r \notin Readers(p) /\ r \in Readers(p)'
     /\ page_states'[p] = Retained(page_states[p])
  \/ /\ IsIndexed(p)' <=> IsIndexed(p)
     /\ r \in Readers(p) /\ r \notin Readers(p)'
     /\ page_states'[p] = Released(page_states[p])
  \/ /\ ~ IsIndexed(p) /\ ~ IsIndexed(p)'
     /\ r \notin Readers(p) /\ r \in Readers(p)'
     /\ page_states[p] = Unallocated /\ page_states'[p] = PendingWrite
  \/ /\ ~ IsIndexed(p) /\ IsIndexed(p)'
     /\ r \in Readers(p) /\ r \in Readers(p)'
     /\ page_states'[p] = Retained(page_states[p])
  \/ /\ IsIndexed(p) /\ ~ IsIndexed(p)'
     /\ Readers(p) = {} /\ r \notin Readers(p)'
     /\ page_states'[p] = Released(page_states[p])

\* A step of one request changes the readers of a page by that request at most.
LEMMA ReadersChange ==
  ASSUME TypeInv, NEW r \in Requests, OnlyRequest(r), NEW p
  PROVE  Readers(p)' = IF r \in Readers(p)' THEN Readers(p) \cup {r} ELSE Readers(p) \ {r}
<1>1. active \subseteq Requests /\ active' \subseteq Requests
  BY DEF TypeInv, OnlyRequest
<1>2. \A q \in Requests \ {r} : q \in Readers(p)' <=> q \in Readers(p)
  BY <1>1 DEF OnlyRequest, Readers, TablePages
<1>3. Readers(p) \subseteq Requests /\ Readers(p)' \subseteq Requests
  BY <1>1 DEF Readers
<1>4. QED
  BY <1>2, <1>3

\* If the state of a page moves with its one reader and the index, it keeps matching its owners.
LEMMA PageStepInv ==
  ASSUME TypeInv, NEW r \in Requests, OnlyRequest(r), NEW p, PageInv(p), PageStep(r, p)
  PROVE  PageInv(p)'
<1> DEFINE before == Readers(p)
           after == Readers(p)'
<1>1. after = IF r \in after THEN before \cup {r} ELSE before \ {r}
  BY ReadersChange
<1>2. IsFiniteSet(before)
  BY ReaderFacts DEF TypeInv
<1>3. /\ Cardinality(before) \in Nat
      /\ Cardinality(before \cup {r}) =
           IF r \in before THEN Cardinality(before) ELSE Cardinality(before) + 1
      /\ Cardinality(before \ {r}) =
           IF r \in before THEN Cardinality(before) - 1 ELSE Cardinality(before)
      /\ before = {} <=> Cardinality(before) = 0
  BY <1>2, FS_CardinalityType, FS_AddElement, FS_RemoveElement, FS_EmptySet
<1>4. /\ page_states[p] = IF IsIndexed(p) THEN Cardinality(before)
                          ELSE IF before = {} THEN Unallocated ELSE PendingWrite
      /\ ~ IsIndexed(p) => \A s, t \in before : s = t
  BY DEF PageInv
<1>5. SUFFICES
        /\ page_states'[p] = IF IsIndexed(p)' THEN Cardinality(after)
                             ELSE IF after = {} THEN Unallocated ELSE PendingWrite
        /\ ~ IsIndexed(p)' => \A s, t \in after : s = t
  BY DEF PageInv
<1> HIDE DEF before, after
<1>6. CASE /\ r \in after <=> r \in before
           /\ IsIndexed(p)' <=> IsIndexed(p)
           /\ page_states'[p] = page_states[p]
  <2>1. after = before
    BY <1>1, <1>6
  <2>2. QED
    BY <1>4, <1>6, <2>1
<1>7. CASE /\ IsIndexed(p) /\ IsIndexed(p)'
           /\ r \notin before /\ r \in after
           /\ page_states'[p] = Retained(page_states[p])
  <2>1. after = before \cup {r} /\ Cardinality(after) = Cardinality(before) + 1
    BY <1>1, <1>3, <1>7
  <2>2. page_states'[p] = Cardinality(before) + 1
    BY <1>3, <1>4, <1>7 DEF Retained, Unallocated, PendingWrite
  <2>3. QED
    BY <1>7, <2>1, <2>2
<1>8. CASE /\ IsIndexed(p)' <=> IsIndexed(p)
           /\ r \in before /\ r \notin after
           /\ page_states'[p] = Released(page_states[p])
  <2>1. after = before \ {r} /\ Cardinality(after) = Cardinality(before) - 1
        /\ Cardinality(before) > 0
    <3>1. after = before \ {r}
      BY <1>1, <1>8
    <3>2. before # {}
      BY <1>8
    <3>3. QED
      BY <1>3, <1>8, <3>1, <3>2
  <2>2. CASE IsIndexed(p)
    <3>1. page_states'[p] = Cardinality(before) - 1
      BY <1>3, <1>4, <1>8, <2>1, <2>2
      DEF Released, Unallocated, PendingWrite, WrittenNotInUse
    <3>2. QED
      BY <1>8, <2>1, <2>2, <3>1
  <2>3. CASE ~ IsIndexed(p)
    <3>1. page_states'[p] = Unallocated
      BY <1>4, <1>8, <2>3 DEF Released
    <3>2. after = {}
      BY <1>4, <1>8, <2>1, <2>3
    <3>3. QED
      BY <1>8, <2>3, <3>1, <3>2
  <2>4. QED
    BY <2>2, <2>3
<1>9. CASE /\ ~ IsIndexed(p) /\ ~ IsIndexed(p)'
           /\ r \notin before /\ r \in after
           /\ page_states[p] = Unallocated /\ page_states'[p] = PendingWrite
  <2>1. before = {}
    BY <1>4, <1>9 DEF Unallocated, PendingWrite
  <2>2. after = {r}
    BY <1>1, <1>9, <2>1
  <2>3. QED
    BY <1>9, <2>2
<1>10. CASE /\ ~ IsIndexed(p) /\ IsIndexed(p)'
            /\ r \in before /\ r \in after
            /\ page_states'[p] = Retained(page_states[p])
  <2>1. after = before /\ before = {r}
    BY <1>1, <1>4, <1>10
  <2>2. Cardinality(after) = 1
    BY <2>1, FS_Singleton
  <2>3. page_states'[p] = 1
    BY <1>4, <1>10, <2>1 DEF Retained, Unallocated, PendingWrite
  <2>4. QED
    BY <1>10, <2>2, <2>3
<1>11. CASE /\ IsIndexed(p) /\ ~ IsIndexed(p)'
            /\ before = {} /\ r \notin after
            /\ page_states'[p] = Released(page_states[p])
  <2>1. after = {} /\ Cardinality(before) = 0
    BY <1>1, <1>3, <1>11
  <2>2. page_states'[p] = Unallocated
    BY <1>4, <1>11, <2>1 DEF Released, WrittenNotInUse
  <2>3. QED
    BY <1>11, <2>1, <2>2
<1>12. QED
  BY <1>6, <1>7, <1>8, <1>9, <1>10, <1>11 DEF PageStep, before, after

\* States of pages are numbers.
LEMMA StateFacts ==
  ASSUME CacheInv, NEW p \in Pages
  PROVE  page_states[p] \in Int /\ page_states[p] >= Unallocated
<1>1. IsFiniteSet(Readers(p))
  BY ReaderFacts DEF CacheInv, TypeInv
<1>2. Cardinality(Readers(p)) \in Nat
  BY <1>1, FS_CardinalityType
<1>3. page_states[p] = IF IsIndexed(p) THEN Cardinality(Readers(p))
                       ELSE IF Readers(p) = {} THEN Unallocated ELSE PendingWrite
  BY DEF CacheInv, PageInv
<1>4. QED
  BY <1>2, <1>3 DEF Unallocated, PendingWrite

\* The pool after pages were retained and others released.
LEMMA ExchangeFacts ==
  ASSUME CacheInv, NEW R, NEW T, R \cap T = {}, Exchange(R, T)
  PROVE  /\ \A p \in Pages :
              page_states'[p] = IF p \in R THEN Retained(page_states[p])
                                ELSE IF p \in T THEN Released(page_states[p])
                                ELSE page_states[p]
         /\ page_states' \in [Pages -> Int]
         /\ T \subseteq Pages => free_page_ids' \subseteq Pages
         /\ FreeInv'
<1>1. page_states \in [Pages -> Int] /\ free_page_ids \subseteq Pages
  BY DEF CacheInv, TypeInv
<1>2. \A s \in Int : Retained(s) \in Int /\ Released(s) \in Int
  BY DEF Retained, Released, Unallocated, PendingWrite, WrittenNotInUse
<1>3. /\ page_states' = [p \in Pages |-> IF p \in T THEN Released(RetainPages(page_states, R)[p])
                                         ELSE RetainPages(page_states, R)[p]]
      /\ \A p \in Pages : RetainPages(page_states, R)[p] =
                            IF p \in R THEN Retained(page_states[p]) ELSE page_states[p]
  BY DEF Exchange, ReleasePages, RetainPages
<1>4. \A p \in Pages :
        page_states'[p] = IF p \in R THEN Retained(page_states[p])
                          ELSE IF p \in T THEN Released(page_states[p])
                          ELSE page_states[p]
  BY <1>3
<1>5. page_states' \in [Pages -> Int]
  BY <1>1, <1>2, <1>3, <1>4
<1>6. free_page_ids' = free_page_ids \cup
        {p \in T : RetainPages(page_states, R)[p] # Unallocated /\ page_states'[p] = Unallocated}
  BY DEF Exchange
<1>7. ASSUME NEW p \in Pages
      PROVE  p \in free_page_ids' <=> page_states'[p] = Unallocated
  <2>1. p \in free_page_ids <=> page_states[p] = Unallocated
    BY DEF CacheInv, FreeInv
  <2>2. CASE p \in T
    <3>1. p \notin R /\ RetainPages(page_states, R)[p] = page_states[p]
      BY <1>3, <2>2
    <3>2. page_states'[p] = Released(page_states[p])
      BY <1>4, <2>2, <3>1
    <3>3. page_states[p] = Unallocated => page_states'[p] = Unallocated
      BY <3>2 DEF Released
    <3>4. QED
      BY <1>6, <2>1, <2>2, <3>1, <3>3
  <2>3. CASE p \notin T
    <3>1. p \in free_page_ids' <=> p \in free_page_ids
      BY <1>6, <2>3
    <3>2. page_states'[p] = Unallocated <=> page_states[p] = Unallocated
      <4>1. page_states[p] \in Int /\ page_states[p] >= Unallocated
        BY StateFacts
      <4>2. Retained(page_states[p]) = Unallocated <=> page_states[p] = Unallocated
        BY <4>1 DEF Retained, Unallocated, PendingWrite
      <4>3. QED
        BY <1>4, <2>3, <4>2
    <3>3. QED
      BY <2>1, <3>1, <3>2
  <2>4. QED
    BY <2>2, <2>3
<1>8. FreeInv'
  BY <1>7 DEF FreeInv
<1>9. QED
  BY <1>1, <1>4, <1>5, <1>6, <1>8

\* A page with an owner is not free.
LEMMA OwnedPage ==
  ASSUME CacheInv, NEW p \in Pages, IsIndexed(p) \/ Readers(p) # {}
  PROVE  page_states[p] # Unallocated
<1>1. Cardinality(Readers(p)) \in Nat
  BY ReaderFacts, FS_CardinalityType DEF CacheInv, TypeInv
<1>2. QED
  BY <1>1 DEF CacheInv, PageInv, Unallocated, PendingWrite

\* A step of one request leaves the tables of the others right, unless it indexes their pages.
LEMMA OtherTables ==
  ASSUME CacheInv, NEW r \in Requests, OnlyRequest(r), NEW q \in active', q # r,
         \A p : q \in Readers(p) /\ IsIndexed(p)' => IsIndexed(p)
  PROVE  q \in active /\ TableInv(q)'
<1>1. /\ q \in active /\ block_tables'[q] = block_tables[q]
      /\ cached_token_count'[q] = cached_token_count[q]
      /\ committed'[q] = committed[q] /\ cursors'[q] = cursors[q]
  BY DEF OnlyRequest
<1>2. TableInv(q)
  BY <1>1 DEF CacheInv
<1>3. ASSUME NEW l \in Layers, NEW i \in DOMAIN block_tables[q][l], i > cursors[q], NEW p,
             p = block_tables[q][l][i]
      PROVE  ~ IsIndexed(p)'
  <2>1. q \in Readers(p)
    BY <1>1, <1>3, PlaceFacts
  <2>2. ~ IsIndexed(p)
    BY <1>2, <1>3 DEF TableInv
  <2>3. QED
    BY <2>1, <2>2
<1>4. ASSUME NEW l \in Layers, NEW i \in DOMAIN block_tables'[q][l], i > cursors'[q]
      PROVE  ~ \E b \in IndexedBlocks', k \in Layers : block_pages'[b][k] = block_tables'[q][l][i]
  <2>1. SUFFICES ASSUME NEW b \in IndexedBlocks', NEW k \in Layers, NEW p,
                        block_pages'[b][k] = p, block_tables'[q][l][i] = p
                 PROVE  FALSE
    OBVIOUS
  <2>2. IsIndexed(p)'
    BY <2>1 DEF IsIndexed
  <2>3. p = block_tables[q][l][i] /\ i \in DOMAIN block_tables[q][l] /\ i > cursors[q]
    BY <1>1, <1>4, <2>1
  <2>4. QED
    BY <1>3, <2>2, <2>3
<1>5. QED
  BY <1>1, <1>2, <1>4 DEF TableInv, IsIndexed

\* A step that leaves the index alone, changes one request and writes only to free pages.
LEMMA IndexStays ==
  ASSUME CacheInv, NEW r \in Requests, OnlyRequest(r), UNCHANGED indexVars,
         TypeInv', FreeInv', AppendInv', AdmissionInv',
         \A p \in Pages : PageStep(r, p),
         \A p \in Pages : page_states[p] # Unallocated => contents'[p] = contents[p],
         r \in active' =>
           /\ TableInv(r)'
           /\ \A i \in 1 .. cursors'[r] :
                /\ PrefixAt[r][i] \in IndexedBlocks
                /\ \A l \in Layers : block_tables'[r][l][i] = block_pages[PrefixAt[r][i]][l]
           /\ \A l \in Layers : \A i \in DOMAIN block_tables'[r][l] :
                contents'[block_tables'[r][l][i]] = <<l, PrefixAt[r][i]>>
  PROVE  CacheInv'
<1>1. /\ IndexedBlocks' = IndexedBlocks /\ block_pages' = block_pages
      /\ child_counts' = child_counts /\ leaf_blocks' = leaf_blocks
      /\ \A p : IsIndexed(p)' <=> IsIndexed(p)
  BY DEF indexVars, IsIndexed, IndexedBlocks
<1>2. \A p \in Pages : PageInv(p)'
  BY PageStepInv DEF CacheInv
<1>3. ASSUME NEW q \in active', q # r PROVE q \in active /\ TableInv(q)'
  <2>1. \A p : q \in Readers(p) /\ IsIndexed(p)' => IsIndexed(p)
    BY <1>1
  <2>2. QED
    BY <1>3, <2>1, OtherTables
<1>4. \A q \in active' : TableInv(q)'
  BY <1>3
<1>5. IndexInv'
  BY <1>1 DEF CacheInv, IndexInv, IndexIsATree
<1>6. CursorsAreProtected'
  <2>1. ASSUME NEW q \in active', q # r, NEW i \in 1 .. cursors'[q]
        PROVE  /\ PrefixAt[q][i] \in IndexedBlocks
               /\ \A l \in Layers : block_tables'[q][l][i] = block_pages[PrefixAt[q][i]][l]
    <3>1. q \in active /\ block_tables'[q] = block_tables[q] /\ cursors'[q] = cursors[q]
      BY <2>1, <1>3 DEF OnlyRequest
    <3>2. QED
      BY <2>1, <3>1 DEF CacheInv, CursorsAreProtected
  <2>2. QED
    BY <1>1, <2>1 DEF CursorsAreProtected
<1>7. CachedValuesAreRight'
  <2>1. ASSUME NEW q \in active', NEW l \in Layers, NEW i \in DOMAIN block_tables'[q][l]
        PROVE  contents'[block_tables'[q][l][i]] = <<l, PrefixAt[q][i]>>
    <3>1. CASE q = r
      BY <2>1, <3>1
    <3>2. CASE q # r
      <4> DEFINE p == block_tables[q][l][i]
      <4>1. q \in active /\ block_tables'[q] = block_tables[q]
        BY <2>1, <1>3, <3>2 DEF OnlyRequest
      <4>2. /\ p \in Pages /\ q \in Readers(p)
            /\ contents[p] = <<l, PrefixAt[q][i]>>
        BY <2>1, <4>1, PlaceFacts
      <4> HIDE DEF p
      <4>3. contents'[p] = contents[p]
        BY <4>2, OwnedPage
      <4>4. QED
        BY <4>1, <4>2, <4>3 DEF p
    <3>3. QED
      BY <3>1, <3>2
  <2>2. ASSUME NEW b \in IndexedBlocks, NEW l \in Layers
        PROVE  contents'[block_pages[b][l]] = <<l, b>>
    <3>1. /\ block_pages[b][l] \in Pages /\ IsIndexed(block_pages[b][l])
          /\ contents[block_pages[b][l]] = <<l, b>>
      BY EntryFacts
    <3>2. QED
      BY <3>1, OwnedPage
  <2>3. QED
    BY <1>1, <2>1, <2>2 DEF CachedValuesAreRight
<1>8. QED
  BY <1>2, <1>4, <1>5, <1>6, <1>7 DEF CacheInv

-----------------------------------------------------------------------------
(* The steps that leave the index alone *)

\* The initial state.
LEMMA InitInv == CacheInit => CacheInv
<1> SUFFICES ASSUME CacheInit PROVE CacheInv
  OBVIOUS
<1>1. IndexedBlocks = {} /\ \A p : ~ IsIndexed(p) /\ Readers(p) = {}
  BY DEF CacheInit, IsIndexed, Readers, IndexedBlocks
<1>2. LayerCount \in Nat \ {0} /\ 1 \in Layers
  BY PagedKvCacheAssumption DEF Layers
<1>3. TypeInv
  BY <1>1, <1>2 DEF CacheInit, TypeInv, Unallocated
<1>4. FreeInv
  BY DEF CacheInit, FreeInv
<1>5. \A p \in Pages : PageInv(p)
  BY <1>1 DEF CacheInit, PageInv
<1>6. IndexInv
  BY <1>1, FS_EmptySet DEF CacheInit, IndexInv, IndexIsATree
<1>7. CursorsAreProtected /\ CachedValuesAreRight /\ \A r \in active : TableInv(r)
  BY <1>1 DEF CacheInit, CursorsAreProtected, CachedValuesAreRight
<1>8. AppendInv
  BY DEF CacheInit, AppendInv
<1>9. AdmissionInv
  <2>1. Total(ReservedPageCount, {}) = 0
    BY FS_EmptySet DEF Total
  <2>2. Cardinality(Pages) \in Nat
    BY PagedKvCacheAssumption, FS_CardinalityType
  <2>3. PageCapacity \in Nat
    BY <1>2, <2>2, DivFacts DEF PageCapacity
  <2>4. QED
    BY <2>1, <2>3 DEF CacheInit, AdmissionInv
<1>10. QED
  BY <1>3, <1>4, <1>5, <1>6, <1>7, <1>8, <1>9 DEF CacheInv

\* All but the running append depends on the pool, the requests and the index alone.
LEMMA CacheUnchanged ==
  ASSUME CacheInv, UNCHANGED <<poolVars, requestVars, indexVars>>
  PROVE  /\ TypeInv' /\ FreeInv' /\ (\A p \in Pages : PageInv(p))'
         /\ (\A r \in active : TableInv(r))'
         /\ IndexInv' /\ CursorsAreProtected' /\ CachedValuesAreRight' /\ AdmissionInv'
<1>1. /\ UNCHANGED <<page_states, free_page_ids, contents>>
      /\ UNCHANGED <<active, block_tables, cached_token_count, committed, cursors>>
      /\ UNCHANGED <<block_pages, child_counts, leaf_blocks>>
      /\ UNCHANGED IndexedBlocks
  BY DEF poolVars, requestVars, indexVars, IndexedBlocks
<1>2. \A p : (IsIndexed(p)' <=> IsIndexed(p)) /\ Readers(p)' = Readers(p)
  BY <1>1 DEF IsIndexed, Readers, TablePages
<1>3. TypeInv' /\ FreeInv' /\ AdmissionInv'
  BY <1>1 DEF CacheInv, TypeInv, FreeInv, AdmissionInv
<1>4. (\A p \in Pages : PageInv(p))'
  BY <1>1, <1>2 DEF CacheInv, PageInv
<1>5. (\A r \in active : TableInv(r))'
  BY <1>1 DEF CacheInv, TableInv, IsIndexed
<1>6. IndexInv'
  BY <1>1 DEF CacheInv, IndexInv, IndexIsATree
<1>7. CursorsAreProtected'
  BY <1>1 DEF CacheInv, CursorsAreProtected
<1>8. CachedValuesAreRight'
  BY <1>1 DEF CacheInv, CachedValuesAreRight
<1>9. QED
  BY <1>3, <1>4, <1>5, <1>6, <1>7, <1>8

\* An append that begins changes nothing but itself, and stays within the reservation.
LEMMA BeginAppendInv ==
  ASSUME CacheInv, NEW r \in Requests, NEW l \in Layers, NEW n \in 1 .. MaxCachedTokenCount[r],
         BeginAppend(r, l, n)
  PROVE  CacheInv'
<1>1. r \in active /\ cached_token_count[r][l] + n <= MaxCachedTokenCount[r]
      /\ append' = [request |-> r, layer |-> l, left |-> n]
      /\ UNCHANGED <<poolVars, requestVars, indexVars>>
  BY DEF BeginAppend, IsNextAppend
<1>2. n \in Nat \ {0}
  BY ConstantFacts
<1>3. AppendInv'
  BY <1>1, <1>2 DEF AppendInv, requestVars
<1>4. QED
  BY <1>1, <1>3, CacheUnchanged DEF CacheInv


-----------------------------------------------------------------------------
(* Reservations and cached prefixes *)

\* The pages that the requests of S have reserved.
Reserved(S) == UNION {{r} \X (1 .. ReservedPageCount[r]) : r \in S}

\* Reserved pages are counted by a finite set of places, and fewer requests reserve no more.
LEMMA ReservedFacts ==
  ASSUME NEW S \in SUBSET Requests
  PROVE  /\ IsFiniteSet(Reserved(S))
         /\ Total(ReservedPageCount, S) = Cardinality(Reserved(S))
         /\ Total(ReservedPageCount, S) \in Nat
         /\ \A T \in SUBSET S : Total(ReservedPageCount, T) <= Total(ReservedPageCount, S)
<1> DEFINE Row(r) == {r} \X (1 .. ReservedPageCount[r])
           Rows(U) == {Row(r) : r \in U}
<1>1. ASSUME NEW U \in SUBSET Requests
      PROVE  IsFiniteSet(Reserved(U)) /\ Total(ReservedPageCount, U) = Cardinality(Reserved(U))
  <2> DEFINE g == [r \in U |-> Row(r)]
  <2>1. g \in Surjection(U, Rows(U))
    BY Fun_IsSurj
  <2>2. IsFiniteSet(U)
    BY PagedKvCacheAssumption, FS_Subset
  <2>3. IsFiniteSet(Rows(U))
    BY <2>1, <2>2, FS_Surjection
  <2>4. ASSUME NEW r \in U PROVE IsFiniteSet(Row(r))
    <3>1. 1 \in Int /\ ReservedPageCount[r] \in Int
      BY ConstantFacts
    <3>2. IsFiniteSet({r}) /\ IsFiniteSet(1 .. ReservedPageCount[r])
      BY <3>1, FS_Singleton, FS_Interval
    <3>3. QED
      BY <3>2, FS_Product
  <2>5. \A R \in Rows(U) : IsFiniteSet(R)
    BY <2>4
  <2>6. IsFiniteSet(UNION Rows(U))
    <3> HIDE DEF Rows
    <3>1. QED
      BY <2>3, <2>5, FS_UNION
  <2>7. QED
    BY <2>6 DEF Reserved, Total
<1>2. ASSUME NEW T \in SUBSET S PROVE Reserved(T) \subseteq Reserved(S)
  BY DEF Reserved
<1>3. QED
  BY <1>1, <1>2, FS_CardinalityType, FS_Subset

\* A set of naturals has a least element: inductions below go to their least counterexample.
LEMMA LeastElement ==
  ASSUME NEW T \in SUBSET Nat, T # {}
  PROVE  \E x \in T : \A y \in T : x <= y
<1> DEFINE R == OpToRel(<, Nat)
<1>1. IsWellFoundedOn(R, Nat)
  BY NatLessThanWellFounded
<1>2. \A x, y \in Nat : x < y => <<x, y>> \in R
  BY DEF OpToRel
<1> HIDE DEF R
<1>3. PICK x \in T : \A y \in T : ~ (<<y, x>> \in R)
  BY <1>1, WFMin
<1>4. \A y \in T : x <= y
  <2> TAKE y \in T
  <2>1. x \in Nat /\ y \in Nat /\ ~ (y < x)
    BY <1>2, <1>3
  <2>2. QED
    BY <2>1
<1>5. QED
  BY <1>4

\* A cached prefix ends before the last token of the input.
LEMMA CachedPrefixFacts ==
  ASSUME NEW r \in Requests, NEW n \in Nat, IsCachedPrefix(r, n)
  PROVE  /\ n <= ReservedPageCount[r]
         /\ n * PageTokenCount \in Nat
         /\ n * PageTokenCount <= MaxCachedTokenCount[r]
<1> DEFINE m == InputTokenCount[r]
<1>1. /\ m \in Nat \ {0} /\ MaxCachedTokenCount[r] \in Nat /\ m <= MaxCachedTokenCount[r]
      /\ ReservedPageCount[r] = PageCount(MaxCachedTokenCount[r])
  BY ConstantFacts
<1>2. m - 1 \in Nat /\ n <= BlockCount(m - 1)
  BY <1>1 DEF IsCachedPrefix, BlockCount
<1> HIDE DEF m
<1>3. PageTokenCount \in Nat /\ BlockCount(m - 1) \in Nat
      /\ BlockCount(m - 1) * PageTokenCount <= m - 1
      /\ PageCount(m - 1) \in Nat
  BY <1>2, PagedKvCacheAssumption, CountFacts
<1>4. n * PageTokenCount <= BlockCount(m - 1) * PageTokenCount
  BY <1>2, <1>3, ProductGrows
<1>5. n * PageTokenCount \in Nat /\ BlockCount(m - 1) * PageTokenCount \in Nat
  BY <1>2, <1>3, CountsOfMultiple
<1>6. n * PageTokenCount <= MaxCachedTokenCount[r]
  BY <1>1, <1>3, <1>4, <1>5
<1>7. PageCount(n * PageTokenCount) = n
      /\ PageCount(n * PageTokenCount) <= PageCount(MaxCachedTokenCount[r])
  BY <1>1, <1>5, <1>6, CountsOfMultiple, CountsGrow
<1>8. QED
  BY <1>1, <1>5, <1>6, <1>7

\* There is a longest cached prefix.
LEMMA LongestPrefixFacts ==
  ASSUME NEW r \in Requests
  PROVE  LongestCachedPrefix(r) \in Nat /\ IsCachedPrefix(r, LongestCachedPrefix(r))
<1> DEFINE m == InputTokenCount[r]
           T == {n \in 0 .. m : ~ IsCachedPrefix(r, n + 1)}
<1>1. m \in Nat \ {0} /\ m - 1 \in Nat /\ BlockCount(m - 1) \in Nat
  <2>1. m \in Nat \ {0}
    BY ConstantFacts
  <2> HIDE DEF m
  <2>2. m - 1 \in Nat
    BY <2>1
  <2>3. QED
    BY <2>1, <2>2, CountFacts
<1>2. BlockCount(m - 1) <= m - 1
  <2>1. BlockCount(m - 1) * PageTokenCount <= m - 1
    BY <1>1, CountFacts
  <2>2. 1 <= PageTokenCount /\ PageTokenCount \in Nat
    BY PagedKvCacheAssumption
  <2>3. 1 * BlockCount(m - 1) <= PageTokenCount * BlockCount(m - 1)
    BY <1>1, <2>2, ProductGrows
  <2> DEFINE b == BlockCount(m - 1)
  <2>4. b * PageTokenCount <= m - 1 /\ 1 * b <= PageTokenCount * b /\ b \in Nat /\ m - 1 \in Nat
    BY <1>1, <2>1, <2>3
  <2> HIDE DEF b, m
  <2>5. b <= m - 1
    <3>1. b * PageTokenCount = PageTokenCount * b /\ PageTokenCount * b \in Nat /\ 1 * b = b
      BY <2>2, <2>4
    <3>2. QED
      BY <2>4, <3>1
  <2>6. QED
    BY <2>5 DEF b
<1>3. m \in T
  BY <1>1, <1>2 DEF IsCachedPrefix, BlockCount
<1>4. PICK n \in T : \A k \in T : n <= k
  <2>1. T \in SUBSET Nat /\ T # {}
    BY <1>3
  <2> HIDE DEF T
  <2>2. QED
    BY <2>1, LeastElement
<1>5. IsCachedPrefix(r, n)
  <2>1. CASE n = 0
    BY <1>1, <2>1 DEF IsCachedPrefix, BlockCount
  <2>2. CASE n # 0
    <3>1. n - 1 \in 0 .. m /\ n - 1 + 1 = n
      BY <1>1, <2>2
    <3>2. n - 1 \notin T
      BY <1>4, <3>1
    <3>3. QED
      BY <3>1, <3>2
  <2>3. QED
    BY <2>1, <2>2
<1>6. \E k \in 0 .. m : IsCachedPrefix(r, k) /\ ~ IsCachedPrefix(r, k + 1)
  BY <1>4, <1>5
<1>7. LongestCachedPrefix(r) \in 0 .. m /\ IsCachedPrefix(r, LongestCachedPrefix(r))
  BY <1>6 DEF LongestCachedPrefix
<1>8. QED
  BY <1>7

-----------------------------------------------------------------------------
(* Starting a request *)

\* What a step that changes r's table and counts alone leaves of the types.
LEMMA RequestTypes ==
  ASSUME CacheInv, NEW r \in Requests,
         NEW table \in [Layers -> Seq(Pages)], NEW counts \in [Layers -> Nat],
         NEW left \in Nat, NEW cursor \in Nat,
         active' \subseteq Requests, active' \ {r} = active \ {r},
         block_tables' = [block_tables EXCEPT ![r] = table],
         cached_token_count' = [cached_token_count EXCEPT ![r] = counts],
         committed' = [committed EXCEPT ![r] = left],
         cursors' = [cursors EXCEPT ![r] = cursor]
  PROVE  /\ OnlyRequest(r)
         /\ block_tables' \in [Requests -> [Layers -> Seq(Pages)]]
         /\ cached_token_count' \in [Requests -> [Layers -> Nat]]
         /\ committed' \in [Requests -> Nat] /\ cursors' \in [Requests -> Nat]
         /\ block_tables'[r] = table /\ cached_token_count'[r] = counts
         /\ committed'[r] = left /\ cursors'[r] = cursor
<1>1. /\ block_tables \in [Requests -> [Layers -> Seq(Pages)]]
      /\ cached_token_count \in [Requests -> [Layers -> Nat]]
      /\ committed \in [Requests -> Nat] /\ cursors \in [Requests -> Nat]
  BY DEF CacheInv, TypeInv
<1>2. /\ block_tables'[r] = table /\ cached_token_count'[r] = counts
      /\ committed'[r] = left /\ cursors'[r] = cursor
  BY <1>1
<1>3. /\ block_tables' \in [Requests -> [Layers -> Seq(Pages)]]
      /\ cached_token_count' \in [Requests -> [Layers -> Nat]]
      /\ committed' \in [Requests -> Nat] /\ cursors' \in [Requests -> Nat]
  BY <1>1
<1>4. OnlyRequest(r)
  <2>1. \A q \in Requests \ {r} : q \in active' <=> q \in active
    BY Zenon
  <2>2. QED
    BY <1>1, <2>1 DEF OnlyRequest
<1>5. QED
  BY <1>2, <1>3, <1>4

\* Who reads a page after a step.
LEMMA NextReaders ==
  ASSUME NEW r, NEW p
  PROVE  r \in Readers(p)' <=>
           r \in active' /\ \E l \in Layers : \E i \in DOMAIN block_tables'[r][l] :
                              block_tables'[r][l][i] = p
BY DEF Readers, TablePages

\* A request that starts adopts the pages of the longest indexed prefix.
LEMMA StartRequestInv ==
  ASSUME CacheInv, NEW r \in Requests, StartRequest(r)
  PROVE  CacheInv'
<1> DEFINE n == IF PrefixCaching THEN LongestCachedPrefix(r) ELSE 0
           table == [l \in Layers |-> [i \in 1 .. n |-> block_pages[PrefixAt[r][i]][l]]]
           counts == [l \in Layers |-> n * PageTokenCount]
           taken == UNION {{table[l][i] : i \in 1 .. n} : l \in Layers}
<1>1. /\ append = NoAppend /\ r \notin active
      /\ Total(ReservedPageCount, active \cup {r}) <= PageCapacity
      /\ page_states' = RetainPages(page_states, taken)
      /\ block_tables' = [block_tables EXCEPT ![r] = table]
      /\ cached_token_count' = [cached_token_count EXCEPT ![r] = counts]
      /\ committed' = [committed EXCEPT ![r] = n * PageTokenCount]
      /\ cursors' = [cursors EXCEPT ![r] = n]
      /\ active' = active \cup {r}
      /\ UNCHANGED <<free_page_ids, contents, indexVars, append>>
  BY DEF StartRequest, IsAdmitted
<1>2. n \in Nat /\ IsCachedPrefix(r, n)
  <2>1. IsCachedPrefix(r, 0)
    <3>1. InputTokenCount[r] - 1 \in Nat
      BY ConstantFacts
    <3>2. BlockCount(InputTokenCount[r] - 1) \in Nat
      BY <3>1, CountFacts
    <3>3. QED
      BY <3>2 DEF IsCachedPrefix, BlockCount
  <2>2. QED
    BY <2>1, LongestPrefixFacts
<1> HIDE DEF n
<1>3. /\ n <= ReservedPageCount[r] /\ n * PageTokenCount \in Nat
      /\ n * PageTokenCount <= MaxCachedTokenCount[r]
      /\ \A i \in 1 .. n : PrefixAt[r][i] \in IndexedBlocks
  BY <1>2, CachedPrefixFacts DEF IsCachedPrefix
<1>4. BlockCount(n * PageTokenCount) = n /\ PageCount(n * PageTokenCount) = n
  BY <1>2, CountsOfMultiple
<1>5. /\ block_pages \in [IndexedBlocks -> [Layers -> Pages]]
      /\ page_states \in [Pages -> Int] /\ active \subseteq Requests
  BY DEF CacheInv, TypeInv
<1>6. \A l \in Layers : /\ table[l] \in Seq(Pages) /\ Len(table[l]) = n
                        /\ DOMAIN table[l] = 1 .. n
                        /\ \A i \in 1 .. n : table[l][i] = block_pages[PrefixAt[r][i]][l]
  <2>1. ASSUME NEW l \in Layers PROVE table[l] \in [1 .. n -> Pages]
    BY <1>3, <1>5
  <2> HIDE DEF table
  <2>2. \A l \in Layers : table[l] \in Seq(Pages) /\ Len(table[l]) = n /\ DOMAIN table[l] = 1 .. n
    BY <1>2, <2>1
  <2>3. QED
    BY <2>2 DEF table
<1>7. /\ table \in [Layers -> Seq(Pages)]
      /\ counts \in [Layers -> Nat]
  BY <1>3, <1>6
<1>8. /\ OnlyRequest(r)
      /\ block_tables' \in [Requests -> [Layers -> Seq(Pages)]]
      /\ cached_token_count' \in [Requests -> [Layers -> Nat]]
      /\ committed' \in [Requests -> Nat] /\ cursors' \in [Requests -> Nat]
      /\ block_tables'[r] = table /\ cached_token_count'[r] = counts
      /\ committed'[r] = n * PageTokenCount /\ cursors'[r] = n
  <2>1. active' \subseteq Requests /\ active' \ {r} = active \ {r}
    BY <1>1, <1>5
  <2> HIDE DEF table, counts
  <2>2. QED
    BY <1>1, <1>2, <1>3, <1>7, <2>1, RequestTypes
<1>9. \A p : p \in taken <=> \E l \in Layers : \E i \in 1 .. n : table[l][i] = p
  OBVIOUS
<1>10. \A p : IsIndexed(p)' <=> IsIndexed(p)
  BY <1>1 DEF indexVars, IsIndexed, IndexedBlocks
<1>11. ASSUME NEW p \in taken PROVE IsIndexed(p)
  <2>1. PICK l \in Layers, i \in 1 .. n : table[l][i] = p
    BY <1>11, <1>9
  <2>2. block_pages[PrefixAt[r][i]][l] = p /\ PrefixAt[r][i] \in IndexedBlocks
    BY <1>3, <1>6, <2>1
  <2>3. QED
    BY <2>2 DEF IsIndexed
<1>12. \A p : r \in Readers(p)' <=> p \in taken
  <2>1. r \in active'
    BY <1>1
  <2> HIDE DEF taken, table, counts
  <2>2. \A l \in Layers : block_tables'[r][l] = table[l] /\ DOMAIN block_tables'[r][l] = 1 .. n
    BY <1>6, <1>8
  <2>3. \A p : r \in Readers(p)' <=>
                 \E l \in Layers : \E i \in DOMAIN block_tables'[r][l] :
                   block_tables'[r][l][i] = p
    BY <2>1, NextReaders
  <2>4. QED
    BY <1>9, <2>2, <2>3
<1>13. \A p : r \notin Readers(p)
  BY <1>1 DEF Readers
<1> HIDE DEF table, taken, counts
<1>14. ASSUME NEW p \in Pages PROVE PageStep(r, p)
  <2>1. page_states'[p] = IF p \in taken THEN Retained(page_states[p]) ELSE page_states[p]
    BY <1>1 DEF RetainPages
  <2>2. CASE p \in taken
    BY <1>10, <1>11, <1>12, <1>13, <2>1, <2>2 DEF PageStep
  <2>3. CASE p \notin taken
    BY <1>10, <1>12, <1>13, <2>1, <2>3 DEF PageStep
  <2>4. QED
    BY <2>2, <2>3
<1>15. TypeInv'
  <2>1. page_states' \in [Pages -> Int]
    BY <1>1, <1>5 DEF RetainPages, Retained, Unallocated, PendingWrite
  <2>2. active' \subseteq Requests
    BY <1>1, <1>5
  <2>3. QED
    BY <1>1, <1>8, <2>1, <2>2 DEF CacheInv, TypeInv, indexVars, IndexedBlocks
<1>16. FreeInv'
  <2>1. ASSUME NEW p \in Pages
        PROVE  page_states'[p] = Unallocated <=> page_states[p] = Unallocated
    <3>1. page_states[p] \in Int /\ page_states[p] >= Unallocated
      BY StateFacts
    <3>2. page_states'[p] = IF p \in taken THEN Retained(page_states[p]) ELSE page_states[p]
      BY <1>1 DEF RetainPages
    <3>3. QED
      BY <3>1, <3>2 DEF Retained, Unallocated, PendingWrite
  <2>2. QED
    BY <1>1, <2>1 DEF CacheInv, FreeInv
<1>17. AppendInv'
  BY <1>1 DEF AppendInv
<1>18. AdmissionInv'
  BY <1>1 DEF AdmissionInv
<1>19. TableInv(r)'
  <2>1. \A l \in Layers : /\ Len(block_tables'[r][l]) = PageCount(cached_token_count'[r][l])
                          /\ committed'[r] <= cached_token_count'[r][l]
                          /\ cached_token_count'[r][l] <= MaxCachedTokenCount[r]
    <3>1. \A l \in Layers : counts[l] = n * PageTokenCount
      BY DEF counts
    <3>2. QED
      BY <1>3, <1>4, <1>6, <1>8, <3>1
  <2>2. ASSUME NEW l \in Layers, NEW i \in DOMAIN block_tables'[r][l] PROVE ~ (i > cursors'[r])
    BY <1>2, <1>6, <1>8
  <2>3. cursors'[r] <= BlockCount(committed'[r])
    BY <1>2, <1>4, <1>8
  <2>4. QED
    BY <2>1, <2>2, <2>3 DEF TableInv
<1>20. \A i \in 1 .. cursors'[r] :
         /\ PrefixAt[r][i] \in IndexedBlocks
         /\ \A l \in Layers : block_tables'[r][l][i] = block_pages[PrefixAt[r][i]][l]
  BY <1>3, <1>6, <1>8
<1>21. \A l \in Layers : \A i \in DOMAIN block_tables'[r][l] :
         contents'[block_tables'[r][l][i]] = <<l, PrefixAt[r][i]>>
  <2>1. ASSUME NEW l \in Layers, NEW i \in 1 .. n
        PROVE  contents[block_pages[PrefixAt[r][i]][l]] = <<l, PrefixAt[r][i]>>
    BY <1>3, EntryFacts
  <2>2. \A l \in Layers : /\ DOMAIN block_tables'[r][l] = 1 .. n
                          /\ \A i \in 1 .. n :
                               block_tables'[r][l][i] = block_pages[PrefixAt[r][i]][l]
    BY <1>6, <1>8
  <2>3. contents' = contents
    BY <1>1
  <2>4. ASSUME NEW l \in Layers, NEW i \in DOMAIN block_tables'[r][l]
        PROVE  contents'[block_tables'[r][l][i]] = <<l, PrefixAt[r][i]>>
    <3>1. i \in 1 .. n /\ block_tables'[r][l][i] = block_pages[PrefixAt[r][i]][l]
      BY <2>2
    <3>2. QED
      BY <2>1, <2>3, <3>1
  <2>5. QED
    BY <2>4
<1>22. QED
  BY <1>1, <1>8, <1>14, <1>15, <1>16, <1>17, <1>18, <1>19, <1>20, <1>21, IndexStays

-----------------------------------------------------------------------------
(* Filling a page *)

\* The tokens that fit into the page that is filled next.
WrittenCount ==
  LET room == PageTokenCount - (Appended % PageTokenCount) IN
  IF append.left < room THEN append.left ELSE room

\* Whose append runs, and how far it got.
LEMMA AppendFacts ==
  ASSUME CacheInv, append # NoAppend
  PROVE  /\ append.request \in active /\ append.request \in Requests /\ append.layer \in Layers
         /\ append.left \in Nat \ {0} /\ Appended \in Nat
         /\ Appended + append.left <= MaxCachedTokenCount[append.request]
         /\ AppendTable \in Seq(Pages) /\ Len(AppendTable) = PageCount(Appended)
         /\ BlockCount(committed[append.request]) <= BlockCount(Appended)
         /\ committed[append.request] \in Nat /\ committed[append.request] <= Appended
         /\ cursors[append.request] \in Nat /\ cursors[append.request] <= BlockCount(Appended)
<1>1. /\ append.request \in active /\ append.layer \in Layers /\ append.left \in Nat \ {0}
      /\ Appended + append.left <= MaxCachedTokenCount[append.request]
  BY DEF CacheInv, AppendInv, Appended
<1>2. append.request \in Requests
  BY <1>1 DEF CacheInv, TypeInv
<1>3. /\ Appended \in Nat /\ AppendTable \in Seq(Pages)
      /\ committed[append.request] \in Nat /\ cursors[append.request] \in Nat
  BY <1>1, <1>2 DEF CacheInv, TypeInv, Appended, AppendTable
<1>4. /\ Len(AppendTable) = PageCount(Appended)
      /\ committed[append.request] <= Appended
      /\ cursors[append.request] <= BlockCount(committed[append.request])
  BY <1>1 DEF CacheInv, TableInv, Appended, AppendTable
<1>5. BlockCount(committed[append.request]) <= BlockCount(Appended)
      /\ BlockCount(committed[append.request]) \in Nat /\ BlockCount(Appended) \in Nat
  BY <1>3, <1>4, CountsGrow, CountFacts
<1>6. QED
  BY <1>1, <1>2, <1>3, <1>4, <1>5

\* The part of a write that both kinds of page share: n more tokens of request r are cached in
\* layer l, the append's own, and the append has n tokens less to write.
Written(r, l, n) ==
    /\ r = append.request /\ l = append.layer /\ n = WrittenCount
    /\ cached_token_count' = [cached_token_count EXCEPT ![r][l] = @ + n]
    /\ append' = IF n = append.left THEN NoAppend ELSE [append EXCEPT !.left = @ - n]
    /\ active' = active

\* Both ways to fill a page count its tokens, and nothing else of a request's counts.
LEMMA WriteFacts ==
  ASSUME CacheInv, append # NoAppend, NEW r, NEW l, NEW n, Written(r, l, n)
  PROVE  /\ n \in Nat \ {0} /\ Appended + n <= MaxCachedTokenCount[r]
         /\ PageCount(Appended + n) = BlockCount(Appended) + 1
         /\ cached_token_count' \in [Requests -> [Layers -> Nat]]
         /\ \A q \in Requests \ {r} : cached_token_count'[q] = cached_token_count[q]
         /\ \A k \in Layers : cached_token_count'[r][k] =
              IF k = l THEN Appended + n ELSE cached_token_count[r][k]
         /\ AppendInv'
<1>0. /\ r = append.request /\ l = append.layer /\ n = WrittenCount
      /\ cached_token_count' = [cached_token_count EXCEPT ![r][l] = @ + n]
      /\ append' = IF n = append.left THEN NoAppend ELSE [append EXCEPT !.left = @ - n]
      /\ active' = active
  BY DEF Written
<1>1. /\ r \in active /\ r \in Requests /\ l \in Layers /\ append.left \in Nat \ {0}
      /\ Appended \in Nat /\ Appended + append.left <= MaxCachedTokenCount[r]
  BY <1>0, AppendFacts
<1>2. MaxCachedTokenCount[r] \in Nat
  BY <1>1, ConstantFacts
<1>3. PageTokenCount \in Nat \ {0} /\ Appended % PageTokenCount \in 0 .. PageTokenCount - 1
  BY <1>1, PagedKvCacheAssumption, CountFacts
<1>4. /\ n \in Nat \ {0} /\ n <= append.left
      /\ n <= PageTokenCount - (Appended % PageTokenCount)
  BY <1>0, <1>1, <1>3 DEF WrittenCount
<1>5. Appended + n <= MaxCachedTokenCount[r]
  BY <1>1, <1>2, <1>4
<1>6. PageCount(Appended + n) = BlockCount(Appended) + 1
  BY <1>1, <1>4, GrowWithinPage
<1>7. cached_token_count \in [Requests -> [Layers -> Nat]]
  BY DEF CacheInv, TypeInv
<1>8. cached_token_count[r][l] = Appended
  BY <1>0 DEF Appended
<1>9. /\ cached_token_count' \in [Requests -> [Layers -> Nat]]
      /\ \A q \in Requests \ {r} : cached_token_count'[q] = cached_token_count[q]
      /\ \A k \in Layers : cached_token_count'[r][k] =
           IF k = l THEN Appended + n ELSE cached_token_count[r][k]
  BY <1>0, <1>1, <1>4, <1>7, <1>8
<1>10. AppendInv'
  <2>1. CASE n = append.left
    BY <1>0, <2>1 DEF AppendInv
  <2>2. CASE n # append.left
    <3>1. append \in [request : active, layer : Layers, left : Nat \ {0}]
      BY DEF CacheInv, AppendInv
    <3>2. append.left - n \in Nat \ {0}
      BY <1>1, <1>4, <2>2
    <3>3. /\ append' \in [request : active', layer : Layers, left : Nat \ {0}]
          /\ append'.request = r /\ append'.layer = l /\ append'.left = append.left - n
      BY <1>0, <2>2, <3>1, <3>2
    <3>4. cached_token_count'[r][l] + (append.left - n) = Appended + append.left
      BY <1>1, <1>4, <1>9
    <3>5. QED
      BY <1>0, <1>1, <3>3, <3>4 DEF AppendInv
  <2>3. QED
    BY <2>1, <2>2
<1>11. QED
  BY <1>4, <1>5, <1>6, <1>9, <1>10

\* The rest of the page the request wrote last.
LEMMA WriteIntoPageInv ==
  ASSUME CacheInv, append # NoAppend, Appended % PageTokenCount > 0,
         NEW r, r = append.request, NEW l, l = append.layer, NEW n, n = WrittenCount,
         UNCHANGED <<poolVars, block_tables, active, committed, cursors, indexVars>>,
         cached_token_count' =
           [cached_token_count EXCEPT ![r][l] = @ + n],
         append' = IF n = append.left THEN NoAppend ELSE [append EXCEPT !.left = @ - n]
  PROVE  CacheInv'
<1>1. /\ r \in active /\ r \in Requests /\ l \in Layers /\ Appended \in Nat
      /\ Len(AppendTable) = PageCount(Appended)
      /\ committed[r] \in Nat /\ committed[r] <= Appended
  BY AppendFacts
<1>2. /\ UNCHANGED <<page_states, free_page_ids, contents, block_tables, active, committed,
                     cursors, block_pages, child_counts, leaf_blocks>>
      /\ UNCHANGED IndexedBlocks
  BY DEF poolVars, indexVars, IndexedBlocks
<1>3. /\ n \in Nat \ {0} /\ Appended + n <= MaxCachedTokenCount[r]
      /\ PageCount(Appended + n) = BlockCount(Appended) + 1
      /\ cached_token_count' \in [Requests -> [Layers -> Nat]]
      /\ \A q \in Requests \ {r} : cached_token_count'[q] = cached_token_count[q]
      /\ \A k \in Layers : cached_token_count'[r][k] =
           IF k = l THEN Appended + n ELSE cached_token_count[r][k]
      /\ AppendInv'
  <2>1. active' = active
    BY <1>2
  <2>2. QED
    <3>1. Written(r, l, n)
      BY <2>1 DEF Written
    <3>2. QED
      BY <3>1, WriteFacts
<1>4. PageCount(Appended) = BlockCount(Appended) + 1
  BY <1>1, CountFacts
<1>5. TypeInv' /\ FreeInv' /\ AdmissionInv'
  BY <1>2, <1>3 DEF CacheInv, TypeInv, FreeInv, AdmissionInv
<1>6. OnlyRequest(r)
  BY <1>2, <1>3 DEF OnlyRequest, CacheInv, TypeInv
<1>7. \A p : (r \in Readers(p)' <=> r \in Readers(p)) /\ (IsIndexed(p)' <=> IsIndexed(p))
  BY <1>2 DEF Readers, TablePages, IsIndexed
<1>8. \A p \in Pages : PageStep(r, p)
  BY <1>2, <1>7 DEF PageStep
<1>9. TableInv(r)
  BY <1>1 DEF CacheInv
<1>10. ASSUME NEW k \in Layers
       PROVE  /\ Len(block_tables[r][k]) = PageCount(cached_token_count'[r][k])
              /\ committed[r] <= cached_token_count'[r][k]
              /\ cached_token_count'[r][k] <= MaxCachedTokenCount[r]
  <2>1. CASE k = l
    BY <1>1, <1>3, <1>4, <2>1 DEF AppendTable
  <2>2. CASE k # l
    BY <1>3, <1>9, <2>2 DEF TableInv
  <2>3. QED
    BY <2>1, <2>2
<1>11. TableInv(r)'
  <2>1. ASSUME NEW k \in Layers, NEW i \in DOMAIN block_tables[r][k], i > cursors[r]
        PROVE  ~ \E b \in IndexedBlocks, m \in Layers : block_pages[b][m] = block_tables[r][k][i]
    BY <1>9, <2>1 DEF TableInv, IsIndexed
  <2>2. cursors[r] <= BlockCount(committed[r])
    BY <1>9 DEF TableInv
  <2>3. QED
    BY <1>2, <1>10, <2>1, <2>2 DEF TableInv, IsIndexed
<1>12. \A i \in 1 .. cursors'[r] :
         /\ PrefixAt[r][i] \in IndexedBlocks
         /\ \A k \in Layers : block_tables'[r][k][i] = block_pages[PrefixAt[r][i]][k]
  BY <1>1, <1>2 DEF CacheInv, CursorsAreProtected
<1>13. ASSUME NEW k \in Layers, NEW i \in DOMAIN block_tables'[r][k]
       PROVE  contents'[block_tables'[r][k][i]] = <<k, PrefixAt[r][i]>>
  <2>1. i \in DOMAIN block_tables[r][k]
    BY <1>2, <1>13
  <2>2. contents[block_tables[r][k][i]] = <<k, PrefixAt[r][i]>>
    BY <1>1, <2>1, PlaceFacts
  <2>3. QED
    BY <1>2, <2>2
<1>14. UNCHANGED indexVars /\ \A p \in Pages : contents'[p] = contents[p]
  BY <1>2 DEF indexVars
<1>15. r \in Requests /\ AppendInv'
  BY <1>1, <1>3
<1>16. /\ TableInv(r)'
       /\ \A i \in 1 .. cursors'[r] :
            /\ PrefixAt[r][i] \in IndexedBlocks
            /\ \A k \in Layers : block_tables'[r][k][i] = block_pages[PrefixAt[r][i]][k]
       /\ \A k \in Layers : \A i \in DOMAIN block_tables'[r][k] :
            contents'[block_tables'[r][k][i]] = <<k, PrefixAt[r][i]>>
  BY <1>11, <1>12, <1>13
<1>17. QED
  BY <1>5, <1>6, <1>8, <1>14, <1>15, <1>16, IndexStays

\* A free page for the next tokens.
LEMMA WriteNewPageInv ==
  ASSUME CacheInv, append # NoAppend, Appended % PageTokenCount = 0,
         NEW r, r = append.request, NEW l, l = append.layer, NEW n, n = WrittenCount,
         NEW p \in free_page_ids, NEW prefix, prefix = PrefixAt[r][BlockCount(Appended) + 1],
         free_page_ids' = free_page_ids \ {p},
         page_states' = [page_states EXCEPT ![p] = PendingWrite],
         contents' = [contents EXCEPT ![p] = <<l, prefix>>],
         block_tables' = [block_tables EXCEPT ![r][l] = Append(@, p)],
         UNCHANGED <<active, committed, cursors, indexVars>>,
         cached_token_count' = [cached_token_count EXCEPT ![r][l] = @ + n],
         append' = IF n = append.left THEN NoAppend ELSE [append EXCEPT !.left = @ - n]
  PROVE  CacheInv'
<1> DEFINE m == Len(AppendTable)
<1>1. /\ r \in active /\ r \in Requests /\ l \in Layers /\ Appended \in Nat
      /\ AppendTable \in Seq(Pages) /\ m = PageCount(Appended)
      /\ AppendTable = block_tables[r][l]
      /\ committed[r] \in Nat /\ committed[r] <= Appended
      /\ cursors[r] \in Nat /\ cursors[r] <= BlockCount(Appended)
  BY AppendFacts DEF AppendTable
<1>2. m = BlockCount(Appended) /\ m \in Nat
  BY <1>1, CountFacts
<1>3. /\ UNCHANGED <<active, committed, cursors, block_pages, child_counts, leaf_blocks>>
      /\ UNCHANGED IndexedBlocks
  BY DEF indexVars, IndexedBlocks
<1>4. /\ n \in Nat \ {0} /\ Appended + n <= MaxCachedTokenCount[r]
      /\ PageCount(Appended + n) = m + 1
      /\ cached_token_count' \in [Requests -> [Layers -> Nat]]
      /\ \A q \in Requests \ {r} : cached_token_count'[q] = cached_token_count[q]
      /\ \A k \in Layers : cached_token_count'[r][k] =
           IF k = l THEN Appended + n ELSE cached_token_count[r][k]
      /\ AppendInv'
  <2>1. active' = active
    BY <1>3
  <2> HIDE DEF m
  <2>2. /\ n \in Nat \ {0} /\ Appended + n <= MaxCachedTokenCount[r]
        /\ PageCount(Appended + n) = BlockCount(Appended) + 1
        /\ cached_token_count' \in [Requests -> [Layers -> Nat]]
        /\ \A q \in Requests \ {r} : cached_token_count'[q] = cached_token_count[q]
        /\ \A k \in Layers : cached_token_count'[r][k] =
             IF k = l THEN Appended + n ELSE cached_token_count[r][k]
        /\ AppendInv'
    <3>1. Written(r, l, n)
      BY <2>1 DEF Written
    <3>2. QED
      BY <3>1, WriteFacts
  <2>3. QED
    BY <1>2, <2>2
<1>5. m + 1 \in DOMAIN PrefixAt[r] /\ prefix = PrefixAt[r][m + 1] /\ prefix \in Prefixes
  <2>1. PageCount(Appended + n) <= PageCount(MaxCachedTokenCount[r])
    BY <1>1, <1>4, ConstantFacts, CountsGrow
  <2>2. m + 1 \in 1 .. ReservedPageCount[r]
    BY <1>1, <1>2, <1>4, <2>1, ConstantFacts
  <2>3. m + 1 \in DOMAIN PrefixAt[r]
    BY <1>1, <2>2, ConstantFacts
  <2>4. PrefixAt[r][m + 1] \in Prefixes
    BY <1>1, <2>3, ConstantFacts
  <2>5. QED
    BY <1>2, <2>3, <2>4
<1>6. p \in Pages /\ page_states[p] = Unallocated
  BY DEF CacheInv, TypeInv, FreeInv
<1>7. ~ IsIndexed(p) /\ Readers(p) = {}
  BY <1>6, OwnedPage
<1>8. /\ \A q \in Requests \ {r} : block_tables'[q] = block_tables[q]
      /\ \A k \in Layers : block_tables'[r][k] =
           IF k = l THEN Append(AppendTable, p) ELSE block_tables[r][k]
      /\ block_tables' \in [Requests -> [Layers -> Seq(Pages)]]
  <2>1. block_tables \in [Requests -> [Layers -> Seq(Pages)]]
    BY DEF CacheInv, TypeInv
  <2>2. Append(AppendTable, p) \in Seq(Pages)
    BY <1>1, <1>6
  <2>3. QED
    BY <1>1, <2>1, <2>2
<1>9. /\ Len(Append(AppendTable, p)) = m + 1
      /\ DOMAIN AppendTable = 1 .. m /\ DOMAIN Append(AppendTable, p) = 1 .. m + 1
      /\ \A i \in 1 .. m : Append(AppendTable, p)[i] = AppendTable[i]
      /\ Append(AppendTable, p)[m + 1] = p
  <2>1. Append(AppendTable, p) \in Seq(Pages) /\ Len(Append(AppendTable, p)) = m + 1
    BY <1>1, <1>6, AppendProperties
  <2>2. DOMAIN AppendTable = 1 .. m /\ DOMAIN Append(AppendTable, p) = 1 .. m + 1
    BY <1>1, <2>1, LenProperties
  <2>3. QED
    BY <1>1, <1>6, <2>1, <2>2, AppendProperties
<1> HIDE DEF m
\* The places of r after the write are those before it and the new one.
<1>10. ASSUME NEW k \in Layers, NEW i \in DOMAIN block_tables'[r][k]
       PROVE  \/ i \in DOMAIN block_tables[r][k] /\ block_tables'[r][k][i] = block_tables[r][k][i]
              \/ k = l /\ i = m + 1 /\ block_tables'[r][k][i] = p
  <2>1. CASE k = l
    <3>1. block_tables'[r][k] = Append(AppendTable, p)
      BY <1>8, <2>1
    <3>2. i \in 1 .. m + 1
      BY <1>9, <1>10, <3>1
    <3>3. i \in 1 .. m \/ i = m + 1
      BY <1>2, <3>2
    <3>4. QED
      BY <1>1, <1>9, <2>1, <3>1, <3>3
  <2>2. CASE k # l
    BY <1>8, <1>10, <2>2
  <2>3. QED
    BY <2>1, <2>2
<1>11. ASSUME NEW k \in Layers, NEW i \in DOMAIN block_tables[r][k]
       PROVE  i \in DOMAIN block_tables'[r][k] /\ block_tables'[r][k][i] = block_tables[r][k][i]
  <2>1. CASE k = l
    <3>1. block_tables'[r][k] = Append(AppendTable, p) /\ block_tables[r][k] = AppendTable
      BY <1>1, <1>8, <2>1
    <3>2. i \in 1 .. m /\ i \in 1 .. m + 1
      BY <1>2, <1>9, <1>11, <3>1
    <3>3. QED
      BY <1>9, <3>1, <3>2
  <2>2. CASE k # l
    BY <1>8, <1>11, <2>2
  <2>3. QED
    BY <2>1, <2>2
<1>12. m + 1 \in DOMAIN block_tables'[r][l] /\ block_tables'[r][l][m + 1] = p
  BY <1>1, <1>2, <1>8, <1>9
<1>13. OnlyRequest(r)
  BY <1>3, <1>4, <1>8 DEF OnlyRequest, CacheInv, TypeInv
<1>14. \A x : IsIndexed(x)' <=> IsIndexed(x)
  BY <1>3 DEF IsIndexed
<1>15. r \in Readers(p)' /\ \A x : x # p => (r \in Readers(x)' <=> r \in Readers(x))
  <2>1. r \in Readers(p)'
    BY <1>1, <1>3, <1>12, NextReaders
  <2>2. ASSUME NEW x, x # p PROVE r \in Readers(x)' <=> r \in Readers(x)
    <3>1. r \in Readers(x) <=> \E k \in Layers : \E i \in DOMAIN block_tables[r][k] :
                                 block_tables[r][k][i] = x
      BY <1>1, ReaderFacts
    <3>2. r \in Readers(x)' <=> \E k \in Layers : \E i \in DOMAIN block_tables'[r][k] :
                                  block_tables'[r][k][i] = x
      <4>1. r \in active'
        BY <1>1, <1>3
      <4>2. QED
        BY <4>1, NextReaders
    <3>3. QED
      BY <1>10, <1>11, <2>2, <3>1, <3>2
  <2>3. QED
    BY <2>1, <2>2
<1>16. page_states \in [Pages -> Int] /\ free_page_ids \subseteq Pages
       /\ contents \in [Pages -> Layers \X (Prefixes \cup {Root})]
  BY DEF CacheInv, TypeInv
<1>17. \A x \in Pages : page_states'[x] = IF x = p THEN PendingWrite ELSE page_states[x]
  BY <1>16
<1>18. ASSUME NEW x \in Pages PROVE PageStep(r, x)
  <2>1. CASE x = p
    <3>1. page_states'[p] = PendingWrite /\ r \notin Readers(p) /\ ~ IsIndexed(p)'
      BY <1>6, <1>7, <1>14, <1>17
    <3>2. QED
      BY <1>6, <1>7, <1>15, <2>1, <3>1 DEF PageStep
  <2>2. CASE x # p
    BY <1>14, <1>15, <1>17, <2>2 DEF PageStep
  <2>3. QED
    BY <2>1, <2>2
<1>19. TypeInv'
  <2>1. page_states' \in [Pages -> Int] /\ free_page_ids' \subseteq Pages
    BY <1>16 DEF PendingWrite
  <2>2. contents' \in [Pages -> Layers \X (Prefixes \cup {Root})]
    BY <1>1, <1>5, <1>16
  <2>3. QED
    BY <1>3, <1>4, <1>8, <2>1, <2>2 DEF CacheInv, TypeInv
<1>20. FreeInv'
  <2>1. ASSUME NEW x \in Pages PROVE x \in free_page_ids' <=> page_states'[x] = Unallocated
    BY <1>6, <1>17 DEF CacheInv, FreeInv, PendingWrite, Unallocated
  <2>2. QED
    BY <2>1 DEF FreeInv
<1>21. AdmissionInv'
  BY <1>3 DEF CacheInv, AdmissionInv
<1>22. \A x \in Pages : page_states[x] # Unallocated => contents'[x] = contents[x]
  BY <1>6, <1>16
<1>23. TableInv(r)
  BY <1>1 DEF CacheInv
<1>24. TableInv(r)'
  <2>1. ASSUME NEW k \in Layers
        PROVE  /\ Len(block_tables'[r][k]) = PageCount(cached_token_count'[r][k])
               /\ committed'[r] <= cached_token_count'[r][k]
               /\ cached_token_count'[r][k] <= MaxCachedTokenCount[r]
    <3>1. CASE k = l
      BY <1>1, <1>3, <1>4, <1>8, <1>9, <3>1
    <3>2. CASE k # l
      BY <1>3, <1>4, <1>8, <1>23, <3>2 DEF TableInv
    <3>3. QED
      BY <3>1, <3>2
  <2>2. ASSUME NEW k \in Layers, NEW i \in DOMAIN block_tables'[r][k], i > cursors'[r],
               NEW x, x = block_tables'[r][k][i]
        PROVE  ~ IsIndexed(x)'
    <3>1. CASE k = l /\ i = m + 1 /\ x = p
      BY <1>7, <1>14, <3>1
    <3>2. CASE i \in DOMAIN block_tables[r][k] /\ x = block_tables[r][k][i]
      <4>1. ~ IsIndexed(x)
        BY <1>3, <1>23, <2>2, <3>2 DEF TableInv
      <4>2. QED
        BY <1>14, <4>1
    <3>3. QED
      BY <1>10, <2>2, <3>1, <3>2
  <2>3. cursors'[r] <= BlockCount(committed'[r])
    BY <1>3, <1>23 DEF TableInv
  <2>4. ASSUME NEW k \in Layers, NEW i \in DOMAIN block_tables'[r][k], i > cursors'[r]
        PROVE  ~ \E b \in IndexedBlocks', j \in Layers : block_pages'[b][j] = block_tables'[r][k][i]
    BY <2>2, <2>4 DEF IsIndexed
  <2>5. QED
    BY <2>1, <2>3, <2>4 DEF TableInv, IsIndexed
<1>25. ASSUME NEW i \in 1 .. cursors'[r]
       PROVE  /\ PrefixAt[r][i] \in IndexedBlocks
              /\ \A k \in Layers : block_tables'[r][k][i] = block_pages[PrefixAt[r][i]][k]
  <2>1. i \in 1 .. cursors[r]
    BY <1>3, <1>25
  <2>2. /\ PrefixAt[r][i] \in IndexedBlocks
        /\ \A k \in Layers : block_tables[r][k][i] = block_pages[PrefixAt[r][i]][k]
    BY <1>1, <2>1 DEF CacheInv, CursorsAreProtected
  <2>3. ASSUME NEW k \in Layers PROVE block_tables'[r][k][i] = block_tables[r][k][i]
    <3>1. CASE k = l
      <4>1. i \in 1 .. m
        BY <1>1, <1>2, <2>1
      <4>2. QED
        BY <1>1, <1>8, <1>9, <3>1, <4>1
    <3>2. CASE k # l
      BY <1>8, <3>2
    <3>3. QED
      BY <3>1, <3>2
  <2>4. QED
    BY <2>2, <2>3
<1>26. ASSUME NEW k \in Layers, NEW i \in DOMAIN block_tables'[r][k]
       PROVE  contents'[block_tables'[r][k][i]] = <<k, PrefixAt[r][i]>>
  <2>1. CASE k = l /\ i = m + 1 /\ block_tables'[r][k][i] = p
    BY <1>5, <1>6, <1>16, <2>1
  <2>2. CASE i \in DOMAIN block_tables[r][k] /\ block_tables'[r][k][i] = block_tables[r][k][i]
    <3> DEFINE x == block_tables[r][k][i]
    <3>1. x \in Pages /\ contents[x] = <<k, PrefixAt[r][i]>> /\ r \in Readers(x)
      BY <1>1, <2>2, PlaceFacts
    <3> HIDE DEF x
    <3>2. contents'[x] = contents[x]
      BY <1>22, <3>1, OwnedPage
    <3>3. QED
      BY <2>2, <3>1, <3>2 DEF x
  <2>3. QED
    BY <1>10, <2>1, <2>2
<1>27. UNCHANGED indexVars
  OBVIOUS
<1>28. QED
  BY <1>1, <1>4, <1>13, <1>18, <1>19, <1>20, <1>21, <1>22, <1>24, <1>25, <1>26, <1>27,
     IndexStays

\* A write goes to the last page of the table or to a new one.
LEMMA WritePageInv == CacheInv /\ WritePage => CacheInv'
<1> SUFFICES ASSUME CacheInv, WritePage PROVE CacheInv'
  OBVIOUS
<1> DEFINE n == WrittenCount
           prefix == PrefixAt[append.request][BlockCount(Appended) + 1]
<1>1. /\ append # NoAppend
      /\ cached_token_count' =
           [cached_token_count EXCEPT ![append.request][append.layer] = @ + n]
      /\ append' = IF n = append.left THEN NoAppend ELSE [append EXCEPT !.left = @ - n]
      /\ UNCHANGED <<active, committed, cursors, indexVars>>
  BY DEF WritePage, WrittenCount
<1>2. \/ /\ Appended % PageTokenCount = 0
         /\ \E p \in free_page_ids :
              /\ free_page_ids' = free_page_ids \ {p}
              /\ page_states' = [page_states EXCEPT ![p] = PendingWrite]
              /\ contents' = [contents EXCEPT ![p] = <<append.layer, prefix>>]
              /\ block_tables' =
                   [block_tables EXCEPT ![append.request][append.layer] = Append(@, p)]
      \/ /\ Appended % PageTokenCount > 0
         /\ UNCHANGED <<poolVars, block_tables>>
  BY DEF WritePage, BlockCount
<1> HIDE DEF n, prefix
<1>3. CASE /\ Appended % PageTokenCount > 0
           /\ UNCHANGED <<poolVars, block_tables>>
  BY <1>1, <1>3, WriteIntoPageInv DEF n
<1>4. CASE /\ Appended % PageTokenCount = 0
           /\ \E p \in free_page_ids :
                /\ free_page_ids' = free_page_ids \ {p}
                /\ page_states' = [page_states EXCEPT ![p] = PendingWrite]
                /\ contents' = [contents EXCEPT ![p] = <<append.layer, prefix>>]
                /\ block_tables' =
                     [block_tables EXCEPT ![append.request][append.layer] = Append(@, p)]
  <2>1. PICK p \in free_page_ids :
          /\ free_page_ids' = free_page_ids \ {p}
          /\ page_states' = [page_states EXCEPT ![p] = PendingWrite]
          /\ contents' = [contents EXCEPT ![p] = <<append.layer, prefix>>]
          /\ block_tables' =
               [block_tables EXCEPT ![append.request][append.layer] = Append(@, p)]
    BY <1>4
  <2>2. n = WrittenCount
    BY DEF n
  <2>3. prefix = PrefixAt[append.request][BlockCount(Appended) + 1]
    BY DEF prefix
  <2>4. QED
    BY <1>1, <1>4, <2>1, <2>2, <2>3, WriteNewPageInv
<1>5. QED
  BY <1>2, <1>3, <1>4

-----------------------------------------------------------------------------
(* Releasing pages *)

\* A request gives up some of its pages.
LEMMA ReleaseFacts ==
  ASSUME CacheInv, NEW r \in Requests, OnlyRequest(r), NEW T, Exchange({}, T),
         UNCHANGED indexVars,
         \A p \in T : r \in Readers(p),
         \A p : r \in Readers(p)' <=> r \in Readers(p) /\ p \notin T
  PROVE  /\ \A p \in Pages : PageStep(r, p)
         /\ page_states' \in [Pages -> Int]
         /\ free_page_ids' \subseteq Pages
         /\ FreeInv'
<1>1. ASSUME NEW p \in T PROVE p \in Pages
  <2>1. PICK l \in Layers : \E i \in DOMAIN block_tables[r][l] : block_tables[r][l][i] = p
    BY ReaderFacts
  <2>2. r \in active
    BY ReaderFacts
  <2>3. QED
    BY <2>1, <2>2, PlaceFacts
<1>2. /\ \A p \in Pages : page_states'[p] = IF p \in T THEN Released(page_states[p])
                                            ELSE page_states[p]
      /\ page_states' \in [Pages -> Int]
      /\ free_page_ids' \subseteq Pages
      /\ FreeInv'
  <2>1. {} \cap T = {} /\ T \subseteq Pages
    BY <1>1
  <2>2. QED
    BY <2>1, ExchangeFacts
<1>3. \A p : IsIndexed(p)' <=> IsIndexed(p)
  BY DEF indexVars, IsIndexed, IndexedBlocks
<1>4. ASSUME NEW p \in Pages PROVE PageStep(r, p)
  <2>1. CASE p \in T
    BY <1>2, <1>3, <2>1 DEF PageStep
  <2>2. CASE p \notin T
    BY <1>2, <1>3, <2>2 DEF PageStep
  <2>3. QED
    BY <2>1, <2>2
<1>5. QED
  BY <1>2, <1>4

\* Cutting a table gives back its last pages.
LEMMA TruncateInv ==
  ASSUME CacheInv, NEW r \in Requests, NEW n, Truncate(r, n)
  PROVE  CacheInv'
<1> DEFINE k == PageCount(n)
           table == [l \in Layers |-> SubSeq(block_tables[r][l], 1, k)]
           counts == [l \in Layers |-> n]
           T == PagesAfter(r, k)
<1>1. /\ append = NoAppend /\ r \in active /\ append' = append
      /\ \A l \in Layers : cached_token_count[r][l] = cached_token_count[r][1]
      /\ n \in committed[r] + 1 .. cached_token_count[r][1]
      /\ Exchange({}, T)
      /\ block_tables' = [block_tables EXCEPT ![r] = table]
      /\ cached_token_count' = [cached_token_count EXCEPT ![r] = counts]
      /\ committed' = [committed EXCEPT ![r] = n]
      /\ UNCHANGED <<contents, active, cursors>>
      /\ UNCHANGED indexVars
  BY DEF Truncate, IsBetweenForwards, RetainedPageCount, PageCount
<1>2. 1 \in Layers
  BY PagedKvCacheAssumption DEF Layers
<1>3. /\ cached_token_count \in [Requests -> [Layers -> Nat]]
      /\ block_tables \in [Requests -> [Layers -> Seq(Pages)]]
      /\ committed \in [Requests -> Nat] /\ cursors \in [Requests -> Nat]
      /\ contents \in [Pages -> Layers \X (Prefixes \cup {Root})]
      /\ active \subseteq Requests
  BY DEF CacheInv, TypeInv
<1>4. n \in Nat /\ committed[r] <= n /\ \A l \in Layers : n <= cached_token_count[r][l]
  BY <1>1, <1>2, <1>3
<1>5. TableInv(r)
  BY <1>1 DEF CacheInv
<1>6. k \in Nat /\ BlockCount(n) \in Nat /\ BlockCount(n) <= k
      /\ BlockCount(committed[r]) \in Nat /\ BlockCount(committed[r]) <= BlockCount(n)
      /\ cursors[r] \in Nat /\ cursors[r] <= BlockCount(committed[r])
  <2>1. k \in Nat /\ BlockCount(n) \in Nat /\ k = IF n % PageTokenCount = 0 THEN BlockCount(n)
                                                  ELSE BlockCount(n) + 1
    BY <1>4, CountFacts
  <2>2. committed[r] \in Nat /\ cursors[r] \in Nat
    BY <1>3
  <2>3. BlockCount(committed[r]) \in Nat /\ BlockCount(committed[r]) <= BlockCount(n)
    BY <1>4, <2>2, CountFacts, CountsGrow
  <2>4. cursors[r] <= BlockCount(committed[r])
    BY <1>5 DEF TableInv
  <2>5. QED
    BY <2>1, <2>2, <2>3, <2>4
<1>7. ASSUME NEW l \in Layers
      PROVE  /\ n <= MaxCachedTokenCount[r]
             /\ block_tables[r][l] \in Seq(Pages)
             /\ Len(block_tables[r][l]) \in Nat /\ k <= Len(block_tables[r][l])
             /\ DOMAIN block_tables[r][l] = 1 .. Len(block_tables[r][l])
  <2>1. /\ cached_token_count[r][l] \in Nat
        /\ cached_token_count[r][l] <= MaxCachedTokenCount[r]
        /\ Len(block_tables[r][l]) = PageCount(cached_token_count[r][l])
        /\ MaxCachedTokenCount[r] \in Nat
    BY <1>3, <1>5, ConstantFacts DEF TableInv
  <2>2. k <= PageCount(cached_token_count[r][l]) /\ PageCount(cached_token_count[r][l]) \in Nat
    BY <1>4, <2>1, CountFacts, CountsGrow
  <2>3. block_tables[r][l] \in Seq(Pages)
    BY <1>3
  <2>4. QED
    BY <1>4, <2>1, <2>2, <2>3, LenProperties
<1> HIDE DEF k
<1>8. ASSUME NEW l \in Layers
      PROVE  /\ table[l] \in Seq(Pages) /\ Len(table[l]) = k /\ DOMAIN table[l] = 1 .. k
             /\ \A i \in 1 .. k : i \in DOMAIN block_tables[r][l]
                                  /\ table[l][i] = block_tables[r][l][i]
  <2> DEFINE s == block_tables[r][l]
  <2>1. s \in Seq(Pages) /\ Len(s) \in Nat /\ k <= Len(s) /\ DOMAIN s = 1 .. Len(s)
    BY <1>7
  <2> HIDE DEF s
  <2>2. SubSeq(s, 1, k) = [i \in 1 .. k |-> s[i]]
    BY <1>6, <2>1
  <2>3. \A i \in 1 .. k : i \in DOMAIN s /\ s[i] \in Pages
    BY <1>6, <2>1, ElementOfSeq
  <2>4. SubSeq(s, 1, k) \in [1 .. k -> Pages]
    BY <2>2, <2>3
  <2>5. SubSeq(s, 1, k) \in Seq(Pages) /\ Len(SubSeq(s, 1, k)) = k
    <3> DEFINE t == SubSeq(s, 1, k)
    <3>1. t \in [1 .. k -> Pages]
      BY <2>4
    <3> HIDE DEF t
    <3>2. t \in Seq(Pages) /\ Len(t) = k
      BY <1>6, <3>1
    <3>3. QED
      BY <3>2 DEF t
  <2>6. table[l] = SubSeq(s, 1, k)
    BY DEF s
  <2> HIDE DEF table
  <2>7. /\ table[l] \in Seq(Pages) /\ Len(table[l]) = k /\ DOMAIN table[l] = 1 .. k
        /\ \A i \in 1 .. k : i \in DOMAIN s /\ table[l][i] = s[i]
    BY <2>2, <2>3, <2>4, <2>5, <2>6
  <2>8. QED
    BY <2>7 DEF s
<1>9. /\ table \in [Layers -> Seq(Pages)]
      /\ counts \in [Layers -> Nat] /\ \A l \in Layers : counts[l] = n
  BY <1>4, <1>8
<1> HIDE DEF table, counts
<1>10. /\ OnlyRequest(r)
       /\ block_tables' \in [Requests -> [Layers -> Seq(Pages)]]
       /\ cached_token_count' \in [Requests -> [Layers -> Nat]]
       /\ committed' \in [Requests -> Nat] /\ cursors' \in [Requests -> Nat]
       /\ block_tables'[r] = table /\ cached_token_count'[r] = counts
       /\ committed'[r] = n /\ cursors'[r] = cursors[r]
  <2>1. cursors' = [cursors EXCEPT ![r] = cursors[r]]
    BY <1>1, <1>3
  <2>2. active' \subseteq Requests /\ active' \ {r} = active \ {r}
    BY <1>1, <1>3
  <2>3. cursors[r] \in Nat
    BY <1>3
  <2>4. QED
    BY <1>1, <1>4, <1>9, <2>1, <2>2, <2>3, RequestTypes
<1>11. ASSUME NEW l \in Layers, NEW i
       PROVE  i \in DOMAIN block_tables'[r][l] <=> i \in DOMAIN block_tables[r][l] /\ ~ (i > k)
  <2>1. DOMAIN block_tables'[r][l] = 1 .. k
    BY <1>8, <1>10
  <2>2. QED
    BY <1>6, <1>7, <2>1
<1>12. ASSUME NEW l \in Layers, NEW i \in DOMAIN block_tables'[r][l]
       PROVE  i \in DOMAIN block_tables[r][l] /\ block_tables'[r][l][i] = block_tables[r][l][i]
  BY <1>8, <1>10, <1>12
<1>13. \A p : p \in T <=> \E l \in Layers : \E i \in DOMAIN block_tables[r][l] :
                            i > k /\ block_tables[r][l][i] = p
  BY DEF PagesAfter
<1> HIDE DEF T
<1>14. \A p : r \in Readers(p) <=> \E l \in Layers : \E i \in DOMAIN block_tables[r][l] :
                                     block_tables[r][l][i] = p
  BY <1>1, ReaderFacts
<1>15. r \in active'
  BY <1>1
<1>16. \A p : r \in Readers(p)' <=> \E l \in Layers : \E i \in DOMAIN block_tables'[r][l] :
                                      block_tables'[r][l][i] = p
  BY <1>15, NextReaders
<1>17. ASSUME NEW p PROVE r \in Readers(p)' <=> r \in Readers(p) /\ p \notin T
  <2>1. ASSUME r \in Readers(p)' PROVE r \in Readers(p) /\ p \notin T
    <3>0. PICK l \in Layers : \E i \in DOMAIN block_tables'[r][l] : block_tables'[r][l][i] = p
      BY <1>16, <2>1
    <3>1. PICK i \in DOMAIN block_tables'[r][l] : block_tables'[r][l][i] = p
      BY <3>0
    <3>2. i \in DOMAIN block_tables[r][l] /\ block_tables[r][l][i] = p /\ ~ (i > k)
      BY <1>11, <1>12, <3>1
    <3>3. ASSUME NEW m \in Layers, NEW j \in DOMAIN block_tables[r][m],
                 j > k, block_tables[r][m][j] = p
          PROVE  FALSE
      <4>1. i = j
        BY <1>1, <3>2, <3>3, SameHolder
      <4>2. QED
        BY <3>2, <3>3, <4>1
    <3>4. QED
      BY <1>13, <1>14, <3>2, <3>3
  <2>2. ASSUME r \in Readers(p), p \notin T PROVE r \in Readers(p)'
    <3>0. PICK l \in Layers : \E i \in DOMAIN block_tables[r][l] : block_tables[r][l][i] = p
      BY <1>14, <2>2
    <3>1. PICK i \in DOMAIN block_tables[r][l] : block_tables[r][l][i] = p
      BY <3>0
    <3>2. ~ (i > k)
      BY <1>13, <2>2, <3>1
    <3>3. i \in DOMAIN block_tables'[r][l] /\ block_tables'[r][l][i] = p
      BY <1>11, <1>12, <3>1, <3>2
    <3>4. QED
      BY <1>16, <3>3
  <2>3. QED
    BY <2>1, <2>2
<1>18. \A p \in T : r \in Readers(p)
  BY <1>13, <1>14
<1>19. /\ \A p \in Pages : PageStep(r, p)
       /\ page_states' \in [Pages -> Int] /\ free_page_ids' \subseteq Pages
       /\ FreeInv'
  BY <1>1, <1>10, <1>17, <1>18, ReleaseFacts
<1>20. TypeInv'
  BY <1>1, <1>10, <1>19 DEF CacheInv, TypeInv, indexVars, IndexedBlocks
<1>21. AppendInv' /\ AdmissionInv'
  BY <1>1 DEF CacheInv, AppendInv, AdmissionInv
<1>22. \A p : IsIndexed(p)' <=> IsIndexed(p)
  BY <1>1 DEF indexVars, IsIndexed, IndexedBlocks
<1>23. TableInv(r)'
  <2>1. ASSUME NEW l \in Layers
        PROVE  /\ Len(block_tables'[r][l]) = PageCount(cached_token_count'[r][l])
               /\ committed'[r] <= cached_token_count'[r][l]
               /\ cached_token_count'[r][l] <= MaxCachedTokenCount[r]
    BY <1>4, <1>7, <1>8, <1>9, <1>10 DEF k
  <2>2. ASSUME NEW l \in Layers, NEW i \in DOMAIN block_tables'[r][l], i > cursors'[r],
               NEW p, p = block_tables'[r][l][i]
        PROVE  ~ IsIndexed(p)'
    <3>1. i \in DOMAIN block_tables[r][l] /\ p = block_tables[r][l][i] /\ i > cursors[r]
      BY <1>10, <1>12, <2>2
    <3>2. ~ IsIndexed(p)
      BY <1>5, <3>1 DEF TableInv
    <3>3. QED
      BY <1>22, <3>2
  <2>3. cursors'[r] <= BlockCount(committed'[r])
    BY <1>6, <1>10
  <2>4. ASSUME NEW l \in Layers, NEW i \in DOMAIN block_tables'[r][l], i > cursors'[r]
        PROVE  ~ \E b \in IndexedBlocks', m \in Layers : block_pages'[b][m] = block_tables'[r][l][i]
    BY <2>2, <2>4 DEF IsIndexed
  <2>5. QED
    BY <2>1, <2>3, <2>4 DEF TableInv, IsIndexed
<1>24. ASSUME NEW i \in 1 .. cursors'[r]
       PROVE  /\ PrefixAt[r][i] \in IndexedBlocks
              /\ \A l \in Layers : block_tables'[r][l][i] = block_pages[PrefixAt[r][i]][l]
  <2>1. i \in 1 .. cursors[r] /\ i \in 1 .. k
    BY <1>6, <1>10, <1>24
  <2>2. /\ PrefixAt[r][i] \in IndexedBlocks
        /\ \A l \in Layers : block_tables[r][l][i] = block_pages[PrefixAt[r][i]][l]
    BY <1>1, <2>1 DEF CacheInv, CursorsAreProtected
  <2>3. QED
    BY <1>8, <1>10, <2>1, <2>2
<1>25. ASSUME NEW l \in Layers, NEW i \in DOMAIN block_tables'[r][l]
       PROVE  contents'[block_tables'[r][l][i]] = <<l, PrefixAt[r][i]>>
  <2>1. i \in DOMAIN block_tables[r][l] /\ block_tables'[r][l][i] = block_tables[r][l][i]
    BY <1>12, <1>25
  <2>2. contents[block_tables[r][l][i]] = <<l, PrefixAt[r][i]>>
    BY <1>1, <2>1, PlaceFacts
  <2>3. QED
    BY <1>1, <2>1, <2>2
<1>26. \A p \in Pages : page_states[p] # Unallocated => contents'[p] = contents[p]
  BY <1>1
<1>27. QED
  BY <1>1, <1>10, <1>19, <1>20, <1>21, <1>23, <1>24, <1>25, <1>26, IndexStays

\* A request that leaves gives back all its pages.
LEMMA RemoveRequestInv ==
  ASSUME CacheInv, NEW r \in Requests, RemoveRequest(r)
  PROVE  CacheInv'
<1> DEFINE table == [l \in Layers |-> <<>>]
           counts == [l \in Layers |-> 0]
<1>1. /\ append = NoAppend /\ r \in active /\ append' = append
      /\ Exchange({}, TablePages(r))
      /\ block_tables' = [block_tables EXCEPT ![r] = table]
      /\ cached_token_count' = [cached_token_count EXCEPT ![r] = counts]
      /\ committed' = [committed EXCEPT ![r] = 0]
      /\ cursors' = [cursors EXCEPT ![r] = 0]
      /\ active' = active \ {r}
      /\ contents' = contents
      /\ UNCHANGED indexVars
  BY DEF RemoveRequest
<1>2. active \subseteq Requests /\ contents \in [Pages -> Layers \X (Prefixes \cup {Root})]
  BY DEF CacheInv, TypeInv
<1>3. table \in [Layers -> Seq(Pages)] /\ counts \in [Layers -> Nat]
  OBVIOUS
<1>4. active' \subseteq Requests /\ active' \ {r} = active \ {r} /\ r \notin active'
  BY <1>1, <1>2
<1> HIDE DEF table, counts
<1>5. /\ OnlyRequest(r)
      /\ block_tables' \in [Requests -> [Layers -> Seq(Pages)]]
      /\ cached_token_count' \in [Requests -> [Layers -> Nat]]
      /\ committed' \in [Requests -> Nat] /\ cursors' \in [Requests -> Nat]
  BY <1>1, <1>3, <1>4, RequestTypes
<1>6. \A p : r \in Readers(p) <=> p \in TablePages(r)
  BY <1>1 DEF Readers
<1>7. \A p : r \notin Readers(p)'
  BY <1>4, NextReaders
<1>8. /\ \A p \in Pages : PageStep(r, p)
      /\ page_states' \in [Pages -> Int] /\ free_page_ids' \subseteq Pages
      /\ FreeInv'
  <2>1. \A p : r \in Readers(p)' <=> r \in Readers(p) /\ p \notin TablePages(r)
    BY <1>6, <1>7
  <2>2. \A p \in TablePages(r) : r \in Readers(p)
    BY <1>6
  <2>3. QED
    BY <1>1, <1>5, <2>1, <2>2, ReleaseFacts
<1>9. TypeInv'
  BY <1>1, <1>2, <1>4, <1>5, <1>8 DEF CacheInv, TypeInv, indexVars, IndexedBlocks
<1>10. AppendInv'
  BY <1>1 DEF AppendInv
<1>11. AdmissionInv'
  <2>1. active' \in SUBSET active /\ active \in SUBSET Requests /\ active' \in SUBSET Requests
    BY <1>1, <1>2
  <2>2. /\ Total(ReservedPageCount, active') <= Total(ReservedPageCount, active)
        /\ Total(ReservedPageCount, active') \in Nat /\ Total(ReservedPageCount, active) \in Nat
    BY <2>1, ReservedFacts
  <2>3. PageCapacity \in Nat
    BY PagedKvCacheAssumption, FS_CardinalityType, DivFacts DEF PageCapacity
  <2>4. Total(ReservedPageCount, active) <= PageCapacity
    BY DEF CacheInv, AdmissionInv
  <2>5. QED
    BY <2>2, <2>3, <2>4 DEF AdmissionInv
<1>12. \A p \in Pages : page_states[p] # Unallocated => contents'[p] = contents[p]
  BY <1>1
<1>13. QED
  BY <1>1, <1>4, <1>5, <1>8, <1>9, <1>10, <1>11, <1>12, IndexStays

-----------------------------------------------------------------------------
(* Eviction *)

Children(b) == {c \in IndexedBlocks : ParentOf(c) = b}

\* The tree, with its child counts.
LEMMA TreeFacts ==
  ASSUME CacheInv
  PROVE  /\ \A b \in IndexedBlocks :
              /\ ParentOf(b) \in IndexedBlocks \cup {Root}
              /\ child_counts[b] = Cardinality(Children(b)) /\ child_counts[b] \in Nat
              /\ child_counts[b] = 0 <=> Children(b) = {}
         /\ \A b : IsFiniteSet(Children(b)) /\ Cardinality(Children(b)) \in Nat
         /\ leaf_blocks = {b \in IndexedBlocks : child_counts[b] = 0}
         /\ Root \notin IndexedBlocks
<1>1. \A b : IsFiniteSet(Children(b)) /\ Cardinality(Children(b)) \in Nat
  <2>1. \A b : Children(b) \in SUBSET IndexedBlocks
    BY DEF Children
  <2>2. IsFiniteSet(IndexedBlocks)
    BY DEF CacheInv, IndexInv
  <2>3. QED
    BY <2>1, <2>2, FS_Subset, FS_CardinalityType
<1>2. /\ \A b \in IndexedBlocks : /\ ParentOf(b) \in IndexedBlocks \cup {Root}
                                  /\ child_counts[b] = Cardinality(Children(b))
      /\ leaf_blocks = {b \in IndexedBlocks : child_counts[b] = 0}
  BY DEF CacheInv, IndexInv, IndexIsATree, Children
<1>3. Root \notin IndexedBlocks
  BY ConstantFacts DEF CacheInv, IndexInv, Blocks
<1>4. QED
  BY <1>1, <1>2, <1>3, FS_EmptySet

\* The blocks that a request has published are in its tables.
LEMMA CursorFacts ==
  ASSUME CacheInv, NEW r \in active, NEW i \in 1 .. cursors[r], NEW l \in Layers
  PROVE  /\ i \in DOMAIN block_tables[r][l] /\ PrefixAt[r][i] \in IndexedBlocks
         /\ block_tables[r][l][i] = block_pages[PrefixAt[r][i]][l]
         /\ r \in Readers(block_pages[PrefixAt[r][i]][l])
<1>1. r \in Requests
  BY DEF CacheInv, TypeInv
<1>2. /\ cursors[r] \in Nat /\ committed[r] \in Nat /\ cached_token_count[r][l] \in Nat
      /\ block_tables[r][l] \in Seq(Pages)
  BY <1>1 DEF CacheInv, TypeInv
<1>3. /\ cursors[r] <= BlockCount(committed[r]) /\ committed[r] <= cached_token_count[r][l]
      /\ Len(block_tables[r][l]) = PageCount(cached_token_count[r][l])
  BY DEF CacheInv, TableInv
<1>4. /\ BlockCount(committed[r]) <= BlockCount(cached_token_count[r][l])
      /\ BlockCount(committed[r]) \in Nat /\ BlockCount(cached_token_count[r][l]) \in Nat
  BY <1>2, <1>3, CountsGrow, CountFacts
<1>5. BlockCount(cached_token_count[r][l]) <= PageCount(cached_token_count[r][l])
      /\ PageCount(cached_token_count[r][l]) \in Nat
  <2>1. /\ PageCount(cached_token_count[r][l]) =
             IF cached_token_count[r][l] % PageTokenCount = 0
             THEN BlockCount(cached_token_count[r][l])
             ELSE BlockCount(cached_token_count[r][l]) + 1
        /\ PageCount(cached_token_count[r][l]) \in Nat
    BY <1>2, CountFacts
  <2>2. QED
    BY <1>4, <2>1
<1>6. DOMAIN block_tables[r][l] = 1 .. PageCount(cached_token_count[r][l])
  BY <1>2, <1>3, LenProperties
<1>7. i \in DOMAIN block_tables[r][l]
  BY <1>2, <1>3, <1>4, <1>5, <1>6
<1>8. PrefixAt[r][i] \in IndexedBlocks /\ block_tables[r][l][i] = block_pages[PrefixAt[r][i]][l]
  BY DEF CacheInv, CursorsAreProtected
<1>9. r \in Readers(block_tables[r][l][i])
  BY <1>7, PlaceFacts
<1>10. QED
  BY <1>7, <1>8, <1>9

\* The leaf that goes has no children and no readers.
LEMMA EvictLeafInv == CacheInv /\ EvictLeaf => CacheInv'
<1> SUFFICES ASSUME CacheInv, EvictLeaf PROVE CacheInv'
  OBVIOUS
<1> DEFINE T(b) == {block_pages[b][l] : l \in Layers}
<1>1. PICK b \in leaf_blocks :
        /\ ArePagesInactive(b)
        /\ Exchange({}, T(b))
        /\ block_pages' = [c \in IndexedBlocks \ {b} |-> block_pages[c]]
        /\ child_counts' =
             [c \in IndexedBlocks \ {b} |->
                IF c = ParentOf(b) THEN child_counts[c] - 1 ELSE child_counts[c]]
        /\ leaf_blocks' = (leaf_blocks \ {b}) \cup
             {c \in IndexedBlocks \ {b} : c = ParentOf(b) /\ child_counts[c] = 1}
  BY DEF EvictLeaf
<1>2. append # NoAppend /\ UNCHANGED <<contents, requestVars, append>>
  BY DEF EvictLeaf
<1>3. /\ UNCHANGED <<active, block_tables, cached_token_count, committed, cursors>>
      /\ contents' = contents /\ append' = append
  BY <1>2 DEF requestVars
<1> DEFINE r == append.request
           pages == T(b)
<1>4. b \in IndexedBlocks /\ Children(b) = {}
  BY TreeFacts
<1>5. IndexedBlocks' = IndexedBlocks \ {b}
      /\ \A c \in IndexedBlocks' : block_pages'[c] = block_pages[c]
  BY <1>1 DEF IndexedBlocks
<1>6. \A l \in Layers : /\ block_pages[b][l] \in Pages
                        /\ IsIndexed(block_pages[b][l])
                        /\ Readers(block_pages[b][l]) = {}
  <2> TAKE l \in Layers
  <2> DEFINE p == block_pages[b][l]
  <2>1. p \in Pages /\ IsIndexed(p)
    BY <1>4, EntryFacts
  <2>2. page_states[p] = 0
    BY <1>1 DEF ArePagesInactive, WrittenNotInUse
  <2> HIDE DEF p
  <2>3. page_states[p] = Cardinality(Readers(p)) /\ IsFiniteSet(Readers(p))
    BY <2>1, ReaderFacts DEF CacheInv, TypeInv, PageInv
  <2>4. Readers(p) = {}
    BY <2>2, <2>3, FS_EmptySet
  <2>5. QED
    BY <2>1, <2>4 DEF p
<1>7. \A p : p \in pages <=> \E l \in Layers : block_pages[b][l] = p
  OBVIOUS
<1> HIDE DEF T
<1>8. \A p : IsIndexed(p)' <=> IsIndexed(p) /\ p \notin pages
  <2> TAKE p
  <2>1. ASSUME IsIndexed(p)' PROVE IsIndexed(p) /\ p \notin pages
    <3>1. PICK c \in IndexedBlocks \ {b}, l \in Layers : block_pages[c][l] = p
      BY <1>5, <2>1 DEF IsIndexed
    <3>2. \A m \in Layers : block_pages[b][m] # p
      BY <1>4, <3>1, EntryFacts
    <3>3. IsIndexed(p)
      BY <3>1, EntryFacts
    <3>4. QED
      BY <1>7, <3>2, <3>3
  <2>2. ASSUME IsIndexed(p), p \notin pages PROVE IsIndexed(p)'
    <3>1. PICK c \in IndexedBlocks, l \in Layers : block_pages[c][l] = p
      BY <2>2 DEF IsIndexed
    <3>2. c # b
      BY <1>7, <2>2, <3>1
    <3>3. c \in IndexedBlocks' /\ block_pages'[c][l] = p
      BY <1>5, <3>1, <3>2
    <3>4. QED
      BY <3>3 DEF IsIndexed
  <2>3. QED
    BY <2>1, <2>2
<1>9. \A p : Readers(p)' = Readers(p)
  BY <1>3 DEF Readers, TablePages
<1>10. /\ \A p \in Pages : page_states'[p] = IF p \in pages THEN Released(page_states[p])
                                             ELSE page_states[p]
       /\ page_states' \in [Pages -> Int]
       /\ free_page_ids' \subseteq Pages
       /\ FreeInv'
  <2>1. pages \subseteq Pages /\ {} \cap pages = {}
    BY <1>6, <1>7
  <2> HIDE DEF pages
  <2>2. Exchange({}, pages)
    BY <1>1 DEF pages
  <2>3. QED
    BY <2>1, <2>2, ExchangeFacts
<1>11. ASSUME NEW p \in Pages PROVE PageInv(p)'
  <2>1. r \in Requests
    BY <1>2, AppendFacts
  <2>2. OnlyRequest(r)
    BY <1>3 DEF OnlyRequest, CacheInv, TypeInv
  <2>3. CASE p \in pages
    <3>1. IsIndexed(p) /\ Readers(p) = {} /\ ~ IsIndexed(p)' /\ Readers(p)' = {}
      BY <1>6, <1>7, <1>8, <1>9, <2>3
    <3>2. page_states'[p] = Released(page_states[p])
      BY <1>10, <2>3
    <3>3. PageStep(r, p)
      BY <3>1, <3>2 DEF PageStep
    <3>4. QED
      BY <2>1, <2>2, <3>3, PageStepInv DEF CacheInv
  <2>4. CASE p \notin pages
    <3>1. PageStep(r, p)
      BY <1>8, <1>9, <1>10, <2>4 DEF PageStep
    <3>2. QED
      BY <2>1, <2>2, <3>1, PageStepInv DEF CacheInv
  <2>5. QED
    BY <2>3, <2>4
<1>12. TypeInv'
  <2>1. block_pages' \in [IndexedBlocks' -> [Layers -> Pages]]
    BY <1>1, <1>5 DEF CacheInv, TypeInv
  <2>2. child_counts' \in [IndexedBlocks' -> Nat]
    <3>1. ASSUME NEW c \in IndexedBlocks \ {b}
          PROVE  (IF c = ParentOf(b) THEN child_counts[c] - 1 ELSE child_counts[c]) \in Nat
      <4>1. c = ParentOf(b) => b \in Children(c)
        BY <1>4 DEF Children
      <4>2. QED
        BY <4>1, TreeFacts
    <3>2. QED
      BY <1>1, <1>5, <3>1
  <2>3. QED
    BY <1>3, <1>10, <2>1, <2>2 DEF CacheInv, TypeInv
<1>13. ASSUME NEW q \in active' PROVE TableInv(q)'
  <2>1. q \in active /\ TableInv(q)
    BY <1>3, <1>13 DEF CacheInv
  <2>2. ASSUME NEW l \in Layers, NEW i \in DOMAIN block_tables[q][l], i > cursors[q],
               NEW p, p = block_tables[q][l][i]
        PROVE  ~ IsIndexed(p)'
    <3>1. ~ IsIndexed(p)
      BY <2>1, <2>2 DEF TableInv
    <3>2. QED
      BY <1>8, <3>1
  <2>3. ASSUME NEW l \in Layers, NEW i \in DOMAIN block_tables[q][l], i > cursors[q]
        PROVE  ~ \E c \in IndexedBlocks', m \in Layers : block_pages'[c][m] = block_tables[q][l][i]
    BY <2>2, <2>3 DEF IsIndexed
  <2>4. QED
    BY <1>3, <2>1, <2>3 DEF TableInv, IsIndexed
<1>14. IndexInv'
  <2>1. IndexedBlocks' \subseteq Blocks /\ IsFiniteSet(IndexedBlocks')
    BY <1>5, FS_Subset DEF CacheInv, IndexInv
  <2>2. ASSUME NEW c \in IndexedBlocks'
        PROVE  /\ ParentOf(c) \in IndexedBlocks' \cup {Root}
               /\ child_counts'[c] = Cardinality({d \in IndexedBlocks' : ParentOf(d) = c})
               /\ c \in leaf_blocks' <=> child_counts'[c] = 0
    <3>1. c \in IndexedBlocks /\ c # b
      BY <1>5
    <3>2. ParentOf(c) # b
      BY <1>4, <3>1 DEF Children
    <3>3. ParentOf(c) \in IndexedBlocks' \cup {Root}
      BY <1>5, <3>1, <3>2, TreeFacts
    <3>4. {d \in IndexedBlocks' : ParentOf(d) = c} = Children(c) \ {b}
      BY <1>5 DEF Children
    <3>5. /\ child_counts[c] = Cardinality(Children(c)) /\ child_counts[c] \in Nat
          /\ IsFiniteSet(Children(c))
          /\ c \in leaf_blocks <=> child_counts[c] = 0
      BY <3>1, TreeFacts
    <3>6. b \in Children(c) <=> c = ParentOf(b)
      BY <1>4 DEF Children
    <3>7. child_counts'[c] = IF c = ParentOf(b) THEN child_counts[c] - 1 ELSE child_counts[c]
      BY <1>1, <3>1
    <3>8. Cardinality(Children(c) \ {b}) =
            IF c = ParentOf(b) THEN child_counts[c] - 1 ELSE child_counts[c]
      BY <3>5, <3>6, FS_RemoveElement
    <3>9. c = ParentOf(b) => child_counts[c] # 0
      BY <3>1, <3>6, TreeFacts
    <3>10. c \in leaf_blocks' <=> c \in leaf_blocks \/ (c = ParentOf(b) /\ child_counts[c] = 1)
      BY <1>1, <3>1
    <3>11. c \in leaf_blocks' <=> child_counts'[c] = 0
      BY <3>5, <3>7, <3>9, <3>10
    <3>12. QED
      BY <3>3, <3>4, <3>7, <3>8, <3>11
  <2>3. leaf_blocks' \subseteq IndexedBlocks'
    BY <1>1, <1>5, TreeFacts
  <2>4. IndexIsATree'
    BY <2>2, <2>3 DEF IndexIsATree
  <2>5. QED
    BY <2>1, <2>4 DEF IndexInv
<1>15. CursorsAreProtected'
  <2>1. ASSUME NEW q \in active, NEW i \in 1 .. cursors[q]
        PROVE  PrefixAt[q][i] \in IndexedBlocks'
               /\ \A l \in Layers : block_tables[q][l][i] = block_pages'[PrefixAt[q][i]][l]
    <3>1. 1 \in Layers
      BY PagedKvCacheAssumption DEF Layers
    <3>2. PrefixAt[q][i] \in IndexedBlocks /\ q \in Readers(block_pages[PrefixAt[q][i]][1])
      BY <3>1, CursorFacts
    <3>3. PrefixAt[q][i] # b
      BY <1>6, <3>1, <3>2
    <3>4. PrefixAt[q][i] \in IndexedBlocks'
      BY <1>5, <3>2, <3>3
    <3>5. \A l \in Layers : block_tables[q][l][i] = block_pages[PrefixAt[q][i]][l]
      BY CursorFacts
    <3>6. QED
      BY <1>5, <3>4, <3>5
  <2>2. QED
    BY <1>3, <2>1 DEF CursorsAreProtected
<1>16. CachedValuesAreRight'
  <2>1. ASSUME NEW c \in IndexedBlocks', NEW l \in Layers
        PROVE  contents[block_pages'[c][l]] = <<l, c>>
    <3>1. c \in IndexedBlocks /\ block_pages'[c] = block_pages[c]
      BY <1>5
    <3>2. QED
      BY <3>1, EntryFacts
  <2>2. ASSUME NEW q \in active, NEW l \in Layers, NEW i \in DOMAIN block_tables[q][l]
        PROVE  contents[block_tables[q][l][i]] = <<l, PrefixAt[q][i]>>
    BY PlaceFacts
  <2>3. QED
    BY <1>3, <2>1, <2>2 DEF CachedValuesAreRight
<1>17. AppendInv' /\ AdmissionInv'
  BY <1>3 DEF CacheInv, AppendInv, AdmissionInv
<1>18. QED
  BY <1>10, <1>11, <1>12, <1>13, <1>14, <1>15, <1>16, <1>17 DEF CacheInv

-----------------------------------------------------------------------------
(* Publication *)

LastBlock(r) == BlockCount(committed[r])

\* The blocks a request may publish are complete in every layer, and it alone has their pages.
LEMMA UnpublishedFacts ==
  ASSUME CacheInv, NEW r \in Requests, PublishCompletedPrefix(r)
  PROVE  /\ r \in active /\ cursors[r] \in Nat /\ LastBlock(r) \in Nat
         /\ cursors[r] <= LastBlock(r)
         /\ Unpublished(r) = cursors[r] + 1 .. LastBlock(r)
         /\ \A l \in Layers : \A i \in 1 .. LastBlock(r) : i \in DOMAIN block_tables[r][l]
         /\ \A i \in 1 .. LastBlock(r) : i \in DOMAIN PrefixAt[r]
         /\ \A i \in Unpublished(r) : \A l \in Layers :
              /\ ~ IsIndexed(block_tables[r][l][i])
              /\ \A q \in Readers(block_tables[r][l][i]) : q = r
<1>1. /\ r \in active /\ cached_token_count[r][1] = committed[r]
      /\ \A l \in Layers : cached_token_count[r][l] = committed[r]
  BY DEF PublishCompletedPrefix, IsBetweenForwards
<1>2. /\ cursors[r] \in Nat /\ committed[r] \in Nat
      /\ \A l \in Layers : block_tables[r][l] \in Seq(Pages)
  BY DEF CacheInv, TypeInv
<1>3. TableInv(r)
  BY <1>1 DEF CacheInv
<1>4. LastBlock(r) \in Nat /\ cursors[r] <= LastBlock(r)
  BY <1>2, <1>3, CountFacts DEF TableInv, LastBlock
<1>5. Unpublished(r) = cursors[r] + 1 .. LastBlock(r)
  BY DEF Unpublished, LastBlock, BlockCount
<1>6. LastBlock(r) <= PageCount(committed[r]) /\ PageCount(committed[r]) \in Nat
  <2>1. /\ PageCount(committed[r]) = IF committed[r] % PageTokenCount = 0 THEN LastBlock(r)
                                     ELSE LastBlock(r) + 1
        /\ PageCount(committed[r]) \in Nat
    BY <1>2, CountFacts DEF LastBlock
  <2>2. QED
    BY <1>4, <2>1
<1>7. ASSUME NEW l \in Layers
      PROVE  DOMAIN block_tables[r][l] = 1 .. PageCount(committed[r])
  BY <1>1, <1>2, <1>3, LenProperties DEF TableInv
<1>8. \A l \in Layers : \A i \in 1 .. LastBlock(r) : i \in DOMAIN block_tables[r][l]
  BY <1>4, <1>6, <1>7
<1>9. \A i \in 1 .. LastBlock(r) : i \in DOMAIN PrefixAt[r]
  <2>1. 1 \in Layers
    BY PagedKvCacheAssumption DEF Layers
  <2>2. QED
    BY <1>1, <1>8, <2>1, PlaceFacts
<1>10. ASSUME NEW i \in Unpublished(r), NEW l \in Layers
       PROVE  /\ ~ IsIndexed(block_tables[r][l][i])
              /\ \A q \in Readers(block_tables[r][l][i]) : q = r
  <2> DEFINE p == block_tables[r][l][i]
  <2>1. i \in 1 .. LastBlock(r) /\ i > cursors[r]
    BY <1>2, <1>4, <1>5
  <2>2. i \in DOMAIN block_tables[r][l]
    BY <1>8, <2>1
  <2>3. ~ IsIndexed(p)
    BY <1>3, <2>1, <2>2 DEF TableInv
  <2>4. p \in Pages /\ r \in Readers(p)
    BY <1>1, <2>2, PlaceFacts
  <2> HIDE DEF p
  <2>5. \A q \in Readers(p) : q = r
    BY <2>3, <2>4 DEF CacheInv, PageInv
  <2>6. QED
    BY <2>3, <2>5 DEF p
<1>11. QED
  BY <1>1, <1>2, <1>4, <1>5, <1>8, <1>9, <1>10

\* A block that is already indexed has other pages there, which the request does not read.
LEMMA DuplicateFacts ==
  ASSUME CacheInv, NEW r \in Requests, PublishCompletedPrefix(r)
  PROVE  /\ NewBlocks(r) \subseteq Unpublished(r) /\ DuplicateBlocks(r) \subseteq Unpublished(r)
         /\ \A i \in Unpublished(r) : i \in NewBlocks(r) <=> i \notin DuplicateBlocks(r)
         /\ \A i \in NewBlocks(r) : PrefixAt[r][i] \notin IndexedBlocks
         /\ \A i \in DuplicateBlocks(r) : PrefixAt[r][i] \in IndexedBlocks
         /\ \A i \in DuplicateBlocks(r) : \A l \in Layers :
              r \notin Readers(block_pages[PrefixAt[r][i]][l])
         /\ \A l, i : <<l, i>> \in Replacements(r) <=> l \in Layers /\ i \in DuplicateBlocks(r)
         /\ Replacements(r) = Layers \X DuplicateBlocks(r)
<1>1. /\ NewBlocks(r) \subseteq Unpublished(r) /\ DuplicateBlocks(r) \subseteq Unpublished(r)
      /\ \A i \in Unpublished(r) : i \in NewBlocks(r) <=> i \notin DuplicateBlocks(r)
      /\ \A i \in NewBlocks(r) : PrefixAt[r][i] \notin IndexedBlocks
      /\ \A i \in DuplicateBlocks(r) : PrefixAt[r][i] \in IndexedBlocks
  BY DEF NewBlocks, DuplicateBlocks
<1>2. ASSUME NEW i \in DuplicateBlocks(r), NEW l \in Layers
      PROVE  /\ block_pages[PrefixAt[r][i]][l] # block_tables[r][l][i]
             /\ r \notin Readers(block_pages[PrefixAt[r][i]][l])
  <2> DEFINE b == PrefixAt[r][i]
             p == block_pages[b][l]
  <2>1. /\ b \in IndexedBlocks /\ i \in Unpublished(r) /\ IsIndexed(p)
        /\ \A m \in Layers : block_pages[b][m] = p => m = l
    BY <1>1, EntryFacts
  <2>2. p # block_tables[r][l][i]
    BY <2>1, UnpublishedFacts
  <2>3. ASSUME r \in Readers(p) PROVE FALSE
    <3>1. PICK k \in Layers : \E j \in DOMAIN block_tables[r][k] : block_tables[r][k][j] = p
      BY <2>3, ReaderFacts
    <3>2. PICK j \in DOMAIN block_tables[r][k] : block_tables[r][k][j] = p
      BY <3>1
    <3>3. b = PrefixAt[r][j] /\ j <= cursors[r] /\ j \in DOMAIN PrefixAt[r]
      BY <2>1, <3>2, EntryHolder, PlaceFacts, UnpublishedFacts
    <3>4. i \in cursors[r] + 1 .. LastBlock(r) /\ i \in DOMAIN PrefixAt[r]
          /\ cursors[r] \in Nat /\ LastBlock(r) \in Nat
      <4>1. /\ i \in cursors[r] + 1 .. LastBlock(r) /\ cursors[r] \in Nat /\ LastBlock(r) \in Nat
            /\ \A x \in 1 .. LastBlock(r) : x \in DOMAIN PrefixAt[r]
        BY <2>1, UnpublishedFacts
      <4>2. QED
        BY <4>1
    <3>5. i = j
      BY <3>3, <3>4, SamePrefix
    <3>6. QED
      BY <3>3, <3>4, <3>5
  <2>4. QED
    BY <2>2, <2>3
<1>3. \A l, i : <<l, i>> \in Replacements(r) <=> l \in Layers /\ i \in DuplicateBlocks(r)
  BY <1>2 DEF Replacements
<1>4. Replacements(r) = Layers \X DuplicateBlocks(r)
  BY <1>2 DEF Replacements
<1>5. QED
  BY <1>1, <1>2, <1>3, <1>4

\* The tables after the publication.
LEMMA PublishedTables ==
  ASSUME CacheInv, NEW r \in Requests, PublishCompletedPrefix(r)
  PROVE  /\ OnlyRequest(r)
         /\ block_tables' \in [Requests -> [Layers -> Seq(Pages)]]
         /\ cursors' \in [Requests -> Nat] /\ cursors'[r] = LastBlock(r)
         /\ \A l \in Layers :
              /\ DOMAIN block_tables'[r][l] = DOMAIN block_tables[r][l]
              /\ Len(block_tables'[r][l]) = Len(block_tables[r][l])
              /\ \A i \in DOMAIN block_tables[r][l] :
                   block_tables'[r][l][i] = IF i \in DuplicateBlocks(r)
                                            THEN block_pages[PrefixAt[r][i]][l]
                                            ELSE block_tables[r][l][i]
<1> DEFINE Entry(l, i) == IF <<l, i>> \in Replacements(r) THEN block_pages[PrefixAt[r][i]][l]
                          ELSE block_tables[r][l][i]
           table == [l \in Layers |-> [i \in DOMAIN block_tables[r][l] |-> Entry(l, i)]]
<1>1. /\ block_tables' = [block_tables EXCEPT ![r] = table]
      /\ cursors' = [cursors EXCEPT ![r] = LastBlock(r)]
      /\ UNCHANGED <<active, cached_token_count, committed>>
  BY DEF PublishCompletedPrefix, LastBlock, BlockCount
<1>2. /\ block_tables \in [Requests -> [Layers -> Seq(Pages)]]
      /\ cached_token_count \in [Requests -> [Layers -> Nat]]
      /\ committed \in [Requests -> Nat] /\ cursors \in [Requests -> Nat]
      /\ active \subseteq Requests
  BY DEF CacheInv, TypeInv
<1>3. r \in active /\ LastBlock(r) \in Nat
  BY UnpublishedFacts
<1>4. ASSUME NEW l \in Layers, NEW i \in DOMAIN block_tables[r][l]
      PROVE  /\ Entry(l, i) \in Pages
             /\ Entry(l, i) = IF i \in DuplicateBlocks(r) THEN block_pages[PrefixAt[r][i]][l]
                              ELSE block_tables[r][l][i]
  <2>1. block_tables[r][l][i] \in Pages
    BY <1>3, PlaceFacts
  <2>2. i \in DuplicateBlocks(r) => block_pages[PrefixAt[r][i]][l] \in Pages
    BY DuplicateFacts, EntryFacts
  <2>3. QED
    BY <2>1, <2>2, DuplicateFacts
<1> HIDE DEF Entry
<1>5. ASSUME NEW l \in Layers
      PROVE  /\ table[l] \in Seq(Pages) /\ DOMAIN table[l] = DOMAIN block_tables[r][l]
             /\ Len(table[l]) = Len(block_tables[r][l])
             /\ \A i \in DOMAIN block_tables[r][l] : table[l][i] = Entry(l, i)
  <2> DEFINE s == block_tables[r][l]
  <2>1. s \in Seq(Pages)
    BY <1>2
  <2>2. DOMAIN s = 1 .. Len(s) /\ Len(s) \in Nat
    BY <2>1, LenProperties
  <2>3. table[l] = [i \in 1 .. Len(s) |-> Entry(l, i)]
    BY <2>2
  <2>4. \A i \in 1 .. Len(s) : Entry(l, i) \in Pages
    BY <1>4, <2>2
  <2> HIDE DEF s, table
  <2>5. table[l] \in [1 .. Len(s) -> Pages]
    BY <2>3, <2>4
  <2>6. table[l] \in Seq(Pages) /\ Len(table[l]) = Len(s) /\ DOMAIN table[l] = DOMAIN s
    BY <2>2, <2>5
  <2>7. QED
    BY <2>2, <2>3, <2>6 DEF s
<1>6. table \in [Layers -> Seq(Pages)]
  BY <1>5
<1> HIDE DEF table
<1>7. /\ OnlyRequest(r)
      /\ block_tables' \in [Requests -> [Layers -> Seq(Pages)]]
      /\ cursors' \in [Requests -> Nat]
      /\ block_tables'[r] = table /\ cursors'[r] = LastBlock(r)
  <2>1. /\ cached_token_count' = [cached_token_count EXCEPT ![r] = cached_token_count[r]]
        /\ committed' = [committed EXCEPT ![r] = committed[r]]
        /\ active' \subseteq Requests /\ active' \ {r} = active \ {r}
        /\ cached_token_count[r] \in [Layers -> Nat] /\ committed[r] \in Nat
    BY <1>1, <1>2
  <2>2. QED
    BY <1>1, <1>3, <1>6, <2>1, RequestTypes
<1>8. QED
  BY <1>4, <1>5, <1>7

\* The index after the publication: the new blocks with the pages of the request.
LEMMA PublishedBlocks ==
  ASSUME CacheInv, NEW r \in Requests, PublishCompletedPrefix(r)
  PROVE  /\ IndexedBlocks' = IndexedBlocks \cup {PrefixAt[r][i] : i \in NewBlocks(r)}
         /\ \A b \in IndexedBlocks : block_pages'[b] = block_pages[b]
         /\ \A i \in NewBlocks(r) : \A l \in Layers :
              block_pages'[PrefixAt[r][i]][l] = block_tables[r][l][i]
         /\ block_pages' \in [IndexedBlocks' -> [Layers -> Pages]]
         /\ IndexedBlocks' \subseteq Blocks /\ IsFiniteSet(IndexedBlocks')
<1> DEFINE new == {PrefixAt[r][i] : i \in NewBlocks(r)}
           Place(b) == CHOOSE i \in NewBlocks(r) : PrefixAt[r][i] = b
<1>1. /\ block_pages' = [b \in IndexedBlocks \cup new |->
                           IF b \in new THEN [l \in Layers |-> block_tables[r][l][Place(b)]]
                           ELSE block_pages[b]]
  BY DEF PublishCompletedPrefix, IndexNewBlocks
<1>2. /\ r \in active
      /\ \A i \in NewBlocks(r) : /\ i \in 1 .. LastBlock(r) /\ i \in DOMAIN PrefixAt[r]
                                 /\ PrefixAt[r][i] \notin IndexedBlocks
                                 /\ \A l \in Layers : i \in DOMAIN block_tables[r][l]
  <2>1. /\ r \in active /\ cursors[r] \in Nat /\ LastBlock(r) \in Nat
        /\ Unpublished(r) = cursors[r] + 1 .. LastBlock(r)
        /\ \A l \in Layers : \A i \in 1 .. LastBlock(r) : i \in DOMAIN block_tables[r][l]
        /\ \A i \in 1 .. LastBlock(r) : i \in DOMAIN PrefixAt[r]
    BY UnpublishedFacts
  <2>2. /\ NewBlocks(r) \subseteq Unpublished(r)
        /\ \A i \in NewBlocks(r) : PrefixAt[r][i] \notin IndexedBlocks
    BY DuplicateFacts
  <2>3. \A i \in NewBlocks(r) : i \in 1 .. LastBlock(r)
    BY <2>1, <2>2
  <2>4. QED
    BY <2>1, <2>2, <2>3
<1>3. IndexedBlocks' = IndexedBlocks \cup new
  BY <1>1 DEF IndexedBlocks
<1>4. \A b \in IndexedBlocks : b \notin new /\ block_pages'[b] = block_pages[b]
  <2>1. \A b \in IndexedBlocks : b \notin new
    BY <1>2
  <2> HIDE DEF new
  <2>2. QED
    BY <1>1, <2>1
<1>5. ASSUME NEW i \in NewBlocks(r)
      PROVE  Place(PrefixAt[r][i]) = i
  <2>1. \A j \in NewBlocks(r) : PrefixAt[r][j] = PrefixAt[r][i] => j = i
    BY <1>2, SamePrefix
  <2>2. QED
    BY <2>1
<1>6. ASSUME NEW i \in NewBlocks(r)
      PROVE  block_pages'[PrefixAt[r][i]] = [l \in Layers |-> block_tables[r][l][i]]
  <2>1. PrefixAt[r][i] \in new
    OBVIOUS
  <2> DEFINE b == PrefixAt[r][i]
  <2>2. Place(b) = i
    BY <1>5
  <2> HIDE DEF new, Place, b
  <2>3. block_pages'[b] = [l \in Layers |-> block_tables[r][l][Place(b)]]
    BY <1>1, <2>1 DEF b
  <2>4. QED
    BY <2>2, <2>3 DEF b
<1>7. ASSUME NEW i \in NewBlocks(r), NEW l \in Layers
      PROVE  block_tables[r][l][i] \in Pages
  BY <1>2, PlaceFacts
<1>8. block_pages' \in [IndexedBlocks' -> [Layers -> Pages]]
  <2>1. block_pages \in [IndexedBlocks -> [Layers -> Pages]]
    BY DEF CacheInv, TypeInv
  <2>2. ASSUME NEW b \in IndexedBlocks \cup new PROVE block_pages'[b] \in [Layers -> Pages]
    <3>1. CASE b \in IndexedBlocks
      BY <1>4, <2>1, <3>1
    <3>2. CASE b \in new
      <4>1. PICK i \in NewBlocks(r) : b = PrefixAt[r][i]
        BY <3>2
      <4>2. block_pages'[b] = [l \in Layers |-> block_tables[r][l][i]]
        BY <1>6, <4>1
      <4>3. \A l \in Layers : block_tables[r][l][i] \in Pages
        BY <1>7
      <4>4. QED
        BY <4>2, <4>3
    <3>3. QED
      BY <2>2, <3>1, <3>2
  <2>3. block_pages' = [b \in IndexedBlocks \cup new |-> block_pages'[b]]
    <3> HIDE DEF new, Place
    <3>1. QED
      BY <1>1
  <2> HIDE DEF new
  <2>4. QED
    BY <1>3, <2>2, <2>3
<1>9. IndexedBlocks' \subseteq Blocks
  BY <1>2, <1>3 DEF Blocks, CacheInv, IndexInv
<1>10. IsFiniteSet(IndexedBlocks')
  <2>1. IsFiniteSet(NewBlocks(r))
    <3>1. 1 \in Int /\ LastBlock(r) \in Int
      BY UnpublishedFacts
    <3>2. IsFiniteSet(1 .. LastBlock(r))
      BY <3>1, FS_Interval
    <3>3. NewBlocks(r) \in SUBSET (1 .. LastBlock(r))
      BY <1>2
    <3>4. QED
      BY <3>2, <3>3, FS_Subset
  <2> DEFINE f == [i \in NewBlocks(r) |-> PrefixAt[r][i]]
  <2>2. f \in Surjection(NewBlocks(r), new)
    BY Fun_IsSurj
  <2>3. IsFiniteSet(new)
    BY <2>1, <2>2, FS_Surjection
  <2>4. IsFiniteSet(IndexedBlocks)
    BY DEF CacheInv, IndexInv
  <2>5. QED
    BY <1>3, <2>3, <2>4, FS_Union
<1>11. \A i \in NewBlocks(r) : \A l \in Layers :
         block_pages'[PrefixAt[r][i]][l] = block_tables[r][l][i]
  BY <1>6
<1>12. QED
  BY <1>3, <1>4, <1>8, <1>9, <1>10, <1>11

\* The new blocks extend the tree: each has the next one as its only child.
LEMMA PublishedTree ==
  ASSUME CacheInv, NEW r \in Requests, PublishCompletedPrefix(r)
  PROVE  IndexIsATree' /\ child_counts' \in [IndexedBlocks' -> Nat]
<1> DEFINE P(i) == PrefixAt[r][i]
           new == {P(i) : i \in NewBlocks(r)}
           last == LastBlock(r)
           NewChildren(b) == {d \in IndexedBlocks' : ParentOf(d) = b}
<1>1. IndexedBlocks' = IndexedBlocks \cup new /\ IsFiniteSet(IndexedBlocks')
  BY PublishedBlocks
<1>2. /\ child_counts' =
           [b \in IndexedBlocks \cup new |->
              IF b \in new THEN (IF b = P(last) THEN 0 ELSE 1)
              ELSE IF IsBranchPoint(r, b) THEN child_counts[b] + 1 ELSE child_counts[b]]
      /\ leaf_blocks' =
           {b \in leaf_blocks : ~IsBranchPoint(r, b)} \cup
           {P(i) : i \in {j \in NewBlocks(r) : j = last}}
  BY DEF PublishCompletedPrefix, IndexNewBlocks, LastBlock, BlockCount
<1>3. /\ r \in active /\ cursors[r] \in Nat /\ last \in Nat /\ cursors[r] <= last
      /\ Unpublished(r) = cursors[r] + 1 .. last
      /\ \A i \in 1 .. last : i \in DOMAIN PrefixAt[r]
  BY UnpublishedFacts
<1>4. /\ NewBlocks(r) \subseteq Unpublished(r)
      /\ \A i \in Unpublished(r) : i \in NewBlocks(r) <=> P(i) \notin IndexedBlocks
  BY DuplicateFacts
<1> HIDE DEF last
<1>5. ASSUME NEW i \in 1 .. last
       PROVE  ParentOf(P(i)) = IF i = 1 THEN Root ELSE P(i - 1)
  <2>1. i \in DOMAIN PrefixAt[r] /\ (i = 1 \/ i > 1)
    BY <1>3
  <2>2. /\ ParentOf(PrefixAt[r][i]) = Parent(r, i)
        /\ i > 1 => Parent(r, i) = PrefixAt[r][i - 1]
        /\ i = 1 => Parent(r, i) = Root
    BY <2>1, ParentFacts
  <2>3. QED
    BY <2>1, <2>2
\* A new block's place, its parent and its identity.
<1>6. ASSUME NEW i \in NewBlocks(r)
      PROVE  /\ i \in 1 .. last /\ i > cursors[r] /\ i \in DOMAIN PrefixAt[r]
             /\ P(i) \notin IndexedBlocks /\ P(i) # Root
             /\ ParentOf(P(i)) = IF i = 1 THEN Root ELSE P(i - 1)
             /\ i # 1 => i - 1 \in 1 .. last /\ P(i - 1) # Root
             /\ i # 1 => P(i - 1) \in IndexedBlocks \cup new
  <2>1. i \in cursors[r] + 1 .. last /\ i \in 1 .. last
    BY <1>3, <1>4
  <2>2. i \in DOMAIN PrefixAt[r] /\ P(i) \notin IndexedBlocks
    BY <1>3, <1>4, <2>1
  <2>3. ParentOf(P(i)) = IF i = 1 THEN Root ELSE P(i - 1)
    BY <1>5, <2>1
  <2>4. P(i) # Root
    BY <2>2, ConstantFacts
  <2>5. ASSUME i # 1
        PROVE  i - 1 \in 1 .. last /\ P(i - 1) # Root /\ P(i - 1) \in IndexedBlocks \cup new
    <3>1. i - 1 \in 1 .. last
      BY <1>3, <2>1, <2>5
    <3>2. P(i - 1) # Root
      BY <1>3, <3>1, ConstantFacts
    <3>3. CASE i - 1 <= cursors[r]
      <4>1. i - 1 \in 1 .. cursors[r]
        BY <1>3, <3>1, <3>3
      <4>2. QED
        BY <1>3, <3>1, <3>2, <4>1 DEF CacheInv, CursorsAreProtected
    <3>4. CASE ~ (i - 1 <= cursors[r])
      <4>1. i - 1 \in Unpublished(r)
        BY <1>3, <3>1, <3>4
      <4>2. QED
        BY <1>4, <3>1, <3>2, <4>1
    <3>5. QED
      BY <3>3, <3>4
  <2>6. QED
    BY <1>3, <2>1, <2>2, <2>3, <2>4, <2>5
<1>7. ASSUME NEW i \in 1 .. last, NEW j \in 1 .. last, P(i) = P(j) PROVE i = j
  BY <1>3, <1>7, SamePrefix
\* Before, no block was below a new one.
<1>8. ASSUME NEW i \in NewBlocks(r), NEW d \in IndexedBlocks PROVE ParentOf(d) # P(i)
  BY <1>6, TreeFacts
<1>9. ASSUME NEW i \in NewBlocks(r)
      PROVE  NewChildren(P(i)) = IF i = last THEN {} ELSE {P(i + 1)}
  <2>1. ASSUME NEW d \in NewChildren(P(i)) PROVE i # last /\ d = P(i + 1)
    <3>1. d \in new /\ ParentOf(d) = P(i)
      BY <1>1, <1>8, <2>1
    <3>2. PICK j \in NewBlocks(r) : d = P(j)
      BY <3>1
    <3>3. j # 1 /\ P(j - 1) = P(i) /\ j \in 1 .. last /\ j - 1 \in 1 .. last
      BY <1>6, <3>1, <3>2
    <3>4. j - 1 = i
      BY <1>6, <1>7, <3>3
    <3>5. QED
      BY <1>3, <3>2, <3>3, <3>4
  <2>2. ASSUME i # last PROVE P(i + 1) \in NewChildren(P(i))
    <3>1. i + 1 \in Unpublished(r) /\ i + 1 \in 1 .. last /\ i + 1 # 1 /\ i + 1 - 1 = i
      BY <1>3, <1>6, <2>2
    <3>2. ParentOf(P(i + 1)) = P(i)
      <4> DEFINE j == i + 1
      <4>1. j \in 1 .. last /\ j # 1 /\ j - 1 = i
        <5>1. i \in Int /\ last \in Int
          BY <1>3, <1>6
        <5>2. QED
          BY <3>1, <5>1
      <4> HIDE DEF j
      <4>2. ParentOf(P(j)) = P(i)
        BY <1>5, <4>1
      <4>3. QED
        BY <4>2 DEF j
    <3>3. P(i + 1) \notin IndexedBlocks
      BY <1>8, <3>2
    <3>4. i + 1 \in NewBlocks(r)
      BY <1>4, <3>1, <3>3
    <3>5. QED
      BY <1>1, <3>2, <3>4
  <2>3. QED
    BY <2>1, <2>2
\* At most one new block is below an old one.
<1>10. ASSUME NEW b \in IndexedBlocks
      PROVE  /\ b # Root /\ b \notin new
             /\ IsBranchPoint(r, b) =>
                  \E d : d \notin Children(b) /\ NewChildren(b) = Children(b) \cup {d}
             /\ ~ IsBranchPoint(r, b) => NewChildren(b) = Children(b)
  <2>1. b # Root /\ b \notin new
    BY <1>6, <1>10, TreeFacts
  <2>2. ASSUME NEW i \in NewBlocks(r), ParentOf(P(i)) = b PROVE IsBranchPoint(r, b)
    BY <1>6, <1>10, <2>2, ParentFacts DEF IsBranchPoint
  <2>3. ASSUME IsBranchPoint(r, b)
        PROVE  \E d : d \notin Children(b) /\ NewChildren(b) = Children(b) \cup {d}
    <3>1. PICK i \in NewBlocks(r) : b = Parent(r, i)
      BY <2>3 DEF IsBranchPoint
    <3>2. ParentOf(P(i)) = b /\ i # 1 /\ b = P(i - 1) /\ i - 1 \in 1 .. last
      BY <1>6, <2>1, <3>1, ParentFacts
    <3>3. ASSUME NEW d \in new, ParentOf(d) = b PROVE d = P(i)
      <4>1. PICK j \in NewBlocks(r) : d = P(j)
        BY <3>3
      <4>2. j # 1 /\ P(j - 1) = b /\ j - 1 \in 1 .. last
        BY <1>6, <2>1, <3>3, <4>1
      <4>3. j - 1 = i - 1
        BY <1>7, <3>2, <4>2
      <4>4. i \in Int /\ j \in Int
        BY <1>3, <1>6
      <4>5. QED
        BY <4>1, <4>3, <4>4
    <3>4. P(i) \in new /\ P(i) \notin IndexedBlocks
      BY <1>6
    <3>5. NewChildren(b) = Children(b) \cup {P(i)} /\ P(i) \notin Children(b)
      BY <1>1, <3>2, <3>3, <3>4 DEF Children
    <3>6. QED
      BY <3>5
  <2>4. ASSUME ~ IsBranchPoint(r, b) PROVE NewChildren(b) = Children(b)
    <3>1. \A d \in new : ParentOf(d) # b
      BY <2>2, <2>4
    <3>2. QED
      BY <1>1, <3>1 DEF Children
  <2>5. QED
    BY <2>1, <2>3, <2>4
<1> HIDE DEF NewChildren
<1>11. ASSUME NEW b \in IndexedBlocks'
       PROVE  /\ ParentOf(b) \in IndexedBlocks' \cup {Root}
              /\ child_counts'[b] = Cardinality(NewChildren(b)) /\ child_counts'[b] \in Nat
              /\ b \in leaf_blocks' <=> child_counts'[b] = 0
  <2>1. CASE b \in IndexedBlocks
    <3>1. ParentOf(b) \in IndexedBlocks' \cup {Root}
      BY <1>1, <2>1, TreeFacts
    <3>2. b \notin new
      BY <1>10, <2>1
    <3>3. child_counts'[b] =
            IF IsBranchPoint(r, b) THEN child_counts[b] + 1 ELSE child_counts[b]
      <4> HIDE DEF new, P
      <4>1. QED
        BY <1>2, <2>1, <3>2
    <3>4. /\ child_counts[b] = Cardinality(Children(b)) /\ child_counts[b] \in Nat
          /\ IsFiniteSet(Children(b))
          /\ b \in leaf_blocks <=> child_counts[b] = 0
      BY <2>1, TreeFacts
    <3>5. Cardinality(NewChildren(b)) =
            IF IsBranchPoint(r, b) THEN child_counts[b] + 1 ELSE child_counts[b]
      <4>1. CASE IsBranchPoint(r, b)
        <5>1. PICK d : d \notin Children(b) /\ NewChildren(b) = Children(b) \cup {d}
          BY <1>10, <2>1, <4>1
        <5>2. Cardinality(Children(b) \cup {d}) = Cardinality(Children(b)) + 1
          BY <3>4, <5>1, FS_AddElement
        <5>3. QED
          BY <3>4, <4>1, <5>1, <5>2
      <4>2. CASE ~ IsBranchPoint(r, b)
        BY <1>10, <2>1, <3>4, <4>2
      <4>3. QED
        BY <4>1, <4>2
    <3>6. b \in leaf_blocks' <=> b \in leaf_blocks /\ ~ IsBranchPoint(r, b)
      BY <1>2, <3>2
    <3>7. QED
      BY <3>1, <3>3, <3>4, <3>5, <3>6
  <2>2. CASE b \in new
    <3>1. PICK i \in NewBlocks(r) : b = P(i)
      BY <2>2
    <3>2. ParentOf(b) \in IndexedBlocks' \cup {Root}
      BY <1>1, <1>6, <3>1
    <3>3. b = P(last) <=> i = last
      <4>1. last \in 1 .. last /\ i \in 1 .. last
        BY <1>3, <1>6
      <4>2. QED
        BY <1>7, <3>1, <4>1
    <3>4. child_counts'[b] = IF i = last THEN 0 ELSE 1
      <4> HIDE DEF new, P
      <4>1. QED
        BY <1>2, <2>2, <3>3
    <3>5. Cardinality(NewChildren(b)) = IF i = last THEN 0 ELSE 1
      BY <1>9, <3>1, FS_EmptySet, FS_Singleton
    <3>6. b \notin IndexedBlocks
      BY <1>6, <3>1
    <3>7. b \in leaf_blocks' <=> i = last
      <4>1. b \notin leaf_blocks
        BY <3>6, TreeFacts
      <4>2. b \in leaf_blocks' <=> \E j \in NewBlocks(r) : j = last /\ b = P(j)
        BY <1>2, <4>1
      <4>3. QED
        BY <3>1, <3>3, <4>2
    <3>8. QED
      BY <3>2, <3>4, <3>5, <3>7
  <2>3. QED
    BY <1>1, <1>11, <2>1, <2>2
<1>12. leaf_blocks' \subseteq IndexedBlocks'
  BY <1>1, <1>2, TreeFacts
<1>13. child_counts' \in [IndexedBlocks' -> Nat]
  <2>1. child_counts' = [b \in IndexedBlocks' |-> child_counts'[b]]
    <3> HIDE DEF new, P
    <3>1. QED
      BY <1>1, <1>2
  <2>2. QED
    BY <1>11, <2>1
<1>14. QED
  BY <1>11, <1>12, <1>13 DEF IndexIsATree, NewChildren

\* Who has a page after the publication: the index gets the pages of the new blocks, and the
\* request changes its own pages of the others for those that are indexed.
LEMMA PublishedPages ==
  ASSUME CacheInv, NEW r \in Requests, PublishCompletedPrefix(r)
  PROVE  /\ \A p \in Pages : PageStep(r, p)
         /\ page_states' \in [Pages -> Int] /\ free_page_ids' \subseteq Pages
         /\ FreeInv'
         /\ \A p : IsIndexed(p)' <=>
              IsIndexed(p) \/ \E l \in Layers : \E i \in NewBlocks(r) : block_tables[r][l][i] = p
<1> DEFINE Own(l, i) == block_tables[r][l][i]
           Shared(l, i) == block_pages[PrefixAt[r][i]][l]
           Published == {Own(e[1], e[2]) : e \in Layers \X NewBlocks(r)}
           Adopted == {Shared(e[1], e[2]) : e \in Replacements(r)}
           Replaced == {Own(e[1], e[2]) : e \in Replacements(r)}
<1>1. /\ Exchange(Published \cup Adopted, Replaced)
      /\ active' = active
  BY DEF PublishCompletedPrefix
<1>2. /\ r \in active
      /\ \A i \in NewBlocks(r) \cup DuplicateBlocks(r) : \A l \in Layers :
           /\ i \in DOMAIN block_tables[r][l]
           /\ ~ IsIndexed(Own(l, i))
  <2>1. /\ r \in active /\ cursors[r] \in Nat /\ LastBlock(r) \in Nat
        /\ Unpublished(r) = cursors[r] + 1 .. LastBlock(r)
        /\ \A l \in Layers : \A i \in 1 .. LastBlock(r) : i \in DOMAIN block_tables[r][l]
        /\ \A i \in Unpublished(r) : \A l \in Layers : ~ IsIndexed(Own(l, i))
    BY UnpublishedFacts
  <2>2. NewBlocks(r) \subseteq Unpublished(r) /\ DuplicateBlocks(r) \subseteq Unpublished(r)
    BY DuplicateFacts
  <2>3. Unpublished(r) \subseteq 1 .. LastBlock(r)
    BY <2>1
  <2>4. QED
    BY <2>1, <2>2, <2>3
<1>3. /\ NewBlocks(r) \cap DuplicateBlocks(r) = {}
      /\ \A i \in DuplicateBlocks(r) : \A l \in Layers :
           r \notin Readers(Shared(l, i)) /\ PrefixAt[r][i] \in IndexedBlocks
      /\ Replacements(r) = Layers \X DuplicateBlocks(r)
  <2>1. /\ NewBlocks(r) \subseteq Unpublished(r)
        /\ \A i \in Unpublished(r) : i \in NewBlocks(r) <=> i \notin DuplicateBlocks(r)
        /\ \A i \in DuplicateBlocks(r) : \A l \in Layers : r \notin Readers(Shared(l, i))
        /\ \A i \in DuplicateBlocks(r) : PrefixAt[r][i] \in IndexedBlocks
        /\ Replacements(r) = Layers \X DuplicateBlocks(r)
    BY DuplicateFacts
  <2>2. QED
    BY <2>1
<1>4. \A p : /\ p \in Published <=> \E l \in Layers : \E i \in NewBlocks(r) : Own(l, i) = p
             /\ p \in Adopted <=> \E l \in Layers : \E i \in DuplicateBlocks(r) : Shared(l, i) = p
             /\ p \in Replaced <=> \E l \in Layers : \E i \in DuplicateBlocks(r) : Own(l, i) = p
  <2> HIDE DEF Own, Shared
  <2> TAKE p
  <2>1. ASSUME NEW D
        PROVE  /\ (\E e \in Layers \X D : p = Own(e[1], e[2])) <=>
                    \E l \in Layers : \E i \in D : Own(l, i) = p
               /\ (\E e \in Layers \X D : p = Shared(e[1], e[2])) <=>
                    \E l \in Layers : \E i \in D : Shared(l, i) = p
    <3>1. \A l \in Layers : \A i \in D : <<l, i>> \in Layers \X D
      OBVIOUS
    <3>2. \A e \in Layers \X D : e[1] \in Layers /\ e[2] \in D
      OBVIOUS
    <3>3. \A l, i : <<l, i>>[1] = l /\ <<l, i>>[2] = i
      OBVIOUS
    <3>4. QED
      BY <3>1, <3>2, <3>3, Zenon
  <2>2. p \in Published <=> \E e \in Layers \X NewBlocks(r) : p = Own(e[1], e[2])
    OBVIOUS
  <2>3. p \in Adopted <=> \E e \in Layers \X DuplicateBlocks(r) : p = Shared(e[1], e[2])
    BY <1>3
  <2>4. p \in Replaced <=> \E e \in Layers \X DuplicateBlocks(r) : p = Own(e[1], e[2])
    BY <1>3
  <2> HIDE DEF Published, Adopted, Replaced
  <2>5. QED
    BY <2>1, <2>2, <2>3, <2>4
<1>5. \A l \in Layers : \A i \in DuplicateBlocks(r) :
        Shared(l, i) \in Pages /\ IsIndexed(Shared(l, i))
  BY <1>3, EntryFacts
<1>6. \A l \in Layers : \A i \in DOMAIN block_tables[r][l] :
        Own(l, i) \in Pages /\ r \in Readers(Own(l, i))
  BY <1>2, PlaceFacts
<1>7. ASSUME NEW l \in Layers, NEW i \in DOMAIN block_tables[r][l],
             NEW k \in Layers, NEW j \in DOMAIN block_tables[r][k], Own(l, i) = Own(k, j)
      PROVE  i = j
  BY <1>2, <1>7, SameHolder
<1>8. /\ IndexedBlocks' = IndexedBlocks \cup {PrefixAt[r][i] : i \in NewBlocks(r)}
      /\ \A b \in IndexedBlocks : block_pages'[b] = block_pages[b]
      /\ \A i \in NewBlocks(r) : \A l \in Layers : block_pages'[PrefixAt[r][i]][l] = Own(l, i)
  BY PublishedBlocks
<1>9. \A l \in Layers :
        /\ DOMAIN block_tables'[r][l] = DOMAIN block_tables[r][l]
        /\ \A i \in DOMAIN block_tables[r][l] :
             block_tables'[r][l][i] = IF i \in DuplicateBlocks(r) THEN Shared(l, i) ELSE Own(l, i)
  BY PublishedTables
<1>10. \A p : r \in Readers(p)' <=>
                \E l \in Layers : \E i \in DOMAIN block_tables[r][l] :
                  (IF i \in DuplicateBlocks(r) THEN Shared(l, i) ELSE Own(l, i)) = p
  <2>1. r \in active'
    BY <1>1, <1>2
  <2>2. \A p : r \in Readers(p)' <=> \E l \in Layers : \E i \in DOMAIN block_tables'[r][l] :
                                       block_tables'[r][l][i] = p
    BY <2>1, NextReaders
  <2> HIDE DEF Own, Shared
  <2>3. QED
    BY <1>9, <2>2
<1>11. \A p : r \in Readers(p) <=> \E l \in Layers : \E i \in DOMAIN block_tables[r][l] :
                                     Own(l, i) = p
  BY <1>2, ReaderFacts
<1>12. \A p : IsIndexed(p)' <=> IsIndexed(p) \/ p \in Published
  <2> TAKE p
  <2>1. IsIndexed(p)' <=> \E b \in IndexedBlocks', l \in Layers : block_pages'[b][l] = p
    BY DEF IsIndexed
  <2>2. IsIndexed(p) <=> \E b \in IndexedBlocks, l \in Layers : block_pages[b][l] = p
    BY DEF IsIndexed
  <2> HIDE DEF Own, Published
  <2>3. QED
    BY <1>4, <1>8, <2>1, <2>2
<1> HIDE DEF Own, Shared, Published, Adopted, Replaced
<1>13. ASSUME NEW p \in Published
       PROVE  /\ p \in Pages /\ r \in Readers(p) /\ r \in Readers(p)'
              /\ ~ IsIndexed(p) /\ IsIndexed(p)' /\ p \notin Adopted /\ p \notin Replaced
  <2>1. PICK l \in Layers : \E i \in NewBlocks(r) : Own(l, i) = p
    BY <1>4
  <2>2. PICK i \in NewBlocks(r) : Own(l, i) = p
    BY <2>1
  <2>3. i \in DOMAIN block_tables[r][l] /\ ~ IsIndexed(p) /\ i \notin DuplicateBlocks(r)
    BY <1>2, <1>3, <2>2
  <2>4. p \in Pages /\ r \in Readers(p) /\ r \in Readers(p)'
    BY <1>6, <1>10, <2>2, <2>3
  <2>5. IsIndexed(p)' /\ p \notin Adopted
    BY <1>4, <1>5, <1>12, <2>3
  <2>6. p \notin Replaced
    <3>1. \A k \in Layers : \A j \in DuplicateBlocks(r) : Own(k, j) # p
      BY <1>2, <1>7, <2>2, <2>3
    <3>2. QED
      BY <1>4, <3>1
  <2>7. QED
    BY <2>3, <2>4, <2>5, <2>6
<1>14. ASSUME NEW p \in Adopted
       PROVE  /\ p \in Pages /\ r \notin Readers(p) /\ r \in Readers(p)'
              /\ IsIndexed(p) /\ IsIndexed(p)' /\ p \notin Replaced
  <2>1. PICK l \in Layers : \E i \in DuplicateBlocks(r) : Shared(l, i) = p
    BY <1>4
  <2>2. PICK i \in DuplicateBlocks(r) : Shared(l, i) = p
    BY <2>1
  <2>3. p \in Pages /\ r \notin Readers(p) /\ IsIndexed(p) /\ IsIndexed(p)'
    BY <1>3, <1>5, <1>12, <2>2
  <2>4. r \in Readers(p)'
    BY <1>2, <1>10, <2>2
  <2>5. p \notin Replaced
    BY <1>2, <1>4, <2>3
  <2>6. QED
    BY <2>3, <2>4, <2>5
<1>15. ASSUME NEW p \in Replaced
       PROVE  /\ p \in Pages /\ r \in Readers(p) /\ r \notin Readers(p)'
              /\ ~ IsIndexed(p) /\ ~ IsIndexed(p)' /\ p \notin Published /\ p \notin Adopted
  <2>1. PICK l \in Layers : \E i \in DuplicateBlocks(r) : Own(l, i) = p
    BY <1>4
  <2>2. PICK i \in DuplicateBlocks(r) : Own(l, i) = p
    BY <2>1
  <2>3. p \notin Published /\ p \notin Adopted
    BY <1>13, <1>14
  <2>4. i \in DOMAIN block_tables[r][l] /\ ~ IsIndexed(p) /\ ~ IsIndexed(p)'
    BY <1>2, <1>12, <2>2, <2>3
  <2>5. p \in Pages /\ r \in Readers(p)
    BY <1>6, <2>2, <2>4
  <2>6. ASSUME NEW k \in Layers, NEW j \in DOMAIN block_tables[r][k]
        PROVE  (IF j \in DuplicateBlocks(r) THEN Shared(k, j) ELSE Own(k, j)) # p
    <3>1. CASE j \in DuplicateBlocks(r)
      BY <1>5, <2>4, <3>1
    <3>2. CASE j \notin DuplicateBlocks(r)
      BY <1>7, <2>2, <2>4, <3>2
    <3>3. QED
      BY <3>1, <3>2
  <2>7. r \notin Readers(p)'
    BY <1>10, <2>6
  <2>8. QED
    BY <2>3, <2>4, <2>5, <2>7
<1>16. ASSUME NEW p, p \notin Published, p \notin Adopted, p \notin Replaced
       PROVE  (r \in Readers(p)' <=> r \in Readers(p)) /\ (IsIndexed(p)' <=> IsIndexed(p))
  <2>1. \A l \in Layers : \A i \in DuplicateBlocks(r) : Shared(l, i) # p /\ Own(l, i) # p
    BY <1>4, <1>16
  <2>2. r \in Readers(p)' <=> r \in Readers(p)
    BY <1>2, <1>10, <1>11, <2>1
  <2>3. QED
    BY <1>12, <1>16, <2>2
<1>17. /\ \A p \in Pages :
            page_states'[p] = IF p \in Published \cup Adopted THEN Retained(page_states[p])
                              ELSE IF p \in Replaced THEN Released(page_states[p])
                              ELSE page_states[p]
       /\ page_states' \in [Pages -> Int]
       /\ free_page_ids' \subseteq Pages
       /\ FreeInv'
  <2>1. (Published \cup Adopted) \cap Replaced = {} /\ Replaced \subseteq Pages
    BY <1>13, <1>14, <1>15
  <2>2. QED
    BY <1>1, <2>1, ExchangeFacts
<1>18. ASSUME NEW p \in Pages PROVE PageStep(r, p)
  <2>1. CASE p \in Published
    BY <1>13, <1>17, <2>1 DEF PageStep
  <2>2. CASE p \in Adopted
    BY <1>14, <1>17, <2>2 DEF PageStep
  <2>3. CASE p \in Replaced
    BY <1>15, <1>17, <2>3 DEF PageStep
  <2>4. CASE p \notin Published /\ p \notin Adopted /\ p \notin Replaced
    BY <1>16, <1>17, <2>4 DEF PageStep
  <2>5. QED
    BY <2>1, <2>2, <2>3, <2>4
<1>19. QED
  BY <1>4, <1>12, <1>17, <1>18 DEF Own

\* A publication adopts the blocks that others published and indexes the rest.
LEMMA PublishCompletedPrefixInv ==
  ASSUME CacheInv, NEW r \in Requests, PublishCompletedPrefix(r)
  PROVE  CacheInv'
<1>1. /\ append = NoAppend /\ append' = append /\ contents' = contents /\ active' = active
      /\ cached_token_count' = cached_token_count /\ committed' = committed
  BY DEF PublishCompletedPrefix, IsBetweenForwards
<1>2. /\ r \in active /\ cursors[r] \in Nat /\ LastBlock(r) \in Nat /\ cursors[r] <= LastBlock(r)
      /\ Unpublished(r) = cursors[r] + 1 .. LastBlock(r)
      /\ \A l \in Layers : \A i \in 1 .. LastBlock(r) : i \in DOMAIN block_tables[r][l]
      /\ \A i \in Unpublished(r) : \A l \in Layers :
           \A q \in Readers(block_tables[r][l][i]) : q = r
  BY UnpublishedFacts
<1>3. /\ NewBlocks(r) \subseteq Unpublished(r) /\ DuplicateBlocks(r) \subseteq Unpublished(r)
      /\ \A i \in Unpublished(r) : i \in NewBlocks(r) <=> i \notin DuplicateBlocks(r)
      /\ \A i \in DuplicateBlocks(r) : PrefixAt[r][i] \in IndexedBlocks
  BY DuplicateFacts
<1>4. /\ OnlyRequest(r)
      /\ block_tables' \in [Requests -> [Layers -> Seq(Pages)]]
      /\ cursors' \in [Requests -> Nat] /\ cursors'[r] = LastBlock(r)
      /\ \A l \in Layers :
           /\ DOMAIN block_tables'[r][l] = DOMAIN block_tables[r][l]
           /\ Len(block_tables'[r][l]) = Len(block_tables[r][l])
           /\ \A i \in DOMAIN block_tables[r][l] :
                block_tables'[r][l][i] = IF i \in DuplicateBlocks(r)
                                         THEN block_pages[PrefixAt[r][i]][l]
                                         ELSE block_tables[r][l][i]
  BY PublishedTables
<1>5. /\ IndexedBlocks' = IndexedBlocks \cup {PrefixAt[r][i] : i \in NewBlocks(r)}
      /\ \A b \in IndexedBlocks : block_pages'[b] = block_pages[b]
      /\ \A i \in NewBlocks(r) : \A l \in Layers :
           block_pages'[PrefixAt[r][i]][l] = block_tables[r][l][i]
      /\ block_pages' \in [IndexedBlocks' -> [Layers -> Pages]]
      /\ IndexedBlocks' \subseteq Blocks /\ IsFiniteSet(IndexedBlocks')
  BY PublishedBlocks
<1>6. IndexIsATree' /\ child_counts' \in [IndexedBlocks' -> Nat]
  BY PublishedTree
<1>7. /\ \A p \in Pages : PageStep(r, p)
      /\ page_states' \in [Pages -> Int] /\ free_page_ids' \subseteq Pages
      /\ FreeInv'
      /\ \A p : IsIndexed(p)' <=>
           IsIndexed(p) \/ \E l \in Layers : \E i \in NewBlocks(r) : block_tables[r][l][i] = p
  BY PublishedPages
<1>8. TypeInv'
  BY <1>1, <1>4, <1>5, <1>6, <1>7 DEF CacheInv, TypeInv
<1>9. \A p \in Pages : PageInv(p)'
  BY <1>4, <1>7, PageStepInv DEF CacheInv
<1>10. IndexInv'
  BY <1>5, <1>6 DEF IndexInv
<1>11. AppendInv' /\ AdmissionInv'
  BY <1>1 DEF CacheInv, AppendInv, AdmissionInv
<1>12. ASSUME NEW q \in active', q # r PROVE q \in active /\ TableInv(q)'
  <2>1. \A p : q \in Readers(p) /\ IsIndexed(p)' => IsIndexed(p)
    BY <1>2, <1>3, <1>7, <1>12
  <2>2. QED
    BY <1>4, <1>12, <2>1, OtherTables
<1>13. TableInv(r)'
  <2>1. TableInv(r) /\ cached_token_count[r] \in [Layers -> Nat] /\ committed[r] \in Nat
    BY <1>2 DEF CacheInv, TypeInv
  <2>2. ASSUME NEW l \in Layers, NEW i \in DOMAIN block_tables'[r][l], i > cursors'[r],
               NEW p, p = block_tables'[r][l][i]
        PROVE  ~ IsIndexed(p)'
    <3>1. /\ i \in DOMAIN block_tables[r][l] /\ i > LastBlock(r)
          /\ i \in DOMAIN PrefixAt[r]
      BY <1>2, <1>4, <2>2, PlaceFacts
    <3>2. i \in Nat
      BY <3>1, ConstantFacts
    <3>3. i > cursors[r] /\ i \notin Unpublished(r)
      BY <1>2, <3>1, <3>2
    <3>4. p = block_tables[r][l][i]
      BY <1>3, <1>4, <2>2, <3>1, <3>3
    <3>5. ~ IsIndexed(p)
      BY <2>1, <3>1, <3>3, <3>4 DEF TableInv
    <3>6. ASSUME NEW k \in Layers, NEW j \in NewBlocks(r), block_tables[r][k][j] = p PROVE FALSE
      <4>1. j \in Unpublished(r) /\ j \in 1 .. LastBlock(r)
        BY <1>2, <1>3
      <4>2. j \in DOMAIN block_tables[r][k]
        BY <1>2, <4>1
      <4>3. i = j
        BY <1>2, <3>1, <3>4, <3>6, <4>2, SameHolder
      <4>4. QED
        BY <3>3, <4>1, <4>3
    <3>7. QED
      BY <1>7, <3>5, <3>6
  <2>3. ASSUME NEW l \in Layers, NEW i \in DOMAIN block_tables'[r][l], i > cursors'[r]
        PROVE  ~ \E b \in IndexedBlocks', m \in Layers : block_pages'[b][m] = block_tables'[r][l][i]
    BY <2>2, <2>3 DEF IsIndexed
  <2>4. \A l \in Layers : /\ Len(block_tables'[r][l]) = PageCount(cached_token_count'[r][l])
                          /\ committed'[r] <= cached_token_count'[r][l]
                          /\ cached_token_count'[r][l] <= MaxCachedTokenCount[r]
    BY <1>1, <1>4, <2>1 DEF TableInv
  <2>5. cursors'[r] <= BlockCount(committed'[r])
    BY <1>1, <1>2, <1>4 DEF LastBlock
  <2>6. QED
    BY <2>3, <2>4, <2>5 DEF TableInv, IsIndexed
<1>14. CursorsAreProtected'
  <2>1. ASSUME NEW q \in active', q # r, NEW i \in 1 .. cursors'[q]
        PROVE  /\ PrefixAt[q][i] \in IndexedBlocks'
               /\ \A l \in Layers : block_tables'[q][l][i] = block_pages'[PrefixAt[q][i]][l]
    <3>1. q \in active /\ block_tables'[q] = block_tables[q] /\ cursors'[q] = cursors[q]
      BY <1>4, <1>12, <2>1 DEF OnlyRequest
    <3>2. PrefixAt[q][i] \in IndexedBlocks
          /\ \A l \in Layers : block_tables[q][l][i] = block_pages[PrefixAt[q][i]][l]
      BY <2>1, <3>1 DEF CacheInv, CursorsAreProtected
    <3>3. QED
      BY <1>5, <3>1, <3>2
  <2>2. ASSUME NEW i \in 1 .. cursors'[r]
        PROVE  /\ PrefixAt[r][i] \in IndexedBlocks'
               /\ \A l \in Layers : block_tables'[r][l][i] = block_pages'[PrefixAt[r][i]][l]
    <3>1. i \in 1 .. LastBlock(r) /\ \A l \in Layers : i \in DOMAIN block_tables[r][l]
      BY <1>2, <1>4, <2>2
    <3>2. CASE i \in NewBlocks(r)
      <4>1. i \notin DuplicateBlocks(r)
        BY <1>3, <3>2
      <4>2. QED
        BY <1>4, <1>5, <3>1, <3>2, <4>1
    <3>3. CASE i \in DuplicateBlocks(r)
      BY <1>3, <1>4, <1>5, <3>1, <3>3
    <3>4. CASE i \notin Unpublished(r)
      <4>1. i \in 1 .. cursors[r] /\ i \notin DuplicateBlocks(r)
        BY <1>2, <1>3, <3>1, <3>4
      <4>2. PrefixAt[r][i] \in IndexedBlocks
            /\ \A l \in Layers : block_tables[r][l][i] = block_pages[PrefixAt[r][i]][l]
        BY <1>2, <4>1 DEF CacheInv, CursorsAreProtected
      <4>3. QED
        BY <1>4, <1>5, <3>1, <4>1, <4>2
    <3>5. QED
      BY <1>3, <3>2, <3>3, <3>4
  <2>3. QED
    BY <2>1, <2>2 DEF CursorsAreProtected
<1>15. CachedValuesAreRight'
  <2>1. ASSUME NEW q \in active', NEW l \in Layers, NEW i \in DOMAIN block_tables'[q][l]
        PROVE  contents[block_tables'[q][l][i]] = <<l, PrefixAt[q][i]>>
    <3>1. CASE q # r
      <4>1. q \in active /\ block_tables'[q] = block_tables[q]
        BY <1>4, <1>12, <3>1 DEF OnlyRequest
      <4>2. QED
        BY <2>1, <4>1, PlaceFacts
    <3>2. CASE q = r
      <4>1. i \in DOMAIN block_tables[r][l]
        BY <1>4, <2>1, <3>2
      <4>2. CASE i \in DuplicateBlocks(r)
        <5>1. contents[block_pages[PrefixAt[r][i]][l]] = <<l, PrefixAt[r][i]>>
          BY <1>3, <4>2, EntryFacts
        <5>2. QED
          BY <1>4, <3>2, <4>1, <4>2, <5>1
      <4>3. CASE i \notin DuplicateBlocks(r)
        <5>1. contents[block_tables[r][l][i]] = <<l, PrefixAt[r][i]>>
          BY <1>2, <4>1, PlaceFacts
        <5>2. QED
          BY <1>4, <3>2, <4>1, <4>3, <5>1
      <4>4. QED
        BY <4>2, <4>3
    <3>3. QED
      BY <3>1, <3>2
  <2>2. ASSUME NEW b \in IndexedBlocks', NEW l \in Layers
        PROVE  contents[block_pages'[b][l]] = <<l, b>>
    <3>1. CASE b \in IndexedBlocks
      BY <1>5, <3>1, EntryFacts
    <3>2. CASE b \notin IndexedBlocks
      <4>1. PICK i \in NewBlocks(r) : b = PrefixAt[r][i]
        BY <1>5, <3>2
      <4>2. i \in DOMAIN block_tables[r][l]
        BY <1>2, <1>3
      <4>3. contents[block_tables[r][l][i]] = <<l, PrefixAt[r][i]>>
        BY <1>2, <4>2, PlaceFacts
      <4>4. QED
        BY <1>5, <4>1, <4>3
    <3>3. QED
      BY <3>1, <3>2
  <2>3. QED
    BY <1>1, <2>1, <2>2 DEF CachedValuesAreRight
<1>16. QED
  BY <1>7, <1>8, <1>9, <1>10, <1>11, <1>12, <1>13, <1>14, <1>15 DEF CacheInv

-----------------------------------------------------------------------------
(* The invariant *)

\* Every step keeps the invariant.
LEMMA NextInv == CacheInv /\ [CacheNext]_cacheVars => CacheInv'
<1> SUFFICES ASSUME CacheInv, [CacheNext]_cacheVars PROVE CacheInv'
  OBVIOUS
<1>1. CASE EvictLeaf
  BY <1>1, EvictLeafInv
<1>2. CASE WritePage
  BY <1>2, WritePageInv
<1>3. ASSUME NEW r \in Requests, StartRequest(r) PROVE CacheInv'
  BY <1>3, StartRequestInv
<1>4. ASSUME NEW r \in Requests, NEW l \in Layers, NEW n \in 1 .. MaxCachedTokenCount[r],
             BeginAppend(r, l, n)
      PROVE  CacheInv'
  BY <1>4, BeginAppendInv
<1>5. ASSUME NEW r \in Requests, NEW n \in 1 .. MaxCachedTokenCount[r], Truncate(r, n)
      PROVE  CacheInv'
  BY <1>5, TruncateInv
<1>6. ASSUME NEW r \in Requests, PublishCompletedPrefix(r) PROVE CacheInv'
  BY <1>6, PublishCompletedPrefixInv
<1>7. ASSUME NEW r \in Requests, RemoveRequest(r) PROVE CacheInv'
  BY <1>7, RemoveRequestInv
<1>8. CASE UNCHANGED cacheVars
  <2>1. /\ UNCHANGED <<poolVars, requestVars, indexVars>>
        /\ append' = append
    BY <1>8 DEF cacheVars
  <2>2. AppendInv'
    BY <2>1 DEF CacheInv, AppendInv, requestVars
  <2>3. active' = active
    BY <2>1 DEF requestVars
  <2>4. QED
    BY <2>1, <2>2, <2>3, CacheUnchanged DEF CacheInv
<1>9. QED
  BY <1>1, <1>2, <1>3, <1>4, <1>5, <1>6, <1>7, <1>8 DEF CacheNext

\* Every call of the executor, and every iteration of an append, keeps the invariant.
THEOREM CacheInvariant == CacheSpec => []CacheInv
<1>1. CacheInit => CacheInv
  BY InitInv
<1>2. CacheInv /\ [CacheNext]_cacheVars => CacheInv'
  BY NextInv
<1>3. QED
  BY <1>1, <1>2, PTL DEF CacheSpec

-----------------------------------------------------------------------------
(* What it says *)

\* The pages of a single reservation.
LEMMA RowSize ==
  ASSUME NEW r, NEW n \in Nat
  PROVE  IsFiniteSet({r} \X (1 .. n)) /\ Cardinality({r} \X (1 .. n)) = n
<1>1. IsFiniteSet({r}) /\ Cardinality({r}) = 1
  BY FS_Singleton
<1>2. 1 \in Int /\ n \in Int
  OBVIOUS
<1>3. IsFiniteSet(1 .. n) /\ Cardinality(1 .. n) = n
  BY <1>2, FS_Interval
<1>4. Cardinality({r} \X (1 .. n)) = Cardinality({r}) * Cardinality(1 .. n)
  BY <1>1, <1>3, FS_Product
<1>5. QED
  BY <1>1, <1>3, <1>4, FS_Product

\* A request reserves as many pages per layer as the pool has at least.
LEMMA ReservationsFit ==
  ASSUME CacheInv
  PROVE  /\ PageCapacity \in Nat /\ LayerCount * PageCapacity \in Nat
         /\ Cardinality(Pages) \in Nat /\ LayerCount * PageCapacity <= Cardinality(Pages)
         /\ PageCapacity <= Cardinality(Pages)
         /\ \A r \in active : ReservedPageCount[r] <= PageCapacity
<1> DEFINE n == Cardinality(Pages)
           c == PageCapacity
           d == LayerCount
<1>1. n \in Nat /\ d \in Nat \ {0}
  BY PagedKvCacheAssumption, FS_CardinalityType
<1>2. c \in Nat /\ n % d \in 0 .. d - 1 /\ n = c * d + (n % d)
  <2> HIDE DEF n
  <2>1. n \div d \in Nat /\ n % d \in 0 .. d - 1 /\ n = (n \div d) * d + (n % d)
    BY <1>1, DivFacts
  <2>2. QED
    BY <2>1 DEF PageCapacity, n
<1>3. c <= n /\ d * c \in Nat /\ d * c <= n
  <2> HIDE DEF n, c, d
  <2>1. 1 * c <= d * c
    BY <1>1, <1>2, ProductGrows
  <2>2. d * c = c * d /\ c * d \in Nat /\ 1 * c = c
    BY <1>1, <1>2
  <2>3. QED
    BY <1>1, <1>2, <2>1, <2>2
<1>4. ASSUME NEW r \in active PROVE ReservedPageCount[r] <= PageCapacity
  <2>1. active \in SUBSET Requests /\ {r} \in SUBSET active /\ r \in Requests
    BY DEF CacheInv, TypeInv
  <2>2. ReservedPageCount[r] \in Nat
    BY <2>1, ConstantFacts
  <2>3. Total(ReservedPageCount, {r}) = ReservedPageCount[r]
    <3>1. Total(ReservedPageCount, {r}) = Cardinality({r} \X (1 .. ReservedPageCount[r]))
      BY DEF Total
    <3>2. QED
      BY <2>2, <3>1, RowSize
  <2>4. /\ Total(ReservedPageCount, {r}) <= Total(ReservedPageCount, active)
        /\ Total(ReservedPageCount, active) \in Nat
    BY <2>1, ReservedFacts
  <2>5. Total(ReservedPageCount, active) <= PageCapacity
    BY DEF CacheInv, AdmissionInv
  <2> HIDE DEF c
  <2>6. QED
    BY <1>2, <2>2, <2>3, <2>4, <2>5 DEF c
<1>5. QED
  BY <1>1, <1>2, <1>3, <1>4

\* The types follow: the state of a page counts at most all requests.
LEMMA TypesAreCorrect == CacheInv => CacheTypeOK
<1> SUFFICES ASSUME CacheInv PROVE CacheTypeOK
  OBVIOUS
<1>1. page_states \in [Pages -> Unallocated .. Cardinality(Requests)]
  <2>1. Cardinality(Requests) \in Nat /\ IsFiniteSet(Requests)
    BY PagedKvCacheAssumption, FS_CardinalityType
  <2>2. ASSUME NEW p \in Pages PROVE page_states[p] \in Unallocated .. Cardinality(Requests)
    <3>1. Readers(p) \in SUBSET Requests
      BY ReaderFacts DEF CacheInv, TypeInv
    <3>2. Cardinality(Readers(p)) <= Cardinality(Requests) /\ Cardinality(Readers(p)) \in Nat
      BY <2>1, <3>1, FS_Subset, FS_CardinalityType
    <3>3. page_states[p] = IF IsIndexed(p) THEN Cardinality(Readers(p))
                           ELSE IF Readers(p) = {} THEN Unallocated ELSE PendingWrite
      BY DEF CacheInv, PageInv
    <3>4. QED
      BY <2>1, <3>2, <3>3 DEF Unallocated, PendingWrite
  <2>3. QED
    BY <2>2 DEF CacheInv, TypeInv
<1>2. IndexedBlocks \subseteq Prefixes
  <2>1. 1 \in Layers
    BY PagedKvCacheAssumption DEF Layers
  <2>2. QED
    BY <2>1, EntryFacts
<1>3. leaf_blocks \subseteq IndexedBlocks
  BY TreeFacts
<1>4. append \in {NoAppend} \cup
        [request : active, layer : Layers, left : 1 .. Cardinality(Pages) * PageTokenCount]
  <2>1. CASE append = NoAppend
    BY <2>1
  <2>2. CASE append # NoAppend
    <3> DEFINE r == append.request
               n == append.left
    <3>1. /\ r \in active /\ r \in Requests /\ n \in Nat \ {0} /\ Appended \in Nat
          /\ Appended + n <= MaxCachedTokenCount[r]
      BY <2>2, AppendFacts
    <3>2. append \in [request : active, layer : Layers, left : Nat \ {0}]
      BY <2>2 DEF CacheInv, AppendInv
    <3>3. MaxCachedTokenCount[r] \in Nat /\ ReservedPageCount[r] \in Nat
          /\ ReservedPageCount[r] = PageCount(MaxCachedTokenCount[r])
      BY <3>1, ConstantFacts
    <3>4. MaxCachedTokenCount[r] <= ReservedPageCount[r] * PageTokenCount
      BY <3>3, CountFacts
    <3>5. ReservedPageCount[r] <= Cardinality(Pages) /\ Cardinality(Pages) \in Nat
      BY <3>1, <3>3, ReservationsFit
    <3>6. PageTokenCount \in Nat
      BY PagedKvCacheAssumption
    <3> DEFINE a == ReservedPageCount[r] * PageTokenCount
               b == Cardinality(Pages) * PageTokenCount
    <3>7. a <= b /\ a \in Nat /\ b \in Nat
      BY <3>3, <3>5, <3>6, ProductGrows
    <3>8. n <= b
      <4> HIDE DEF b
      <4>1. MaxCachedTokenCount[r] <= a
        BY <3>4
      <4> HIDE DEF a, n
      <4>2. QED
        BY <3>1, <3>3, <3>7, <4>1
    <3>9. n \in 1 .. b
      <4> HIDE DEF a, b, n
      <4>1. QED
        BY <3>1, <3>7, <3>8
    <3> HIDE DEF a, b
    <3>10. append \in [request : active, layer : Layers, left : 1 .. b]
      BY <3>2, <3>9
    <3>11. QED
      BY <3>10 DEF b
  <2>3. QED
    BY <2>1, <2>2
<1>5. QED
  BY <1>1, <1>2, <1>3, <1>4 DEF CacheInv, TypeInv, CacheTypeOK

\* A page is counted right as soon as it is known who reads it.
LEMMA StatesMatchOwners == CacheInv => PageStatesMatchOwners
<1> SUFFICES ASSUME CacheInv PROVE PageStatesMatchOwners
  OBVIOUS
<1>1. ASSUME NEW p \in Pages
      PROVE  /\ p \in free_page_ids <=> page_states[p] = Unallocated
             /\ page_states[p] = Unallocated <=> Readers(p) = {} /\ IndexEntries(p) = {}
             /\ page_states[p] = PendingWrite <=>
                  Cardinality(Readers(p)) = 1 /\ IndexEntries(p) = {}
             /\ page_states[p] >= WrittenNotInUse <=> IndexEntries(p) # {}
             /\ page_states[p] >= WrittenNotInUse => page_states[p] = Cardinality(Readers(p))
             /\ Cardinality(IndexEntries(p)) <= 1
  <2>1. /\ page_states[p] = IF IsIndexed(p) THEN Cardinality(Readers(p))
                            ELSE IF Readers(p) = {} THEN Unallocated ELSE PendingWrite
        /\ ~ IsIndexed(p) => \A q, r \in Readers(p) : q = r
    BY DEF CacheInv, PageInv
  <2>2. IsFiniteSet(Readers(p)) /\ Cardinality(Readers(p)) \in Nat
    BY ReaderFacts, FS_CardinalityType DEF CacheInv, TypeInv
  <2>3. IsIndexed(p) <=> IndexEntries(p) # {}
    <3>1. ASSUME IsIndexed(p) PROVE IndexEntries(p) # {}
      <4>1. PICK b \in IndexedBlocks, l \in Layers : block_pages[b][l] = p
        BY <3>1 DEF IsIndexed
      <4>2. <<b, l>> \in IndexEntries(p)
        BY <4>1 DEF IndexEntries
      <4>3. QED
        BY <4>2
    <3>2. ASSUME NEW e \in IndexEntries(p) PROVE IsIndexed(p)
      BY DEF IndexEntries, IsIndexed
    <3>3. QED
      BY <3>1, <3>2
  <2>4. Cardinality(IndexEntries(p)) <= 1
    <3>1. CASE IndexEntries(p) = {}
      BY <3>1, FS_EmptySet
    <3>2. CASE IndexEntries(p) # {}
      <4>1. PICK e : e \in IndexEntries(p)
        BY <3>2
      <4>2. ASSUME NEW f \in IndexEntries(p) PROVE f = e
        <5>1. /\ e \in IndexedBlocks \X Layers /\ block_pages[e[1]][e[2]] = p
              /\ f \in IndexedBlocks \X Layers /\ block_pages[f[1]][f[2]] = p
          BY <4>1 DEF IndexEntries
        <5>2. e[1] = f[1] /\ e[2] = f[2]
          BY <5>1, EntryFacts
        <5>3. QED
          BY <5>1, <5>2
      <4>3. IndexEntries(p) = {e}
        BY <4>1, <4>2
      <4>4. QED
        BY <4>3, FS_Singleton
    <3>3. QED
      BY <3>1, <3>2
  <2>5. ~ IsIndexed(p) => (Readers(p) # {} <=> Cardinality(Readers(p)) = 1)
    <3>1. ASSUME ~ IsIndexed(p), Readers(p) # {} PROVE Cardinality(Readers(p)) = 1
      <4>1. PICK r : r \in Readers(p)
        BY <3>1
      <4>2. Readers(p) = {r}
        BY <2>1, <3>1, <4>1
      <4>3. QED
        BY <4>2, FS_Singleton
    <3>2. QED
      BY <3>1, FS_EmptySet
  <2>6. p \in free_page_ids <=> page_states[p] = Unallocated
    BY DEF CacheInv, FreeInv
  <2>7. CASE IsIndexed(p)
    BY <2>1, <2>2, <2>3, <2>4, <2>6, <2>7 DEF Unallocated, PendingWrite, WrittenNotInUse
  <2>8. CASE ~ IsIndexed(p)
    BY <2>1, <2>2, <2>3, <2>4, <2>5, <2>6, <2>8 DEF Unallocated, PendingWrite, WrittenNotInUse
  <2>9. QED
    BY <2>7, <2>8
<1>2. QED
  BY <1>1, TypesAreCorrect DEF PageStatesMatchOwners

\* Whatever is appended, truncated, adopted, published, evicted or released, the pool's page
\* states and free list say who owns each page.
THEOREM PageStatesAlwaysMatchOwners == CacheSpec => []PageStatesMatchOwners
<1>1. CacheInv => PageStatesMatchOwners
  BY StatesMatchOwners
<1>2. QED
  BY <1>1, CacheInvariant, PTL

\* Publication and eviction keep the index a tree, its child counts exact and its leaves in
\* leaf_block_keys.
THEOREM IndexStaysATree == CacheSpec => []IndexIsATree
<1>1. CacheInv => IndexIsATree
  BY DEF CacheInv, IndexInv
<1>2. QED
  BY <1>1, CacheInvariant, PTL

\* No block before the cursor of an active request is evicted, nor are its pages exchanged.
THEOREM CursorsStayProtected == CacheSpec => []CursorsAreProtected
<1>1. CacheInv => CursorsAreProtected
  BY DEF CacheInv
<1>2. QED
  BY <1>1, CacheInvariant, PTL

\* No request reads, and no block is indexed with, KV values of another prefix or layer.
THEOREM CachedValuesStayRight == CacheSpec => []CachedValuesAreRight
<1>1. CacheInv => CachedValuesAreRight
  BY DEF CacheInv
<1>2. QED
  BY <1>1, CacheInvariant, PTL

-----------------------------------------------------------------------------
(* Appends *)

\* A set of numbers with a bound has a greatest one.
LEMMA GreatestElement ==
  ASSUME NEW bound \in Nat, NEW T \in SUBSET (0 .. bound), T # {}
  PROVE  \E x \in T : \A y \in T : y <= x
<1> DEFINE S == {bound - y : y \in T}
<1>1. S \in SUBSET Nat /\ S # {}
  <2>1. ASSUME NEW y \in T PROVE bound - y \in Nat
    <3>1. y \in 0 .. bound
      OBVIOUS
    <3>2. QED
      BY <3>1
  <2>2. QED
    BY <2>1
<1> HIDE DEF S
<1>2. PICK d \in S : \A e \in S : d <= e
  BY <1>1, LeastElement
<1>3. PICK x \in T : d = bound - x
  BY DEF S
<1>4. \A y \in T : bound - y \in S
  BY DEF S
<1>5. ASSUME NEW y \in T PROVE y <= x
  <2>1. d <= bound - y /\ y \in 0 .. bound /\ x \in 0 .. bound
    BY <1>2, <1>4
  <2>2. QED
    BY <1>3, <2>1
<1>6. QED
  BY <1>5

\* No place is deeper than all reservations together.
LEMMA DepthFacts ==
  ASSUME NEW r \in Requests, NEW i \in DOMAIN PrefixAt[r]
  PROVE  /\ Total(ReservedPageCount, Requests) \in Nat
         /\ i \in 0 .. Total(ReservedPageCount, Requests)
<1> DEFINE row == {r} \X (1 .. ReservedPageCount[r])
<1>1. ReservedPageCount[r] \in Nat /\ i \in 1 .. ReservedPageCount[r]
  BY ConstantFacts
<1>2. IsFiniteSet(Reserved(Requests))
      /\ Total(ReservedPageCount, Requests) = Cardinality(Reserved(Requests))
      /\ Total(ReservedPageCount, Requests) \in Nat
  BY ReservedFacts
<1>3. row \in SUBSET Reserved(Requests)
  BY DEF Reserved
<1>4. Cardinality(row) = ReservedPageCount[r]
  BY <1>1, RowSize
<1> HIDE DEF row
<1>5. ReservedPageCount[r] <= Total(ReservedPageCount, Requests)
  BY <1>2, <1>3, <1>4, FS_Subset
<1>6. QED
  BY <1>1, <1>2, <1>5

\* A request that reads an indexed block reads it in every layer, and what is above it too.
LEMMA ReadersReadPaths ==
  ASSUME CacheInv, NEW b \in IndexedBlocks, NEW l \in Layers, NEW s \in Readers(block_pages[b][l])
  PROVE  /\ \A k \in Layers : s \in Readers(block_pages[b][k])
         /\ ParentOf(b) # Root => \A k \in Layers : s \in Readers(block_pages[ParentOf(b)][k])
<1>1. PICK k \in Layers : \E i \in DOMAIN block_tables[s][k] :
                            block_tables[s][k][i] = block_pages[b][l]
  BY ReaderFacts
<1>2. PICK i \in DOMAIN block_tables[s][k] : block_tables[s][k][i] = block_pages[b][l]
  BY <1>1
<1>3. s \in active /\ s \in Requests
  BY ReaderFacts DEF CacheInv, TypeInv
<1>4. b = PrefixAt[s][i] /\ i <= cursors[s] /\ i \in DOMAIN PrefixAt[s]
  BY <1>2, <1>3, EntryHolder, PlaceFacts
<1>5. i \in Nat /\ i >= 1 /\ cursors[s] \in Nat
  <2>1. i \in 1 .. ReservedPageCount[s] /\ ReservedPageCount[s] \in Nat
    BY <1>3, <1>4, ConstantFacts
  <2>2. cursors[s] \in Nat
    BY <1>3 DEF CacheInv, TypeInv
  <2>3. QED
    BY <2>1, <2>2
<1>6. i \in 1 .. cursors[s]
  BY <1>4, <1>5
<1>7. \A m \in Layers : s \in Readers(block_pages[b][m])
  BY <1>3, <1>4, <1>6, CursorFacts
<1>8. ASSUME ParentOf(b) # Root
      PROVE  \A m \in Layers : s \in Readers(block_pages[ParentOf(b)][m])
  <2>1. i > 1 /\ ParentOf(b) = PrefixAt[s][i - 1]
    BY <1>3, <1>4, <1>5, <1>8, ParentFacts
  <2>2. i - 1 \in 1 .. cursors[s]
    BY <1>4, <1>5, <2>1
  <2>3. QED
    BY <1>3, <2>1, <2>2, CursorFacts
<1>9. QED
  BY <1>7, <1>8

\* When no leaf may be evicted, every page in use is some request's: below a deepest
\* indexed block that nobody reads there is nothing, so it is a leaf.
LEMMA AllPagesAreRead ==
  ASSUME CacheInv, \A b \in leaf_blocks : ~ ArePagesInactive(b),
         NEW p \in Pages, page_states[p] # Unallocated
  PROVE  Readers(p) # {}
<1>1. SUFFICES ASSUME Readers(p) = {} PROVE FALSE
  OBVIOUS
<1> DEFINE Unread == {b \in IndexedBlocks : \E l \in Layers : Readers(block_pages[b][l]) = {}}
           At(b, i) == \E r \in Requests : i \in DOMAIN PrefixAt[r] /\ PrefixAt[r][i] = b
           bound == Total(ReservedPageCount, Requests)
           T == {i \in 0 .. bound : \E b \in Unread : At(b, i)}
<1>2. IsIndexed(p)
  BY <1>1 DEF CacheInv, PageInv
<1>3. Unread # {}
  BY <1>1, <1>2 DEF IsIndexed
<1>4. ASSUME NEW b \in IndexedBlocks
      PROVE  bound \in Nat /\ \E i \in 0 .. bound : At(b, i)
  <2>1. PICK r \in Requests : \E i \in DOMAIN PrefixAt[r] : PrefixAt[r][i] = b
    BY DEF CacheInv, IndexInv, Blocks
  <2>2. PICK i \in DOMAIN PrefixAt[r] : PrefixAt[r][i] = b
    BY <2>1
  <2>3. QED
    BY <2>2, DepthFacts
<1>5. bound \in Nat /\ T # {}
  BY <1>3, <1>4
<1>6. PICK depth \in T : \A y \in T : y <= depth
  <2>1. T \in SUBSET (0 .. bound)
    OBVIOUS
  <2> HIDE DEF T, bound
  <2>2. QED
    BY <1>5, <2>1, GreatestElement
<1>7. PICK b \in Unread : At(b, depth)
  BY <1>6
<1>8. \A k \in Layers : Readers(block_pages[b][k]) = {}
  BY <1>7, ReadersReadPaths
<1>9. ArePagesInactive(b)
  <2>1. ASSUME NEW k \in Layers PROVE page_states[block_pages[b][k]] = WrittenNotInUse
    <3> DEFINE q == block_pages[b][k]
    <3>1. q \in Pages /\ IsIndexed(q) /\ Readers(q) = {}
      BY <1>7, <1>8, EntryFacts
    <3> HIDE DEF q
    <3>2. page_states[q] = Cardinality(Readers(q))
      BY <3>1 DEF CacheInv, PageInv
    <3>3. page_states[q] = 0
      BY <3>1, <3>2, FS_EmptySet
    <3>4. QED
      BY <3>3 DEF q, WrittenNotInUse
  <2>2. QED
    BY <2>1 DEF ArePagesInactive
<1>10. PICK c \in IndexedBlocks : ParentOf(c) = b
  <2>1. b \in IndexedBlocks /\ b \notin leaf_blocks
    BY <1>7, <1>9
  <2>2. Children(b) # {}
    BY <2>1, TreeFacts
  <2>3. QED
    BY <2>2 DEF Children
<1>11. b # Root
  BY <1>7, TreeFacts
<1>12. PICK i \in 0 .. bound : At(c, i)
  BY <1>4
<1>13. i > depth
  <2>1. PICK r \in Requests : i \in DOMAIN PrefixAt[r] /\ PrefixAt[r][i] = c
    BY <1>12
  <2>2. PICK s \in Requests : depth \in DOMAIN PrefixAt[s] /\ PrefixAt[s][depth] = b
    BY <1>7
  <2>3. i \in Nat /\ i >= 1
    BY <2>1, ConstantFacts
  <2>4. i > 1 /\ i - 1 \in DOMAIN PrefixAt[r] /\ PrefixAt[r][i - 1] = b
    BY <1>10, <1>11, <2>1, <2>3, ParentFacts
  <2>5. i - 1 = depth
    BY <2>2, <2>4, SamePrefix
  <2>6. QED
    BY <2>3, <2>5
<1>14. c \notin Unread
  BY <1>5, <1>6, <1>12, <1>13
<1>15. 1 \in Layers
  BY PagedKvCacheAssumption DEF Layers
<1>16. PICK s : s \in Readers(block_pages[c][1])
  BY <1>14, <1>15
<1>17. s \in Readers(block_pages[b][1])
  BY <1>10, <1>11, <1>15, <1>16, ReadersReadPaths
<1>18. QED
  BY <1>8, <1>15, <1>17

\* The pages of the requests are at places they reserved, and so are those an append lacks.
LEMMA AppendsSucceed == CacheInv => ReservedAppendsSucceed
<1> SUFFICES ASSUME CacheInv, AppendFails PROVE FALSE
  BY DEF ReservedAppendsSucceed
<1> DEFINE a == PageCount(Appended)
           b == PageCount(Appended + append.left)
<1>1. append # NoAppend
  BY DEF AppendFails
<1>2. PICK r : r = append.request
  OBVIOUS
<1>3. PICK l : l = append.layer
  OBVIOUS
<1>4. /\ r \in active /\ r \in Requests /\ l \in Layers
      /\ append.left \in Nat \ {0} /\ Appended \in Nat
      /\ Appended + append.left <= MaxCachedTokenCount[r]
      /\ AppendTable \in Seq(Pages) /\ Len(AppendTable) = a
      /\ AppendTable = block_tables[r][l]
      /\ cursors[r] \in Nat /\ cursors[r] <= BlockCount(Appended)
  BY <1>1, <1>2, <1>3, AppendFacts DEF AppendTable
<1>5. /\ a \in Nat /\ b \in Nat /\ a <= b
      /\ b <= ReservedPageCount[r] /\ ReservedPageCount[r] \in Nat
      /\ RequiredPageCount(Appended, append.left) = b - a
  <2> DEFINE c == Appended
             n == append.left
             m == MaxCachedTokenCount[r]
  <2>1. c \in Nat /\ n \in Nat \ {0} /\ m \in Nat /\ c + n <= m
        /\ ReservedPageCount[r] = PageCount(m) /\ ReservedPageCount[r] \in Nat
    BY <1>4, ConstantFacts
  <2> HIDE DEF c, n, m
  <2>2. c + n \in Nat /\ c <= c + n
    BY <2>1
  <2>3. /\ PageCount(c) \in Nat /\ PageCount(c + n) \in Nat
        /\ PageCount(c) <= PageCount(c + n) /\ PageCount(c + n) <= PageCount(m)
        /\ RequiredPageCount(c, n) = PageCount(c + n) - PageCount(c)
    BY <2>1, <2>2, CountFacts, CountsGrow, RequiredPages
  <2>4. QED
    BY <2>1, <2>3 DEF c, n, m
\* The page that is being filled is r's alone.
<1>6. ASSUME Appended % PageTokenCount > 0
      PROVE  page_states[AppendTable[Len(AppendTable)]] = PendingWrite
  <2>1. a = BlockCount(Appended) + 1 /\ BlockCount(Appended) \in Nat
    BY <1>4, <1>6, CountFacts
  <2>2. a \in DOMAIN block_tables[r][l] /\ a > cursors[r]
    BY <1>4, <2>1, LenProperties
  <2> DEFINE p == block_tables[r][l][a]
  <2>3. ~ IsIndexed(p)
    BY <1>4, <2>2 DEF CacheInv, TableInv
  <2>4. p \in Pages /\ r \in Readers(p)
    BY <1>4, <2>2, PlaceFacts
  <2>5. AppendTable[Len(AppendTable)] = p
    BY <1>4
  <2> HIDE DEF p
  <2>6. page_states[p] = PendingWrite
    BY <2>3, <2>4 DEF CacheInv, PageInv
  <2>7. QED
    BY <2>5, <2>6
<1>7. ~ Fits /\ \A leaf \in leaf_blocks : ~ ArePagesInactive(leaf)
  <2>1. \/ ~ Fits /\ \A leaf \in leaf_blocks : ~ ArePagesInactive(leaf)
        \/ /\ Appended % PageTokenCount > 0
           /\ page_states[AppendTable[Len(AppendTable)]] # PendingWrite
    BY DEF AppendFails
  <2>2. QED
    BY <1>6, <2>1
<1> HIDE DEF a, b
<1>8. IsFiniteSet(Pages) /\ IsFiniteSet(free_page_ids) /\ IsFiniteSet(Pages \ free_page_ids)
      /\ Cardinality(free_page_ids) \in Nat /\ Cardinality(Pages \ free_page_ids) \in Nat
      /\ Cardinality(Pages) = Cardinality(free_page_ids) + Cardinality(Pages \ free_page_ids)
  <2>1. free_page_ids \in SUBSET Pages /\ Pages \ free_page_ids \in SUBSET Pages
    BY DEF CacheInv, TypeInv
  <2>2. IsFiniteSet(free_page_ids) /\ IsFiniteSet(Pages \ free_page_ids)
    BY <2>1, PagedKvCacheAssumption, FS_Subset
  <2>3. /\ Cardinality(free_page_ids \cup (Pages \ free_page_ids)) =
             Cardinality(free_page_ids) + Cardinality(Pages \ free_page_ids)
               - Cardinality(free_page_ids \cap (Pages \ free_page_ids))
    BY <2>2, FS_Union
  <2>4. free_page_ids \cap (Pages \ free_page_ids) = {}
        /\ free_page_ids \cup (Pages \ free_page_ids) = Pages
    BY <2>1
  <2>5. Cardinality(free_page_ids) \in Nat /\ Cardinality(Pages \ free_page_ids) \in Nat
    BY <2>2, FS_CardinalityType
  <2>6. Cardinality(free_page_ids \cap (Pages \ free_page_ids)) = 0
    BY <2>4, FS_EmptySet
  <2>7. Cardinality(free_page_ids \cup (Pages \ free_page_ids)) = Cardinality(Pages)
    BY <2>4
  <2>8. IsFiniteSet(Pages)
    BY PagedKvCacheAssumption
  <2>9. QED
    BY <2>2, <2>3, <2>5, <2>6, <2>7, <2>8
<1>9. b - a > Cardinality(free_page_ids)
  BY <1>5, <1>7, <1>8 DEF Fits
\* The places of the requests and the place of each page in use.
<1> DEFINE Places == Reserved(active) \X Layers
           Held == {e \in Places : e[1][2] \in DOMAIN block_tables[e[1][1]][e[2]]}
           PageAt == [e \in Held |-> block_tables[e[1][1]][e[2]][e[1][2]]]
           Missing == ({r} \X (a + 1 .. b)) \X {l}
<1>10. IsFiniteSet(Places) /\ Cardinality(Places) \in Nat
       /\ Cardinality(Places) <= Cardinality(Pages)
  <2>1. active \in SUBSET Requests
    BY DEF CacheInv, TypeInv
  <2>2. /\ IsFiniteSet(Reserved(active))
        /\ Cardinality(Reserved(active)) \in Nat
        /\ Cardinality(Reserved(active)) <= PageCapacity
    BY <2>1, ReservedFacts DEF CacheInv, AdmissionInv
  <2>3. LayerCount \in Nat /\ 1 \in Int /\ LayerCount \in Int
    BY PagedKvCacheAssumption
  <2>4. IsFiniteSet(Layers) /\ Cardinality(Layers) = LayerCount
    BY <2>3, FS_Interval DEF Layers
  <2>5. IsFiniteSet(Places) /\ Cardinality(Places) = Cardinality(Reserved(active)) * LayerCount
    BY <2>2, <2>4, FS_Product
  <2>6. /\ PageCapacity \in Nat /\ LayerCount * PageCapacity \in Nat
        /\ Cardinality(Pages) \in Nat /\ LayerCount * PageCapacity <= Cardinality(Pages)
    BY ReservationsFit
  <2> DEFINE n == Cardinality(Reserved(active))
             c == PageCapacity
             d == LayerCount
             all == Cardinality(Pages)
  <2>7. n \in Nat /\ c \in Nat /\ d \in Nat /\ n <= c /\ d * c <= all /\ all \in Nat
    BY <2>2, <2>3, <2>6
  <2>8. n * d \in Nat /\ n * d <= all
    <3> HIDE DEF n, c, d, all
    <3>1. n * d <= c * d
      BY <2>7, ProductGrows
    <3>2. c * d = d * c /\ n * d \in Nat /\ d * c \in Nat
      BY <2>7
    <3>3. QED
      BY <2>7, <3>1, <3>2
  <2>9. QED
    BY <2>5, <2>8
<1>11. \A q \in active : \A i \in 1 .. ReservedPageCount[q] : \A k \in Layers :
         <<<<q, i>>, k>> \in Places
  BY DEF Reserved
<1>12. PageAt \in Surjection(Held, Pages \ free_page_ids)
  <2>1. ASSUME NEW e \in Held
        PROVE  PageAt[e] \in Pages \ free_page_ids
    <3>1. PICK q \in active, i \in 1 .. ReservedPageCount[e[1][1]], k \in Layers :
            e = <<<<q, i>>, k>>
      BY DEF Reserved
    <3>2. i \in DOMAIN block_tables[q][k] /\ PageAt[e] = block_tables[q][k][i]
      BY <3>1
    <3> DEFINE p == block_tables[q][k][i]
    <3>3. p \in Pages /\ q \in Readers(p)
      BY <3>2, PlaceFacts
    <3> HIDE DEF p
    <3>4. p \notin free_page_ids
      BY <3>3, OwnedPage DEF CacheInv, FreeInv
    <3>5. QED
      BY <3>2, <3>3, <3>4 DEF p
  <2>2. ASSUME NEW p \in Pages \ free_page_ids
        PROVE  \E e \in Held : PageAt[e] = p
    <3>1. page_states[p] # Unallocated
      BY DEF CacheInv, FreeInv
    <3>2. PICK q : q \in Readers(p)
      BY <1>7, <3>1, AllPagesAreRead
    <3>3. PICK k \in Layers : \E i \in DOMAIN block_tables[q][k] : block_tables[q][k][i] = p
      BY <3>2, ReaderFacts
    <3>4. PICK i \in DOMAIN block_tables[q][k] : block_tables[q][k][i] = p
      BY <3>3
    <3>5. q \in active /\ q \in Requests /\ i \in DOMAIN PrefixAt[q]
      BY <3>2, <3>4, PlaceFacts, ReaderFacts
    <3>6. i \in 1 .. ReservedPageCount[q]
      BY <3>5, ConstantFacts
    <3>7. <<<<q, i>>, k>> \in Held
      BY <1>11, <3>4, <3>5, <3>6
    <3>8. PageAt[<<<<q, i>>, k>>] = p
      BY <3>4, <3>7
    <3>9. QED
      BY <3>7, <3>8
  <2> HIDE DEF PageAt
  <2>3. PageAt \in [Held -> Pages \ free_page_ids]
    <3>1. PageAt = [e \in Held |-> PageAt[e]]
      BY DEF PageAt
    <3>2. QED
      BY <2>1, <3>1
  <2>4. QED
    BY <2>2, <2>3, Fun_IsSurj
<1>13. /\ IsFiniteSet(Held)
       /\ Cardinality(Pages \ free_page_ids) <= Cardinality(Held) /\ Cardinality(Held) \in Nat
  <2>1. Held \in SUBSET Places
    OBVIOUS
  <2> HIDE DEF Held, PageAt, Places
  <2>2. IsFiniteSet(Held)
    BY <1>10, <2>1, FS_Subset
  <2>3. QED
    BY <1>12, <2>2, FS_Surjection, FS_CardinalityType
<1>14. IsFiniteSet(Missing) /\ Cardinality(Missing) = b - a
  <2>1. IsFiniteSet({r}) /\ Cardinality({r}) = 1 /\ IsFiniteSet({l}) /\ Cardinality({l}) = 1
    BY FS_Singleton
  <2>2. a + 1 \in Int /\ b \in Int
    BY <1>5
  <2>3. IsFiniteSet(a + 1 .. b)
        /\ Cardinality(a + 1 .. b) = IF a + 1 > b THEN 0 ELSE b - (a + 1) + 1
    BY <2>2, FS_Interval
  <2>4. Cardinality(a + 1 .. b) = b - a
    BY <1>5, <2>3
  <2>5. /\ IsFiniteSet({r} \X (a + 1 .. b))
        /\ Cardinality({r} \X (a + 1 .. b)) = Cardinality({r}) * Cardinality(a + 1 .. b)
    BY <2>1, <2>3, FS_Product
  <2>6. Cardinality({r} \X (a + 1 .. b)) = b - a
    BY <1>5, <2>1, <2>4, <2>5
  <2>7. IsFiniteSet(Missing)
        /\ Cardinality(Missing) = Cardinality({r} \X (a + 1 .. b)) * Cardinality({l})
    BY <2>1, <2>5, FS_Product
  <2>8. QED
    BY <1>5, <2>1, <2>6, <2>7
<1>15. Missing \subseteq Places /\ Missing \cap Held = {}
  <2>1. DOMAIN block_tables[r][l] = 1 .. a
    BY <1>4, LenProperties
  <2>2. ASSUME NEW e \in Missing PROVE e \in Places /\ e \notin Held
    <3>1. PICK i \in a + 1 .. b : e = <<<<r, i>>, l>>
      OBVIOUS
    <3>2. i \in 1 .. ReservedPageCount[r] /\ i \notin 1 .. a
      BY <1>5
    <3>3. e \in Places
      BY <1>4, <1>11, <3>1, <3>2
    <3>4. e \notin Held
      BY <2>1, <3>1, <3>2
    <3>5. QED
      BY <3>3, <3>4
  <2>3. QED
    BY <2>2
<1>16. Cardinality(Held) + (b - a) <= Cardinality(Pages)
  <2> HIDE DEF Missing, Places, PageAt
  <2>1. Held \subseteq Places
    OBVIOUS
  <2> HIDE DEF Held
  <2>2. Cardinality(Held \cup Missing) =
          Cardinality(Held) + Cardinality(Missing) - Cardinality(Held \cap Missing)
    BY <1>13, <1>14, FS_Union
  <2>3. Held \cap Missing = {} /\ Held \cup Missing \in SUBSET Places
    BY <1>15, <2>1
  <2>4. Cardinality(Held \cup Missing) <= Cardinality(Places)
        /\ Cardinality(Held \cup Missing) \in Nat
    BY <1>10, <2>3, FS_Subset, FS_CardinalityType
  <2>5. Cardinality(Held \cap Missing) = 0
    BY <2>3, FS_EmptySet
  <2>6. Cardinality(Pages) \in Nat
    BY <1>8
  <2>7. QED
    BY <1>5, <1>10, <1>13, <1>14, <2>2, <2>4, <2>5, <2>6
<1>17. QED
  BY <1>5, <1>8, <1>9, <1>13, <1>16

\* append_new_key_value never runs out of pages for an admitted request.
THEOREM ReservedAppendsAlwaysSucceed == CacheSpec => []ReservedAppendsSucceed
<1>1. CacheInv => ReservedAppendsSucceed
  BY AppendsSucceed
<1>2. QED
  BY <1>1, CacheInvariant, PTL
=============================================================================
