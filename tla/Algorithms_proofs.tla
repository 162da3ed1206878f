------------------------- MODULE Algorithms_proofs -------------------------
(***************************************************************************)
(* The limits of a start-up, for every pair of model files, every list of  *)
(* devices, every cache and every request: what passes them fits.  The way *)
(* of a configuration, for every command line: what the main process       *)
(* accepts is what the model runner works with.  The verification of a     *)
(* draft token, for every two distributions, every budget and every        *)
(* context: the token that comes out has the law that the code announces.  *)
(* The forward passes, for every model, cache, batch and choice of         *)
(* kernels: the logits of a request are computed from its own tokens.      *)
(***************************************************************************)
EXTENDS MCAlgorithms, FiniteSetTheorems, WellFoundedInduction, TLAPS

-----------------------------------------------------------------------------
(* Least elements *)

\* A set of naturals has a least element.
LEMMA LeastElement ==
  ASSUME NEW T \in SUBSET Nat, T # {}
  PROVE  \E x \in T : \A y \in T : x <= y
<1> DEFINE R == OpToRel(<, Nat)
<1>1. IsWellFoundedOn(R, Nat)
  BY NatLessThanWellFounded
<1>2. \A x, y \in Nat : x < y => <<x, y>> \in R
  BY DEF OpToRel
<1> HIDE DEF R
<1>3. PICK x \in T : \A y \in T : ~ (<<y, x>> \in R)
  BY <1>1, WFMin
<1>4. \A y \in T : x <= y
  <2> TAKE y \in T
  <2>1. x \in Nat /\ y \in Nat /\ ~ (y < x)
    BY <1>2, <1>3
  <2>2. QED
    BY <2>1
<1>5. QED
  BY <1>4

\* Min finds it.
LEMMA MinIsLeast ==
  ASSUME NEW T \in SUBSET Nat, T # {}
  PROVE  Min(T) \in T /\ Min(T) \in Nat /\ \A x \in T : Min(T) <= x
<1>1. \E x \in T : \A y \in T : x <= y
  BY LeastElement
<1>2. Min(T) \in T /\ \A y \in T : Min(T) <= y
  BY <1>1 DEF Min
<1>3. QED
  BY <1>2

-----------------------------------------------------------------------------
(* Quotients *)

\* A product grows with its factors.
LEMMA ProductGrows ==
  ASSUME NEW d \in Nat, NEW a \in Nat, NEW b \in Nat, a <= b
  PROVE  a * d <= b * d /\ d * a <= d * b
<1>1. b - a \in Nat /\ b = a + (b - a)
  OBVIOUS
<1>2. (b - a) * d >= 0
  BY <1>1
<1>3. b * d = a * d + (b - a) * d
  OBVIOUS
<1>4. a * d <= b * d
  BY <1>2, <1>3
<1>5. d * a = a * d /\ d * b = b * d
  OBVIOUS
<1>6. QED
  BY <1>4, <1>5

\* What a quotient is.
LEMMA QuotientFacts ==
  ASSUME NEW d \in Nat \ {0}, NEW n \in Nat
  PROVE  n \div d \in Nat /\ (n \div d) * d <= n /\ n < (n \div d) * d + d
<1>1. n \div d \in Nat /\ n % d \in 0 .. d - 1 /\ n = (n \div d) * d + (n % d)
  OBVIOUS
<1> DEFINE q == (n \div d) * d
<1>2. q \in Nat /\ n % d \in 0 .. d - 1 /\ n = q + (n % d)
  BY <1>1
<1> HIDE DEF q
<1>3. q <= n /\ n < q + d
  BY <1>2
<1>4. QED
  BY <1>1, <1>3 DEF q

\* A quotient is at least any number whose product fits.
LEMMA QuotientIsLargest ==
  ASSUME NEW d \in Nat \ {0}, NEW n \in Nat, NEW q \in Nat
  PROVE  /\ q * d <= n => q <= n \div d
         /\ n < q * d + d => n \div d <= q
<1> DEFINE k == n \div d
<1>1. k \in Nat /\ k * d <= n /\ n < k * d + d
  BY QuotientFacts
<1> HIDE DEF k
<1>2. k + 1 <= q => k * d + d <= q * d
  <2>1. SUFFICES ASSUME k + 1 <= q PROVE k * d + d <= q * d
    OBVIOUS
  <2>2. (k + 1) * d <= q * d
    BY <1>1, <2>1, ProductGrows
  <2>3. (k + 1) * d = k * d + d
    BY <1>1
  <2>4. QED
    BY <2>2, <2>3
<1>3. q + 1 <= k => q * d + d <= k * d
  <2>1. SUFFICES ASSUME q + 1 <= k PROVE q * d + d <= k * d
    OBVIOUS
  <2>2. (q + 1) * d <= k * d
    BY <1>1, <2>1, ProductGrows
  <2>3. (q + 1) * d = q * d + d
    OBVIOUS
  <2>4. QED
    BY <2>2, <2>3
<1>4. k * d \in Nat /\ q * d \in Nat
  BY <1>1
<1>5. QED
  BY <1>1, <1>2, <1>3, <1>4 DEF k

\* A product divided by a factor.
LEMMA ProductDivided ==
  ASSUME NEW d \in Nat \ {0}, NEW q \in Nat
  PROVE  (q * d) \div d = q
<1>1. q * d \in Nat
  OBVIOUS
<1>2. q <= (q * d) \div d /\ (q * d) \div d <= q
  BY <1>1, QuotientIsLargest
<1>3. (q * d) \div d \in Nat
  BY <1>1, QuotientFacts
<1>4. QED
  BY <1>2, <1>3

\* Pages for n tokens, rounded up, stay within the whole pages for m.
LEMMA RoundedUpFits ==
  ASSUME NEW p \in Nat \ {0}, NEW n \in Nat, NEW m \in Nat, n <= m, (m \div p) * p = m
  PROVE  /\ (n + p - 1) \div p \in Nat
         /\ (n + p - 1) \div p <= m \div p
         /\ ((n + p - 1) \div p) * p <= m
<1> DEFINE k == m \div p
           q == (n + p - 1) \div p
<1>1. k \in Nat /\ k * p = m
  BY QuotientFacts
<1>2. n + p - 1 \in Nat
  OBVIOUS
<1>3. q \in Nat
  BY <1>2, QuotientFacts
<1>4. q <= k
  <2>1. n + p - 1 < k * p + p
    BY <1>1
  <2> HIDE DEF k
  <2>2. QED
    BY <1>1, <1>2, <2>1, QuotientIsLargest
<1>5. q * p <= k * p
  <2> HIDE DEF k, q
  <2>1. QED
    BY <1>1, <1>3, <1>4, ProductGrows
<1>6. QED
  BY <1>1, <1>3, <1>4, <1>5

-----------------------------------------------------------------------------
(* Start-ups *)

\* The model files, caches and start-ups that MCAlgorithms takes samples of.  The sizes are
\* positive; a command line names at most one draft model, and validation refuses pages of no
\* token.
ModelFiles ==
  [layer_count : Nat \ {0}, key_value_width : Nat \ {0}, context_length : Nat,
   unused : Seq(BOOLEAN), input_size : Nat, output_size : Nat]

Caches == [type : {"Contiguous", "Paged"}, page_tokens : Nat \ {0}]

Startups ==
  [target : ModelFiles, draft : {{}} \cup {{f} : f \in ModelFiles}, tokenizer_size : Nat,
   draft_tokenizer : {"none", "same", "other"}, devices : Seq({"Cpu", "Gpu"}),
   activation : {"F16", "F32"}, gpu_build : BOOLEAN, cache : Caches,
   target_bytes : Nat, draft_bytes : Nat, max_active : Nat]

\* Both GPUs of a start-up have the GPUs before them as their indices.
LEMMA GpusHaveIndices ==
  ASSUME NEW devices \in Seq({"Cpu", "Gpu"}), NEW n \in DOMAIN devices, NEW m \in DOMAIN devices,
         n < m, devices[n] = "Gpu", devices[m] = "Gpu"
  PROVE  GpuDeviceIndex(devices, n) # GpuDeviceIndex(devices, m)
<1> DEFINE S == {i \in 1 .. n - 1 : devices[i] = "Gpu"}
           T == {i \in 1 .. m - 1 : devices[i] = "Gpu"}
<1>1. n \in Nat /\ m \in Nat /\ n >= 1
  OBVIOUS
<1>2. IsFiniteSet(T) /\ S \subseteq T /\ n \in T /\ n \notin S
  <2>1. IsFiniteSet(1 .. m - 1)
    BY <1>1, FS_Interval
  <2>2. IsFiniteSet(T)
    BY <2>1, FS_Subset
  <2>3. QED
    BY <1>1, <2>2
<1>3. Cardinality(S) # Cardinality(T)
  <2> HIDE DEF S, T
  <2>1. QED
    BY <1>2, FS_Subset
<1>4. QED
  BY <1>3 DEF GpuDeviceIndex

\* What a pool of the given bytes holds in each layer.
LEMMA ContiguousHolds ==
  ASSUME NEW L \in Nat \ {0}, NEW W \in Nat \ {0}, NEW total \in Nat
  PROVE  LET n == ((total \div 2) \div L) \div W
         IN  n \in Nat /\ (L * n) * W * 2 <= total
<1> DEFINE h == total \div 2
           a == h \div L
           n == a \div W
<1>1. h \in Nat /\ h * 2 <= total
  BY QuotientFacts
<1>2. a \in Nat /\ a * L <= h
  <2> HIDE DEF h
  <2>1. QED
    BY <1>1, QuotientFacts
<1>3. n \in Nat /\ n * W <= a
  <2> HIDE DEF a
  <2>1. QED
    BY <1>2, QuotientFacts
<1> HIDE DEF n, a, h
<1>4. (n * W) * L <= a * L
  <2>1. n * W \in Nat
    BY <1>3
  <2>2. QED
    BY <1>2, <1>3, <2>1, ProductGrows
<1>5. (L * n) * W = (n * W) * L /\ (n * W) * L \in Nat /\ a * L \in Nat
  BY <1>2, <1>3
<1>6. (L * n) * W * 2 <= total
  BY <1>1, <1>2, <1>4, <1>5
<1>7. QED
  BY <1>3, <1>6 DEF n, a, h

LEMMA PagedHolds ==
  ASSUME NEW L \in Nat \ {0}, NEW W \in Nat \ {0}, NEW P \in Nat \ {0}, NEW total \in Nat
  PROVE  LET n == (((total \div 2) \div (W * P)) \div L) * P
         IN  n \in Nat /\ (n \div P) * P = n /\ (L * n) * W * 2 <= total
<1> DEFINE h == total \div 2
           d == W * P
           N == h \div d
           k == N \div L
<1>1. h \in Nat /\ h * 2 <= total
  BY QuotientFacts
<1>2. d \in Nat \ {0}
  <2>1. 1 * P <= W * P
    BY ProductGrows
  <2>2. QED
    BY <2>1
<1>3. N \in Nat /\ N * d <= h
  <2> HIDE DEF h, d
  <2>1. QED
    BY <1>1, <1>2, QuotientFacts
<1>4. k \in Nat /\ k * L <= N
  <2> HIDE DEF N
  <2>1. QED
    BY <1>3, QuotientFacts
<1>5. (k * P) \div P = k
  <2> HIDE DEF k
  <2>1. QED
    BY <1>4, ProductDivided
<1>6. (L * (k * P)) * W * 2 <= total
  <2>1. (L * (k * P)) * W = (k * L) * d
    <3> HIDE DEF k
    <3>1. QED
      BY <1>4
  <2> HIDE DEF k, N, d, h
  <2>2. k * L \in Nat
    BY <1>4
  <2>3. (k * L) * d <= N * d
    BY <1>2, <1>3, <1>4, <2>2, ProductGrows
  <2>4. (k * L) * d \in Nat /\ N * d \in Nat
    BY <1>2, <1>3, <2>2
  <2>5. QED
    BY <1>1, <1>3, <2>1, <2>3, <2>4
<1>7. k * P \in Nat
  <2> HIDE DEF k
  <2>1. QED
    BY <1>4
<1>8. QED
  <2> DEFINE m == k * P
  <2>1. m \in Nat /\ (m \div P) * P = m /\ (L * m) * W * 2 <= total
    BY <1>5, <1>6, <1>7
  <2>2. m = (((total \div 2) \div (W * P)) \div L) * P
    OBVIOUS
  <2> HIDE DEF m
  <2>3. QED
    BY <2>1, <2>2

\* What fits a layer fits the pool.
LEMMA PagesFit ==
  ASSUME NEW L \in Nat, NEW W \in Nat, NEW p \in Nat, NEW R \in Nat, NEW n \in Nat,
         NEW total \in Nat, R * p <= n, (L * n) * W * 2 <= total
  PROVE  L * R * p * W * 2 <= total
<1> DEFINE m == R * p
<1>1. m \in Nat /\ m <= n
  OBVIOUS
<1>2. L * R * p * W = (L * m) * W
  OBVIOUS
<1> HIDE DEF m
<1>3. L * m <= L * n
  BY <1>1, ProductGrows
<1>4. L * m \in Nat /\ L * n \in Nat
  BY <1>1
<1>5. (L * m) * W <= (L * n) * W
  BY <1>3, <1>4, ProductGrows
<1>6. (L * m) * W \in Nat /\ (L * n) * W \in Nat
  BY <1>4
<1>7. QED
  BY <1>2, <1>5, <1>6

\* TokenCapacity counts whole pages, and what they need of every layer's keys and values fits
\* the bytes.
LEMMA CapacityFits ==
  ASSUME NEW file \in ModelFiles, NEW bytes \in {2, 4}, NEW layout \in Caches, NEW total \in Nat
  PROVE  LET capacity == TokenCapacity(file, bytes, layout, total)
             p == GeometryPageTokens(layout)
         IN  /\ capacity \in Nat /\ p \in Nat \ {0}
             /\ (capacity \div p) * p = capacity
             /\ (file.layer_count * capacity) * BytesPerToken(file, bytes) * 2 <= total
<1> DEFINE L == file.layer_count
           W == BytesPerToken(file, bytes)
<1>1. L \in Nat \ {0} /\ W \in Nat \ {0}
  <2>1. file.key_value_width \in Nat \ {0} /\ L \in Nat \ {0}
    BY DEF ModelFiles
  <2>2. QED
    BY <2>1 DEF BytesPerToken
<1> HIDE DEF L, W
<1>2. CASE layout.type = "Contiguous"
  <2> DEFINE n == ((total \div 2) \div L) \div W
  <2>1. n \in Nat /\ (L * n) * W * 2 <= total
    BY <1>1, ContiguousHolds
  <2>2. TokenCapacity(file, bytes, layout, total) = n /\ GeometryPageTokens(layout) = 1
    BY <1>2 DEF TokenCapacity, GeometryPageTokens, L, W
  <2> HIDE DEF n
  <2>3. (n \div 1) * 1 = n
    BY <2>1
  <2>4. QED
    BY <2>1, <2>2, <2>3 DEF L, W
<1>3. CASE layout.type # "Contiguous"
  <2> DEFINE P == layout.page_tokens
             n == (((total \div 2) \div (W * P)) \div L) * P
  <2>1. P \in Nat \ {0}
    BY DEF Caches
  <2>2. n \in Nat /\ (n \div P) * P = n /\ (L * n) * W * 2 <= total
    <3> HIDE DEF P
    <3>1. QED
      BY <1>1, <2>1, PagedHolds
  <2>3. TokenCapacity(file, bytes, layout, total) = n /\ GeometryPageTokens(layout) = P
    BY <1>3 DEF TokenCapacity, PhysicalPageCount, GeometryPageTokens, L, W
  <2> HIDE DEF n, P
  <2>4. QED
    BY <2>1, <2>2, <2>3 DEF L, W
<1>4. QED
  BY <1>2, <1>3

\* A draft cache of no given size holds exactly what the target's does.
LEMMA DraftCacheMatches ==
  ASSUME NEW file \in ModelFiles, NEW bytes \in {2, 4}, NEW layout \in Caches, NEW n \in Nat,
         (n \div GeometryPageTokens(layout)) * GeometryPageTokens(layout) = n
  PROVE  TokenCapacity(file, bytes, layout, 2 * n * file.layer_count * BytesPerToken(file, bytes))
           = n
<1> DEFINE L == file.layer_count
           W == BytesPerToken(file, bytes)
           total == 2 * n * L * W
<1>1. L \in Nat \ {0} /\ W \in Nat \ {0}
  <2>1. file.key_value_width \in Nat \ {0} /\ L \in Nat \ {0}
    BY DEF ModelFiles
  <2>2. QED
    BY <2>1 DEF BytesPerToken
<1> HIDE DEF L, W
<1>2. total \div 2 = (n * W) * L
  <2> DEFINE a == (n * W) * L
  <2>1. a \in Nat /\ total = a * 2
    BY <1>1
  <2> HIDE DEF a, total
  <2>2. QED
    BY <2>1, ProductDivided DEF a
<1> DEFINE h == total \div 2
<1>3. CASE layout.type = "Contiguous"
  <2>1. h \div L = n * W
    <3>1. n * W \in Nat
      BY <1>1
    <3> HIDE DEF total
    <3>2. QED
      BY <1>1, <1>2, <3>1, ProductDivided
  <2>2. (n * W) \div W = n
    BY <1>1, ProductDivided
  <2>3. TokenCapacity(file, bytes, layout, total) = (h \div L) \div W
    BY <1>3 DEF TokenCapacity, L, W
  <2> HIDE DEF total, h
  <2>4. (h \div L) \div W = n
    BY <2>1, <2>2
  <2>5. QED
    BY <2>3, <2>4 DEF total, L, W
<1>4. CASE layout.type # "Contiguous"
  <2> DEFINE P == layout.page_tokens
             k == n \div P
  <2>1. P \in Nat \ {0}
    BY DEF Caches
  <2>2. k \in Nat /\ k * P = n
    <3>1. k \in Nat
      BY <2>1, QuotientFacts
    <3>2. GeometryPageTokens(layout) = P
      BY <1>4 DEF GeometryPageTokens
    <3>3. QED
      BY <3>1, <3>2
  <2>3. W * P \in Nat \ {0}
    <3> HIDE DEF P
    <3>1. 1 * P <= W * P
      BY <1>1, <2>1, ProductGrows
    <3>2. QED
      BY <1>1, <2>1, <3>1
  <2>4. h = (k * L) * (W * P)
    <3> HIDE DEF P, k, total
    <3>1. (n * W) * L = (k * L) * (W * P)
      <4>1. ((k * P) * W) * L = (k * L) * (W * P)
        BY <1>1, <2>1, <2>2
      <4>2. QED
        BY <2>2, <4>1
    <3>2. QED
      BY <1>2, <3>1
  <2>5. h \div (W * P) = k * L
    <3> DEFINE d == W * P
               q == k * L
    <3>1. d \in Nat \ {0} /\ q \in Nat /\ h = q * d
      <4> HIDE DEF k, P
      <4>1. QED
        BY <1>1, <2>2, <2>3, <2>4
    <3> HIDE DEF d, q, h
    <3>2. h \div d = q
      BY <3>1, ProductDivided
    <3>3. QED
      BY <3>2 DEF d, q
  <2>6. (k * L) \div L = k
    <3> HIDE DEF k
    <3>1. QED
      BY <1>1, <2>2, ProductDivided
  <2>7. TokenCapacity(file, bytes, layout, total) = ((h \div (W * P)) \div L) * P
    BY <1>4 DEF TokenCapacity, PhysicalPageCount, L, W
  <2> HIDE DEF total, h, k, P
  <2>8. QED
    BY <2>2, <2>5, <2>6, <2>7 DEF total, L, W
<1>5. QED
  BY <1>3, <1>4

\* The tokens per layer of the target's cache, and of the draft model's, on a device.
TargetCapacity(s, device) ==
  TokenCapacity(s.target, ActivationBytes(s, device), s.cache, s.target_bytes)

DraftTotal(s, device, d) ==
  DraftCacheBytes(s, d, ActivationBytes(s, device), TargetCapacity(s, device))

DraftCapacity(s, device, d) ==
  TokenCapacity(d, ActivationBytes(s, device), s.cache, DraftTotal(s, device, d))

\* Both are whole pages, and fit.
LEMMA CapacitiesFit ==
  ASSUME NEW s \in Startups, NEW device
  PROVE  LET p == GeometryPageTokens(s.cache)
             bytes == ActivationBytes(s, device)
             t == TargetCapacity(s, device)
         IN  /\ p \in Nat \ {0} /\ bytes \in {2, 4}
             /\ t \in Nat /\ (t \div p) * p = t
             /\ (s.target.layer_count * t) * BytesPerToken(s.target, bytes) * 2 <= s.target_bytes
             /\ \A d \in s.draft :
                  LET c == DraftCapacity(s, device, d)
                  IN  /\ d \in ModelFiles /\ DraftTotal(s, device, d) \in Nat
                      /\ c \in Nat /\ (c \div p) * p = c
                      /\ (d.layer_count * c) * BytesPerToken(d, bytes) * 2
                           <= DraftTotal(s, device, d)
                      /\ s.draft_bytes = 0 => c = t
<1> DEFINE p == GeometryPageTokens(s.cache)
           bytes == ActivationBytes(s, device)
           t == TargetCapacity(s, device)
<1>1. /\ s.cache \in Caches /\ s.target \in ModelFiles /\ s.target_bytes \in Nat
      /\ s.draft_bytes \in Nat /\ \A d \in s.draft : d \in ModelFiles
  BY DEF Startups
<1>2. bytes \in {2, 4}
  BY DEF ActivationBytes
<1>3. /\ p \in Nat \ {0} /\ t \in Nat /\ (t \div p) * p = t
      /\ (s.target.layer_count * t) * BytesPerToken(s.target, bytes) * 2 <= s.target_bytes
  <2> HIDE DEF bytes
  <2>1. QED
    BY <1>1, <1>2, CapacityFits DEF TargetCapacity, bytes
<1>4. ASSUME NEW d \in s.draft
      PROVE  LET c == DraftCapacity(s, device, d)
             IN  /\ d \in ModelFiles /\ DraftTotal(s, device, d) \in Nat
                 /\ c \in Nat /\ (c \div p) * p = c
                 /\ (d.layer_count * c) * BytesPerToken(d, bytes) * 2 <= DraftTotal(s, device, d)
                 /\ s.draft_bytes = 0 => c = t
  <2> DEFINE total == DraftTotal(s, device, d)
  <2> HIDE DEF bytes, p, t
  <2>1. total = IF s.draft_bytes > 0 THEN s.draft_bytes
                ELSE 2 * t * d.layer_count * BytesPerToken(d, bytes)
    BY DEF DraftTotal, DraftCacheBytes, t, bytes
  <2>2. d \in ModelFiles /\ d.layer_count \in Nat /\ BytesPerToken(d, bytes) \in Nat
    BY <1>1, <1>2 DEF ModelFiles, BytesPerToken
  <2>3. total \in Nat
    BY <1>1, <1>3, <2>1, <2>2
  <2>4. DraftCapacity(s, device, d) = TokenCapacity(d, bytes, s.cache, total)
    BY DEF DraftCapacity, bytes
  <2> HIDE DEF total
  <2>5. LET c == TokenCapacity(d, bytes, s.cache, total)
        IN  /\ c \in Nat /\ (c \div p) * p = c
            /\ (d.layer_count * c) * BytesPerToken(d, bytes) * 2 <= total
    BY <1>1, <1>2, <2>2, <2>3, CapacityFits DEF p
  <2>6. s.draft_bytes = 0 => TokenCapacity(d, bytes, s.cache, total) = t
    <3>1. SUFFICES ASSUME s.draft_bytes = 0
                   PROVE  TokenCapacity(d, bytes, s.cache, total) = t
      OBVIOUS
    <3>2. total = 2 * t * d.layer_count * BytesPerToken(d, bytes)
      BY <2>1, <3>1
    <3>3. (t \div GeometryPageTokens(s.cache)) * GeometryPageTokens(s.cache) = t
      BY <1>3 DEF p
    <3>4. TokenCapacity(d, bytes, s.cache, 2 * t * d.layer_count * BytesPerToken(d, bytes)) = t
      BY <1>1, <1>2, <1>3, <2>2, <3>3, DraftCacheMatches
    <3>5. QED
      BY <3>2, <3>4
  <2>7. QED
    BY <2>2, <2>3, <2>4, <2>5, <2>6 DEF total
<1>5. QED
  BY <1>2, <1>3, <1>4

\* The capacity of a backend that starts is that of one of its caches, and neither has less.
LEMMA BackendFits ==
  ASSUME NEW s \in Startups, NEW device, InferenceBackend(s, device) # Failed
  PROVE  LET b == InferenceBackend(s, device)
             p == GeometryPageTokens(s.cache)
         IN  /\ b.target_capacity = TargetCapacity(s, device)
             /\ b.capacity \in Nat /\ (b.capacity \div p) * p = b.capacity
             /\ b.capacity <= TargetCapacity(s, device)
             /\ \A d \in s.draft : b.capacity <= DraftCapacity(s, device, d)
             /\ s.cache.type = "Contiguous" => b.max_active <= 1
             /\ s.draft_bytes = 0 => b.capacity = b.target_capacity
<1> DEFINE b == InferenceBackend(s, device)
           p == GeometryPageTokens(s.cache)
           t == TargetCapacity(s, device)
           C == {t} \cup {DraftCapacity(s, device, d) : d \in s.draft}
<1>1. /\ b.target_capacity = t /\ b.capacity = Min(C)
      /\ b.max_active = IF s.cache.type = "Contiguous" THEN Min({1, s.max_active})
                                                       ELSE s.max_active
  <2> DEFINE bytes == ActivationBytes(s, device)
             tc == TokenCapacity(s.target, bytes, s.cache, s.target_bytes)
             drafts == {[capacity |-> TokenCapacity(d, bytes, s.cache,
                                                    DraftCacheBytes(s, d, bytes, tc)),
                         allocated |-> CacheIsAllocated(d, bytes, s.cache,
                                                    DraftCacheBytes(s, d, bytes, tc))] :
                          d \in s.draft}
  <2>1. b = [status |-> "started", target_capacity |-> tc,
             draft_capacities |-> {d.capacity : d \in drafts},
             capacity |-> Min({tc} \cup {d.capacity : d \in drafts}),
             max_active |-> IF s.cache.type = "Contiguous" THEN Min({1, s.max_active})
                                                           ELSE s.max_active]
    BY DEF InferenceBackend
  <2>2. tc = t
    BY DEF TargetCapacity
  <2>3. {d.capacity : d \in drafts} = {DraftCapacity(s, device, d) : d \in s.draft}
    <3>1. \A d \in s.draft : DraftCapacity(s, device, d)
            = TokenCapacity(d, bytes, s.cache, DraftCacheBytes(s, d, bytes, tc))
      BY DEF DraftCapacity, DraftTotal, TargetCapacity
    <3>2. {d.capacity : d \in drafts}
            = {TokenCapacity(d, bytes, s.cache, DraftCacheBytes(s, d, bytes, tc)) : d \in s.draft}
      <4> DEFINE E == {TokenCapacity(d, bytes, s.cache, DraftCacheBytes(s, d, bytes, tc)) :
                         d \in s.draft}
      <4> HIDE DEF tc, bytes
      <4>1. ASSUME NEW x \in {d.capacity : d \in drafts} PROVE x \in E
        <5>1. PICK e \in drafts : x = e.capacity
          BY <4>1
        <5>2. PICK d \in s.draft :
                e = [capacity |-> TokenCapacity(d, bytes, s.cache,
                                                DraftCacheBytes(s, d, bytes, tc)),
                     allocated |-> CacheIsAllocated(d, bytes, s.cache,
                                                    DraftCacheBytes(s, d, bytes, tc))]
          BY <5>1
        <5>3. QED
          BY <5>1, <5>2
      <4>2. ASSUME NEW d \in s.draft
            PROVE  TokenCapacity(d, bytes, s.cache, DraftCacheBytes(s, d, bytes, tc))
                     \in {e.capacity : e \in drafts}
        <5> DEFINE e == [capacity |-> TokenCapacity(d, bytes, s.cache,
                                                    DraftCacheBytes(s, d, bytes, tc)),
                         allocated |-> CacheIsAllocated(d, bytes, s.cache,
                                                    DraftCacheBytes(s, d, bytes, tc))]
        <5>1. e \in drafts
          OBVIOUS
        <5>2. e.capacity = TokenCapacity(d, bytes, s.cache, DraftCacheBytes(s, d, bytes, tc))
          OBVIOUS
        <5> HIDE DEF e, drafts
        <5>3. QED
          BY <5>1, <5>2
      <4> HIDE DEF drafts
      <4>3. QED
        BY <4>1, <4>2
    <3> HIDE DEF tc, bytes, drafts
    <3>3. QED
      BY <3>1, <3>2
  <2> HIDE DEF drafts, tc, bytes, b
  <2>4. QED
    BY <2>1, <2>2, <2>3
<1> HIDE DEF b
<1>2. /\ p \in Nat \ {0} /\ t \in Nat /\ (t \div p) * p = t
      /\ \A d \in s.draft : LET c == DraftCapacity(s, device, d)
                            IN  /\ c \in Nat /\ (c \div p) * p = c
                                /\ s.draft_bytes = 0 => c = t
  BY CapacitiesFit
<1> HIDE DEF p, t
<1>3. C \in SUBSET Nat /\ C # {} /\ \A c \in C : (c \div p) * p = c
  BY <1>2
<1>4. t \in C /\ \A d \in s.draft : DraftCapacity(s, device, d) \in C
  OBVIOUS
<1>5. s.draft_bytes = 0 => C = {t}
  BY <1>2
<1> HIDE DEF C
<1>6. Min(C) \in C /\ Min(C) \in Nat /\ \A x \in C : Min(C) <= x
  BY <1>3, MinIsLeast
<1>7. s.cache.type = "Contiguous" => b.max_active <= 1
  <2>1. s.max_active \in Nat
    BY DEF Startups
  <2>2. Min({1, s.max_active}) <= 1
    BY <2>1, MinIsLeast
  <2>3. QED
    BY <1>1, <2>2
<1>8. QED
  BY <1>1, <1>3, <1>4, <1>5, <1>6, <1>7 DEF b, p, t

-----------------------------------------------------------------------------
(* Requests *)

\* The capacity that requests are held to is the smallest of the backends'.
LEMMA AdvertisedIsLeast ==
  ASSUME NEW s \in Startups, Started(s)
  PROVE  /\ AdvertisedCapacity(s) \in Nat
         /\ \A n \in DOMAIN s.devices : AdvertisedCapacity(s) <= Backends(s)[n].capacity
         /\ \E n \in DOMAIN s.devices : AdvertisedCapacity(s) = Backends(s)[n].capacity
<1> DEFINE C == {Backends(s)[n].capacity : n \in DOMAIN s.devices}
<1>1. \A n \in DOMAIN s.devices : Backends(s)[n].capacity \in Nat
  <2> TAKE n \in DOMAIN s.devices
  <2>1. Backends(s)[n] = InferenceBackend(s, s.devices[n]) /\ Backends(s)[n] # Failed
    BY DEF Started, Backends
  <2>2. QED
    BY <2>1, BackendFits
<1>2. s.devices \in Seq({"Cpu", "Gpu"}) /\ s.devices # <<>>
  BY DEF Startups, Started
<1>3. 1 \in DOMAIN s.devices
  BY <1>2
<1>4. C \in SUBSET Nat /\ C # {}
  BY <1>1, <1>3
<1>5. AdvertisedCapacity(s) = Min(C)
  BY DEF AdvertisedCapacity
<1>6. Min(C) \in C /\ Min(C) \in Nat /\ \A x \in C : Min(C) <= x
  <2> HIDE DEF C
  <2>1. QED
    BY <1>4, MinIsLeast
<1>7. QED
  BY <1>5, <1>6

LEMMA ContextIsNatural ==
  ASSUME NEW s \in Startups
  PROVE  EffectiveContextLength(s) \in Nat
<1> DEFINE C == {s.target.context_length} \cup {d.context_length : d \in s.draft}
<1>1. s.target \in ModelFiles /\ \A d \in s.draft : d \in ModelFiles
  BY DEF Startups
<1>2. C \in SUBSET Nat /\ C # {}
  BY <1>1 DEF ModelFiles
<1>3. EffectiveContextLength(s) = Min(C)
  BY DEF EffectiveContextLength
<1> HIDE DEF C
<1>4. QED
  BY <1>2, <1>3, MinIsLeast

\* What normalize_generate_text_request grants.
LEMMA GrantFacts ==
  ASSUME NEW s \in Startups, Started(s), NEW prompt \in Nat, NEW limit \in Nat,
         GrantedTokens(s, prompt, limit) > 0
  PROVE  LET granted == GrantedTokens(s, prompt, limit)
             cached == prompt + granted - 1
         IN  /\ granted \in Nat /\ cached \in Nat
             /\ cached <= AdvertisedCapacity(s)
             /\ prompt + granted <= EffectiveContextLength(s)
             /\ granted < limit => \/ prompt + granted + 1 > EffectiveContextLength(s)
                                   \/ cached + 1 > AdvertisedCapacity(s)
<1> DEFINE capacity == AdvertisedCapacity(s)
           window == EffectiveContextLength(s)
           C == {limit, capacity - prompt + 1, window - prompt}
<1>1. capacity \in Nat /\ window \in Nat
  BY AdvertisedIsLeast, ContextIsNatural
<1>2. /\ prompt > 0 /\ prompt <= capacity /\ prompt < window
      /\ GrantedTokens(s, prompt, limit) = Min(C)
  <2> HIDE DEF C
  <2>1. ~ (prompt = 0 \/ prompt > capacity \/ prompt >= window \/ limit = 0)
    BY DEF GrantedTokens, C
  <2>2. QED
    BY <1>1, <2>1 DEF GrantedTokens, C
<1> HIDE DEF capacity, window
<1>3. C \in SUBSET Nat /\ C # {}
  BY <1>1, <1>2
<1>4. Min(C) \in C /\ Min(C) \in Nat /\ \A x \in C : Min(C) <= x
  <2> HIDE DEF C
  <2>1. QED
    BY <1>3, MinIsLeast
<1>5. QED
  BY <1>1, <1>2, <1>4 DEF capacity, window

\* On every backend the request fits both caches.
LEMMA RequestFitsBackend ==
  ASSUME NEW s \in Startups, Started(s), NEW n \in DOMAIN s.devices,
         NEW cached \in Nat, cached <= AdvertisedCapacity(s)
  PROVE  LET backend == Backends(s)[n]
             bytes == ActivationBytes(s, s.devices[n])
             Pages(file, b, total) ==
               file.layer_count * RequiredPageCount(cached, s.cache) * GeometryPageTokens(s.cache)
                 * BytesPerToken(file, b) * 2 <= total
         IN  /\ RequiredPageCount(cached, s.cache) <= PageCapacity(backend.capacity, s.cache)
             /\ Pages(s.target, bytes, s.target_bytes)
             /\ \A d \in s.draft :
                  Pages(d, bytes, DraftCacheBytes(s, d, bytes, backend.target_capacity))
<1> DEFINE device == s.devices[n]
           backend == Backends(s)[n]
           bytes == ActivationBytes(s, device)
           p == GeometryPageTokens(s.cache)
           R == RequiredPageCount(cached, s.cache)
<1>1. backend = InferenceBackend(s, device) /\ backend # Failed
  BY DEF Started, Backends
<1>2. cached <= backend.capacity
  <2>1. AdvertisedCapacity(s) <= backend.capacity /\ AdvertisedCapacity(s) \in Nat
    BY AdvertisedIsLeast
  <2>2. backend.capacity \in Nat
    BY <1>1, BackendFits
  <2>3. QED
    BY <2>1, <2>2
<1>3. /\ backend.target_capacity = TargetCapacity(s, device)
      /\ backend.capacity \in Nat /\ (backend.capacity \div p) * p = backend.capacity
      /\ backend.capacity <= TargetCapacity(s, device)
      /\ \A d \in s.draft : backend.capacity <= DraftCapacity(s, device, d)
  BY <1>1, BackendFits
<1>4. /\ p \in Nat \ {0} /\ bytes \in {2, 4}
      /\ TargetCapacity(s, device) \in Nat
      /\ (s.target.layer_count * TargetCapacity(s, device)) * BytesPerToken(s.target, bytes) * 2
           <= s.target_bytes
      /\ \A d \in s.draft :
           LET c == DraftCapacity(s, device, d)
           IN  /\ d \in ModelFiles /\ DraftTotal(s, device, d) \in Nat
               /\ c \in Nat
               /\ (d.layer_count * c) * BytesPerToken(d, bytes) * 2 <= DraftTotal(s, device, d)
  BY CapacitiesFit
<1>5. s.target \in ModelFiles /\ s.target_bytes \in Nat
  BY DEF Startups
<1>6. \A file \in ModelFiles : file.layer_count \in Nat /\ BytesPerToken(file, bytes) \in Nat
  BY <1>4 DEF ModelFiles, BytesPerToken
<1>7. \A d \in s.draft : DraftCacheBytes(s, d, bytes, backend.target_capacity)
                           = DraftTotal(s, device, d)
  BY <1>3 DEF DraftTotal
<1> HIDE DEF backend, bytes, p, device
<1>8. R \in Nat /\ R <= backend.capacity \div p /\ R * p <= backend.capacity
  BY <1>2, <1>3, <1>4, RoundedUpFits DEF RequiredPageCount, p
<1> HIDE DEF R
<1>9. R <= PageCapacity(backend.capacity, s.cache)
  BY <1>8 DEF PageCapacity, p
<1>10. R * p <= TargetCapacity(s, device)
  BY <1>3, <1>4, <1>8
<1>11. s.target.layer_count * R * p * BytesPerToken(s.target, bytes) * 2 <= s.target_bytes
  BY <1>4, <1>5, <1>6, <1>8, <1>10, PagesFit
<1>12. ASSUME NEW d \in s.draft
       PROVE  d.layer_count * R * p * BytesPerToken(d, bytes) * 2
                <= DraftCacheBytes(s, d, bytes, backend.target_capacity)
  <2> DEFINE c == DraftCapacity(s, device, d)
             total == DraftTotal(s, device, d)
  <2>1. /\ d \in ModelFiles /\ c \in Nat /\ total \in Nat
        /\ (d.layer_count * c) * BytesPerToken(d, bytes) * 2 <= total
        /\ backend.capacity <= c
    BY <1>3, <1>4
  <2>2. d.layer_count \in Nat /\ BytesPerToken(d, bytes) \in Nat
    BY <1>6, <2>1
  <2> HIDE DEF c, total
  <2>3. R * p <= c
    BY <1>3, <1>4, <1>8, <2>1
  <2>4. d.layer_count * R * p * BytesPerToken(d, bytes) * 2 <= total
    BY <1>4, <1>8, <2>1, <2>2, <2>3, PagesFit
  <2>5. QED
    BY <1>7, <2>4 DEF total
<1>13. QED
  BY <1>9, <1>11, <1>12 DEF R, p, backend, bytes, device

-----------------------------------------------------------------------------
(* What passes the limits fits *)

\* Whatever the model files, the devices, the sizes and types of the caches and the request: a
\* request that normalize_generate_text_request lets through fits, with all the tokens it is
\* granted, the target's and the draft model's cache of every backend, the context of both
\* models and the admission rule of the scheduler; and it is not granted less than fits.
THEOREM AcceptedRequestsAlwaysFit ==
  ASSUME NEW s \in Startups, NEW inputs \in SUBSET Nat, NEW limits \in SUBSET Nat
  PROVE  AcceptedRequestsFit(s, inputs, limits)
<1> SUFFICES ASSUME Started(s)
             PROVE  AcceptedRequestsFit(s, inputs, limits)
  BY DEF AcceptedRequestsFit
<1>1. \A n \in DOMAIN s.devices, m \in DOMAIN s.devices :
        n # m /\ s.devices[n] = "Gpu" /\ s.devices[m] = "Gpu" =>
          GpuDeviceIndex(s.devices, n) # GpuDeviceIndex(s.devices, m)
  <2>1. s.devices \in Seq({"Cpu", "Gpu"})
    BY DEF Startups
  <2>2. \A n \in DOMAIN s.devices, m \in DOMAIN s.devices :
          n < m /\ s.devices[n] = "Gpu" /\ s.devices[m] = "Gpu" =>
            GpuDeviceIndex(s.devices, n) # GpuDeviceIndex(s.devices, m)
    BY <2>1, GpusHaveIndices
  <2>3. \A n, m \in DOMAIN s.devices : n # m => n < m \/ m < n
    BY <2>1
  <2>4. QED
    BY <2>2, <2>3
<1>2. \A file \in {s.target} \cup s.draft :
        s.tokenizer_size <= Min({file.input_size, file.output_size})
  <2> TAKE file \in {s.target} \cup s.draft
  <2>1. file \in ModelFiles /\ s.tokenizer_size \in Nat
    BY DEF Startups
  <2>2. file.input_size \in Nat /\ file.output_size \in Nat
    BY <2>1 DEF ModelFiles
  <2>3. file.input_size >= s.tokenizer_size /\ file.output_size >= s.tokenizer_size
    BY DEF Started, TokenizersAreValid, ModelVocabularyIsValid
  <2>4. Min({file.input_size, file.output_size}) \in {file.input_size, file.output_size}
    <3>1. {file.input_size, file.output_size} \in SUBSET Nat
      BY <2>2
    <3>2. {file.input_size, file.output_size} # {}
      OBVIOUS
    <3>3. QED
      BY <3>1, <3>2, MinIsLeast
  <2>5. QED
    BY <2>1, <2>2, <2>3, <2>4
<1>3. ASSUME NEW n \in DOMAIN s.devices
      PROVE  /\ s.cache.type = "Contiguous" => Backends(s)[n].max_active <= 1
             /\ s.draft_bytes = 0 => Backends(s)[n].capacity = Backends(s)[n].target_capacity
  <2>1. Backends(s)[n] = InferenceBackend(s, s.devices[n]) /\ Backends(s)[n] # Failed
    BY DEF Started, Backends
  <2>2. QED
    BY <2>1, BackendFits
<1>4. ASSUME NEW prompt \in inputs, NEW limit \in limits, GrantedTokens(s, prompt, limit) > 0
      PROVE  LET granted == GrantedTokens(s, prompt, limit)
                 cached == prompt + granted - 1
             IN  /\ cached \in Nat /\ cached <= AdvertisedCapacity(s)
                 /\ prompt + granted <= EffectiveContextLength(s)
                 /\ granted < limit =>
                      \/ prompt + granted + 1 > EffectiveContextLength(s)
                      \/ \E n \in DOMAIN s.devices : cached + 1 > Backends(s)[n].capacity
  BY <1>4, GrantFacts, AdvertisedIsLeast
<1>5. QED
  BY <1>1, <1>2, <1>3, <1>4, RequestFitsBackend DEF AcceptedRequestsFit

-----------------------------------------------------------------------------
(* Command lines: the messages that MCAlgorithms takes samples of, with    *)
(* every variant that inference_config.proto declares                      *)

KvTypes == {"Unspecified", "Unknown", "Contiguous", "Paged", "PagedPrefix"}
Publications == {"Unspecified", "Unknown", "OnRequestCompletion", "Incremental"}
PrefillPolicies ==
  {"Unspecified", "Unknown", "FirstComeFirstServed", "ShortestPrefillFirst", "RoundRobin"}
CoordinationPolicies ==
  {"Unspecified", "Unknown", "Independent", "ExactInputSingleFlightUntilPrefixPublished",
   "ExactInputSingleFlightUntilRequestCompletion"}
RoutingPolicies ==
  {"Unspecified", "Unknown", "RoundRobin", "LeastRequests", "MostCachedPrefix",
   "LeastEstimatedWork", "CacheAwareLeastEstimatedWork"}

KvMessages ==
  [type : KvTypes, page_tokens : Nat, target_bytes : Nat, draft_bytes : Nat,
   publication : Publications]

SchedulerMessages ==
  [batched : Nat, active : Nat, policy : PrefillPolicies, coordination : CoordinationPolicies]

ProfileMessages ==
  [input : Nat, output : Nat, cpu_prefill : Nat, cpu_decode : Nat, gpu_prefill : Nat,
   gpu_decode : Nat]

\* An optional part
Optional(S) == {{}} \cup {{x} : x \in S}

OrchestratorMessages == [routing : RoutingPolicies, profiles : Optional(Seq(ProfileMessages))]

ProfileFiles == [readable : BOOLEAN, parses : BOOLEAN, profiles : Seq(ProfileMessages)]

\* The provers know no string to be in STRING: the ones that the modules name are listed.
ModelMessages ==
  [named : BOOLEAN, gguf : BOOLEAN, revision : STRING \cup {"", "main", "v1"}]

DraftPolicyMessages ==
  [kind : {"None"}]
    \cup [kind : {"Fixed"}, count : Nat]
    \cup [kind : {"AcceptanceRate"}, initial : Nat, minimum : Nat, maximum : Nat,
          decrease : Int, increase : Int]
    \cup [kind : {"AcceptedLength"}, initial : Nat, minimum : Nat, maximum : Nat, smoothing : Int]

DraftMessages == [model : Optional(ModelMessages), policy : Optional(DraftPolicyMessages)]

CommandLines ==
  [kv : KvMessages, scheduler : SchedulerMessages, orchestrator : Optional(OrchestratorMessages),
   files : Optional(ProfileFiles), threads : Nat, model : ModelMessages,
   draft : Optional(DraftMessages), devices : Seq({"Cpu", "Gpu"})]

\* The default is of the kind of the value.
LEMMA OrDefaultStays ==
  ASSUME NEW S, NEW value \in S, NEW unset, NEW default \in S
  PROVE  /\ OrDefault(value, unset, default) \in S
         /\ value = unset => OrDefault(value, unset, default) = default
         /\ value # unset => OrDefault(value, unset, default) = value
  BY DEF OrDefault

LEMMA SingletonIsOptional ==
  ASSUME NEW S, NEW x \in S
  PROVE  {x} \in Optional(S)
  BY DEF Optional

\* The records of a message, by their fields
KvMessage(t, p, b, d, q) ==
  [type |-> t, page_tokens |-> p, target_bytes |-> b, draft_bytes |-> d, publication |-> q]

SchedulerMessage(b, a, p, c) == [batched |-> b, active |-> a, policy |-> p, coordination |-> c]

-----------------------------------------------------------------------------
(* Normalizing: each part keeps what is set, and normalizing it twice      *)
(* changes nothing                                                         *)

LEMMA KvMessageFields ==
  ASSUME NEW t \in KvTypes, NEW p \in Nat, NEW b \in Nat, NEW d \in Nat, NEW q \in Publications
  PROVE  LET m == KvMessage(t, p, b, d, q)
         IN  /\ m \in KvMessages /\ m.type = t /\ m.page_tokens = p /\ m.target_bytes = b
             /\ m.draft_bytes = d /\ m.publication = q
  BY DEF KvMessages, KvMessage

LEMMA KvMessageIsItsFields ==
  ASSUME NEW m \in KvMessages
  PROVE  /\ m.type \in KvTypes /\ m.page_tokens \in Nat /\ m.target_bytes \in Nat
         /\ m.draft_bytes \in Nat /\ m.publication \in Publications
         /\ m = KvMessage(m.type, m.page_tokens, m.target_bytes, m.draft_bytes, m.publication)
  BY DEF KvMessages, KvMessage

LEMMA SchedulerMessageFields ==
  ASSUME NEW b \in Nat, NEW a \in Nat, NEW p \in PrefillPolicies, NEW c \in CoordinationPolicies
  PROVE  LET m == SchedulerMessage(b, a, p, c)
         IN  /\ m \in SchedulerMessages /\ m.batched = b /\ m.active = a /\ m.policy = p
             /\ m.coordination = c
  BY DEF SchedulerMessages, SchedulerMessage

LEMMA SchedulerMessageIsItsFields ==
  ASSUME NEW m \in SchedulerMessages
  PROVE  /\ m.batched \in Nat /\ m.active \in Nat /\ m.policy \in PrefillPolicies
         /\ m.coordination \in CoordinationPolicies
         /\ m = SchedulerMessage(m.batched, m.active, m.policy, m.coordination)
  BY DEF SchedulerMessages, SchedulerMessage

SchedulerMessageWith(m, b, a, p, c) ==
  [m EXCEPT !.batched = b, !.active = a, !.policy = p, !.coordination = c]

LEMMA SchedulerMessageWithFields ==
  ASSUME NEW m \in SchedulerMessages, NEW b \in Nat, NEW a \in Nat, NEW p \in PrefillPolicies,
         NEW c \in CoordinationPolicies
  PROVE  SchedulerMessageWith(m, b, a, p, c) = SchedulerMessage(b, a, p, c)
<1> DEFINE e == SchedulerMessageWith(m, b, a, p, c)
<1>1. /\ e \in SchedulerMessages /\ e.batched = b /\ e.active = a /\ e.policy = p
      /\ e.coordination = c
  BY DEF SchedulerMessages, SchedulerMessageWith
<1> HIDE DEF e
<1>2. QED
  BY <1>1, SchedulerMessageIsItsFields DEF e

\* A cache of an unknown type keeps its page size and its publication policy.
LEMMA KvCacheNormalizes ==
  ASSUME NEW kv \in KvMessages
  PROVE  LET n == NormalizedKvCache(kv)
         IN  /\ n \in KvMessages /\ NormalizedKvCache(n) = n
             /\ \A f \in DOMAIN kv : kv[f] \in {FieldDefault(f), n[f]}
<1> DEFINE n == NormalizedKvCache(kv)
<1>1. ASSUME NEW m \in KvMessages, NEW t \in KvTypes, NEW b \in Nat
      PROVE  [m EXCEPT !.type = t, !.target_bytes = b]
               = KvMessage(t, m.page_tokens, b, m.draft_bytes, m.publication)
  <2> DEFINE e == [m EXCEPT !.type = t, !.target_bytes = b]
  <2>1. /\ e \in KvMessages /\ e.type = t /\ e.page_tokens = m.page_tokens
        /\ e.target_bytes = b /\ e.draft_bytes = m.draft_bytes /\ e.publication = m.publication
    BY DEF KvMessages
  <2> HIDE DEF e
  <2>2. QED
    BY <2>1, KvMessageIsItsFields DEF e
<1>2. ASSUME NEW m \in KvMessages, NEW p \in Nat, NEW q \in Publications
      PROVE  [m EXCEPT !.page_tokens = p, !.publication = q]
               = KvMessage(m.type, p, m.target_bytes, m.draft_bytes, q)
  <2> DEFINE e == [m EXCEPT !.page_tokens = p, !.publication = q]
  <2>1. /\ e \in KvMessages /\ e.type = m.type /\ e.page_tokens = p
        /\ e.target_bytes = m.target_bytes /\ e.draft_bytes = m.draft_bytes
        /\ e.publication = q
    BY DEF KvMessages
  <2> HIDE DEF e
  <2>2. QED
    BY <2>1, KvMessageIsItsFields DEF e
<1>3. ASSUME NEW m \in KvMessages
      PROVE  LET t == OrDefault(m.type, "Unspecified", "Contiguous")
                 b == OrDefault(m.target_bytes, 0, DefaultTargetBytes)
                 p == IF t = "Contiguous" THEN m.page_tokens
                      ELSE OrDefault(m.page_tokens, 0, DefaultPageTokenCount)
                 q == OrDefault(m.publication, "Unspecified", "OnRequestCompletion")
             IN  /\ t \in KvTypes /\ b \in Nat /\ p \in Nat /\ q \in Publications
                 /\ NormalizedKvCache(m)
                      = IF t = "Unknown"
                        THEN KvMessage(t, m.page_tokens, b, m.draft_bytes, m.publication)
                        ELSE KvMessage(t, p, b, m.draft_bytes, q)
  <2> DEFINE t == OrDefault(m.type, "Unspecified", "Contiguous")
             b == OrDefault(m.target_bytes, 0, DefaultTargetBytes)
             p == IF t = "Contiguous" THEN m.page_tokens
                  ELSE OrDefault(m.page_tokens, 0, DefaultPageTokenCount)
             q == OrDefault(m.publication, "Unspecified", "OnRequestCompletion")
             sized == [m EXCEPT !.type = t, !.target_bytes = b]
             built == KvMessage(t, m.page_tokens, b, m.draft_bytes, m.publication)
  <2>1. /\ m.type \in KvTypes /\ m.page_tokens \in Nat /\ m.target_bytes \in Nat
        /\ m.draft_bytes \in Nat /\ m.publication \in Publications
    BY KvMessageIsItsFields
  <2>2. /\ "Contiguous" \in KvTypes /\ DefaultTargetBytes \in Nat /\ DefaultPageTokenCount \in Nat
        /\ "OnRequestCompletion" \in Publications
    BY DEF KvTypes, Publications, DefaultTargetBytes, DefaultPageTokenCount
  <2>3. t \in KvTypes /\ b \in Nat /\ p \in Nat /\ q \in Publications
    BY <2>1, <2>2, OrDefaultStays
  <2>4. NormalizedKvCache(m) = IF t = "Unknown" THEN sized
                               ELSE [sized EXCEPT
                                       !.page_tokens = IF t = "Contiguous" THEN @
                                                       ELSE OrDefault(@, 0, DefaultPageTokenCount),
                                       !.publication =
                                         OrDefault(@, "Unspecified", "OnRequestCompletion")]
    BY DEF NormalizedKvCache
  <2> HIDE DEF t, b, p, q
  <2>5. sized = built
    BY <1>1, <2>3
  <2>6. /\ built \in KvMessages /\ built.type = t /\ built.page_tokens = m.page_tokens
        /\ built.target_bytes = b /\ built.draft_bytes = m.draft_bytes
        /\ built.publication = m.publication
    <3>1. built = KvMessage(t, m.page_tokens, b, m.draft_bytes, m.publication)
      OBVIOUS
    <3> HIDE DEF built
    <3>2. QED
      BY ONLY <2>1, <2>3, <3>1 DEF KvMessages, KvMessage
  <2> HIDE DEF built, sized
  <2>7. [built EXCEPT !.page_tokens = p, !.publication = q]
          = KvMessage(built.type, p, built.target_bytes, built.draft_bytes, q)
    <3>1. built \in KvMessages /\ p \in Nat /\ q \in Publications
      BY <2>3, <2>6
    <3>2. QED
      BY ONLY <1>2, <3>1
  <2>8. QED
    BY <2>3, <2>4, <2>5, <2>6, <2>7 DEF p, q, t, b, built
<1>4. ASSUME NEW m \in KvMessages, m.type # "Unspecified", m.target_bytes # 0,
             m.type \in {"Unknown", "Contiguous"} \/ m.page_tokens # 0,
             m.type = "Unknown" \/ m.publication # "Unspecified"
      PROVE  NormalizedKvCache(m) = m
  <2>1. m = KvMessage(m.type, m.page_tokens, m.target_bytes, m.draft_bytes, m.publication)
    BY KvMessageIsItsFields
  <2>2. QED
    BY <1>3, <1>4, <2>1 DEF OrDefault
<1>5. kv.page_tokens \in Nat /\ kv.draft_bytes \in Nat /\ kv.publication \in Publications
  BY KvMessageIsItsFields
<1>6. /\ n \in KvMessages
      /\ n.type = IF kv.type = "Unspecified" THEN "Contiguous" ELSE kv.type
      /\ n.target_bytes = IF kv.target_bytes = 0 THEN DefaultTargetBytes ELSE kv.target_bytes
      /\ n.draft_bytes = kv.draft_bytes
      /\ n.page_tokens = IF n.type \in {"Unknown", "Contiguous"} \/ kv.page_tokens # 0
                         THEN kv.page_tokens ELSE DefaultPageTokenCount
      /\ n.publication = IF n.type = "Unknown" \/ kv.publication # "Unspecified"
                         THEN kv.publication ELSE "OnRequestCompletion"
  <2> DEFINE t == OrDefault(kv.type, "Unspecified", "Contiguous")
             b == OrDefault(kv.target_bytes, 0, DefaultTargetBytes)
             p == IF t = "Contiguous" THEN kv.page_tokens
                  ELSE OrDefault(kv.page_tokens, 0, DefaultPageTokenCount)
             q == OrDefault(kv.publication, "Unspecified", "OnRequestCompletion")
  <2>1. /\ t \in KvTypes /\ b \in Nat /\ p \in Nat /\ q \in Publications
        /\ n = IF t = "Unknown" THEN KvMessage(t, kv.page_tokens, b, kv.draft_bytes, kv.publication)
               ELSE KvMessage(t, p, b, kv.draft_bytes, q)
    BY <1>3
  <2> HIDE DEF t, b, p, q, n
  <2>2. /\ n \in KvMessages /\ n.type = t /\ n.target_bytes = b /\ n.draft_bytes = kv.draft_bytes
        /\ n.page_tokens = IF t = "Unknown" THEN kv.page_tokens ELSE p
        /\ n.publication = IF t = "Unknown" THEN kv.publication ELSE q
    <3>1. CASE t = "Unknown"
      BY <1>5, <2>1, <3>1, KvMessageFields
    <3>2. CASE t # "Unknown"
      BY <1>5, <2>1, <3>2, KvMessageFields
    <3>3. QED
      BY <3>1, <3>2
  <2>3. QED
    BY <2>2 DEF t, b, p, q, OrDefault
<1> HIDE DEF n
<1>7. NormalizedKvCache(n) = n
  BY <1>4, <1>6 DEF DefaultTargetBytes, DefaultPageTokenCount
<1>8. \A f \in DOMAIN kv : kv[f] \in {FieldDefault(f), n[f]}
  <2>1. DOMAIN kv = {"type", "page_tokens", "target_bytes", "draft_bytes", "publication"}
    BY DEF KvMessages
  <2>2. QED
    BY <1>6, <2>1 DEF FieldDefault
<1>9. QED
  BY <1>6, <1>7, <1>8 DEF n

LEMMA SchedulerNormalizes ==
  ASSUME NEW sc \in SchedulerMessages
  PROVE  LET n == NormalizedScheduler(sc)
         IN  /\ n \in SchedulerMessages /\ NormalizedScheduler(n) = n
             /\ \A f \in DOMAIN sc : sc[f] \in {FieldDefault(f), n[f]}
<1> DEFINE n == NormalizedScheduler(sc)
<1>1. ASSUME NEW m \in SchedulerMessages
      PROVE  LET b == OrDefault(m.batched, 0, DefaultBatchedTokenCount)
                 a == OrDefault(m.active, 0, DefaultActiveRequestCount)
                 p == OrDefault(m.policy, "Unspecified", "FirstComeFirstServed")
                 c == OrDefault(m.coordination, "Unspecified", "Independent")
             IN  /\ b \in Nat /\ a \in Nat /\ p \in PrefillPolicies /\ c \in CoordinationPolicies
                 /\ NormalizedScheduler(m) = SchedulerMessage(b, a, p, c)
  <2> DEFINE b == OrDefault(m.batched, 0, DefaultBatchedTokenCount)
             a == OrDefault(m.active, 0, DefaultActiveRequestCount)
             p == OrDefault(m.policy, "Unspecified", "FirstComeFirstServed")
             c == OrDefault(m.coordination, "Unspecified", "Independent")
  <2>1. /\ m.batched \in Nat /\ m.active \in Nat /\ m.policy \in PrefillPolicies
        /\ m.coordination \in CoordinationPolicies
    BY SchedulerMessageIsItsFields
  <2>2. /\ DefaultBatchedTokenCount \in Nat /\ DefaultActiveRequestCount \in Nat
        /\ "FirstComeFirstServed" \in PrefillPolicies /\ "Independent" \in CoordinationPolicies
    BY DEF DefaultBatchedTokenCount, DefaultActiveRequestCount, PrefillPolicies,
       CoordinationPolicies
  <2>3. b \in Nat /\ a \in Nat /\ p \in PrefillPolicies /\ c \in CoordinationPolicies
    BY <2>1, <2>2, OrDefaultStays
  <2>4. NormalizedScheduler(m) = SchedulerMessageWith(m, b, a, p, c)
    BY DEF NormalizedScheduler, SchedulerMessageWith
  <2> HIDE DEF b, a, p, c
  <2>5. SchedulerMessageWith(m, b, a, p, c) = SchedulerMessage(b, a, p, c)
    BY <2>3, SchedulerMessageWithFields
  <2>6. QED
    BY <2>3, <2>4, <2>5 DEF b, a, p, c
<1>2. ASSUME NEW m \in SchedulerMessages, m.batched # 0, m.active # 0,
             m.policy # "Unspecified", m.coordination # "Unspecified"
      PROVE  NormalizedScheduler(m) = m
  <2>1. m = SchedulerMessage(m.batched, m.active, m.policy, m.coordination)
    BY SchedulerMessageIsItsFields
  <2>2. QED
    BY <1>1, <1>2, <2>1 DEF OrDefault
<1>3. /\ n \in SchedulerMessages
      /\ n.batched = IF sc.batched = 0 THEN DefaultBatchedTokenCount ELSE sc.batched
      /\ n.active = IF sc.active = 0 THEN DefaultActiveRequestCount ELSE sc.active
      /\ n.policy = IF sc.policy = "Unspecified" THEN "FirstComeFirstServed" ELSE sc.policy
      /\ n.coordination = IF sc.coordination = "Unspecified" THEN "Independent"
                          ELSE sc.coordination
  <2>1. QED
    BY <1>1, SchedulerMessageIsItsFields, SchedulerMessageFields DEF OrDefault
<1> HIDE DEF n
<1>4. NormalizedScheduler(n) = n
  BY <1>2, <1>3 DEF DefaultBatchedTokenCount, DefaultActiveRequestCount
<1>5. \A f \in DOMAIN sc : sc[f] \in {FieldDefault(f), n[f]}
  <2>1. DOMAIN sc = {"batched", "active", "policy", "coordination"}
    BY DEF SchedulerMessages
  <2>2. QED
    BY <1>3, <2>1 DEF FieldDefault
<1>6. QED
  BY <1>3, <1>4, <1>5 DEF n

\* Profiles that are given stay, even an empty list of them.
LEMMA OrchestratorNormalizes ==
  ASSUME NEW o \in OrchestratorMessages
  PROVE  LET n == NormalizedOrchestrator(o)
         IN  /\ n \in OrchestratorMessages /\ NormalizedOrchestrator(n) = n
             /\ o.profiles # {} => n.profiles = o.profiles
<1> DEFINE n == NormalizedOrchestrator(o)
           default == <<DefaultProfile>>
<1>1. default \in Seq(ProfileMessages)
  <2>1. DefaultProfile \in ProfileMessages
    BY DEF DefaultProfile, ProfileMessages
  <2> HIDE DEF default
  <2>2. QED
    BY <2>1 DEF default
<1>2. NormalizedOrchestrator(o) = [o EXCEPT !.routing = OrDefault(@, "Unspecified", "RoundRobin"),
                                            !.profiles = OrDefault(@, {}, {default})]
  BY DEF NormalizedOrchestrator
<1> HIDE DEF default
<1>3. {default} \in Optional(Seq(ProfileMessages)) /\ {default} # {}
  BY <1>1, SingletonIsOptional
<1>4. /\ n \in OrchestratorMessages
      /\ n.routing = IF o.routing = "Unspecified" THEN "RoundRobin" ELSE o.routing
      /\ n.profiles = IF o.profiles = {} THEN {default} ELSE o.profiles
  BY <1>2, <1>3 DEF OrchestratorMessages, RoutingPolicies, OrDefault
<1>5. ASSUME NEW m \in OrchestratorMessages, m.routing # "Unspecified", m.profiles # {}
      PROVE  NormalizedOrchestrator(m) = m
  BY <1>5 DEF NormalizedOrchestrator, OrchestratorMessages, OrDefault
<1> HIDE DEF n
<1>6. NormalizedOrchestrator(n) = n
  BY <1>3, <1>4, <1>5
<1>7. QED
  BY <1>4, <1>6 DEF n

LEMMA ModelNormalizes ==
  ASSUME NEW m \in ModelMessages
  PROVE  /\ NormalizedModel(m) \in ModelMessages
         /\ NormalizedModel(NormalizedModel(m)) = NormalizedModel(m)
<1> DEFINE n == NormalizedModel(m)
<1>1. n \in ModelMessages /\ n.revision # ""
  BY DEF NormalizedModel, ModelMessages, OrDefault
<1>2. \A k \in ModelMessages : k.revision # "" => NormalizedModel(k) = k
  BY DEF NormalizedModel, ModelMessages, OrDefault
<1> HIDE DEF n
<1>3. QED
  BY <1>1, <1>2 DEF n

LEMMA DraftNormalizes ==
  ASSUME NEW d \in DraftMessages
  PROVE  /\ NormalizedDraft(d) \in DraftMessages
         /\ NormalizedDraft(NormalizedDraft(d)) = NormalizedDraft(d)
<1> DEFINE models == {NormalizedModel(m) : m \in d.model}
           policy == OrDefault(d.policy, {}, {[kind |-> "Fixed", count |-> DefaultDraftTokenCount]})
<1>1. d.model \in Optional(ModelMessages) /\ d.policy \in Optional(DraftPolicyMessages)
  BY DEF DraftMessages
<1>2. NormalizedDraft(d) = [model |-> models, policy |-> policy]
  BY DEF NormalizedDraft
<1>3. models \in Optional(ModelMessages) /\ {NormalizedModel(m) : m \in models} = models
  <2>1. CASE d.model = {}
    BY <2>1 DEF Optional
  <2>2. CASE d.model # {}
    <3>1. PICK m \in ModelMessages : d.model = {m}
      BY <1>1, <2>2 DEF Optional
    <3>2. models = {NormalizedModel(m)}
      BY <3>1
    <3>3. NormalizedModel(m) \in ModelMessages
      BY ModelNormalizes
    <3>4. NormalizedModel(NormalizedModel(m)) = NormalizedModel(m)
      BY ModelNormalizes
    <3> HIDE DEF models
    <3>5. QED
      BY <3>2, <3>3, <3>4 DEF Optional
  <2>3. QED
    BY <2>1, <2>2
<1>4. policy \in Optional(DraftPolicyMessages) /\ policy # {}
  <2>1. [kind |-> "Fixed", count |-> DefaultDraftTokenCount] \in DraftPolicyMessages
    BY DEF DraftPolicyMessages, DefaultDraftTokenCount
  <2>2. QED
    BY <1>1, <2>1 DEF OrDefault, Optional
<1> HIDE DEF models, policy
<1>5. NormalizedDraft([model |-> models, policy |-> policy])
        = [model |-> {NormalizedModel(m) : m \in models}, policy |-> policy]
  BY <1>4 DEF NormalizedDraft, OrDefault
<1>6. QED
  BY <1>2, <1>3, <1>4, <1>5 DEF DraftMessages

\* Profiles come from the file when there is one, and then not from the command line too.
LEMMA ResolvedIsRight ==
  ASSUME NEW options \in Optional(OrchestratorMessages), NEW files \in Optional(ProfileFiles),
         NEW o \in ResolvedOrchestrator(options, files)
  PROVE  /\ o \in OrchestratorMessages
         /\ \A f \in files : o.profiles = {f.profiles}
         /\ \A q \in options : q.profiles # {} => o.profiles = q.profiles
<1> DEFINE default == [routing |-> "RoundRobin", profiles |-> {<<DefaultProfile>>}]
           base == IF options = {} THEN default ELSE CHOOSE q \in options : TRUE
           With(p) == [base EXCEPT !.profiles = {p}]
<1>1. default \in OrchestratorMessages
  <2>1. DefaultProfile \in ProfileMessages
    BY DEF DefaultProfile, ProfileMessages
  <2>2. <<DefaultProfile>> \in Seq(ProfileMessages)
    BY <2>1
  <2>3. {<<DefaultProfile>>} \in Optional(Seq(ProfileMessages))
    BY <2>2, SingletonIsOptional
  <2>4. QED
    BY <2>3 DEF OrchestratorMessages, RoutingPolicies
<1>2. /\ base \in OrchestratorMessages /\ \A q \in options : q = base
  <2>1. CASE options = {}
    BY <1>1, <2>1
  <2>2. CASE options # {}
    BY <2>2 DEF Optional
  <2>3. QED
    BY <2>1, <2>2
<1>3. ResolvedOrchestrator(options, files)
        = IF files = {} THEN {base}
          ELSE IF \E q \in options : q.profiles # {} THEN {}
          ELSE {With(f.profiles) :
                  f \in {g \in files : g.readable /\ g.parses /\ g.profiles # <<>>}}
  BY DEF ResolvedOrchestrator
<1> HIDE DEF base
<1>4. CASE files = {}
  BY <1>2, <1>3, <1>4
<1>5. CASE files # {}
  <2>1. ~\E q \in options : q.profiles # {}
    BY <1>3, <1>5
  <2>2. PICK f \in files : o = With(f.profiles)
    BY <1>3, <1>5, <2>1
  <2>3. \A g \in files : g = f
    BY DEF Optional
  <2>4. f.profiles \in Seq(ProfileMessages)
    BY DEF Optional, ProfileFiles
  <2>5. {f.profiles} \in Optional(Seq(ProfileMessages))
    BY <2>4, SingletonIsOptional
  <2>6. o \in OrchestratorMessages /\ o.profiles = {f.profiles}
    BY <1>2, <2>2, <2>5 DEF OrchestratorMessages
  <2>7. QED
    BY <2>1, <2>3, <2>6
<1>6. QED
  BY <1>4, <1>5

-----------------------------------------------------------------------------
(* From one process to the other                                           *)

\* A message comes back from its text.
LEMMA TextRoundTrip ==
  ASSUME NEW message, message = [f \in DOMAIN message |-> message[f]]
  PROVE  ParseTextproto(FormatTextproto(message), DOMAIN message) = message
<1> DEFINE text == FormatTextproto(message)
<1>1. DOMAIN text = {f \in DOMAIN message : message[f] # FieldDefault(f)}
  BY DEF FormatTextproto
<1>2. \A f \in DOMAIN text : text[f] = message[f]
  BY DEF FormatTextproto
<1>3. ParseTextproto(text, DOMAIN message)
        = [f \in DOMAIN message |-> IF f \in DOMAIN text THEN text[f] ELSE FieldDefault(f)]
  BY DEF ParseTextproto
<1> HIDE DEF text
<1>4. \A f \in DOMAIN message :
        (IF f \in DOMAIN text THEN text[f] ELSE FieldDefault(f)) = message[f]
  BY <1>1, <1>2
<1>5. [f \in DOMAIN message |-> IF f \in DOMAIN text THEN text[f] ELSE FieldDefault(f)]
        = [f \in DOMAIN message |-> message[f]]
  BY <1>4
<1>6. QED
  BY <1>3, <1>5 DEF text

\* What the runner reads of the cache: the page size of a contiguous one is gone.
LEMMA KvCacheArrives ==
  ASSUME NEW kv \in KvMessages, KvCacheIsValid(kv)
  PROVE  LET main == FromKvCache(kv)
             read == ParseTextproto(FormatTextproto(ProtoKvCache(main)),
                       {"type", "page_tokens", "target_bytes", "draft_bytes", "publication"})
         IN  /\ FromKvCache(read) = main
             /\ main.cache.type \in {"Contiguous", "Paged"}
             /\ main.publication = kv.publication
             /\ kv.type = "PagedPrefix" =>
                  main.cache.type = "Paged" /\ main.cache.prefix_caching
<1> DEFINE p == IF kv.type = "Contiguous" THEN 0 ELSE kv.page_tokens
           sent == KvMessage(kv.type, p, kv.target_bytes, kv.draft_bytes, kv.publication)
           main == FromKvCache(kv)
           kind == IF kv.type = "Contiguous" THEN [type |-> "Contiguous"]
                   ELSE [type |-> "Paged", page_tokens |-> kv.page_tokens,
                         prefix_caching |-> kv.type = "PagedPrefix"]
<1>1. /\ kv.type \in {"Contiguous", "Paged", "PagedPrefix"}
      /\ kv.publication \in {"OnRequestCompletion", "Incremental"}
      /\ kv.page_tokens \in Nat /\ kv.target_bytes \in Nat /\ kv.draft_bytes \in Nat
  BY KvMessageIsItsFields DEF KvCacheIsValid, Named, KvTypes, Publications
<1>2. /\ Variant(kv.type) = kv.type /\ Variant(kv.publication) = kv.publication
  BY <1>1 DEF Variant, Named
<1>3. main = [cache |-> kind, target_bytes |-> kv.target_bytes,
              draft_bytes |-> {kv.draft_bytes} \ {0}, publication |-> kv.publication]
  <2>1. CASE kv.type = "Contiguous"
    BY <1>2, <2>1 DEF FromKvCache
  <2>2. CASE kv.type # "Contiguous"
    BY <1>1, <1>2, <2>2 DEF FromKvCache
  <2>3. QED
    BY <2>1, <2>2
<1>4. /\ main.cache = kind /\ main.target_bytes = kv.target_bytes
      /\ main.draft_bytes = {kv.draft_bytes} \ {0} /\ main.publication = kv.publication
  BY <1>3
<1>5. /\ (IF kind.type = "Paged" THEN kind.page_tokens ELSE 0) = p
      /\ kind.type = IF kv.type = "Contiguous" THEN "Contiguous" ELSE "Paged"
      /\ kv.type # "Contiguous" => kind.prefix_caching = (kv.type = "PagedPrefix")
  BY <1>1
<1>6. (IF main.draft_bytes = {} THEN 0 ELSE CHOOSE n \in main.draft_bytes : TRUE) = kv.draft_bytes
  <2>1. CASE kv.draft_bytes = 0
    BY <1>4, <2>1
  <2>2. CASE kv.draft_bytes # 0
    <3>1. main.draft_bytes = {kv.draft_bytes}
      BY <1>4, <2>2
    <3> HIDE DEF main
    <3>2. QED
      BY <3>1
  <2>3. QED
    BY <2>1, <2>2
<1> HIDE DEF main, kind
<1>7. ProtoKvCache(main) = sent
  <2>1. (IF kind.type # "Paged" THEN "Contiguous"
         ELSE IF kind.prefix_caching THEN "PagedPrefix" ELSE "Paged") = kv.type
    <3>1. CASE kv.type = "Contiguous"
      BY <1>5, <3>1
    <3>2. CASE kv.type = "Paged"
      BY <1>5, <3>2
    <3>3. CASE kv.type = "PagedPrefix"
      BY <1>5, <3>3
    <3>4. QED
      BY <1>1, <3>1, <3>2, <3>3
  <2>2. QED
    BY <1>4, <1>5, <1>6, <2>1 DEF ProtoKvCache, KvMessage
<1>8. /\ DOMAIN sent = {"type", "page_tokens", "target_bytes", "draft_bytes", "publication"}
      /\ sent = [f \in DOMAIN sent |-> sent[f]]
  BY DEF KvMessage
<1>9. ParseTextproto(FormatTextproto(ProtoKvCache(main)),
        {"type", "page_tokens", "target_bytes", "draft_bytes", "publication"}) = sent
  <2> HIDE DEF sent
  <2>1. QED
    BY <1>7, <1>8, TextRoundTrip
<1>10. FromKvCache(sent) = main
  <2>1. /\ sent.type = kv.type /\ sent.page_tokens = p /\ sent.target_bytes = kv.target_bytes
        /\ sent.draft_bytes = kv.draft_bytes /\ sent.publication = kv.publication
    BY DEF KvMessage
  <2> HIDE DEF sent
  <2>2. CASE kv.type = "Contiguous"
    BY <1>2, <1>3, <2>1, <2>2 DEF FromKvCache, kind
  <2>3. CASE kv.type # "Contiguous"
    BY <1>1, <1>2, <1>3, <2>1, <2>3 DEF FromKvCache, kind
  <2>4. QED
    BY <2>2, <2>3
<1> HIDE DEF sent
<1>11. QED
  BY <1>1, <1>4, <1>5, <1>9, <1>10 DEF main

\* The scheduler's part arrives as it is.
LEMMA SchedulerArrives ==
  ASSUME NEW sc \in SchedulerMessages, SchedulerIsValid(sc)
  PROVE  LET main == FromScheduler(sc)
             read == ParseTextproto(FormatTextproto(ProtoScheduler(main)),
                       {"batched", "active", "policy", "coordination"})
         IN  /\ FromScheduler(read) = main
             /\ main.policy = sc.policy /\ main.coordination = sc.coordination
<1> DEFINE main == FromScheduler(sc)
<1>1. Variant(sc.policy) = sc.policy /\ Variant(sc.coordination) = sc.coordination
  BY DEF SchedulerIsValid, Variant
<1>2. main = sc
  BY <1>1, SchedulerMessageIsItsFields DEF FromScheduler, SchedulerMessage
<1>3. ProtoScheduler(main) = sc
  BY <1>2, SchedulerMessageIsItsFields DEF ProtoScheduler, SchedulerMessage
<1>4. /\ DOMAIN sc = {"batched", "active", "policy", "coordination"}
      /\ sc = [f \in DOMAIN sc |-> sc[f]]
  BY DEF SchedulerMessages
<1>5. ParseTextproto(FormatTextproto(sc), {"batched", "active", "policy", "coordination"}) = sc
  BY <1>4, TextRoundTrip
<1> HIDE DEF main
<1>6. QED
  BY <1>2, <1>3, <1>5 DEF main

LEMMA ProfileConverts ==
  ASSUME NEW p \in ProfileMessages
  PROVE  ProtoProfile(FromProfile(p)) = p
  BY DEF ProfileMessages, ProtoProfile, FromProfile

\* So does the orchestrator's, through the profiles of the program.
LEMMA OrchestratorArrives ==
  ASSUME NEW o \in OrchestratorMessages, OrchestratorIsValid(o)
  PROVE  LET main == FromOrchestrator(o)
             read == ParseTextproto(FormatTextproto(ProtoOrchestrator(main)),
                       {"routing", "profiles"})
         IN  read = o /\ main.routing = o.routing
<1> DEFINE main == FromOrchestrator(o)
<1>1. PICK p \in Seq(ProfileMessages) : o.profiles = {p}
  BY DEF OrchestratorMessages, Optional, OrchestratorIsValid
<1>2. (CHOOSE q \in o.profiles : TRUE) = p /\ o.profiles # {}
  BY <1>1
<1>3. Variant(o.routing) = o.routing
  BY DEF OrchestratorIsValid, Variant
<1>4. main = [routing |-> o.routing, profiles |-> [n \in DOMAIN p |-> FromProfile(p[n])]]
  BY <1>2, <1>3 DEF FromOrchestrator
<1>5. \A n \in DOMAIN p : p[n] \in ProfileMessages
  OBVIOUS
<1>6. [n \in DOMAIN p |-> ProtoProfile(FromProfile(p[n]))] = p
  <2>1. \A n \in DOMAIN p : ProtoProfile(FromProfile(p[n])) = p[n]
    BY <1>5, ProfileConverts
  <2>2. p = [n \in DOMAIN p |-> p[n]]
    OBVIOUS
  <2>3. [n \in DOMAIN p |-> ProtoProfile(FromProfile(p[n]))] = [n \in DOMAIN p |-> p[n]]
    BY <2>1
  <2>4. QED
    BY <2>2, <2>3
<1>7. ProtoOrchestrator(main) = o
  <2> DEFINE converted == [n \in DOMAIN p |-> FromProfile(p[n])]
  <2>1. main.routing = o.routing /\ main.profiles = converted
    BY <1>4
  <2>2. [n \in DOMAIN converted |-> ProtoProfile(converted[n])]
          = [n \in DOMAIN p |-> ProtoProfile(FromProfile(p[n]))]
    OBVIOUS
  <2> HIDE DEF main, converted
  <2>3. [n \in DOMAIN main.profiles |-> ProtoProfile(main.profiles[n])] = p
    BY <1>6, <2>1, <2>2
  <2>4. ProtoOrchestrator(main) = [routing |-> o.routing, profiles |-> {p}]
    BY <2>1, <2>3 DEF ProtoOrchestrator
  <2>5. o = [routing |-> o.routing, profiles |-> o.profiles]
    BY DEF OrchestratorMessages
  <2>6. QED
    BY <1>1, <2>4, <2>5
<1>8. DOMAIN o = {"routing", "profiles"} /\ o = [f \in DOMAIN o |-> o[f]]
  BY DEF OrchestratorMessages
<1>9. ParseTextproto(FormatTextproto(o), {"routing", "profiles"}) = o
  BY <1>8, TextRoundTrip
<1>10. main.routing = o.routing
  BY <1>4
<1> HIDE DEF main
<1>11. QED
  BY <1>7, <1>9, <1>10 DEF main

\* The draft token count starts between the bounds of every valid policy.
LEMMA ControllerStartsInside ==
  ASSUME NEW p \in DraftPolicyMessages, DraftPolicyIsValid(p)
  PROVE  LET controller == DraftController(p)
         IN  /\ 0 < controller.bounds[1]
             /\ controller.bounds[1] <= controller.current
             /\ controller.current <= controller.bounds[2]
<1>1. CASE p.kind = "Fixed"
  <2>1. p.count \in Nat /\ p.count > 0
    BY <1>1 DEF DraftPolicyMessages, DraftPolicyIsValid
  <2>2. DraftController(p) = [bounds |-> <<p.count, p.count>>, current |-> p.count]
    BY <1>1 DEF DraftController
  <2>3. QED
    BY <2>1, <2>2
<1>2. CASE p.kind = "AcceptanceRate"
  <2>1. /\ p.minimum \in Nat /\ p.initial \in Nat /\ p.maximum \in Nat /\ p.minimum > 0
        /\ p.minimum <= p.initial /\ p.initial <= p.maximum
    BY <1>2 DEF DraftPolicyMessages, DraftPolicyIsValid, CountsAreValid
  <2>2. DraftController(p) = [bounds |-> <<p.minimum, p.maximum>>, current |-> p.initial,
                              thresholds |-> <<p.decrease, p.increase>>]
    BY <1>2 DEF DraftController
  <2>3. QED
    BY <2>1, <2>2
<1>3. CASE p.kind = "AcceptedLength"
  <2>1. /\ p.minimum \in Nat /\ p.initial \in Nat /\ p.maximum \in Nat /\ p.minimum > 0
        /\ p.minimum <= p.initial /\ p.initial <= p.maximum
    BY <1>3 DEF DraftPolicyMessages, DraftPolicyIsValid, CountsAreValid
  <2>2. DraftController(p) = [bounds |-> <<p.minimum, p.maximum>>, current |-> p.initial,
                              smoothed_accepted_length |-> p.initial - 1,
                              smoothing |-> p.smoothing]
    BY <1>3 DEF DraftController
  <2>3. QED
    BY <2>1, <2>2
<1>4. QED
  BY <1>1, <1>2, <1>3 DEF DraftPolicyIsValid

-----------------------------------------------------------------------------
(* The whole command line                                                  *)

\* What the main process works with: the command line with its orchestrator resolved
MainArgs ==
  [kv : KvMessages, scheduler : SchedulerMessages, orchestrator : OrchestratorMessages,
   threads : Nat, model : ModelMessages, draft : Optional(DraftMessages),
   devices : Seq({"Cpu", "Gpu"})]

LEMMA MainArgsAreTheirFields ==
  ASSUME NEW x \in MainArgs, NEW y \in MainArgs,
         x.kv = y.kv, x.scheduler = y.scheduler, x.orchestrator = y.orchestrator,
         x.threads = y.threads, x.model = y.model, x.draft = y.draft, x.devices = y.devices
  PROVE  x = y
  BY DEF MainArgs

LEMMA NormalizedFields ==
  ASSUME NEW x \in MainArgs
  PROVE  LET n == Normalized(x)
         IN  /\ n \in MainArgs
             /\ n.kv = NormalizedKvCache(x.kv) /\ n.scheduler = NormalizedScheduler(x.scheduler)
             /\ n.orchestrator = NormalizedOrchestrator(x.orchestrator)
             /\ n.threads = OrDefault(x.threads, 0, DefaultThreadCount)
             /\ n.model = NormalizedModel(x.model)
             /\ n.draft = {NormalizedDraft(d) : d \in x.draft} /\ n.devices = x.devices
<1> DEFINE drafts == {NormalizedDraft(d) : d \in x.draft}
           kv == NormalizedKvCache(x.kv)
           sc == NormalizedScheduler(x.scheduler)
           o == NormalizedOrchestrator(x.orchestrator)
           threads == OrDefault(x.threads, 0, DefaultThreadCount)
           model == NormalizedModel(x.model)
           n == Normalized(x)
<1>1. /\ x.kv \in KvMessages /\ x.scheduler \in SchedulerMessages
      /\ x.orchestrator \in OrchestratorMessages /\ x.threads \in Nat
      /\ x.model \in ModelMessages /\ x.draft \in Optional(DraftMessages)
      /\ x.devices \in Seq({"Cpu", "Gpu"})
  BY DEF MainArgs
<1>2. kv \in KvMessages
  BY <1>1, KvCacheNormalizes
<1>3. sc \in SchedulerMessages
  BY <1>1, SchedulerNormalizes
<1>4. o \in OrchestratorMessages
  BY <1>1, OrchestratorNormalizes
<1>5. threads \in Nat
  BY <1>1 DEF OrDefault, DefaultThreadCount
<1>6. model \in ModelMessages
  BY <1>1, ModelNormalizes
<1>7. drafts \in Optional(DraftMessages)
  <2>1. CASE x.draft = {}
    BY <2>1 DEF Optional
  <2>2. CASE x.draft # {}
    <3>1. PICK d \in DraftMessages : x.draft = {d}
      BY <1>1, <2>2 DEF Optional
    <3>2. drafts = {NormalizedDraft(d)}
      BY <3>1
    <3>3. NormalizedDraft(d) \in DraftMessages
      BY DraftNormalizes
    <3> HIDE DEF drafts
    <3>4. QED
      BY <3>2, <3>3, SingletonIsOptional
  <2>3. QED
    BY <2>1, <2>2
<1>8. n = [x EXCEPT !.kv = kv, !.scheduler = sc, !.orchestrator = o, !.threads = threads,
                    !.model = model, !.draft = drafts]
  BY DEF Normalized
<1> HIDE DEF drafts, kv, sc, o, threads, model, n
<1>9. /\ n \in MainArgs /\ n.kv = kv /\ n.scheduler = sc /\ n.orchestrator = o
      /\ n.threads = threads /\ n.model = model /\ n.draft = drafts /\ n.devices = x.devices
  BY <1>2, <1>3, <1>4, <1>5, <1>6, <1>7, <1>8 DEF MainArgs
<1>10. QED
  BY <1>9 DEF n, drafts, kv, sc, o, threads, model

\* Normalizing twice is normalizing once.
LEMMA NormalizedTwice ==
  ASSUME NEW x \in MainArgs
  PROVE  Normalized(Normalized(x)) = Normalized(x)
<1> DEFINE n == Normalized(x)
           m == Normalized(n)
<1>1. /\ x.kv \in KvMessages /\ x.scheduler \in SchedulerMessages
      /\ x.orchestrator \in OrchestratorMessages /\ x.threads \in Nat
      /\ x.model \in ModelMessages /\ x.draft \in Optional(DraftMessages)
  BY DEF MainArgs
<1>2. /\ n \in MainArgs
      /\ n.kv = NormalizedKvCache(x.kv) /\ n.scheduler = NormalizedScheduler(x.scheduler)
      /\ n.orchestrator = NormalizedOrchestrator(x.orchestrator)
      /\ n.threads = OrDefault(x.threads, 0, DefaultThreadCount)
      /\ n.model = NormalizedModel(x.model)
      /\ n.draft = {NormalizedDraft(d) : d \in x.draft} /\ n.devices = x.devices
  BY NormalizedFields
<1> HIDE DEF n
<1>3. /\ m \in MainArgs
      /\ m.kv = NormalizedKvCache(n.kv) /\ m.scheduler = NormalizedScheduler(n.scheduler)
      /\ m.orchestrator = NormalizedOrchestrator(n.orchestrator)
      /\ m.threads = OrDefault(n.threads, 0, DefaultThreadCount)
      /\ m.model = NormalizedModel(n.model)
      /\ m.draft = {NormalizedDraft(d) : d \in n.draft} /\ m.devices = n.devices
  BY <1>2, NormalizedFields
<1> HIDE DEF m
<1>4. m.kv = n.kv
  BY <1>1, <1>2, <1>3, KvCacheNormalizes
<1>5. m.scheduler = n.scheduler
  BY <1>1, <1>2, <1>3, SchedulerNormalizes
<1>6. m.orchestrator = n.orchestrator
  BY <1>1, <1>2, <1>3, OrchestratorNormalizes
<1>7. m.threads = n.threads
  BY <1>2, <1>3 DEF OrDefault, DefaultThreadCount
<1>8. m.model = n.model
  BY <1>1, <1>2, <1>3, ModelNormalizes
<1>9. m.draft = n.draft
  <2>1. CASE x.draft = {}
    BY <1>2, <1>3, <2>1
  <2>2. CASE x.draft # {}
    <3>1. PICK d \in DraftMessages : x.draft = {d}
      BY <1>1, <2>2 DEF Optional
    <3>2. n.draft = {NormalizedDraft(d)}
      BY <1>2, <3>1
    <3>3. m.draft = {NormalizedDraft(NormalizedDraft(d))}
      BY <1>3, <3>2
    <3>4. QED
      BY <3>2, <3>3, DraftNormalizes
  <2>3. QED
    BY <2>1, <2>2
<1>10. m = n
  BY <1>2, <1>3, <1>4, <1>5, <1>6, <1>7, <1>8, <1>9, MainArgsAreTheirFields
<1>11. QED
  BY <1>10 DEF m, n

\* What the command line says arrives in the arguments.
LEMMA ParsedIsRight ==
  ASSUME NEW raw \in CommandLines, NEW args \in Parsed(raw)
  PROVE  /\ args \in MainArgs /\ Normalized(args) = args
         /\ \A f \in DOMAIN raw.kv : raw.kv[f] \in {FieldDefault(f), args.kv[f]}
         /\ \A f \in DOMAIN raw.scheduler :
              raw.scheduler[f] \in {FieldDefault(f), args.scheduler[f]}
         /\ \A f \in raw.files : args.orchestrator.profiles = {f.profiles}
         /\ \A o \in raw.orchestrator :
              o.profiles # {} => args.orchestrator.profiles = o.profiles
<1> DEFINE Resolved(o) ==
             [kv |-> raw.kv, scheduler |-> raw.scheduler, orchestrator |-> o,
              threads |-> raw.threads, model |-> raw.model, draft |-> raw.draft,
              devices |-> raw.devices]
<1>1. PICK o \in ResolvedOrchestrator(raw.orchestrator, raw.files) : args = Normalized(Resolved(o))
  BY DEF Parsed
<1>2. /\ raw.kv \in KvMessages /\ raw.scheduler \in SchedulerMessages
      /\ raw.orchestrator \in Optional(OrchestratorMessages)
      /\ raw.files \in Optional(ProfileFiles) /\ raw.threads \in Nat
      /\ raw.model \in ModelMessages /\ raw.draft \in Optional(DraftMessages)
      /\ raw.devices \in Seq({"Cpu", "Gpu"})
  BY DEF CommandLines
<1>3. /\ o \in OrchestratorMessages
      /\ \A f \in raw.files : o.profiles = {f.profiles}
      /\ \A q \in raw.orchestrator : q.profiles # {} => o.profiles = q.profiles
  BY <1>2, ResolvedIsRight
<1> DEFINE x == Resolved(o)
<1>4. /\ x \in MainArgs /\ x.kv = raw.kv /\ x.scheduler = raw.scheduler /\ x.orchestrator = o
  BY <1>2, <1>3 DEF MainArgs
<1> HIDE DEF x
<1>5. args = Normalized(x)
  BY <1>1 DEF x
<1>6. /\ args \in MainArgs /\ args.kv = NormalizedKvCache(raw.kv)
      /\ args.scheduler = NormalizedScheduler(raw.scheduler)
      /\ args.orchestrator = NormalizedOrchestrator(o)
  BY <1>4, <1>5, NormalizedFields
<1>7. Normalized(args) = args
  BY <1>4, <1>5, NormalizedTwice
<1>8. \A f \in DOMAIN raw.kv : raw.kv[f] \in {FieldDefault(f), args.kv[f]}
  BY <1>2, <1>6, KvCacheNormalizes
<1>9. \A f \in DOMAIN raw.scheduler : raw.scheduler[f] \in {FieldDefault(f), args.scheduler[f]}
  BY <1>2, <1>6, SchedulerNormalizes
<1>10. o.profiles # {} => args.orchestrator.profiles = o.profiles
  BY <1>3, <1>6, OrchestratorNormalizes
<1>11. \A f \in raw.files : args.orchestrator.profiles = {f.profiles}
  <2> TAKE f \in raw.files
  <2>1. o.profiles = {f.profiles} /\ {f.profiles} # {}
    BY <1>3
  <2>2. QED
    BY <1>10, <2>1
<1>12. \A q \in raw.orchestrator : q.profiles # {} => args.orchestrator.profiles = q.profiles
  BY <1>3, <1>10
<1>13. QED
  BY <1>6, <1>7, <1>8, <1>9, <1>11, <1>12

\* What the main process accepts arrives in the runner.
LEMMA AcceptedArgsArrive ==
  ASSUME NEW args \in MainArgs, Accepted(args)
  PROVE  LET main == MainProcess(args)
             runner_args == RunnerArgs(CommandLine(main))
             runner == ModelRunner(runner_args)
         IN  /\ ~Panics(main) /\ RunnerAccepts(runner_args) /\ ~Panics(runner)
             /\ runner = main
             /\ UsesPrefixCache(runner) =>
                  runner.kv.cache.type = "Paged" /\ runner.kv.cache.prefix_caching
             /\ \A d \in runner.draft :
                  LET controller == DraftController(d.policy)
                  IN  /\ 0 < controller.bounds[1]
                      /\ controller.bounds[1] <= controller.current
                      /\ controller.current <= controller.bounds[2]
<1> DEFINE main == MainProcess(args)
           line == CommandLine(main)
           runner_args == RunnerArgs(line)
           runner == ModelRunner(runner_args)
           drafts == {[policy |-> CHOOSE p \in d.policy : TRUE] : d \in args.draft}
<1>1. /\ args.kv \in KvMessages /\ args.scheduler \in SchedulerMessages
      /\ args.orchestrator \in OrchestratorMessages /\ args.draft \in Optional(DraftMessages)
      /\ KvCacheIsValid(args.kv) /\ SchedulerIsValid(args.scheduler)
      /\ OrchestratorIsValid(args.orchestrator) /\ args.devices # <<>>
      /\ CoordinationIsValid(args.scheduler.coordination, args.kv.type)
      /\ RoutingIsValid(args.orchestrator.routing, args.kv.type)
      /\ \A d \in args.draft : DraftIsValid(d)
  BY DEF MainArgs, Accepted
<1>2. /\ main.kv = FromKvCache(args.kv) /\ main.scheduler = FromScheduler(args.scheduler)
      /\ main.orchestrator = FromOrchestrator(args.orchestrator)
      /\ main.devices = args.devices /\ main.draft = drafts
      /\ main = [kv |-> main.kv, scheduler |-> main.scheduler, orchestrator |-> main.orchestrator,
                 devices |-> main.devices, draft |-> main.draft]
  BY DEF MainProcess
<1> HIDE DEF main, drafts
<1>3. /\ line.kv = FormatTextproto(ProtoKvCache(main.kv))
      /\ line.scheduler = FormatTextproto(ProtoScheduler(main.scheduler))
      /\ line.orchestrator = FormatTextproto(ProtoOrchestrator(main.orchestrator))
      /\ line.devices = main.devices /\ line.draft = main.draft
  BY DEF CommandLine
<1> HIDE DEF line
<1>4. /\ runner_args.kv = ParseTextproto(line.kv, {"type", "page_tokens", "target_bytes",
                                                    "draft_bytes", "publication"})
      /\ runner_args.scheduler
           = ParseTextproto(line.scheduler, {"batched", "active", "policy", "coordination"})
      /\ runner_args.orchestrator = ParseTextproto(line.orchestrator, {"routing", "profiles"})
      /\ runner_args.devices = line.devices /\ runner_args.draft = line.draft
  BY DEF RunnerArgs
<1> HIDE DEF runner_args
<1>5. runner = [kv |-> FromKvCache(runner_args.kv),
                scheduler |-> FromScheduler(runner_args.scheduler),
                orchestrator |-> FromOrchestrator(runner_args.orchestrator),
                devices |-> runner_args.devices, draft |-> runner_args.draft]
  BY DEF ModelRunner
<1> HIDE DEF runner
<1>6. /\ FromKvCache(runner_args.kv) = main.kv
      /\ main.kv.cache.type \in {"Contiguous", "Paged"}
      /\ main.kv.publication = args.kv.publication
      /\ args.kv.type = "PagedPrefix" =>
           main.kv.cache.type = "Paged" /\ main.kv.cache.prefix_caching
  BY <1>1, <1>2, <1>3, <1>4, KvCacheArrives
<1>7. /\ FromScheduler(runner_args.scheduler) = main.scheduler
      /\ main.scheduler.policy = args.scheduler.policy
      /\ main.scheduler.coordination = args.scheduler.coordination
  BY <1>1, <1>2, <1>3, <1>4, SchedulerArrives
<1>8. /\ runner_args.orchestrator = args.orchestrator
      /\ main.orchestrator.routing = args.orchestrator.routing
  BY <1>1, <1>2, <1>3, <1>4, OrchestratorArrives
<1>9. runner = main
  BY <1>2, <1>3, <1>4, <1>5, <1>6, <1>7, <1>8
<1>10. ~Panics(main)
  BY <1>1, <1>6, <1>7, <1>8 DEF Panics, Panic, KvCacheIsValid, SchedulerIsValid,
     OrchestratorIsValid, Named, KvMessages, Publications, SchedulerMessages, PrefillPolicies,
     CoordinationPolicies,
     OrchestratorMessages, RoutingPolicies
<1>11. \A d \in drafts : d.policy \in DraftPolicyMessages /\ DraftPolicyIsValid(d.policy)
  <2> SUFFICES ASSUME NEW e \in args.draft
               PROVE  /\ (CHOOSE p \in e.policy : TRUE) \in DraftPolicyMessages
                      /\ DraftPolicyIsValid(CHOOSE p \in e.policy : TRUE)
    BY DEF drafts
  <2>1. e \in DraftMessages
    BY <1>1 DEF Optional
  <2>2. e.policy \in Optional(DraftPolicyMessages)
    BY <2>1 DEF DraftMessages
  <2>3. PICK p \in e.policy : DraftPolicyIsValid(p)
    BY <1>1 DEF DraftIsValid
  <2>4. e.policy = {p} /\ p \in DraftPolicyMessages
    BY <2>2, <2>3 DEF Optional
  <2>5. (CHOOSE q \in e.policy : TRUE) = p
    BY <2>4
  <2>6. QED
    BY <2>3, <2>4, <2>5
<1>12. RunnerAccepts(runner_args)
  BY <1>1, <1>2, <1>3, <1>4, <1>8, <1>11 DEF RunnerAccepts
<1>13. UsesPrefixCache(runner) => runner.kv.cache.type = "Paged" /\ runner.kv.cache.prefix_caching
  <2>1. ASSUME UsesPrefixCache(main)
        PROVE  args.kv.type = "PagedPrefix"
    BY <1>1, <1>6, <1>7, <1>8, <2>1 DEF UsesPrefixCache, KvCacheIsValid, CoordinationIsValid,
       RoutingIsValid
  <2>2. QED
    BY <1>6, <1>9, <2>1
<1>14. \A d \in runner.draft :
         LET controller == DraftController(d.policy)
         IN  /\ 0 < controller.bounds[1]
             /\ controller.bounds[1] <= controller.current
             /\ controller.current <= controller.bounds[2]
  BY <1>2, <1>9, <1>11, ControllerStartsInside
<1>15. QED
  BY <1>9, <1>10, <1>12, <1>13, <1>14 DEF runner, runner_args, line, main

\* Every command line: what the main process accepts is what it was told, normalized once for
\* all, and the runner that it starts accepts it, converts it without a panic and works with
\* the same values.
THEOREM AcceptedConfigurationsAgree ==
  ASSUME NEW raw \in CommandLines
  PROVE  ConfigurationAgrees(raw)
<1> SUFFICES ASSUME NEW args \in Parsed(raw)
             PROVE  /\ Normalized(args) = args
                    /\ \A f \in DOMAIN raw.kv : raw.kv[f] \in {FieldDefault(f), args.kv[f]}
                    /\ \A f \in DOMAIN raw.scheduler :
                         raw.scheduler[f] \in {FieldDefault(f), args.scheduler[f]}
                    /\ \A f \in raw.files : args.orchestrator.profiles = {f.profiles}
                    /\ \A o \in raw.orchestrator :
                         o.profiles # {} => args.orchestrator.profiles = o.profiles
                    /\ Accepted(args) =>
                         LET main == MainProcess(args)
                             runner_args == RunnerArgs(CommandLine(main))
                             runner == ModelRunner(runner_args)
                         IN  /\ ~Panics(main) /\ RunnerAccepts(runner_args) /\ ~Panics(runner)
                             /\ runner = main
                             /\ UsesPrefixCache(runner) =>
                                  runner.kv.cache.type = "Paged" /\ runner.kv.cache.prefix_caching
                             /\ \A d \in runner.draft :
                                  LET controller == DraftController(d.policy)
                                  IN  /\ 0 < controller.bounds[1]
                                      /\ controller.bounds[1] <= controller.current
                                      /\ controller.current <= controller.bounds[2]
  BY DEF ConfigurationAgrees
<1>1. args \in MainArgs
  BY ParsedIsRight
<1>2. QED
  BY <1>1, ParsedIsRight, AcceptedArgsArrive

-----------------------------------------------------------------------------
(* The invariants of MCAlgorithms *)

LEMMA StartupCasesAreStartups == StartupCases \subseteq Startups
<1> DEFINE plain == <<FALSE, FALSE>>
           last == <<FALSE, FALSE, TRUE>>
           whole == <<FALSE, FALSE, FALSE>>
           mixed == <<FALSE, TRUE, FALSE, TRUE>>
<1>1. ASSUME NEW l \in Nat \ {0}, NEW w \in Nat \ {0}, NEW c \in Nat, NEW u \in Seq(BOOLEAN),
             NEW i \in Nat, NEW o \in Nat
      PROVE  File(l, w, c, u, i, o) \in ModelFiles
  BY DEF File, ModelFiles
<1>2. /\ plain \in Seq(BOOLEAN) /\ last \in Seq(BOOLEAN) /\ whole \in Seq(BOOLEAN)
      /\ mixed \in Seq(BOOLEAN)
  OBVIOUS
<1>3. /\ Targets = {File(2, 1, 7, last, 2, 3), File(3, 2, 20, plain, 2, 3)}
      /\ Drafts = {{}, {File(1, 1, 5, plain, 2, 2)}, {File(3, 1, 30, whole, 3, 3)},
                   {File(3, 1, 30, mixed, 3, 3)}}
  BY DEF Targets, Drafts
<1> HIDE DEF plain, last, whole, mixed
<1>4. /\ File(2, 1, 7, last, 2, 3) \in ModelFiles /\ File(3, 2, 20, plain, 2, 3) \in ModelFiles
      /\ File(1, 1, 5, plain, 2, 2) \in ModelFiles /\ File(3, 1, 30, whole, 3, 3) \in ModelFiles
      /\ File(3, 1, 30, mixed, 3, 3) \in ModelFiles
  BY <1>1, <1>2
<1>5. Targets \subseteq ModelFiles /\ Drafts \subseteq {{}} \cup {{f} : f \in ModelFiles}
  BY <1>3, <1>4
<1>6. /\ <<>> \in Seq({"Cpu", "Gpu"}) /\ <<"Cpu">> \in Seq({"Cpu", "Gpu"})
      /\ <<"Gpu", "Cpu", "Gpu">> \in Seq({"Cpu", "Gpu"})
  OBVIOUS
<1>7. {[type |-> "Contiguous", page_tokens |-> 1], [type |-> "Paged", page_tokens |-> 2]}
        \subseteq Caches
  BY DEF Caches
<1> DEFINE lists == {<<>>, <<"Cpu">>, <<"Gpu", "Cpu", "Gpu">>}
           caches == {[type |-> "Contiguous", page_tokens |-> 1],
                      [type |-> "Paged", page_tokens |-> 2]}
<1>8. StartupCases = [target : Targets, draft : Drafts, tokenizer_size : {2, 3},
                      draft_tokenizer : {"none", "same", "other"}, devices : lists,
                      activation : {"F16", "F32"}, gpu_build : {TRUE}, cache : caches,
                      target_bytes : {24, 130}, draft_bytes : {0, 50}, max_active : {3}]
  BY DEF StartupCases
<1>9. lists \subseteq Seq({"Cpu", "Gpu"}) /\ caches \subseteq Caches
  BY <1>6, <1>7
<1> HIDE DEF lists, caches
<1>10. QED
  <2> SUFFICES ASSUME NEW s \in StartupCases
               PROVE  s \in Startups
    OBVIOUS
  <2>1. /\ s.target \in Targets /\ s.draft \in Drafts /\ s.tokenizer_size \in {2, 3}
        /\ s.draft_tokenizer \in {"none", "same", "other"} /\ s.devices \in lists
        /\ s.activation \in {"F16", "F32"} /\ s.gpu_build \in {TRUE} /\ s.cache \in caches
        /\ s.target_bytes \in {24, 130} /\ s.draft_bytes \in {0, 50} /\ s.max_active \in {3}
    BY <1>8
  <2>2. s = [target |-> s.target, draft |-> s.draft, tokenizer_size |-> s.tokenizer_size,
             draft_tokenizer |-> s.draft_tokenizer, devices |-> s.devices,
             activation |-> s.activation, gpu_build |-> s.gpu_build, cache |-> s.cache,
             target_bytes |-> s.target_bytes, draft_bytes |-> s.draft_bytes,
             max_active |-> s.max_active]
    BY <1>8
  <2>3. QED
    <3>1. s.target \in ModelFiles /\ s.draft \in {{}} \cup {{f} : f \in ModelFiles}
      BY <1>5, <2>1
    <3>2. s.devices \in Seq({"Cpu", "Gpu"}) /\ s.cache \in Caches
      BY <1>9, <2>1
    <3>3. /\ s.tokenizer_size \in Nat /\ s.target_bytes \in Nat /\ s.draft_bytes \in Nat
          /\ s.max_active \in Nat
      BY <2>1
    <3>4. s.gpu_build \in BOOLEAN
      BY <2>1, Zenon
    <3>5. QED
      BY <2>1, <2>2, <3>1, <3>2, <3>3, <3>4 DEF Startups

LEMMA ConfigurationCasesAreCommandLines == ConfigurationCases \subseteq CommandLines
<1>1. GoodModel \in ModelMessages
  BY DEF GoodModel, ModelMessages
<1>2. Models \subseteq ModelMessages
  BY <1>1 DEF Models, ModelMessages
<1>3. /\ Quiet \in CommandLines
      /\ Quiet.scheduler \in SchedulerMessages
  BY <1>1 DEF Quiet, CommandLines, KvMessages, KvTypes, Publications, SchedulerMessages,
     PrefillPolicies, CoordinationPolicies, Optional
<1>4. CacheCases \subseteq CommandLines
  <2> DEFINE Case(kv, c, r) == [Quiet EXCEPT !.kv = kv, !.scheduler.coordination = c,
                                             !.orchestrator = {[routing |-> r, profiles |-> {}]}]
  <2>0. CacheCases = {Case(kv, c, r) : kv \in KvCaches, c \in Coordinations, r \in Routings}
    BY DEF CacheCases
  <2> HIDE DEF Case
  <2> SUFFICES ASSUME NEW kv \in KvCaches, NEW c \in Coordinations, NEW r \in Routings
               PROVE  Case(kv, c, r) \in CommandLines
    BY <2>0
  <2>1. kv \in KvMessages
    BY DEF KvCaches, KvMessages, KvTypes, Publications
  <2>2. [Quiet.scheduler EXCEPT !.coordination = c] \in SchedulerMessages
    BY <1>3 DEF SchedulerMessages, Coordinations, CoordinationPolicies
  <2>3. [routing |-> r, profiles |-> {}] \in OrchestratorMessages
    BY DEF OrchestratorMessages, Routings, RoutingPolicies, Optional
  <2> DEFINE orchestrator == {[routing |-> r, profiles |-> {}]}
             scheduler == [Quiet.scheduler EXCEPT !.coordination = c]
  <2>4. orchestrator \in Optional(OrchestratorMessages)
    BY <2>3, SingletonIsOptional
  <2>5. [Quiet EXCEPT !.kv = kv, !.scheduler.coordination = c, !.orchestrator = orchestrator]
          = [Quiet EXCEPT !.kv = kv, !.scheduler = scheduler, !.orchestrator = orchestrator]
    <3> HIDE DEF orchestrator
    <3>1. QED
      BY <1>3 DEF CommandLines
  <2> HIDE DEF orchestrator, scheduler
  <2>6. [Quiet EXCEPT !.kv = kv, !.scheduler = scheduler, !.orchestrator = orchestrator]
          \in CommandLines
    BY <1>3, <2>1, <2>2, <2>4 DEF CommandLines, scheduler
  <2>7. QED
    BY <2>5, <2>6 DEF orchestrator, Case
<1>5. SchedulerCases \subseteq CommandLines
  <2> DEFINE cases == [batched : {0, 9}, active : {0, 3},
                       coordination : {"Unspecified", "Independent"},
                       policy : {"Unspecified", "Unknown", "ShortestPrefillFirst"}]
  <2>1. cases \subseteq SchedulerMessages
    BY DEF SchedulerMessages, PrefillPolicies, CoordinationPolicies
  <2> DEFINE Case(s, t) == [Quiet EXCEPT !.scheduler = s, !.threads = t]
  <2>0. SchedulerCases = {Case(s, t) : s \in cases, t \in {0, 2}}
    BY DEF SchedulerCases
  <2> HIDE DEF cases, Case
  <2> SUFFICES ASSUME NEW s \in cases, NEW t \in {0, 2}
               PROVE  Case(s, t) \in CommandLines
    BY <2>0
  <2>2. s \in SchedulerMessages /\ t \in Nat
    BY <2>1
  <2>3. QED
    BY <1>3, <2>2 DEF CommandLines, Case
<1>6. ProfileCases \subseteq CommandLines
  <2>1. {DefaultProfile, SlowProfile, FastProfile} \subseteq ProfileMessages
    <3>1. DefaultProfile \in ProfileMessages
      BY DEF DefaultProfile, ProfileMessages
    <3>2. SlowProfile \in ProfileMessages
      BY <3>1 DEF SlowProfile, ProfileMessages
    <3>3. FastProfile \in ProfileMessages
      BY <3>1 DEF FastProfile, ProfileMessages
    <3>4. QED
      BY <3>1, <3>2, <3>3
  <2>2. ProfileLists \subseteq Seq(ProfileMessages)
    BY <2>1 DEF ProfileLists
  <2> DEFINE orchestrators == {{}} \cup {{[routing |-> "RoundRobin", profiles |-> p]} :
                                           p \in {{}} \cup {{l} : l \in ProfileLists}}
             readings == {{}} \cup {{[readable |-> y, parses |-> z, profiles |-> l]} :
                                      y, z \in BOOLEAN, l \in ProfileLists}
  <2>3. orchestrators \subseteq Optional(OrchestratorMessages)
    BY <2>2 DEF Optional, OrchestratorMessages, RoutingPolicies
  <2>4. readings \subseteq Optional(ProfileFiles)
    BY <2>2 DEF Optional, ProfileFiles
  <2> DEFINE Case(o, f) == [Quiet EXCEPT !.orchestrator = o, !.files = f]
  <2>0. ProfileCases = {Case(o, f) : o \in orchestrators, f \in readings}
    BY DEF ProfileCases
  <2> HIDE DEF orchestrators, readings, Case
  <2> SUFFICES ASSUME NEW o \in orchestrators, NEW f \in readings
               PROVE  Case(o, f) \in CommandLines
    BY <2>0
  <2>5. o \in Optional(OrchestratorMessages) /\ f \in Optional(ProfileFiles)
    BY <2>3, <2>4
  <2>6. QED
    BY <1>3, <2>5 DEF CommandLines, Case
<1>7. ModelCases \subseteq CommandLines
  <2>1. DraftPolicies \subseteq DraftPolicyMessages
    BY DEF DraftPolicies, DraftPolicyMessages, AdaptiveCounts
  <2> DEFINE Case(m, d, p) == [Quiet EXCEPT !.model = m, !.draft = {[model |-> d, policy |-> p]}]
             models == {{}} \cup {{n} : n \in Models}
             policies == {{}} \cup {{q} : q \in DraftPolicies}
  <2>0. ModelCases = {Case(m, d, p) : m \in Models, d \in models, p \in policies}
    BY DEF ModelCases
  <2> HIDE DEF Case, models, policies
  <2> SUFFICES ASSUME NEW m \in Models, NEW d \in models, NEW p \in policies
               PROVE  Case(m, d, p) \in CommandLines
    BY <2>0
  <2>2. [model |-> d, policy |-> p] \in DraftMessages
    BY <1>2, <2>1 DEF DraftMessages, Optional, models, policies
  <2> DEFINE draft == {[model |-> d, policy |-> p]}
  <2>3. draft \in Optional(DraftMessages)
    BY <2>2, SingletonIsOptional
  <2> HIDE DEF draft
  <2>4. [Quiet EXCEPT !.model = m, !.draft = draft] \in CommandLines
    BY <1>2, <1>3, <2>3 DEF CommandLines
  <2>5. QED
    BY <2>4 DEF draft, Case
<1>8. QED
  BY <1>4, <1>5, <1>6, <1>7 DEF ConfigurationCases

-----------------------------------------------------------------------------
(* Sums *)

\* The element that a sum over s takes first.
Taken(s) == CHOOSE x \in s : TRUE

Rest(s) == s \ {Taken(s)}

\* f is what the iteration of MapThenFoldSet has of the weights w for each set in S.
IsTotal(f, w, S) == f = [s \in S |-> IF s = {} THEN 0 ELSE w[Taken(s)] + f[Rest(s)]]

Total(w) == CHOOSE f : IsTotal(f, w, SUBSET DOMAIN w)

LEMMA MassIsTotal ==
  ASSUME NEW w
  PROVE  Mass(w) = Total(w)[DOMAIN w]
BY DEF Mass, MapThenSumSet, MapThenFoldSet, Total, IsTotal, Taken, Rest

LEMMA RestIsSmaller ==
  ASSUME NEW D, IsFiniteSet(D), NEW s \in SUBSET D, s # {}
  PROVE  /\ Taken(s) \in s /\ Taken(s) \in D
         /\ Rest(s) \in SUBSET D /\ s = Rest(s) \cup {Taken(s)}
         /\ Cardinality(s) \in Nat /\ Cardinality(Rest(s)) \in Nat
         /\ Cardinality(s) = Cardinality(Rest(s)) + 1
<1>1. Taken(s) \in s
  BY DEF Taken
<1>2. IsFiniteSet(s)
  BY FS_Subset
<1>3. Cardinality(s) \in Nat
  BY <1>2, FS_CardinalityType
<1>4. /\ IsFiniteSet(Rest(s))
      /\ Cardinality(Rest(s)) = Cardinality(s) - 1
  BY <1>1, <1>2, FS_RemoveElement DEF Rest
<1>5. Cardinality(Rest(s)) \in Nat
  BY <1>4, FS_CardinalityType
<1>6. Rest(s) \in SUBSET D /\ s = Rest(s) \cup {Taken(s)}
  BY <1>1 DEF Rest
<1>7. QED
  BY <1>1, <1>3, <1>4, <1>5, <1>6

\* What holds of the empty set and, when it holds of the rest of a set, of the set, holds of
\* every subset of a finite set.
LEMMA SubsetInduction ==
  ASSUME NEW D, IsFiniteSet(D), NEW Good \in SUBSET SUBSET D, {} \in Good,
         \A s \in SUBSET D : s # {} /\ Rest(s) \in Good => s \in Good
  PROVE  SUBSET D \subseteq Good
<1> DEFINE Sizes == {k \in Nat : \E s \in SUBSET D : s \notin Good /\ Cardinality(s) = k}
<1>1. SUFFICES ASSUME NEW u \in SUBSET D, u \notin Good PROVE FALSE
  OBVIOUS
<1>2. Cardinality(u) \in Sizes
  BY <1>1, RestIsSmaller
<1>3. PICK k \in Sizes : \A j \in Sizes : k <= j
  <2>1. Sizes \in SUBSET Nat /\ Sizes # {}
    BY <1>2
  <2> HIDE DEF Sizes
  <2>2. QED
    BY <2>1, LeastElement
<1>4. PICK s \in SUBSET D : s \notin Good /\ Cardinality(s) = k
  BY <1>3
<1>5. s # {}
  BY <1>4
<1>6. /\ Rest(s) \in SUBSET D /\ Rest(s) \notin Good
      /\ Cardinality(Rest(s)) \in Nat /\ k = Cardinality(Rest(s)) + 1
  BY <1>4, <1>5, RestIsSmaller
<1>7. Cardinality(Rest(s)) \in Sizes
  BY <1>6
<1>8. k <= Cardinality(Rest(s))
  BY <1>3, <1>7
<1>9. QED
  BY <1>6, <1>8

LEMMA TotalStep ==
  ASSUME NEW f, NEW w, NEW S, IsTotal(f, w, S), NEW s \in S
  PROVE  /\ s = {} => f[s] = 0
         /\ s # {} => f[s] = w[Taken(s)] + f[Rest(s)]
<1> DEFINE F == [t \in S |-> IF t = {} THEN 0 ELSE w[Taken(t)] + f[Rest(t)]]
<1>1. f = F
  BY DEF IsTotal
<1>2. F[s] = IF s = {} THEN 0 ELSE w[Taken(s)] + f[Rest(s)]
  OBVIOUS
<1> HIDE DEF F
<1>3. QED
  BY <1>1, <1>2

\* The iteration is defined on all subsets of a finite set: were there a first size that it does
\* not reach, it would from the size before.
LEMMA TotalExists ==
  ASSUME NEW D, IsFiniteSet(D), NEW w
  PROVE  \E f : IsTotal(f, w, SUBSET D)
<1> DEFINE Upto(k) == {s \in SUBSET D : Cardinality(s) <= k}
           Unreached == {k \in Nat : \A f : ~ IsTotal(f, w, Upto(k))}
<1>1. Unreached = {}
  <2>1. SUFFICES ASSUME Unreached # {} PROVE FALSE
    OBVIOUS
  <2>2. PICK k \in Unreached : \A j \in Unreached : k <= j
    <3>1. Unreached \in SUBSET Nat
      OBVIOUS
    <3> HIDE DEF Unreached
    <3>2. QED
      BY <2>1, <3>1, LeastElement
  <2>3. CASE k = 0
    <3>1. Upto(0) = {{}}
      <4>1. \A s \in SUBSET D : s # {} => ~ (Cardinality(s) <= 0)
        <5> TAKE s \in SUBSET D
        <5>1. s # {} => Cardinality(s) \in Nat /\ \E m \in Nat : Cardinality(s) = m + 1
          BY RestIsSmaller
        <5>2. QED
          BY <5>1
      <4>2. Cardinality({}) = 0
        BY FS_EmptySet
      <4>3. QED
        BY <4>1, <4>2
    <3> DEFINE f == [s \in {{}} |-> 0]
    <3>2. f = [s \in {{}} |-> IF s = {} THEN 0 ELSE w[Taken(s)] + f[Rest(s)]]
      OBVIOUS
    <3>3. IsTotal(f, w, Upto(0))
      BY <3>1, <3>2 DEF IsTotal
    <3>4. QED
      BY <2>2, <2>3, <3>3
  <2>4. CASE k # 0
    <3>1. k \in Nat /\ k - 1 \in Nat /\ ~ (k <= k - 1)
      BY <2>2, <2>4
    <3>2. PICK f : IsTotal(f, w, Upto(k - 1))
      BY <2>2, <3>1
    <3> DEFINE g == [s \in Upto(k) |-> IF Cardinality(s) <= k - 1 THEN f[s]
                                       ELSE w[Taken(s)] + f[Rest(s)]]
    <3>3. \A s \in Upto(k) : g[s] = IF s = {} THEN 0 ELSE w[Taken(s)] + g[Rest(s)]
      <4> TAKE s \in Upto(k)
      <4>1. CASE s = {}
        <5>1. Cardinality(s) = 0
          BY <4>1, FS_EmptySet
        <5>2. s \in Upto(k - 1) /\ g[s] = f[s]
          BY <3>1, <5>1
        <5>3. QED
          BY <3>2, <4>1, <5>2, TotalStep
      <4>2. CASE s # {}
        <5>1. /\ Rest(s) \in SUBSET D /\ Cardinality(Rest(s)) \in Nat
              /\ Cardinality(s) = Cardinality(Rest(s)) + 1
          BY <4>2, RestIsSmaller
        <5>2. Rest(s) \in Upto(k - 1) /\ Rest(s) \in Upto(k) /\ g[Rest(s)] = f[Rest(s)]
          BY <3>1, <5>1
        <5>3. CASE Cardinality(s) <= k - 1
          <6>1. s \in Upto(k - 1) /\ g[s] = f[s]
            BY <5>3
          <6> HIDE DEF g, Upto
          <6>2. f[s] = w[Taken(s)] + f[Rest(s)]
            BY <3>2, <4>2, <6>1, TotalStep
          <6>3. QED
            BY <4>2, <5>2, <6>1, <6>2
        <5>4. CASE ~ (Cardinality(s) <= k - 1)
          <6>1. g[s] = w[Taken(s)] + f[Rest(s)]
            BY <5>4
          <6> HIDE DEF g, Upto
          <6>2. QED
            BY <4>2, <5>2, <6>1
        <5>5. QED
          BY <5>3, <5>4
      <4>3. QED
        BY <4>1, <4>2
    <3>4. IsTotal(g, w, Upto(k))
      <4> DEFINE G == [s \in Upto(k) |-> IF s = {} THEN 0 ELSE w[Taken(s)] + g[Rest(s)]]
      <4>1. g = G
        BY <3>3
      <4>2. QED
        BY <4>1 DEF IsTotal
    <3> HIDE DEF g
    <3>5. QED
      BY <2>2, <3>4
  <2>5. QED
    BY <2>3, <2>4
<1>2. Cardinality(D) \in Nat /\ Upto(Cardinality(D)) = SUBSET D
  BY FS_CardinalityType, FS_Subset
<1>3. \E f : IsTotal(f, w, Upto(Cardinality(D)))
  BY <1>1, <1>2
<1> HIDE DEF Upto
<1>4. QED
  BY <1>2, <1>3

LEMMA TotalFacts ==
  ASSUME NEW D, IsFiniteSet(D), NEW w \in [D -> Int]
  PROVE  /\ Mass(w) = Total(w)[D]
         /\ Total(w)[{}] = 0
         /\ \A s \in SUBSET D :
              s # {} => Total(w)[s] = w[Taken(s)] + Total(w)[Rest(s)]
<1>1. IsTotal(Total(w), w, SUBSET D)
  BY TotalExists DEF Total
<1>2. Mass(w) = Total(w)[D]
  BY MassIsTotal
<1>3. Total(w)[{}] = 0
  <2>1. {} \in SUBSET D
    OBVIOUS
  <2>2. QED
    BY ONLY <1>1, <2>1, TotalStep
<1>4. ASSUME NEW s \in SUBSET D, s # {}
      PROVE  Total(w)[s] = w[Taken(s)] + Total(w)[Rest(s)]
  BY ONLY <1>1, <1>4, TotalStep
<1>5. QED
  BY <1>2, <1>3, <1>4

\* The sum of naturals is a natural, and no less than any of them.
LEMMA MassIsNatural ==
  ASSUME NEW D, IsFiniteSet(D), NEW w \in [D -> Nat]
  PROVE  Mass(w) \in Nat /\ \A x \in D : w[x] <= Mass(w)
<1> DEFINE Good == {s \in SUBSET D : /\ Total(w)[s] \in Nat
                                     /\ \A x \in s : w[x] <= Total(w)[s]}
<1>0. w \in [D -> Int]
  OBVIOUS
<1>1. {} \in Good
  BY <1>0, TotalFacts
<1>2. \A s \in SUBSET D : s # {} /\ Rest(s) \in Good => s \in Good
  <2>1. SUFFICES ASSUME NEW s \in SUBSET D, s # {}, Rest(s) \in Good PROVE s \in Good
    BY Zenon
  <2>2. /\ Taken(s) \in D /\ s = Rest(s) \cup {Taken(s)}
        /\ Total(w)[s] = w[Taken(s)] + Total(w)[Rest(s)]
    BY <1>0, <2>1, TotalFacts, RestIsSmaller
  <2>3. w[Taken(s)] \in Nat /\ Total(w)[Rest(s)] \in Nat
    BY <2>1, <2>2
  <2>4. Total(w)[s] \in Nat
    BY <2>2, <2>3
  <2>5. \A x \in s : w[x] <= Total(w)[s]
    <3> TAKE x \in s
    <3>1. CASE x = Taken(s)
      BY <2>2, <2>3, <3>1
    <3>2. CASE x \in Rest(s)
      BY <2>1, <2>2, <2>3, <3>2
    <3>3. QED
      BY <2>2, <3>1, <3>2
  <2>6. QED
    BY <2>4, <2>5
<1>3. D \in Good
  <2> HIDE DEF Good
  <2>1. Good \in SUBSET SUBSET D
    BY DEF Good
  <2>2. QED
    BY <1>1, <1>2, <2>1, SubsetInduction
<1>4. Mass(w) = Total(w)[D]
  BY <1>0, TotalFacts
<1>5. QED
  BY <1>3, <1>4

IsSum(w, u, v, D) ==
  /\ w \in [D -> Int] /\ u \in [D -> Int] /\ v \in [D -> Int]
  /\ \A x \in D : w[x] = u[x] + v[x]

\* The sum of sums.
LEMMA MassAdds ==
  ASSUME NEW D, IsFiniteSet(D), NEW u, NEW v, NEW w, IsSum(w, u, v, D)
  PROVE  Mass(w) = Mass(u) + Mass(v) /\ Mass(u) \in Int /\ Mass(v) \in Int
<1>0. /\ w \in [D -> Int] /\ u \in [D -> Int] /\ v \in [D -> Int]
      /\ \A x \in D : w[x] = u[x] + v[x]
  BY DEF IsSum
<1> DEFINE Good == {s \in SUBSET D : /\ Total(u)[s] \in Int /\ Total(v)[s] \in Int
                                     /\ Total(w)[s] = Total(u)[s] + Total(v)[s]}
<1>1. {} \in Good
  BY <1>0, TotalFacts
<1>2. \A s \in SUBSET D : s # {} /\ Rest(s) \in Good => s \in Good
  <2>1. SUFFICES ASSUME NEW s \in SUBSET D, s # {}, Rest(s) \in Good PROVE s \in Good
    BY Zenon
  <2>2. /\ Taken(s) \in D
        /\ Total(u)[s] = u[Taken(s)] + Total(u)[Rest(s)]
        /\ Total(v)[s] = v[Taken(s)] + Total(v)[Rest(s)]
        /\ Total(w)[s] = w[Taken(s)] + Total(w)[Rest(s)]
    BY <1>0, <2>1, TotalFacts, RestIsSmaller
  <2>3. /\ u[Taken(s)] \in Int /\ v[Taken(s)] \in Int
        /\ w[Taken(s)] = u[Taken(s)] + v[Taken(s)]
    BY <1>0, <2>2
  <2>4. QED
    BY <2>1, <2>2, <2>3
<1>3. D \in Good
  <2> HIDE DEF Good
  <2>1. Good \in SUBSET SUBSET D
    BY DEF Good
  <2>2. QED
    BY <1>1, <1>2, <2>1, SubsetInduction
<1>4. Mass(u) = Total(u)[D] /\ Mass(v) = Total(v)[D] /\ Mass(w) = Total(w)[D]
  BY <1>0, TotalFacts
<1>5. QED
  BY <1>3, <1>4

IsMultiple(w, c, u, D) ==
  w \in [D -> Int] /\ u \in [D -> Int] /\ c \in Int /\ \A x \in D : w[x] = c * u[x]

\* The sum of multiples.
LEMMA MassScales ==
  ASSUME NEW D, IsFiniteSet(D), NEW u, NEW c, NEW w, IsMultiple(w, c, u, D)
  PROVE  Mass(w) = c * Mass(u) /\ Mass(u) \in Int
<1>0. w \in [D -> Int] /\ u \in [D -> Int] /\ c \in Int /\ \A x \in D : w[x] = c * u[x]
  BY DEF IsMultiple
<1> DEFINE Good == {s \in SUBSET D : Total(u)[s] \in Int /\ Total(w)[s] = c * Total(u)[s]}
<1>1. {} \in Good
  BY <1>0, TotalFacts
<1>2. \A s \in SUBSET D : s # {} /\ Rest(s) \in Good => s \in Good
  <2>1. SUFFICES ASSUME NEW s \in SUBSET D, s # {}, Rest(s) \in Good PROVE s \in Good
    BY Zenon
  <2>2. /\ Taken(s) \in D
        /\ Total(u)[s] = u[Taken(s)] + Total(u)[Rest(s)]
        /\ Total(w)[s] = w[Taken(s)] + Total(w)[Rest(s)]
    BY <1>0, <2>1, TotalFacts, RestIsSmaller
  <2>3. u[Taken(s)] \in Int /\ w[Taken(s)] = c * u[Taken(s)]
    BY <1>0, <2>2
  <2>4. Total(u)[Rest(s)] \in Int /\ Total(w)[Rest(s)] = c * Total(u)[Rest(s)]
    BY <2>1
  <2>5. \A a, b \in Int : c * a + c * b = c * (a + b)
    BY <1>0
  <2>6. Total(w)[s] = c * u[Taken(s)] + c * Total(u)[Rest(s)]
    BY <2>2, <2>3, <2>4
  <2>7. c * u[Taken(s)] + c * Total(u)[Rest(s)] = c * (u[Taken(s)] + Total(u)[Rest(s)])
    BY <2>3, <2>4, <2>5
  <2>8. Total(w)[s] = c * Total(u)[s]
    BY <2>2, <2>6, <2>7
  <2>9. Total(u)[s] \in Int
    BY <2>2, <2>3, <2>4
  <2>10. QED
    BY <2>8, <2>9
<1>3. D \in Good
  <2> HIDE DEF Good
  <2>1. Good \in SUBSET SUBSET D
    BY DEF Good
  <2>2. QED
    BY <1>1, <1>2, <2>1, SubsetInduction
<1>4. Mass(u) = Total(u)[D] /\ Mass(w) = Total(w)[D]
  BY <1>0, TotalFacts
<1>5. QED
  BY <1>3, <1>4

-----------------------------------------------------------------------------
(* Verification *)

\* Weights that are multiples of others have their law.
LEMMA MultiplesHaveTheLaw ==
  ASSUME NEW D, IsFiniteSet(D), NEW f, NEW g, NEW c, IsMultiple(f, c, g, D)
  PROVE  SameLaw(f, g)
<1>0. f \in [D -> Int] /\ g \in [D -> Int] /\ c \in Int /\ \A x \in D : f[x] = c * g[x]
  BY DEF IsMultiple
<1>1. Mass(f) = c * Mass(g) /\ Mass(g) \in Int
  BY MassScales
<1>2. \A x \in D : f[x] * Mass(g) = g[x] * Mass(f)
  <2> TAKE x \in D
  <2>1. f[x] = c * g[x] /\ g[x] \in Int
    BY <1>0
  <2>2. \A a, m \in Int : (c * a) * m = a * (c * m)
    BY <1>0
  <2>3. QED
    BY <1>1, <2>1, <2>2
<1>3. QED
  BY <1>0, <1>2 DEF SameLaw

\* The distance of two laws is the sum of what the first has more.
LEMMA VariationIsMass ==
  ASSUME NEW D, IsFiniteSet(D), NEW p \in [D -> Nat], NEW q \in [D -> Nat]
  PROVE  /\ Residual(p, q) \in [D -> Nat]
         /\ \A x \in D : /\ p[x] > q[x] => Residual(p, q)[x] = p[x] - q[x]
                         /\ p[x] <= q[x] => Residual(p, q)[x] = 0
         /\ TotalVariation(p, q) = Mass(Residual(p, q))
         /\ TotalVariation(p, q) \in Nat
<1>1. Residual(p, q) \in [D -> Nat]
  BY DEF Residual
<1>2. \A x \in D : /\ p[x] > q[x] => Residual(p, q)[x] = p[x] - q[x]
                   /\ p[x] <= q[x] => Residual(p, q)[x] = 0
  BY DEF Residual
<1>3. TotalVariation(p, q) = Mass(Residual(p, q))
  BY DEF TotalVariation, Residual, Mass, MapThenSumSet, MapThenFoldSet
<1>4. Mass(Residual(p, q)) \in Nat
  BY <1>1, MassIsNatural
<1>5. QED
  BY <1>1, <1>2, <1>3, <1>4

\* Of two laws of the same sum, one has as much more as the other.
LEMMA VariationIsSymmetric ==
  ASSUME NEW D, IsFiniteSet(D), NEW p \in [D -> Nat], NEW q \in [D -> Nat], Mass(p) = Mass(q)
  PROVE  TotalVariation(p, q) = TotalVariation(q, p)
<1> DEFINE more == Residual(p, q)
           less == Residual(q, p)
           top == [x \in D |-> IF p[x] > q[x] THEN p[x] ELSE q[x]]
<1>1. /\ more \in [D -> Nat] /\ less \in [D -> Nat]
      /\ TotalVariation(p, q) = Mass(more) /\ TotalVariation(q, p) = Mass(less)
      /\ \A x \in D : /\ p[x] > q[x] => more[x] = p[x] - q[x]
                      /\ p[x] <= q[x] => more[x] = 0
                      /\ q[x] > p[x] => less[x] = q[x] - p[x]
                      /\ q[x] <= p[x] => less[x] = 0
  BY VariationIsMass
<1>2. top \in [D -> Int] /\ p \in [D -> Int] /\ q \in [D -> Int]
  OBVIOUS
<1> HIDE DEF more, less
<1>3. \A x \in D : top[x] = q[x] + more[x] /\ top[x] = p[x] + less[x]
  BY <1>1
<1>4. more \in [D -> Int] /\ less \in [D -> Int]
  BY <1>1
<1>5. IsSum(top, q, more, D) /\ IsSum(top, p, less, D)
  <2> HIDE DEF top
  <2>1. QED
    BY <1>2, <1>3, <1>4 DEF IsSum
<1> HIDE DEF top
<1>6. /\ Mass(top) = Mass(q) + Mass(more) /\ Mass(q) \in Int /\ Mass(more) \in Int
      /\ Mass(top) = Mass(p) + Mass(less) /\ Mass(less) \in Int
  BY ONLY IsFiniteSet(D), <1>5, MassAdds
<1>7. QED
  BY <1>1, <1>6

\* Laws of the same sum without a distance are the same.
LEMMA NoVariation ==
  ASSUME NEW D, IsFiniteSet(D), NEW p \in [D -> Nat], NEW q \in [D -> Nat], Mass(p) = Mass(q),
         TotalVariation(p, q) = 0
  PROVE  \A x \in D : p[x] = q[x]
<1>1. TotalVariation(q, p) = 0
  BY VariationIsSymmetric
<1>2. \A u, v \in [D -> Nat] : TotalVariation(u, v) = 0 => \A x \in D : u[x] <= v[x]
  <2> TAKE u, v \in [D -> Nat]
  <2>1. SUFFICES ASSUME TotalVariation(u, v) = 0, NEW x \in D PROVE u[x] <= v[x]
    OBVIOUS
  <2>2. /\ Residual(u, v) \in [D -> Nat] /\ Mass(Residual(u, v)) = 0
        /\ u[x] > v[x] => Residual(u, v)[x] = u[x] - v[x]
    BY <2>1, VariationIsMass
  <2>3. Residual(u, v)[x] <= 0
    BY <2>2, MassIsNatural
  <2>4. QED
    BY <2>2, <2>3
<1>3. QED
  <2>1. \A x \in D : p[x] <= q[x] /\ q[x] <= p[x]
    BY <1>1, <1>2
  <2>2. QED
    BY <2>1

\* The distance of multiples.
LEMMA VariationScales ==
  ASSUME NEW D, IsFiniteSet(D), NEW p \in [D -> Nat], NEW q \in [D -> Nat], NEW c \in Nat,
         NEW u \in [D -> Nat], NEW v \in [D -> Nat],
         IsMultiple(u, c, p, D), IsMultiple(v, c, q, D)
  PROVE  TotalVariation(u, v) = c * TotalVariation(p, q)
<1>0. \A x \in D : u[x] = c * p[x] /\ v[x] = c * q[x]
  BY DEF IsMultiple
<1> DEFINE more == Residual(u, v)
           one == Residual(p, q)
<1>1. /\ more \in [D -> Nat] /\ one \in [D -> Nat]
      /\ TotalVariation(u, v) = Mass(more) /\ TotalVariation(p, q) = Mass(one)
      /\ \A x \in D : /\ u[x] > v[x] => more[x] = u[x] - v[x]
                      /\ u[x] <= v[x] => more[x] = 0
                      /\ p[x] > q[x] => one[x] = p[x] - q[x]
                      /\ p[x] <= q[x] => one[x] = 0
  BY VariationIsMass
<1> HIDE DEF more, one
<1>2. \A x \in D : more[x] = c * one[x]
  <2> TAKE x \in D
  <2>1. p[x] \in Nat /\ q[x] \in Nat /\ u[x] = c * p[x] /\ v[x] = c * q[x]
    BY <1>0
  <2>2. CASE p[x] <= q[x]
    <3>1. u[x] <= v[x]
      BY <2>1, <2>2, ProductGrows
    <3>2. c * 0 = 0
      OBVIOUS
    <3>3. QED
      BY <1>1, <2>2, <3>1, <3>2
  <2>3. CASE p[x] > q[x]
    <3>1. v[x] <= u[x]
      <4>1. q[x] <= p[x]
        BY <2>1, <2>3
      <4>2. QED
        BY <2>1, <4>1, ProductGrows
    <3>2. one[x] = p[x] - q[x]
      BY <1>1, <2>3
    <3>3. c * (p[x] - q[x]) = c * p[x] - c * q[x]
      BY <2>1
    <3>4. more[x] = u[x] - v[x]
      BY <1>1, <3>1
    <3>5. QED
      BY <2>1, <3>2, <3>3, <3>4
  <2>4. QED
    BY <2>1, <2>2, <2>3
<1>3. IsMultiple(more, c, one, D)
  BY <1>1, <1>2 DEF IsMultiple
<1>4. Mass(more) = c * Mass(one)
  BY ONLY IsFiniteSet(D), <1>3, MassScales
<1>5. QED
  BY <1>1, <1>4

\* The parts of OutcomeLaw: its scale, the weight of each draft token that is kept, the weight
\* that is rejected, and the mentored law that SamplingFollowsTheTarget compares it with.
Scale(p, q) == IF TotalVariation(p, q) = 0 THEN 1 ELSE TotalVariation(p, q)

KeptWeight(p, q, b, x) ==
  (q[x] * Scale(p, q) * Acceptance(p, q, b, x)[1]) \div Acceptance(p, q, b, x)[2]

LostWeight(p, q, b, x) == q[x] * Scale(p, q) - KeptWeight(p, q, b, x)

Kept(p, q, b) == [x \in DOMAIN p |-> KeptWeight(p, q, b, x)]

Lost(p, q, b) == [x \in DOMAIN p |-> LostWeight(p, q, b, x)]

Mentored(p, q, b) ==
  IF TotalVariation(p, q) <= b THEN q
  ELSE [x \in DOMAIN p |-> b * q[x] + (TotalVariation(p, q) - b) * p[x]]

LEMMA OutcomeIs ==
  ASSUME NEW p, NEW q, NEW b
  PROVE  OutcomeLaw(p, q, b) =
           IF Mass(Lost(p, q, b)) = 0 THEN Kept(p, q, b)
           ELSE [x \in DOMAIN p |-> Kept(p, q, b)[x] * Mass(Residual(p, q))
                                    + Mass(Lost(p, q, b)) * Residual(p, q)[x]]
<1>1. Mass(Lost(p, q, b)) = MapThenSumSet(LAMBDA x : LostWeight(p, q, b, x), DOMAIN p)
  <2> DEFINE Is(f) == f = [s \in SUBSET DOMAIN p |->
                             IF s = {} THEN 0
                             ELSE LostWeight(p, q, b, Taken(s)) + f[Rest(s)]]
  <2>1. MapThenSumSet(LAMBDA x : LostWeight(p, q, b, x), DOMAIN p)
          = (CHOOSE f : Is(f))[DOMAIN p]
    BY DEF MapThenSumSet, MapThenFoldSet, Taken, Rest
  <2>2. ASSUME NEW f PROVE Is(f) <=> IsTotal(f, Lost(p, q, b), SUBSET DOMAIN p)
    <3>1. \A s \in SUBSET DOMAIN p : s # {} =>
            LostWeight(p, q, b, Taken(s)) = Lost(p, q, b)[Taken(s)]
      BY DEF Taken, Lost
    <3>2. QED
      BY <3>1 DEF IsTotal
  <2> HIDE DEF Is
  <2>3. (CHOOSE f : Is(f)) = (CHOOSE f : IsTotal(f, Lost(p, q, b), SUBSET DOMAIN p))
    BY <2>2
  <2>4. DOMAIN Lost(p, q, b) = DOMAIN p
    BY DEF Lost
  <2>5. QED
    BY <2>1, <2>3, <2>4, MassIsTotal DEF Total
<1>2. OutcomeLaw(p, q, b) =
        IF MapThenSumSet(LAMBDA x : LostWeight(p, q, b, x), DOMAIN p) = 0
        THEN [x \in DOMAIN p |-> KeptWeight(p, q, b, x)]
        ELSE [x \in DOMAIN p |->
                KeptWeight(p, q, b, x) * Mass(Residual(p, q))
                + MapThenSumSet(LAMBDA y : LostWeight(p, q, b, y), DOMAIN p)
                  * Residual(p, q)[x]]
  BY DEF OutcomeLaw, LostWeight, KeptWeight, Scale
<1>3. QED
  BY <1>1, <1>2 DEF Kept

\* What is kept of a draft token: all of it when the target has it more, or within the budget,
\* and the mentored weight otherwise.
LEMMA KeptIs ==
  ASSUME NEW D, IsFiniteSet(D), NEW p \in [D -> Nat], NEW q \in [D -> Nat], NEW b \in Nat,
         NEW x \in D
  PROVE  /\ p[x] >= q[x] \/ TotalVariation(p, q) <= b => Kept(p, q, b)[x] = q[x] * Scale(p, q)
         /\ p[x] < q[x] /\ TotalVariation(p, q) > b =>
              Kept(p, q, b)[x] = b * q[x] + (TotalVariation(p, q) - b) * p[x]
<1> DEFINE tv == TotalVariation(p, q)
           a == Acceptance(p, q, b, x)
<1>1. /\ p[x] \in Nat /\ q[x] \in Nat /\ tv \in Nat /\ Scale(p, q) \in Nat
      /\ tv > 0 => Scale(p, q) = tv
  BY VariationIsMass DEF Scale
<1>2. Kept(p, q, b)[x] = (q[x] * Scale(p, q) * a[1]) \div a[2]
  BY DEF Kept, KeptWeight
<1>3. CASE p[x] >= q[x] \/ tv <= b
  <2>1. a[1] = 1 /\ a[2] = 1
    BY <1>3 DEF Acceptance
  <2> HIDE DEF a
  <2>2. q[x] * Scale(p, q) \in Nat
    BY <1>1
  <2>3. \A k \in Nat : (k * 1) \div 1 = k
    BY ProductDivided
  <2>4. Kept(p, q, b)[x] = q[x] * Scale(p, q)
    BY <1>2, <2>1, <2>2, <2>3
  <2>5. QED
    BY <1>1, <1>3, <2>4
<1>4. CASE p[x] < q[x] /\ tv > b
  <2> DEFINE e == b * q[x] + (tv - b) * p[x]
             d == tv * q[x]
  <2>1. a[1] = e /\ a[2] = d
    BY <1>1, <1>4 DEF Acceptance
  <2> HIDE DEF a
  <2>2. tv \in Nat \ {0} /\ q[x] \in Nat \ {0} /\ tv - b \in Nat /\ Scale(p, q) = tv
    BY <1>1, <1>4
  <2> HIDE DEF tv
  <2>3. e \in Nat /\ d \in Nat \ {0}
    <3>1. \A k, l \in Nat \ {0} : k * l \in Nat \ {0}
      <4> TAKE k, l \in Nat \ {0}
      <4>1. 1 * l <= k * l
        BY ProductGrows
      <4>2. QED
        BY <4>1
    <3>2. b * q[x] \in Nat /\ (tv - b) * p[x] \in Nat
      BY <1>1, <2>2
    <3>3. QED
      BY <2>2, <3>1, <3>2
  <2> HIDE DEF e
  <2>4. q[x] * tv * e = e * d
    BY <1>1, <2>2, <2>3
  <2> HIDE DEF d
  <2>5. Kept(p, q, b)[x] = e
    BY <1>2, <2>1, <2>2, <2>3, <2>4, ProductDivided
  <2>6. QED
    BY <1>1, <1>4, <2>5 DEF e, tv
<1>5. QED
  BY <1>1, <1>3, <1>4

\* The law of the outcome is a multiple of the mentored law.
LEMMA OutcomeIsMentored ==
  ASSUME NEW D, IsFiniteSet(D), NEW p \in [D -> Nat], NEW q \in [D -> Nat], NEW b \in Nat,
         Mass(p) = Mass(q)
  PROVE  /\ Mentored(p, q, b) \in [D -> Nat]
         /\ OutcomeLaw(p, q, b) \in [D -> Nat]
         /\ Scale(p, q) \in Nat \ {0}
         /\ IsMultiple(OutcomeLaw(p, q, b), Scale(p, q), Mentored(p, q, b), D)
<1> DEFINE tv == TotalVariation(p, q)
           kept == Kept(p, q, b)
           lost == Lost(p, q, b)
           more == Residual(p, q)
           less == Residual(q, p)
           law == OutcomeLaw(p, q, b)
<1>0. SUFFICES /\ Mentored(p, q, b) \in [D -> Nat]
               /\ law \in [D -> Nat]
               /\ Scale(p, q) \in Nat \ {0}
               /\ \A x \in D : law[x] = Scale(p, q) * Mentored(p, q, b)[x]
  BY DEF IsMultiple
<1>1. /\ tv \in Nat /\ tv = Mass(more) /\ tv = Mass(less)
      /\ more \in [D -> Nat] /\ less \in [D -> Nat]
      /\ \A x \in D : /\ p[x] > q[x] => more[x] = p[x] - q[x]
                      /\ p[x] <= q[x] => more[x] = 0
                      /\ q[x] > p[x] => less[x] = q[x] - p[x]
                      /\ q[x] <= p[x] => less[x] = 0
  BY VariationIsMass, VariationIsSymmetric
<1>2. Scale(p, q) \in Nat \ {0} /\ (tv > 0 => Scale(p, q) = tv)
  BY <1>1 DEF Scale
<1>3. \A x \in D : p[x] \in Nat /\ q[x] \in Nat
  OBVIOUS
<1>4. law = IF Mass(lost) = 0 THEN kept
            ELSE [x \in D |-> kept[x] * Mass(more) + Mass(lost) * more[x]]
  BY OutcomeIs
<1>5. \A x \in D : lost[x] = q[x] * Scale(p, q) - kept[x]
  BY DEF Lost, LostWeight, Kept
<1>6. \A x \in D :
        /\ p[x] >= q[x] \/ tv <= b => kept[x] = q[x] * Scale(p, q)
        /\ p[x] < q[x] /\ tv > b => kept[x] = b * q[x] + (tv - b) * p[x]
  BY KeptIs
<1>7. DOMAIN kept = D /\ kept = [x \in D |-> kept[x]] /\ lost = [x \in D |-> lost[x]]
  BY DEF Kept, Lost
<1> HIDE DEF kept, lost, more, less, law
<1>8. CASE tv <= b
  <2>1. Mentored(p, q, b) = q
    BY <1>8 DEF Mentored
  <2>2. \A x \in D : kept[x] = q[x] * Scale(p, q) /\ kept[x] = Scale(p, q) * q[x] /\ kept[x] \in Nat
    BY <1>2, <1>3, <1>6, <1>8
  <2>3. \A x \in D : lost[x] = 0 * q[x] /\ lost[x] \in Int
    BY <1>2, <1>3, <1>5, <2>2
  <2>4. Mass(lost) = 0
    <3>1. IsMultiple(lost, 0, q, D)
      BY <1>7, <2>3 DEF IsMultiple
    <3>2. Mass(lost) = 0 * Mass(q) /\ Mass(q) \in Int
      BY ONLY IsFiniteSet(D), <3>1, MassScales
    <3>3. QED
      BY <3>2
  <2>5. law = kept
    BY <1>4, <2>4
  <2>6. kept \in [D -> Nat]
    BY <1>7, <2>2
  <2>7. QED
    BY <1>2, <2>1, <2>2, <2>5, <2>6 DEF law
<1>9. CASE tv > b
  <2> DEFINE m == Mentored(p, q, b)
  <2>1. tv - b \in Nat \ {0} /\ tv \in Nat \ {0} /\ Scale(p, q) = tv
    BY <1>1, <1>2, <1>9
  <2>2. m \in [D -> Nat] /\ \A x \in D : m[x] = b * q[x] + (tv - b) * p[x]
    <3>1. m = [x \in D |-> b * q[x] + (tv - b) * p[x]]
      BY <1>1, <1>9 DEF Mentored
    <3>2. \A x \in D : b * q[x] + (tv - b) * p[x] \in Nat
      <4> TAKE x \in D
      <4>1. b * q[x] \in Nat
        BY <1>3
      <4>2. (tv - b) * p[x] \in Nat
        BY <1>3, <2>1
      <4>3. QED
        BY <4>1, <4>2
    <3> HIDE DEF m
    <3>3. QED
      BY <3>1, <3>2
  <2> HIDE DEF m
  <2>3. \A x \in D : lost[x] = (tv - b) * less[x]
    <3> TAKE x \in D
    <3>1. CASE p[x] >= q[x]
      <4>1. kept[x] = q[x] * tv /\ less[x] = 0
        BY <1>1, <1>3, <1>6, <2>1, <3>1
      <4>2. lost[x] = 0
        BY <1>3, <1>5, <2>1, <4>1
      <4>3. (tv - b) * 0 = 0
        BY <2>1
      <4>4. QED
        BY <4>1, <4>2, <4>3
    <3>2. CASE p[x] < q[x]
      <4>1. kept[x] = b * q[x] + (tv - b) * p[x] /\ less[x] = q[x] - p[x]
        BY <1>1, <1>3, <1>6, <1>9, <3>2
      <4>2. lost[x] = q[x] * tv - (b * q[x] + (tv - b) * p[x])
        BY <1>5, <2>1, <4>1
      <4>3. \A t, c, k, l \in Int : k * t - (c * k + (t - c) * l) = (t - c) * (k - l)
        OBVIOUS
      <4>4. QED
        BY <1>1, <1>3, <4>1, <4>2, <4>3
    <3>3. QED
      BY <1>3, <3>1, <3>2
  <2>4. Mass(lost) = (tv - b) * tv
    <3>1. lost \in [D -> Int] /\ less \in [D -> Int] /\ tv - b \in Int
      <4>1. \A x \in D : (tv - b) * less[x] \in Int
        BY <1>1, <2>1
      <4>2. QED
        BY <1>1, <1>7, <2>1, <2>3, <4>1
    <3> HIDE DEF tv
    <3>2. IsMultiple(lost, tv - b, less, D)
      BY <2>3, <3>1 DEF IsMultiple
    <3>3. Mass(lost) = (tv - b) * Mass(less)
      BY ONLY IsFiniteSet(D), <3>2, MassScales
    <3>4. QED
      BY <1>1, <3>3
  <2>5. Mass(lost) # 0
    <3>1. 1 * tv <= (tv - b) * tv
      BY <2>1, ProductGrows
    <3>2. QED
      BY <2>1, <2>4, <3>1
  <2>6. law = [x \in D |-> kept[x] * tv + ((tv - b) * tv) * more[x]]
    BY <1>1, <1>4, <2>4, <2>5
  <2>7. \A x \in D : kept[x] * tv + ((tv - b) * tv) * more[x] = tv * m[x]
    <3> TAKE x \in D
    <3>1. CASE p[x] <= q[x]
      <4>1. more[x] = 0 /\ kept[x] = m[x]
        <5>1. more[x] = 0
          BY <1>1, <1>3, <3>1
        <5>2. CASE p[x] < q[x]
          BY <1>6, <1>9, <2>2, <5>1, <5>2
        <5>3. CASE p[x] = q[x]
          <6>1. kept[x] = q[x] * tv /\ m[x] = b * q[x] + (tv - b) * q[x]
            BY <1>3, <1>6, <2>1, <2>2, <5>3
          <6>2. \A t, c, k \in Int : k * t = c * k + (t - c) * k
            OBVIOUS
          <6>3. QED
            BY <1>1, <1>3, <5>1, <6>1, <6>2
        <5>4. QED
          BY <1>3, <3>1, <5>2, <5>3
      <4>2. m[x] \in Nat /\ (tv - b) * tv \in Int
        BY <2>1, <2>2
      <4>3. \A k, t, c \in Int : k * t + c * 0 = t * k
        OBVIOUS
      <4>4. QED
        BY <1>1, <4>1, <4>2, <4>3
    <3>2. CASE p[x] > q[x]
      <4>1. /\ kept[x] = q[x] * tv /\ more[x] = p[x] - q[x]
            /\ m[x] = b * q[x] + (tv - b) * p[x]
        BY <1>1, <1>3, <1>6, <2>1, <2>2, <3>2
      <4>2. \A t, c, k, l \in Int :
              (k * t) * t + ((t - c) * t) * (l - k) = t * (c * k + (t - c) * l)
        <5> TAKE t, c, k, l \in Int
        <5>1. k * t + (t - c) * (l - k) = c * k + (t - c) * l
          OBVIOUS
        <5>2. \A e, f \in Int : e * t + (f * t) * (l - k) = t * (e + f * (l - k))
          OBVIOUS
        <5>3. k * t \in Int /\ t - c \in Int
          OBVIOUS
        <5>4. QED
          BY <5>1, <5>2, <5>3
      <4>3. QED
        BY <1>1, <1>3, <4>1, <4>2
    <3>3. QED
      BY <1>3, <3>1, <3>2
  <2>8. \A x \in D : tv * m[x] \in Nat
    BY <2>1, <2>2
  <2> HIDE DEF tv
  <2>9. law \in [D -> Nat] /\ \A x \in D : law[x] = tv * m[x]
    BY <2>6, <2>7, <2>8
  <2>10. QED
    BY <1>2, <2>1, <2>2, <2>9 DEF law, m
<1>10. QED
  BY <1>1, <1>8, <1>9

\* The sum of the mentored law.
LEMMA MentoredMass ==
  ASSUME NEW D, IsFiniteSet(D), NEW p \in [D -> Nat], NEW q \in [D -> Nat], NEW b \in Nat,
         Mass(p) = Mass(q)
  PROVE  /\ TotalVariation(p, q) <= b => Mass(Mentored(p, q, b)) = Mass(p)
         /\ TotalVariation(p, q) > b =>
              Mass(Mentored(p, q, b)) = TotalVariation(p, q) * Mass(p)
<1> DEFINE tv == TotalVariation(p, q)
           m == Mentored(p, q, b)
           u == [x \in D |-> b * q[x]]
           v == [x \in D |-> (tv - b) * p[x]]
<1>1. tv \in Nat /\ Mass(p) \in Nat
  BY VariationIsMass, MassIsNatural
<1>2. CASE tv <= b
  BY <1>1, <1>2 DEF Mentored
<1>3. CASE tv > b
  <2>1. m = [x \in D |-> u[x] + v[x]]
    BY <1>1, <1>3 DEF Mentored
  <2>2. tv - b \in Int /\ b \in Int
    BY <1>1
  <2> HIDE DEF tv
  <2>3. /\ u \in [D -> Int] /\ v \in [D -> Int] /\ p \in [D -> Int] /\ q \in [D -> Int]
        /\ \A x \in D : u[x] = b * q[x] /\ v[x] = (tv - b) * p[x]
    <3>1. \A x \in D : b * q[x] \in Int /\ (tv - b) * p[x] \in Int
      BY <2>2
    <3>2. QED
      BY <3>1
  <2> HIDE DEF u, v, m
  <2>4. m \in [D -> Int] /\ \A x \in D : m[x] = u[x] + v[x]
    BY <2>1, <2>3
  <2>5. IsMultiple(u, b, q, D) /\ IsMultiple(v, tv - b, p, D) /\ IsSum(m, u, v, D)
    BY <2>2, <2>3, <2>4 DEF IsMultiple, IsSum
  <2>6. /\ Mass(u) = b * Mass(q) /\ Mass(v) = (tv - b) * Mass(p)
        /\ Mass(m) = Mass(u) + Mass(v)
    BY ONLY IsFiniteSet(D), <2>5, MassScales, MassAdds
  <2>7. \A t, k \in Int : b * k + (t - b) * k = t * k
    OBVIOUS
  <2>8. QED
    BY <1>1, <1>3, <2>6, <2>7 DEF m, tv
<1>4. QED
  BY <1>1, <1>2, <1>3

\* The mentored law is no further from the target's than the budget: its distance from the
\* target's, over the sum of the mentored law for each of the target.
LEMMA MentoredIsNear ==
  ASSUME NEW D, IsFiniteSet(D), NEW p \in [D -> Nat], NEW q \in [D -> Nat], NEW b \in Nat,
         Mass(p) = Mass(q),
         NEW t \in Nat, t = (IF TotalVariation(p, q) <= b THEN 1 ELSE TotalVariation(p, q)),
         NEW near \in [D -> Nat], \A x \in D : near[x] = t * p[x]
  PROVE  TotalVariation(Mentored(p, q, b), near) <= b * t
<1> DEFINE tv == TotalVariation(p, q)
           m == Mentored(p, q, b)
<1>1. tv \in Nat /\ tv = TotalVariation(q, p)
  BY VariationIsMass, VariationIsSymmetric
<1>2. CASE tv <= b
  <2>1. m = q /\ t = 1
    BY <1>2 DEF Mentored
  <2>2. near = p
    BY <2>1
  <2>3. QED
    BY <1>1, <1>2, <2>1, <2>2
<1>3. CASE tv > b
  <2>1. t = tv /\ m = [x \in D |-> b * q[x] + (tv - b) * p[x]] /\ m \in [D -> Nat]
    <3>1. t = tv /\ m = [x \in D |-> b * q[x] + (tv - b) * p[x]]
      BY <1>1, <1>3 DEF Mentored
    <3>2. m \in [D -> Nat]
      BY OutcomeIsMentored
    <3> HIDE DEF m
    <3>3. QED
      BY <3>1, <3>2
  <2> DEFINE more == Residual(m, near)
             one == Residual(q, p)
  <2> HIDE DEF m
  <2>2. /\ more \in [D -> Nat] /\ one \in [D -> Nat]
        /\ TotalVariation(m, near) = Mass(more) /\ TotalVariation(q, p) = Mass(one)
        /\ \A x \in D : /\ m[x] > near[x] => more[x] = m[x] - near[x]
                        /\ m[x] <= near[x] => more[x] = 0
                        /\ q[x] > p[x] => one[x] = q[x] - p[x]
                        /\ q[x] <= p[x] => one[x] = 0
    BY <2>1, VariationIsMass
  <2> HIDE DEF tv, more, one
  <2>3. \A x \in D : more[x] = b * one[x]
    <3> TAKE x \in D
    <3>1. p[x] \in Nat /\ q[x] \in Nat /\ b * q[x] \in Nat /\ b * p[x] \in Nat /\ tv * p[x] \in Nat
      BY <1>1
    <3>2. m[x] = b * q[x] + (tv - b) * p[x] /\ near[x] = tv * p[x]
      BY <2>1
    <3>3. m[x] - near[x] = b * q[x] - b * p[x]
      <4>1. (tv - b) * p[x] = tv * p[x] - b * p[x]
        BY <1>1, <3>1
      <4>2. QED
        BY <3>1, <3>2, <4>1
    <3>4. m[x] \in Nat /\ near[x] \in Nat
      BY <2>1
    <3>5. CASE q[x] <= p[x]
      <4>1. b * q[x] <= b * p[x]
        BY <3>1, <3>5, ProductGrows
      <4>2. m[x] <= near[x]
        BY <3>1, <3>3, <3>4, <4>1
      <4>3. b * 0 = 0
        OBVIOUS
      <4>4. QED
        BY <2>2, <3>5, <4>2, <4>3
    <3>6. CASE q[x] > p[x]
      <4>1. b * p[x] <= b * q[x]
        <5>1. p[x] <= q[x]
          BY <3>1, <3>6
        <5>2. QED
          BY <3>1, <5>1, ProductGrows
      <4>2. near[x] <= m[x]
        BY <3>1, <3>3, <3>4, <4>1
      <4>3. more[x] = m[x] - near[x]
        BY <2>2, <3>4, <4>2
      <4>4. b * (q[x] - p[x]) = b * q[x] - b * p[x]
        BY <3>1
      <4>5. QED
        BY <2>2, <3>3, <3>6, <4>3, <4>4
    <3>7. QED
      BY <3>1, <3>5, <3>6
  <2>4. IsMultiple(more, b, one, D)
    BY <2>2, <2>3 DEF IsMultiple
  <2>5. Mass(more) = b * Mass(one)
    BY ONLY IsFiniteSet(D), <2>4, MassScales
  <2>6. TotalVariation(m, near) = b * tv /\ b * tv \in Nat
    BY <1>1, <2>2, <2>5
  <2>7. QED
    BY <2>1, <2>6 DEF m
<1>4. QED
  BY <1>1, <1>2, <1>3

Follows(p, q, b, D) ==
  /\ SameLaw(OutcomeLaw(p, q, b), Mentored(p, q, b))
  /\ TotalVariation(Normalised(OutcomeLaw(p, q, b), p).p,
                    Normalised(OutcomeLaw(p, q, b), p).q)
       <= b * Mass(OutcomeLaw(p, q, b))
  /\ b = 0 => \E c \in Nat : \A x \in D : OutcomeLaw(p, q, b)[x] = c * p[x]

\* The outcome of a verification whose laws have the same sum follows the mentored law, within
\* the budget of the target's; with no budget it has the law of every multiple of the target's.
LEMMA OutcomeFollows ==
  ASSUME NEW D, IsFiniteSet(D), NEW p \in [D -> Nat], NEW q \in [D -> Nat], NEW b \in Nat,
         Mass(p) = Mass(q)
  PROVE  Follows(p, q, b, D)
<1> DEFINE law == OutcomeLaw(p, q, b)
           m == Mentored(p, q, b)
           tv == TotalVariation(p, q)
           s == Scale(p, q)
           t == IF tv <= b THEN 1 ELSE tv
           M == Mass(p)
           near == [x \in D |-> t * p[x]]
           np == Normalised(law, p).p
           nq == Normalised(law, p).q
<1>1. /\ m \in [D -> Nat] /\ law \in [D -> Nat] /\ s \in Nat
      /\ IsMultiple(law, s, m, D) /\ \A x \in D : law[x] = s * m[x]
  <2>1. /\ m \in [D -> Nat] /\ law \in [D -> Nat] /\ s \in Nat \ {0}
        /\ IsMultiple(law, s, m, D)
    BY OutcomeIsMentored
  <2> HIDE DEF m, law, s
  <2>2. QED
    BY <2>1 DEF IsMultiple
<1>2. tv \in Nat /\ t \in Nat /\ M \in Nat
  BY VariationIsMass, MassIsNatural
<1>3. Mass(m) = t * M
  BY <1>2, MentoredMass
<1>4. Mass(law) = s * (t * M)
  <2> HIDE DEF law, m, s
  <2>1. Mass(law) = s * Mass(m)
    BY ONLY IsFiniteSet(D), <1>1, MassScales
  <2>2. QED
    BY <1>3, <2>1
<1>5. SameLaw(law, m)
  <2> HIDE DEF law, m, s
  <2>1. QED
    BY ONLY IsFiniteSet(D), <1>1, MultiplesHaveTheLaw
<1>6. near \in [D -> Nat] /\ \A x \in D : near[x] = t * p[x]
  <2> HIDE DEF t
  <2>1. \A x \in D : t * p[x] \in Nat
    BY <1>2
  <2>2. QED
    BY <2>1
<1>7. TotalVariation(m, near) <= b * t
  <2> HIDE DEF near
  <2>1. QED
    BY <1>2, <1>6, MentoredIsNear
<1>8. TotalVariation(m, near) \in Nat
  <2> HIDE DEF m, near
  <2>1. QED
    BY <1>1, <1>6, VariationIsMass
<1>9. TotalVariation(np, nq) = (s * M) * TotalVariation(m, near)
  <2>1. np = [x \in D |-> law[x] * M] /\ nq = [x \in D |-> p[x] * Mass(law)]
    <3> HIDE DEF law
    <3>1. DOMAIN law = D
      BY <1>1
    <3>2. QED
      BY <3>1 DEF Normalised
  <2> HIDE DEF np, nq, law, m, near, s, t, M
  <2>2. \A x \in D : /\ law[x] * M = (s * M) * m[x] /\ (s * M) * m[x] \in Nat
                     /\ p[x] * Mass(law) = (s * M) * near[x] /\ (s * M) * near[x] \in Nat
    <3> TAKE x \in D
    <3>1. law[x] = s * m[x] /\ m[x] \in Nat /\ near[x] = t * p[x] /\ p[x] \in Nat /\ near[x] \in Nat
      BY <1>1, <1>6
    <3>2. \A k, l, y, z \in Nat : (k * y) * l = (k * l) * y /\ (k * l) * y \in Nat
      OBVIOUS
    <3>3. \A k, l, y, z \in Nat : y * (k * (z * l)) = (k * l) * (z * y)
      OBVIOUS
    <3>4. QED
      BY <1>1, <1>2, <1>4, <3>1, <3>2, <3>3
  <2>3. /\ np \in [D -> Nat] /\ nq \in [D -> Nat]
        /\ \A x \in D : np[x] = (s * M) * m[x] /\ nq[x] = (s * M) * near[x]
    BY <2>1, <2>2
  <2> DEFINE k == s * M
  <2>4. k \in Nat
    BY <1>1, <1>2
  <2>5. \A x \in D : np[x] = k * m[x] /\ nq[x] = k * near[x]
    BY <2>3
  <2> HIDE DEF k
  <2>6. /\ np \in [D -> Nat] /\ nq \in [D -> Nat] /\ m \in [D -> Nat] /\ near \in [D -> Nat]
        /\ IsMultiple(np, k, m, D) /\ IsMultiple(nq, k, near, D)
    BY <1>1, <1>6, <2>3, <2>4, <2>5 DEF IsMultiple
  <2>7. TotalVariation(np, nq) = k * TotalVariation(m, near)
    BY ONLY IsFiniteSet(D), <2>4, <2>6, VariationScales
  <2>8. QED
    BY <2>7 DEF k
<1>10. (s * M) * TotalVariation(m, near) <= b * Mass(law)
  <2> HIDE DEF law, m, near, s, t, M
  <2>1. s * M \in Nat /\ b * t \in Nat
    BY <1>1, <1>2
  <2>2. (s * M) * TotalVariation(m, near) <= (s * M) * (b * t)
    BY <1>7, <1>8, <2>1, ProductGrows
  <2>3. \A k, l, y, z \in Nat : (k * l) * (y * z) = y * (k * (z * l))
    OBVIOUS
  <2>4. QED
    BY <1>1, <1>2, <1>4, <2>2, <2>3
<1>11. ASSUME b = 0 PROVE \E c \in Nat : \A x \in D : law[x] = c * p[x]
  <2>1. \A x \in D : m[x] = t * p[x]
    <3>1. CASE tv = 0
      <4>1. m = q /\ t = 1
        BY <1>11, <3>1 DEF Mentored
      <4>2. \A x \in D : p[x] = q[x]
        BY <3>1, NoVariation
      <4> HIDE DEF m, t
      <4>3. QED
        BY <4>1, <4>2
    <3>2. CASE tv > 0
      <4>1. m = [x \in D |-> b * q[x] + (tv - b) * p[x]] /\ t = tv
        BY <1>2, <1>11, <3>2 DEF Mentored
      <4> HIDE DEF m, t, tv
      <4>2. \A x \in D : b * q[x] + (tv - b) * p[x] = tv * p[x]
        BY <1>2, <1>11
      <4>3. QED
        BY <4>1, <4>2
    <3>3. QED
      BY <1>2, <3>1, <3>2
  <2> HIDE DEF law, m, near, s, t, M
  <2>2. s * t \in Nat
    BY <1>1, <1>2
  <2>3. \A x \in D : law[x] = (s * t) * p[x]
    <3> TAKE x \in D
    <3>1. law[x] = s * (t * p[x]) /\ p[x] \in Nat
      BY <1>1, <2>1
    <3>2. \A k, l, y \in Nat : k * (l * y) = (k * l) * y
      OBVIOUS
    <3>3. QED
      BY <1>1, <1>2, <3>1, <3>2
  <2>4. QED
    BY <2>2, <2>3
<1>12. TotalVariation(np, nq) <= b * Mass(law)
  <2> HIDE DEF np, nq, law, m, near, s, t, M
  <2>1. QED
    BY <1>9, <1>10
<1>13. QED
  BY <1>5, <1>11, <1>12 DEF Follows

\* The repetition window holds the most recent tokens, those of the draft among them.
LEMMA WindowHoldsRecentTokens ==
  ASSUME NEW committed \in Seq(Nat), NEW appended \in Seq(Nat), NEW last \in Nat
  PROVE  LET tokens == committed \o appended
         IN  ToSet(RepetitionWindow(committed, appended, last)) =
               {tokens[i] : i \in {j \in DOMAIN tokens : j > Len(tokens) - last}}
<1> DEFINE C == Len(committed)
           A == Len(appended)
<1>0. PICK total, start, later :
        /\ total = Len(committed) + Len(appended)
        /\ start = IF total > last THEN total - last ELSE 0
        /\ later = IF start > Len(committed) THEN start - Len(committed) ELSE 0
  OBVIOUS
<1> DEFINE kept == SubSeq(committed, start + 1, C)
           added == SubSeq(appended, later + 1, A)
           tokens == committed \o appended
           window == kept \o added
<1>1. /\ C \in Nat /\ A \in Nat /\ start \in Nat /\ later \in Nat
      /\ start <= C + A /\ later <= A
      /\ start <= C => later = 0
      /\ start > C => later = start - C
  BY <1>0
<1>2. RepetitionWindow(committed, appended, last) = window
  BY <1>0, Zenon DEF RepetitionWindow
<1>3. /\ tokens \in Seq(Nat) /\ Len(tokens) = C + A
      /\ \A i \in 1 .. C : tokens[i] = committed[i]
      /\ \A i \in C + 1 .. C + A : tokens[i] = appended[i - C]
  BY <1>1
<1> HIDE DEF tokens
<1>4. /\ kept \in Seq(Nat) /\ Len(kept) = (IF start <= C THEN C - start ELSE 0)
      /\ \A i \in 1 .. Len(kept) : kept[i] = committed[start + i]
  <2>1. kept \in Seq(Nat)
    BY <1>1
  <2>2. CASE start <= C
    BY <1>1, <2>2
  <2>3. CASE start > C
    BY <1>1, <2>3
  <2>4. QED
    BY <1>1, <2>1, <2>2, <2>3
<1>5. /\ added \in Seq(Nat) /\ Len(added) = A - later
      /\ \A i \in 1 .. Len(added) : added[i] = appended[later + i]
  BY <1>1
<1> HIDE DEF kept, added, C, A
<1>6. /\ window \in Seq(Nat) /\ Len(window) = Len(kept) + Len(added)
      /\ \A i \in 1 .. Len(kept) : window[i] = kept[i]
      /\ \A i \in Len(kept) + 1 .. Len(window) : window[i] = added[i - Len(kept)]
  <2>1. kept \in Seq(Nat) /\ added \in Seq(Nat)
    BY <1>4, <1>5
  <2>2. QED
    BY ONLY <2>1
<1> HIDE DEF window
<1>7. Len(window) = C + A - start
  <2>1. Len(window) = (IF start <= C THEN C - start ELSE 0) + (A - later)
    BY <1>4, <1>5, <1>6
  <2>2. QED
    BY <1>1, <2>1
<1>8. \A i \in 1 .. Len(window) : window[i] = tokens[start + i]
  <2> TAKE i \in 1 .. Len(window)
  <2> HIDE DEF C, A
  <2>1. CASE start <= C
    <3>1. Len(kept) = C - start /\ later = 0
      BY <1>1, <1>4, <2>1
    <3>2. CASE i <= Len(kept)
      <4>1. i \in 1 .. Len(kept) /\ start + i \in 1 .. C
        BY <1>1, <3>1, <3>2
      <4>2. QED
        BY <1>3, <1>4, <1>6, <4>1
    <3>3. CASE i > Len(kept)
      <4>1. PICK k \in 1 .. Len(added) : k = i - Len(kept)
        BY <1>1, <1>5, <1>6, <3>1, <3>3
      <4>2. /\ i \in Len(kept) + 1 .. Len(window) /\ start + i \in C + 1 .. C + A
            /\ later + k = start + i - C
        BY <1>1, <1>5, <1>6, <3>1, <3>3, <4>1
      <4>3. window[i] = added[k] /\ added[k] = appended[later + k]
        BY <1>5, <1>6, <4>1, <4>2
      <4>4. PICK j \in C + 1 .. C + A : j = start + i
        BY <4>2
      <4>5. tokens[j] = appended[j - C]
        BY <1>3
      <4>6. j - C = later + k
        BY <1>1, <1>5, <4>1, <4>2, <4>4
      <4>7. QED
        BY ONLY <4>3, <4>4, <4>5, <4>6
    <3>4. QED
      BY <1>1, <3>1, <3>2, <3>3
  <2>2. CASE start > C
    <3>1. Len(kept) = 0 /\ later = start - C
      BY <1>1, <1>4, <2>2
    <3>2. PICK k \in 1 .. Len(added) : k = i - Len(kept)
      BY <1>1, <1>5, <1>6, <2>2, <3>1
    <3>3. /\ i \in Len(kept) + 1 .. Len(window) /\ start + i \in C + 1 .. C + A
          /\ later + k = start + i - C
      BY <1>1, <1>5, <1>6, <2>2, <3>1, <3>2
    <3>4. window[i] = added[k] /\ added[k] = appended[later + k]
      BY <1>5, <1>6, <3>2, <3>3
    <3>5. PICK j \in C + 1 .. C + A : j = start + i
      BY <3>3
    <3>6. tokens[j] = appended[j - C]
      BY <1>3
    <3>7. j - C = later + k
      BY <1>1, <1>5, <3>2, <3>3, <3>5
    <3>8. QED
      BY ONLY <3>4, <3>5, <3>6, <3>7
  <2>3. QED
    BY <1>1, <2>1, <2>2
<1>9. \A j : j \in DOMAIN tokens /\ j > Len(tokens) - last
               <=> j \in start + 1 .. C + A
  <2>1. PICK a : a = C + A
    OBVIOUS
  <2>2. DOMAIN tokens = 1 .. a /\ Len(tokens) = a
    BY <1>3, <2>1
  <2>3. a \in Nat /\ start = IF a > last THEN a - last ELSE 0
    BY <1>0, <1>1, <2>1 DEF C, A
  <2>4. \A j : j \in 1 .. a /\ j > a - last <=> j \in start + 1 .. a
    BY ONLY <2>3
  <2>5. QED
    BY <2>1, <2>2, <2>4
<1>10. {tokens[i] : i \in {j \in DOMAIN tokens : j > Len(tokens) - last}}
         = {tokens[i] : i \in start + 1 .. C + A}
  BY <1>9
<1>11. DOMAIN window = 1 .. C + A - start
  <2>1. window \in Seq(Nat)
    BY <1>6
  <2>2. DOMAIN window = 1 .. Len(window)
    BY ONLY <2>1
  <2>3. QED
    BY <1>7, <2>2
<1>12. {window[i] : i \in 1 .. C + A - start} = {tokens[i] : i \in start + 1 .. C + A}
  <2> HIDE DEF C, A
  <2>1. \A i \in 1 .. C + A - start :
          start + i \in start + 1 .. C + A /\ window[i] = tokens[start + i]
    BY <1>1, <1>7, <1>8
  <2>2. \A j \in start + 1 .. C + A :
          j - start \in 1 .. C + A - start /\ window[j - start] = tokens[j]
    <3> TAKE j \in start + 1 .. C + A
    <3>1. j - start \in 1 .. C + A - start /\ start + (j - start) = j
      BY <1>1
    <3>2. QED
      BY <2>1, <3>1
  <2>3. \A i \in 1 .. C + A - start : \E j \in start + 1 .. C + A : window[i] = tokens[j]
    BY ONLY <2>1, Zenon
  <2>4. \A j \in start + 1 .. C + A : \E i \in 1 .. C + A - start : window[i] = tokens[j]
    BY ONLY <2>2, Zenon
  <2>5. ASSUME NEW x
        PROVE  x \in {window[i] : i \in 1 .. C + A - start}
                 <=> x \in {tokens[i] : i \in start + 1 .. C + A}
    <3>1. ASSUME NEW i \in 1 .. C + A - start, x = window[i]
          PROVE  x \in {tokens[j] : j \in start + 1 .. C + A}
      BY ONLY <2>3, <3>1
    <3>2. ASSUME NEW j \in start + 1 .. C + A, x = tokens[j]
          PROVE  x \in {window[i] : i \in 1 .. C + A - start}
      BY ONLY <2>4, <3>2
    <3>3. QED
      BY ONLY <3>1, <3>2
  <2>6. QED
    BY ONLY <2>5
<1>13. QED
  BY <1>2, <1>10, <1>11, <1>12 DEF ToSet, tokens

\* The inputs that MCAlgorithms takes samples of.  The rows of both models cover the tokens of
\* the vocabulary (ModelVocabularyIsValid of Limits.tla); a budget of any size is a budget.
SamplingInputs ==
  {c \in [target_logits : Seq(Nat), draft_logits : Seq(Nat), vocabulary_size : Nat,
          budget : Nat, committed : Seq(Nat), appended : Seq(Nat), repeat_last_n : Nat] :
     c.vocabulary_size <= Len(c.target_logits) /\ c.vocabulary_size <= Len(c.draft_logits)}

\* The probabilities are naturals, and the target's are those that it would have alone.
LEMMA Probabilities ==
  ASSUME NEW c \in SamplingInputs
  PROVE  LET window == RepetitionWindow(c.committed, c.appended, c.repeat_last_n)
         IN  /\ TargetAlone(c) \in [1 .. c.vocabulary_size -> Nat]
             /\ CalculateProbabilities(c.target_logits, window, c.vocabulary_size)
                  = TargetAlone(c)
             /\ CalculateProbabilities(c.draft_logits, window, c.vocabulary_size)
                  \in [1 .. c.vocabulary_size -> Nat]
<1> DEFINE window == RepetitionWindow(c.committed, c.appended, c.repeat_last_n)
           n == c.vocabulary_size
           tokens == c.committed \o c.appended
           recent == {tokens[i] : i \in {j \in DOMAIN tokens : j > Len(tokens) - c.repeat_last_n}}
<1>1. /\ c.committed \in Seq(Nat) /\ c.appended \in Seq(Nat) /\ c.repeat_last_n \in Nat
      /\ n \in Nat /\ c.target_logits \in Seq(Nat) /\ c.draft_logits \in Seq(Nat)
      /\ n <= Len(c.target_logits) /\ n <= Len(c.draft_logits)
  BY DEF SamplingInputs
<1>2. ToSet(window) = recent
  BY <1>1, WindowHoldsRecentTokens
<1> HIDE DEF window, recent
<1>3. ASSUME NEW logits \in Seq(Nat), n <= Len(logits)
      PROVE  /\ CalculateProbabilities(logits, window, n) =
                  [x \in 1 .. n |-> IF x \in recent THEN logits[x] \div 2 ELSE logits[x]]
             /\ CalculateProbabilities(logits, window, n) \in [1 .. n -> Nat]
  <2>1. 1 .. n \subseteq DOMAIN logits /\ \A x \in 1 .. n : logits[x] \in Nat
    BY <1>1, <1>3
  <2>2. \A k \in Nat : k \div 2 \in Nat
    OBVIOUS
  <2>3. CalculateProbabilities(logits, window, n) =
          [x \in 1 .. n |-> IF x \in recent THEN logits[x] \div 2 ELSE logits[x]]
    BY <1>2, <2>1 DEF CalculateProbabilities, Penalised
  <2>4. \A x \in 1 .. n : (IF x \in recent THEN logits[x] \div 2 ELSE logits[x]) \in Nat
    BY <2>1, <2>2
  <2>5. QED
    BY <2>3, <2>4
<1>4. TargetAlone(c) =
        [x \in 1 .. n |-> IF x \in recent THEN c.target_logits[x] \div 2 ELSE c.target_logits[x]]
  BY DEF TargetAlone, recent
<1>5. QED
  BY <1>1, <1>3, <1>4 DEF window

\* For every vocabulary, every pair of distributions over it, every budget and every context: the
\* token that comes out of a verification follows the mentored law within the budget, and with no
\* budget the law of the target model after the same tokens.
THEOREM VerificationAlwaysFollowsTheTarget ==
  ASSUME NEW c \in SamplingInputs
  PROVE  SamplingFollowsTheTarget(c)
<1> DEFINE window == RepetitionWindow(c.committed, c.appended, c.repeat_last_n)
           D == 1 .. c.vocabulary_size
           p0 == TargetAlone(c)
           q0 == CalculateProbabilities(c.draft_logits, window, c.vocabulary_size)
           v == Verification(c)
<1>1. /\ p0 \in [D -> Nat] /\ q0 \in [D -> Nat]
      /\ CalculateProbabilities(c.target_logits, window, c.vocabulary_size) = p0
  BY Probabilities
<1>2. IsFiniteSet(D)
  <2>1. c.vocabulary_size \in Nat
    BY DEF SamplingInputs
  <2>2. QED
    BY <2>1, FS_Interval
<1>3. v = [p |-> Normalised(p0, q0).p, q |-> Normalised(p0, q0).q,
           law |-> OutcomeLaw(Normalised(p0, q0).p, Normalised(p0, q0).q, c.budget)]
  BY <1>1 DEF Verification
<1> HIDE DEF p0, q0, v, D
<1>4. Mass(p0) \in Nat /\ Mass(q0) \in Nat
  BY <1>1, <1>2, MassIsNatural
<1>5. /\ v.p = [x \in D |-> p0[x] * Mass(q0)]
      /\ v.q = [x \in D |-> q0[x] * Mass(p0)]
      /\ v.law = OutcomeLaw(v.p, v.q, c.budget)
  BY <1>1, <1>3 DEF Normalised
<1>6. /\ v.p \in [D -> Nat] /\ v.q \in [D -> Nat]
      /\ IsMultiple(v.p, Mass(q0), p0, D) /\ IsMultiple(v.q, Mass(p0), q0, D)
  <2>1. \A x \in D : /\ p0[x] * Mass(q0) \in Nat /\ p0[x] * Mass(q0) = Mass(q0) * p0[x]
                     /\ q0[x] * Mass(p0) \in Nat /\ q0[x] * Mass(p0) = Mass(p0) * q0[x]
    BY <1>1, <1>4
  <2>2. QED
    BY <1>1, <1>4, <1>5, <2>1 DEF IsMultiple
<1>7. Mass(v.p) = Mass(v.q)
  <2>1. Mass(v.p) = Mass(q0) * Mass(p0) /\ Mass(v.q) = Mass(p0) * Mass(q0)
    BY ONLY <1>2, <1>6, MassScales
  <2>2. QED
    BY <1>4, <2>1
<1>8. c.budget \in Nat
  BY DEF SamplingInputs
<1>9. /\ SameLaw(v.law, Mentored(v.p, v.q, c.budget))
      /\ TotalVariation(Normalised(v.law, v.p).p, Normalised(v.law, v.p).q)
           <= c.budget * Mass(v.law)
      /\ c.budget = 0 => \E k \in Nat : \A x \in D : v.law[x] = k * v.p[x]
  <2>1. Follows(v.p, v.q, c.budget, D)
    BY ONLY <1>2, <1>6, <1>7, <1>8, OutcomeFollows
  <2>2. QED
    BY <1>5, <2>1 DEF Follows
<1>10. SameLaw(v.p, p0)
  BY ONLY <1>2, <1>6, MultiplesHaveTheLaw
<1>11. ASSUME c.budget = 0 PROVE SameLaw(v.law, p0)
  <2>1. PICK k \in Nat : \A x \in D : v.law[x] = k * v.p[x]
    BY <1>9, <1>11
  <2>2. v.law \in [D -> Nat]
    <3>1. OutcomeLaw(v.p, v.q, c.budget) \in [D -> Nat]
      BY ONLY <1>2, <1>6, <1>7, <1>8, OutcomeIsMentored
    <3>2. QED
      BY <1>5, <3>1
  <2>3. k * Mass(q0) \in Nat
    BY <1>4
  <2>4. \A x \in D : v.law[x] = (k * Mass(q0)) * p0[x]
    <3> TAKE x \in D
    <3>1. v.law[x] = k * (p0[x] * Mass(q0)) /\ p0[x] \in Nat
      BY <1>1, <1>5, <2>1
    <3>2. \A a, b, e \in Nat : a * (b * e) = (a * e) * b
      OBVIOUS
    <3>3. QED
      BY <1>4, <3>1, <3>2
  <2>5. IsMultiple(v.law, k * Mass(q0), p0, D)
    BY <1>1, <2>2, <2>3, <2>4 DEF IsMultiple
  <2>6. QED
    BY ONLY <1>2, <2>5, MultiplesHaveTheLaw
<1>12. DOMAIN v.p = D
  BY <1>6
<1>13. QED
  BY <1>9, <1>10, <1>11, <1>12 DEF SamplingFollowsTheTarget, Mentored, v, p0

LEMMA SamplingCasesAreInputs == SamplingCases \subseteq SamplingInputs
<1>1. \A n \in Nat : \A l \in [1 .. n -> Nat] : l \in Seq(Nat) /\ Len(l) = n
  OBVIOUS
<1>2. \A l \in [1 .. 4 -> 0 .. 2] : l \in Seq(Nat) /\ Len(l) = 4
  <2>1. \A l \in [1 .. 4 -> 0 .. 2] : l \in [1 .. 4 -> Nat]
    OBVIOUS
  <2>2. QED
    BY <1>1, <2>1
<1>3. \A l \in [1 .. 3 -> {0, 2}] : l \in Seq(Nat) /\ Len(l) = 3
  <2>1. \A l \in [1 .. 3 -> {0, 2}] : l \in [1 .. 3 -> Nat]
    OBVIOUS
  <2>2. QED
    BY <1>1, <2>1
<1>4. <<3, 0, 2>> \in Seq(Nat) /\ Len(<<3, 0, 2>>) = 3
  OBVIOUS
<1>5. <<1, 2>> \in Seq(Nat) /\ <<>> \in Seq(Nat) /\ <<3>> \in Seq(Nat)
  OBVIOUS
<1>6. SUFFICES ASSUME NEW c \in SamplingCases PROVE c \in SamplingInputs
  OBVIOUS
<1>7. c = [target_logits |-> c.target_logits, draft_logits |-> c.draft_logits,
           vocabulary_size |-> c.vocabulary_size, budget |-> c.budget,
           committed |-> c.committed, appended |-> c.appended,
           repeat_last_n |-> c.repeat_last_n]
  BY <1>6 DEF SamplingCases
<1>8. /\ c.target_logits \in [1 .. 4 -> 0 .. 2]
      /\ c.draft_logits \in [1 .. 3 -> {0, 2}] \/ c.draft_logits = <<3, 0, 2>>
      /\ c.vocabulary_size = 3 /\ c.budget \in {0, 5, 20} /\ c.committed = <<1, 2>>
      /\ c.appended = <<>> \/ c.appended = <<3>>
      /\ c.repeat_last_n \in {0, 2, 3}
  BY <1>6 DEF SamplingCases
<1>9. /\ c.target_logits \in Seq(Nat) /\ Len(c.target_logits) = 4
      /\ c.draft_logits \in Seq(Nat) /\ Len(c.draft_logits) = 3
      /\ c.committed \in Seq(Nat) /\ c.appended \in Seq(Nat)
      /\ c.vocabulary_size \in Nat /\ c.budget \in Nat /\ c.repeat_last_n \in Nat
  <2>1. c.target_logits \in Seq(Nat) /\ Len(c.target_logits) = 4
    BY ONLY <1>2, <1>8
  <2>2. c.draft_logits \in Seq(Nat) /\ Len(c.draft_logits) = 3
    BY ONLY <1>3, <1>4, <1>8
  <2>3. c.committed \in Seq(Nat) /\ c.appended \in Seq(Nat)
    BY ONLY <1>5, <1>8
  <2>4. c.vocabulary_size \in Nat /\ c.budget \in Nat /\ c.repeat_last_n \in Nat
    BY ONLY <1>8
  <2>5. QED
    BY ONLY <2>1, <2>2, <2>3, <2>4
<1>10. c \in [target_logits : Seq(Nat), draft_logits : Seq(Nat), vocabulary_size : Nat,
              budget : Nat, committed : Seq(Nat), appended : Seq(Nat), repeat_last_n : Nat]
  BY ONLY <1>7, <1>9
<1>11. c.vocabulary_size <= Len(c.target_logits) /\ c.vocabulary_size <= Len(c.draft_logits)
  BY ONLY <1>8, <1>9
<1>12. QED
  BY ONLY <1>10, <1>11 DEF SamplingInputs

-----------------------------------------------------------------------------
(* What a behaviour computes *)

\* What a behaviour computes is one of the cases.
InputInv ==
  /\ input.kind = "sampling" => input.case \in SamplingCases
  /\ input.kind = "startup" => input.case \in StartupCases
  /\ input.kind = "configuration" => input.case \in ConfigurationCases

LEMMA InputInvariant == Spec => []InputInv
<1>1. Init => InputInv
  BY DEF Init, InputInv, None
<1>2. InputInv /\ [Next]_<<attentionVars, input>> => InputInv'
  <2> SUFFICES ASSUME InputInv, [Next]_<<attentionVars, input>>
               PROVE  InputInv'
    OBVIOUS
  <2>1. CASE UNCHANGED input
    BY <2>1 DEF InputInv
  <2>2. CASE Compute("sampling", SamplingCases)
    BY <2>2 DEF Compute, InputInv
  <2>3. CASE Compute("startup", StartupCases)
    BY <2>3 DEF Compute, InputInv
  <2>4. CASE Compute("configuration", ConfigurationCases)
    BY <2>4 DEF Compute, InputInv
  <2>5. QED
    BY <2>1, <2>2, <2>3, <2>4 DEF Next
<1>3. QED
  BY <1>1, <1>2, PTL DEF Spec

\* The token of a verification follows the mentored law, whatever the distributions.
THEOREM SamplingIsAlwaysFaithful == Spec => []SamplingIsFaithful
<1>1. InputInv => SamplingIsFaithful
  BY SamplingCasesAreInputs, VerificationAlwaysFollowsTheTarget
  DEF InputInv, SamplingIsFaithful
<1>2. QED
  BY <1>1, InputInvariant, PTL

\* A request that passes the limits of its start-up fits in it, whatever the start-up.
THEOREM LimitsAlwaysHold == Spec => []LimitsHold
<1>1. InputInv => LimitsHold
  <2> SUFFICES ASSUME InputInv, input.kind = "startup"
               PROVE  AcceptedRequestsFit(input.case, 0 .. 8, 0 .. 8)
    BY DEF LimitsHold
  <2>1. input.case \in Startups
    BY StartupCasesAreStartups DEF InputInv
  <2>2. 0 .. 8 \in SUBSET Nat
    OBVIOUS
  <2>3. QED
    BY <2>1, <2>2, AcceptedRequestsAlwaysFit
<1>2. QED
  BY <1>1, InputInvariant, PTL

\* Both processes work with the configuration that was validated.
THEOREM ConfigurationsAlwaysAgree == Spec => []ConfigurationsAgree
<1>1. InputInv => ConfigurationsAgree
  BY ConfigurationCasesAreCommandLines, AcceptedConfigurationsAgree
  DEF InputInv, ConfigurationsAgree
<1>2. QED
  BY <1>1, InputInvariant, PTL

-----------------------------------------------------------------------------
(* Sequences and tensors *)

LEMMA InductionTo ==
  ASSUME NEW n \in Nat, NEW T, 0 \in T, \A k \in 0 .. n - 1 : k \in T => k + 1 \in T
  PROVE  \A k \in 0 .. n : k \in T
<1> DEFINE Unreached == {k \in Nat : k <= n /\ k \notin T}
<1>1. SUFFICES ASSUME NEW k \in 0 .. n, k \notin T PROVE FALSE
  OBVIOUS
<1>2. PICK m \in Unreached : \A j \in Unreached : m <= j
  <2>1. Unreached \in SUBSET Nat /\ Unreached # {}
    BY <1>1
  <2> HIDE DEF Unreached
  <2>2. QED
    BY <2>1, LeastElement
<1>3. m \in Nat /\ m <= n /\ m \notin T /\ m # 0
  BY <1>2
<1>4. m - 1 \in Nat /\ m - 1 \in 0 .. n - 1 /\ ~ (m <= m - 1) /\ m - 1 <= n
  BY <1>3
<1>5. m - 1 \in T
  BY <1>2, <1>4
<1>6. m - 1 + 1 \in T
  BY <1>4, <1>5
<1>7. m - 1 + 1 = m
  BY <1>3
<1>8. QED
  BY <1>3, <1>6, <1>7

\* t is a sequence of length n.
IsSequence(t, n) == n \in Nat /\ DOMAIN t = 1 .. n /\ t = [i \in 1 .. n |-> t[i]]

LEMMA SequenceFacts ==
  ASSUME NEW t, NEW n, IsSequence(t, n)
  PROVE  /\ n \in Nat /\ DOMAIN t = 1 .. n /\ Len(t) = n
         /\ t \in Seq({t[i] : i \in 1 .. n})
<1>1. n \in Nat /\ DOMAIN t = 1 .. n /\ t = [i \in 1 .. n |-> t[i]]
  BY DEF IsSequence
<1> DEFINE S == {t[i] : i \in 1 .. n}
<1>2. t \in [1 .. n -> S]
  BY ONLY <1>1
<1>3. t \in Seq(S)
  BY ONLY <1>1, <1>2
<1>4. Len(t) = n
  BY ONLY <1>1, <1>3
<1>5. QED
  BY ONLY <1>1, <1>3, <1>4

LEMMA SequencesAreSequences ==
  ASSUME NEW S, NEW t \in Seq(S)
  PROVE  IsSequence(t, Len(t))
  BY DEF IsSequence

LEMMA SequencesAgree ==
  ASSUME NEW s, NEW t, NEW n, IsSequence(s, n), IsSequence(t, n), \A i \in 1 .. n : s[i] = t[i]
  PROVE  s = t
  BY DEF IsSequence

\* A sequence of joined sequences takes its elements from the one and then from the other.
IsConcat(w, s, t, m, n) ==
  /\ m \in Nat /\ n \in Nat
  /\ IsSequence(w, m + n)
  /\ \A i \in 1 .. m : w[i] = s[i]
  /\ \A i \in 1 .. n : w[m + i] = t[i]

LEMMA ConcatFacts ==
  ASSUME NEW s, NEW t, NEW m, NEW n, IsSequence(s, m), IsSequence(t, n)
  PROVE  IsConcat(s \o t, s, t, m, n)
<1> DEFINE S == {s[i] : i \in 1 .. m} \cup {t[i] : i \in 1 .. n}
<1>1. s \in Seq(S) /\ t \in Seq(S) /\ Len(s) = m /\ Len(t) = n /\ m \in Nat /\ n \in Nat
  <2>1. /\ s \in Seq({s[i] : i \in 1 .. m}) /\ t \in Seq({t[i] : i \in 1 .. n})
        /\ Len(s) = m /\ Len(t) = n /\ m \in Nat /\ n \in Nat
    BY SequenceFacts
  <2>2. \A A, B : A \subseteq B => Seq(A) \subseteq Seq(B)
    OBVIOUS
  <2>3. {s[i] : i \in 1 .. m} \subseteq S /\ {t[i] : i \in 1 .. n} \subseteq S
    OBVIOUS
  <2> HIDE DEF S
  <2>4. QED
    BY <2>1, <2>2, <2>3
<1> HIDE DEF S
<1>2. s \o t \in Seq(S) /\ Len(s \o t) = m + n
  BY ONLY <1>1
<1>3. IsSequence(s \o t, m + n)
  BY ONLY <1>2, SequencesAreSequences
<1>4. /\ \A i \in 1 .. m : (s \o t)[i] = s[i]
      /\ \A i \in 1 .. n : (s \o t)[m + i] = t[i]
  BY ONLY <1>1
<1>5. QED
  BY ONLY <1>1, <1>3, <1>4 DEF IsConcat

IsPart(w, t, a, b) ==
  IsSequence(w, b) /\ \A i \in 1 .. b : w[i] = t[a + i]

LEMMA NarrowFacts ==
  ASSUME NEW t, NEW n, IsSequence(t, n), NEW a \in Nat, NEW b \in Nat, a + b <= n
  PROVE  IsPart(Narrow(t, a, b), t, a, b)
<1>1. t \in Seq({t[i] : i \in 1 .. n}) /\ Len(t) = n /\ n \in Nat
  BY SequenceFacts
<1> DEFINE S == {t[i] : i \in 1 .. n}
<1> HIDE DEF S
<1>2. t \in Seq(S)
  BY <1>1 DEF S
<1>3. /\ SubSeq(t, a + 1, a + b) \in Seq(S) /\ Len(SubSeq(t, a + 1, a + b)) = b
      /\ \A i \in 1 .. b : SubSeq(t, a + 1, a + b)[i] = t[a + i]
  <2>1. \A k \in a + 1 .. a + b : k \in 1 .. Len(t)
    BY <1>1
  <2>2. SubSeq(t, a + 1, a + b) \in Seq(S)
    BY <1>2, <2>1
  <2>3. Len(SubSeq(t, a + 1, a + b)) = b
    BY <1>1, <1>2
  <2>4. ASSUME NEW i \in 1 .. b PROVE SubSeq(t, a + 1, a + b)[i] = t[a + i]
    <3>1. a + 1 + i - 1 = a + i
      OBVIOUS
    <3>2. QED
      BY <1>1, <1>2, <3>1
  <2>5. QED
    BY <2>2, <2>3, <2>4
<1>4. IsSequence(SubSeq(t, a + 1, a + b), b)
  BY ONLY <1>3, SequencesAreSequences
<1>5. QED
  BY ONLY <1>3, <1>4 DEF Narrow, IsPart

LEMMA ContiguousIsSame ==
  ASSUME NEW t, NEW n, IsSequence(t, n)
  PROVE  Contiguous(t) = t
<1>0. Len(t) = n /\ n \in Nat
  BY SequenceFacts
<1>1. Len(t) = n /\ n \in Nat /\ 0 \in Nat /\ 0 + n <= n
  BY ONLY <1>0
<1>2. IsSequence(Narrow(t, 0, n), n) /\ \A i \in 1 .. n : Narrow(t, 0, n)[i] = t[0 + i]
  BY <1>1, NarrowFacts DEF IsPart
<1>3. \A i \in 1 .. n : Narrow(t, 0, n)[i] = t[i]
  BY <1>1, <1>2
<1>4. QED
  BY <1>1, <1>2, <1>3, SequencesAgree DEF Contiguous

\* off[i] is the sum of the first i lengths.
IsOffsets(off, len, n) ==
  /\ n \in Nat
  /\ off \in [0 .. n -> Nat]
  /\ off[0] = 0
  /\ \A i \in 1 .. n : len[i] \in Nat /\ off[i] = off[i - 1] + len[i]

LEMMA OffsetsGrow ==
  ASSUME NEW off, NEW len, NEW n, IsOffsets(off, len, n)
  PROVE  \A i \in 0 .. n : \A j \in 0 .. i : off[j] <= off[i]
<1> DEFINE T == {i \in 0 .. n : \A j \in 0 .. i : off[j] <= off[i]}
<1>1. /\ n \in Nat /\ off \in [0 .. n -> Nat]
      /\ \A i \in 1 .. n : len[i] \in Nat /\ off[i] = off[i - 1] + len[i]
  BY DEF IsOffsets
<1>2. 0 \in T
  BY <1>1
<1>3. ASSUME NEW k \in 0 .. n - 1, k \in T PROVE k + 1 \in T
  <2>1. k + 1 \in 1 .. n /\ k \in Nat /\ k + 1 \in 0 .. n /\ k + 1 - 1 = k
    BY <1>1
  <2>2. /\ off[k + 1] = off[k] + len[k + 1]
        /\ off[k] \in Nat /\ len[k + 1] \in Nat /\ off[k + 1] \in Nat
    BY <1>1, <2>1
  <2>3. off[k] <= off[k + 1]
    BY <2>2
  <2>4. ASSUME NEW j \in 0 .. k + 1 PROVE off[j] <= off[k + 1]
    <3>1. CASE j = k + 1
      BY <2>2, <3>1
    <3>2. CASE j # k + 1
      <4>1. j \in 0 .. k /\ j \in 0 .. n
        BY <1>1, <2>1, <3>2
      <4>2. off[j] <= off[k] /\ off[j] \in Nat
        BY <1>1, <1>3, <4>1
      <4>3. QED
        BY <2>2, <2>3, <4>2
    <3>3. QED
      BY <3>1, <3>2
  <2>5. QED
    BY <2>1, <2>4
<1> HIDE DEF T
<1>4. \A k \in 0 .. n : k \in T
  BY ONLY <1>1, <1>2, <1>3, InductionTo
<1>5. QED
  BY <1>4 DEF T

\* An index behind some offsets falls into one of the lengths.
LEMMA OffsetsCover ==
  ASSUME NEW off, NEW len, NEW n, IsOffsets(off, len, n), NEW k \in 1 .. off[n]
  PROVE  \E i \in 1 .. n : \E j \in 1 .. len[i] : k = off[i - 1] + j
<1>1. /\ n \in Nat /\ off \in [0 .. n -> Nat] /\ off[0] = 0
      /\ \A i \in 1 .. n : len[i] \in Nat /\ off[i] = off[i - 1] + len[i]
  BY DEF IsOffsets
<1> DEFINE T == {i \in Nat : i \in 0 .. n /\ k <= off[i]}
<1>2. T \in SUBSET Nat /\ T # {}
  <2>1. n \in T
    BY <1>1
  <2>2. QED
    BY <2>1
<1>3. PICK i \in T : \A j \in T : i <= j
  <2> HIDE DEF T
  <2>1. QED
    BY <1>2, LeastElement
<1>4. k \in Nat /\ 1 <= k /\ i \in 0 .. n /\ k <= off[i] /\ i # 0
  BY <1>1, <1>3
<1>5. i \in 1 .. n /\ i - 1 \in 0 .. n /\ ~ (i <= i - 1) /\ i - 1 \in Nat
  BY <1>1, <1>4
<1>6. ~ (k <= off[i - 1]) /\ off[i - 1] \in Nat /\ off[i] \in Nat
  BY <1>1, <1>3, <1>4, <1>5
<1>7. off[i] = off[i - 1] + len[i] /\ len[i] \in Nat
  BY <1>1, <1>5
<1>8. PICK j \in Int : j = k - off[i - 1]
  BY <1>4, <1>6
<1>9. j \in 1 .. len[i] /\ k = off[i - 1] + j
  BY <1>4, <1>6, <1>7, <1>8
<1>10. QED
  BY <1>5, <1>9

\* ... and into no more than one.
LEMMA OffsetsSeparate ==
  ASSUME NEW off, NEW len, NEW n, IsOffsets(off, len, n),
         NEW i1 \in 1 .. n, NEW j1 \in 1 .. len[i1],
         NEW i2 \in 1 .. n, NEW j2 \in 1 .. len[i2], off[i1 - 1] + j1 = off[i2 - 1] + j2
  PROVE  i1 = i2 /\ j1 = j2
<1>1. /\ n \in Nat /\ off \in [0 .. n -> Nat] /\ off[0] = 0
      /\ \A i \in 1 .. n : len[i] \in Nat /\ off[i] = off[i - 1] + len[i]
  BY DEF IsOffsets
<1>2. \A i \in 0 .. n : \A j \in 0 .. i : off[j] <= off[i]
  BY OffsetsGrow
<1>3. ASSUME NEW a \in 1 .. n, NEW b \in 1 .. n, a < b,
             NEW x \in 1 .. len[a], NEW y \in 1 .. len[b], off[a - 1] + x = off[b - 1] + y
      PROVE  FALSE
  <2>1. a \in 0 .. b - 1 /\ b - 1 \in 0 .. n /\ a - 1 \in 0 .. n /\ a \in 0 .. n
    BY <1>1, <1>3
  <2>2. off[a] <= off[b - 1] /\ off[a] = off[a - 1] + len[a]
    BY <1>1, <1>2, <2>1
  <2>3. off[a] \in Nat /\ off[b - 1] \in Nat /\ off[a - 1] \in Nat /\ len[a] \in Nat
        /\ len[b] \in Nat
    BY <1>1, <2>1
  <2>4. QED
    BY <1>3, <2>2, <2>3
<1>4. i1 = i2
  <2>1. ~ (i1 < i2)
    BY <1>3
  <2>2. ~ (i2 < i1)
    BY <1>3
  <2>3. QED
    BY <1>1, <2>1, <2>2
<1>5. off[i1 - 1] \in Nat /\ j1 \in Int /\ j2 \in Int
  <2>1. i1 - 1 \in 0 .. n /\ len[i1] \in Nat /\ len[i2] \in Nat
    BY <1>1
  <2>2. QED
    BY <1>1, <2>1
<1>6. QED
  BY <1>4, <1>5

\* Sums gives such offsets.
IsSums(f, counts, n) == f = [i \in 0 .. n |-> IF i = 0 THEN 0 ELSE f[i - 1] + counts[i]]

LEMMA SumsExist ==
  ASSUME NEW counts, NEW n \in Nat
  PROVE  \E f : IsSums(f, counts, n)
<1> DEFINE T == {k \in 0 .. n : \E f : IsSums(f, counts, k)}
<1>1. 0 \in T
  <2> DEFINE f == [i \in 0 .. 0 |-> 0]
  <2>1. f = [i \in 0 .. 0 |-> IF i = 0 THEN 0 ELSE f[i - 1] + counts[i]]
    OBVIOUS
  <2>2. IsSums(f, counts, 0)
    BY ONLY <2>1 DEF IsSums
  <2>3. QED
    BY <2>2
<1>2. ASSUME NEW k \in 0 .. n - 1, k \in T PROVE k + 1 \in T
  <2>1. PICK f : IsSums(f, counts, k)
    BY <1>2
  <2>2. k \in Nat /\ k + 1 \in 0 .. n /\ k \in 0 .. k
    OBVIOUS
  <2> DEFINE g == [i \in 0 .. k + 1 |-> IF i <= k THEN f[i] ELSE f[k] + counts[k + 1]]
             h == [i \in 0 .. k + 1 |-> IF i = 0 THEN 0 ELSE g[i - 1] + counts[i]]
  <2>3. \A i \in 0 .. k : f[i] = IF i = 0 THEN 0 ELSE f[i - 1] + counts[i]
    BY <2>1 DEF IsSums
  <2>4. \A i \in 0 .. k : g[i] = f[i]
    BY <2>2
  <2>5. g[k + 1] = f[k] + counts[k + 1]
    BY <2>2
  <2>6. ASSUME NEW i \in 0 .. k + 1
        PROVE  g[i] = IF i = 0 THEN 0 ELSE g[i - 1] + counts[i]
    <3> HIDE DEF g
    <3>1. CASE i = 0
      BY <2>2, <2>3, <2>4, <3>1
    <3>2. CASE i # 0 /\ i <= k
      <4>1. i \in 0 .. k /\ i - 1 \in 0 .. k
        BY <2>2, <3>2
      <4>2. QED
        BY <2>3, <2>4, <3>2, <4>1
    <3>3. CASE i = k + 1
      <4>1. i - 1 = k /\ i # 0
        BY <2>2, <3>3
      <4>2. QED
        BY <2>2, <2>4, <2>5, <3>3, <4>1
    <3>4. QED
      BY <2>2, <3>1, <3>2, <3>3
  <2>7. g = h
    <3>1. \A i \in 0 .. k + 1 : g[i] = h[i]
      <4> HIDE DEF g
      <4>1. QED
        BY <2>6
    <3>2. QED
      BY <3>1
  <2>8. IsSums(g, counts, k + 1)
    <3> HIDE DEF g
    <3>1. QED
      BY <2>7 DEF IsSums
  <2> HIDE DEF g
  <2>9. QED
    BY <2>2, <2>8
<1> HIDE DEF T
<1>3. n \in 0 .. n /\ \A k \in 0 .. n : k \in T
  BY ONLY <1>1, <1>2, InductionTo
<1>4. QED
  BY <1>3 DEF T

LEMMA SumsAreOffsets ==
  ASSUME NEW counts, NEW n \in Nat, Len(counts) = n, \A i \in 1 .. n : counts[i] \in Nat
  PROVE  IsOffsets(Sums(counts), counts, n)
<1>1. Sums(counts) = CHOOSE f : IsSums(f, counts, n)
  BY DEF Sums, IsSums
<1>2. PICK f : f = Sums(counts)
  OBVIOUS
<1>3. IsSums(f, counts, n)
  BY <1>1, <1>2, SumsExist
<1>4. DOMAIN f = 0 .. n /\ \A i \in 0 .. n : f[i] = IF i = 0 THEN 0 ELSE f[i - 1] + counts[i]
  BY <1>3 DEF IsSums
<1> DEFINE T == {k \in 0 .. n : f[k] \in Nat}
<1>5. 0 \in T
  BY <1>4
<1>6. ASSUME NEW k \in 0 .. n - 1, k \in T PROVE k + 1 \in T
  <2>1. k + 1 \in 0 .. n /\ k + 1 # 0 /\ k + 1 - 1 = k /\ k + 1 \in 1 .. n
    OBVIOUS
  <2>2. f[k + 1] = f[k] + counts[k + 1]
    BY <1>4, <2>1
  <2>3. QED
    BY <1>6, <2>1, <2>2
<1> HIDE DEF T
<1>7. \A k \in 0 .. n : k \in T
  BY ONLY <1>5, <1>6, InductionTo
<1>8. \A k \in 0 .. n : f[k] \in Nat
  BY <1>7 DEF T
<1>9. f = [i \in 0 .. n |-> f[i]]
  BY <1>3 DEF IsSums
<1>10. f \in [0 .. n -> Nat]
  BY ONLY <1>8, <1>9
<1>11. f[0] = 0 /\ \A i \in 1 .. n : f[i] = f[i - 1] + counts[i]
  BY <1>4
<1>12. QED
  BY <1>2, <1>10, <1>11 DEF IsOffsets

\* The loop of FlattenSeq.
Joined(s, t) == s \o t

IsFlatten(f, s, n) == f = [i \in 1 .. n |-> IF i = 1 THEN s[i] ELSE Joined(f[i - 1], s[i])]

LEMMA FlattenExists ==
  ASSUME NEW s, NEW n \in Nat
  PROVE  \E f : IsFlatten(f, s, n)
<1> DEFINE T == {k \in 0 .. n : \E f : IsFlatten(f, s, k)}
<1>1. 0 \in T
  <2> DEFINE f == [i \in 1 .. 0 |-> 0]
  <2>1. f = [i \in 1 .. 0 |-> IF i = 1 THEN s[i] ELSE Joined(f[i - 1], s[i])]
    OBVIOUS
  <2>2. IsFlatten(f, s, 0)
    BY ONLY <2>1 DEF IsFlatten
  <2>3. QED
    BY <2>2
<1>2. ASSUME NEW k \in 0 .. n - 1, k \in T PROVE k + 1 \in T
  <2>1. PICK f : IsFlatten(f, s, k)
    BY <1>2
  <2>2. k \in Nat /\ k + 1 \in 0 .. n
    OBVIOUS
  <2> DEFINE g == [i \in 1 .. k + 1 |-> IF i <= k THEN f[i]
                                        ELSE IF k = 0 THEN s[k + 1] ELSE Joined(f[k], s[k + 1])]
             h == [i \in 1 .. k + 1 |-> IF i = 1 THEN s[i] ELSE Joined(g[i - 1], s[i])]
  <2>3. \A i \in 1 .. k : f[i] = IF i = 1 THEN s[i] ELSE Joined(f[i - 1], s[i])
    BY <2>1 DEF IsFlatten
  <2>4. \A i \in 1 .. k : g[i] = f[i]
    BY <2>2
  <2>5. g[k + 1] = IF k = 0 THEN s[k + 1] ELSE Joined(f[k], s[k + 1])
    BY <2>2
  <2>6. ASSUME NEW i \in 1 .. k + 1
        PROVE  g[i] = IF i = 1 THEN s[i] ELSE Joined(g[i - 1], s[i])
    <3> HIDE DEF g
    <3>1. CASE i = 1 /\ i <= k
      BY <2>2, <2>3, <2>4, <3>1
    <3>2. CASE i # 1 /\ i <= k
      <4>1. i \in 1 .. k /\ i - 1 \in 1 .. k
        BY <2>2, <3>2
      <4>2. QED
        BY <2>3, <2>4, <3>2, <4>1
    <3>3. CASE i = k + 1
      <4>1. i - 1 = k /\ (i = 1 <=> k = 0) /\ (k # 0 => k \in 1 .. k)
        BY <2>2, <3>3
      <4>2. QED
        BY <2>2, <2>4, <2>5, <3>3, <4>1
    <3>4. QED
      BY <2>2, <3>1, <3>2, <3>3
  <2>7. g = h
    <3>1. \A i \in 1 .. k + 1 : g[i] = h[i]
      <4> HIDE DEF g
      <4>1. QED
        BY <2>6
    <3>2. QED
      BY <3>1
  <2>8. IsFlatten(g, s, k + 1)
    <3> HIDE DEF g
    <3>1. QED
      BY <2>7 DEF IsFlatten
  <2> HIDE DEF g
  <2>9. QED
    BY <2>2, <2>8
<1> HIDE DEF T
<1>3. n \in 0 .. n /\ \A k \in 0 .. n : k \in T
  BY ONLY <1>1, <1>2, InductionTo
<1>4. QED
  BY <1>3 DEF T

\* A flattened sequence of sequences has their elements one after the other.
IsFlat(flat, s, off, len, n) ==
  /\ IsSequence(flat, off[n])
  /\ \A k \in 1 .. n : \A i \in 1 .. len[k] :
       off[k - 1] + i \in 1 .. off[n] /\ flat[off[k - 1] + i] = s[k][i]

LEMMA FlattenFacts ==
  ASSUME NEW s, NEW off, NEW len, NEW n, IsSequence(s, n), IsOffsets(off, len, n),
         \A k \in 1 .. n : IsSequence(s[k], len[k])
  PROVE  IsFlat(FlattenSeq(s), s, off, len, n)
<1>1. /\ n \in Nat /\ off \in [0 .. n -> Nat] /\ off[0] = 0
      /\ \A i \in 1 .. n : len[i] \in Nat /\ off[i] = off[i - 1] + len[i]
  BY DEF IsOffsets
<1>2. Len(s) = n
  BY SequenceFacts
<1>3. CASE n = 0
  <2>1. FlattenSeq(s) = s
    BY <1>2, <1>3 DEF FlattenSeq
  <2>2. IsSequence(s, 0)
    BY <1>3
  <2>3. QED
    BY <1>1, <1>3, <2>1, <2>2 DEF IsFlat
<1>4. CASE n # 0
  <2>1. FlattenSeq(s) = (CHOOSE f : IsFlatten(f, s, n))[n]
    BY <1>2, <1>4 DEF FlattenSeq, IsFlatten, Joined
  <2>2. PICK f : f = CHOOSE g : IsFlatten(g, s, n)
    OBVIOUS
  <2>3. IsFlatten(f, s, n)
    BY <1>1, <2>2, FlattenExists
  <2>4. \A i \in 1 .. n : f[i] = IF i = 1 THEN s[i] ELSE Joined(f[i - 1], s[i])
    BY <2>3 DEF IsFlatten
  <2> DEFINE T == {m \in 0 .. n : m # 0 => IsFlat(f[m], s, off, len, m)}
  <2>5. 0 \in T
    BY <1>1
  <2>6. ASSUME NEW m \in 0 .. n - 1, m \in T PROVE m + 1 \in T
    <3>1. m \in Nat /\ m + 1 \in 0 .. n /\ m + 1 \in 1 .. n /\ m + 1 - 1 = m /\ m \in 0 .. n
      BY <1>1
    <3>2. /\ IsSequence(s[m + 1], len[m + 1]) /\ len[m + 1] \in Nat
          /\ off[m + 1] = off[m] + len[m + 1] /\ off[m] \in Nat /\ off[m + 1] \in Nat
      BY <1>1, <3>1
    <3>3. CASE m = 0
      <4>1. f[m + 1] = s[m + 1] /\ off[m] = 0 /\ off[m + 1] = len[m + 1]
        BY <1>1, <2>4, <3>1, <3>2, <3>3
      <4>2. ASSUME NEW k \in 1 .. m + 1, NEW i \in 1 .. len[k]
            PROVE  off[k - 1] + i \in 1 .. off[m + 1] /\ f[m + 1][off[k - 1] + i] = s[k][i]
        <5>1. k = m + 1 /\ off[k - 1] = 0 /\ 0 + i = i
          BY <3>2, <3>3, <4>1
        <5>2. QED
          BY <4>1, <5>1
      <4>3. IsFlat(f[m + 1], s, off, len, m + 1)
        BY <3>2, <4>1, <4>2 DEF IsFlat
      <4>4. QED
        BY <3>1, <4>3
    <3>4. CASE m # 0
      <4>1. f[m + 1] = Joined(f[m], s[m + 1])
        BY <2>4, <3>1, <3>4
      <4>2. /\ IsSequence(f[m], off[m])
            /\ \A k \in 1 .. m : \A i \in 1 .. len[k] :
                 off[k - 1] + i \in 1 .. off[m] /\ f[m][off[k - 1] + i] = s[k][i]
        BY <2>6, <3>4 DEF IsFlat
      <4>3. /\ IsSequence(f[m + 1], off[m + 1])
            /\ \A i \in 1 .. off[m] : f[m + 1][i] = f[m][i]
            /\ \A i \in 1 .. len[m + 1] : f[m + 1][off[m] + i] = s[m + 1][i]
        <5>1. PICK u, v, a, b : u = f[m] /\ v = s[m + 1] /\ a = off[m] /\ b = len[m + 1]
          OBVIOUS
        <5>2. IsSequence(u, a) /\ IsSequence(v, b)
          BY ONLY <3>2, <4>2, <5>1
        <5>3. /\ IsSequence(u \o v, a + b)
              /\ \A i \in 1 .. a : (u \o v)[i] = u[i]
              /\ \A i \in 1 .. b : (u \o v)[a + i] = v[i]
          <6>1. IsConcat(u \o v, u, v, a, b)
            BY ONLY <5>2, ConcatFacts
          <6>2. QED
            BY ONLY <6>1 DEF IsConcat
        <5>4. f[m + 1] = u \o v
          BY ONLY <4>1, <5>1 DEF Joined
        <5>5. QED
          BY ONLY <3>2, <5>1, <5>3, <5>4
      <4>4. ASSUME NEW k \in 1 .. m + 1, NEW i \in 1 .. len[k]
            PROVE  off[k - 1] + i \in 1 .. off[m + 1] /\ f[m + 1][off[k - 1] + i] = s[k][i]
        <5>1. CASE k = m + 1
          <6>1. off[k - 1] = off[m] /\ i \in 1 .. len[m + 1]
            BY <3>1, <5>1
          <6>2. off[m] + i \in 1 .. off[m + 1]
            BY <3>2, <6>1
          <6>3. QED
            BY <4>3, <5>1, <6>1, <6>2
        <5>2. CASE k # m + 1
          <6>1. k \in 1 .. m
            BY <3>1, <5>2
          <6>2. off[k - 1] + i \in 1 .. off[m] /\ f[m][off[k - 1] + i] = s[k][i]
            BY <4>2, <6>1
          <6>3. off[k - 1] + i \in 1 .. off[m + 1]
            BY <3>2, <6>2
          <6>4. QED
            BY <4>3, <6>2, <6>3
        <5>3. QED
          BY <5>1, <5>2
      <4>5. IsFlat(f[m + 1], s, off, len, m + 1)
        BY <4>3, <4>4 DEF IsFlat
      <4>6. QED
        BY <3>1, <4>5
    <3>5. QED
      BY <3>3, <3>4
  <2> HIDE DEF T
  <2>7. n \in 0 .. n /\ \A m \in 0 .. n : m \in T
    <3>1. \A m \in 0 .. n : m \in T
      BY ONLY <1>1, <2>5, <2>6, InductionTo
    <3>2. QED
      BY <1>1, <3>1
  <2>8. QED
    BY <1>4, <2>1, <2>2, <2>7 DEF T
<1>5. QED
  BY <1>3, <1>4

\* Row i of the group q + 1, when each group has d rows.
Cell(j, q, i, d) == q \in Nat /\ d \in Nat /\ i \in 1 .. d /\ j = q * d + i

LEMMA CellExists ==
  ASSUME NEW d \in Nat \ {0}, NEW j \in Nat \ {0}
  PROVE  Cell(j, (j - 1) \div d, ((j - 1) % d) + 1, d)
<1> DEFINE n == j - 1
<1>1. n \in Nat
  OBVIOUS
<1> HIDE DEF n
<1>2. n \div d \in Nat /\ n % d \in 0 .. d - 1 /\ n = (n \div d) * d + (n % d)
  BY <1>1
<1> DEFINE p == (n \div d) * d
<1>3. p \in Nat
  BY <1>2
<1>4. n = p + (n % d) /\ n % d \in Int
  BY <1>2
<1> HIDE DEF p
<1>5. j = p + ((n % d) + 1) /\ (n % d) + 1 \in 1 .. d
  BY <1>2, <1>3, <1>4 DEF n
<1>6. QED
  BY <1>2, <1>5 DEF Cell, n, p

LEMMA CellIs ==
  ASSUME NEW d, NEW j, NEW q, NEW i, Cell(j, q, i, d)
  PROVE  j \in Nat \ {0} /\ (j - 1) \div d = q /\ ((j - 1) % d) + 1 = i
<1> DEFINE p == q * d
<1>1. q \in Nat /\ d \in Nat \ {0} /\ i \in 1 .. d /\ j = p + i
  BY DEF Cell
<1>2. p \in Nat
  BY <1>1
<1> HIDE DEF p
<1>3. j \in Nat \ {0} /\ j - 1 \in Nat /\ p <= j - 1 /\ j - 1 < p + d
  BY <1>1, <1>2
<1>4. PICK n : n = j - 1
  OBVIOUS
<1>5. n \in Nat /\ p <= n /\ n < p + d
  BY <1>3, <1>4
<1>6. q * d <= n /\ n < q * d + d
  BY <1>5 DEF p
<1>7. q <= n \div d /\ n \div d <= q
  BY ONLY <1>1, <1>5, <1>6, QuotientIsLargest
<1>8. n \div d \in Nat /\ n % d \in 0 .. d - 1 /\ n = (n \div d) * d + (n % d)
  BY <1>1, <1>5
<1>9. n \div d = q
  <2>1. PICK k : k = n \div d
    OBVIOUS
  <2>2. k \in Nat /\ q <= k /\ k <= q
    BY ONLY <1>7, <1>8, <2>1
  <2>3. QED
    BY ONLY <1>1, <2>1, <2>2
<1>10. n = p + (n % d) /\ n % d \in Int
  BY <1>8, <1>9 DEF p
<1>11. (n % d) + 1 = i
  BY <1>1, <1>2, <1>4, <1>10
<1>12. QED
  BY <1>3, <1>4, <1>9, <1>11

LEMMA CellBound ==
  ASSUME NEW d, NEW j, NEW q, NEW i, Cell(j, q, i, d), NEW n \in Nat
  PROVE  j <= n * d <=> q < n
<1> DEFINE p == q * d
           m == n * d
<1>1. q \in Nat /\ d \in Nat \ {0} /\ i \in 1 .. d /\ j = p + i
  BY DEF Cell
<1>2. p \in Nat /\ m \in Nat
  BY <1>1
<1>3. q + 1 <= n => p + d <= m
  <2>1. SUFFICES ASSUME q + 1 <= n PROVE p + d <= m
    OBVIOUS
  <2>2. (q + 1) * d <= n * d
    BY <1>1, <2>1, ProductGrows
  <2>3. (q + 1) * d = q * d + d
    BY <1>1
  <2>4. QED
    BY <2>2, <2>3
<1>4. n <= q => m <= p
  BY <1>1, ProductGrows
<1> HIDE DEF p, m
<1>5. j <= m <=> q < n
  BY <1>1, <1>2, <1>3, <1>4
<1>6. QED
  BY <1>5 DEF m

-----------------------------------------------------------------------------
(* Tensors *)

\* A tensor of a heads with m rows each.
IsTensor(t, a, m) == IsSequence(t, a) /\ m \in Nat /\ \A h \in 1 .. a : IsSequence(t[h], m)

\* The rows of all heads in a line.
IsLine(rows, t, a, m) ==
  /\ IsSequence(rows, a * m)
  /\ \A h \in 1 .. a, i \in 1 .. m, j \in Nat : Cell(j, h - 1, i, m) => rows[j] = t[h][i]

LEMMA TensorFlattens ==
  ASSUME NEW t, NEW a, NEW m, IsTensor(t, a, m)
  PROVE  IsLine(FlattenSeq(t), t, a, m)
<1>1. a \in Nat /\ m \in Nat /\ IsSequence(t, a) /\ \A h \in 1 .. a : IsSequence(t[h], m)
  BY SequenceFacts DEF IsTensor
<1> DEFINE off == [h \in 0 .. a |-> h * m]
           len == [h \in 1 .. a |-> m]
<1>2. IsOffsets(off, len, a)
  <2>1. off \in [0 .. a -> Nat] /\ off[0] = 0
    <3>1. \A h \in 0 .. a : h * m \in Nat
      BY <1>1
    <3>2. 0 * m = 0
      BY <1>1
    <3>3. QED
      BY <1>1, <3>1, <3>2
  <2>2. ASSUME NEW h \in 1 .. a PROVE len[h] \in Nat /\ off[h] = off[h - 1] + len[h]
    <3>1. \A x, y \in Int : x * y = (x - 1) * y + y
      OBVIOUS
    <3>2. h \in 0 .. a /\ h - 1 \in 0 .. a /\ h \in Int /\ m \in Int
      BY <1>1
    <3>3. QED
      BY <1>1, <3>1, <3>2
  <2>3. QED
    BY <1>1, <2>1, <2>2 DEF IsOffsets
<1>3. \A h \in 1 .. a : IsSequence(t[h], len[h])
  BY <1>1
<1>4. \A h \in 1 .. a : len[h] = m
  OBVIOUS
<1>5. off[a] = a * m /\ \A h \in 1 .. a : off[h - 1] = (h - 1) * m
  BY <1>1
<1> HIDE DEF off, len
<1>6. IsFlat(FlattenSeq(t), t, off, len, a)
  BY ONLY <1>1, <1>2, <1>3, FlattenFacts
<1>7. IsSequence(FlattenSeq(t), a * m)
  BY <1>5, <1>6 DEF IsFlat
<1>8. ASSUME NEW h \in 1 .. a, NEW i \in 1 .. m, NEW j \in Nat, Cell(j, h - 1, i, m)
      PROVE  FlattenSeq(t)[j] = t[h][i]
  <2>1. FlattenSeq(t)[off[h - 1] + i] = t[h][i]
    BY <1>4, <1>6 DEF IsFlat
  <2>2. j = off[h - 1] + i
    BY <1>5, <1>8 DEF Cell
  <2>3. QED
    BY <2>1, <2>2
<1>9. QED
  BY <1>7, <1>8 DEF IsLine

SameSize(a, m, b, n) == a * m = b * n

\* A tensor reshaped to b heads has the same rows in a line.
LEMMA ReshapeFacts ==
  ASSUME NEW t, NEW a, NEW m, IsTensor(t, a, m), NEW b \in Nat \ {0}, NEW n \in Nat,
         SameSize(a, m, b, n)
  PROVE  /\ IsTensor(Reshape(t, b), b, n)
         /\ \A g \in 1 .. b, i \in 1 .. n, j \in Nat :
              Cell(j, g - 1, i, n) => Reshape(t, b)[g][i] = FlattenSeq(t)[j]
<1>1. PICK rows, size : rows = FlattenSeq(t) /\ size = Len(rows) \div b
  OBVIOUS
<1>2. Reshape(t, b) = [h \in 1 .. b |-> Narrow(rows, (h - 1) * size, size)]
  BY <1>1, Zenon DEF Reshape
<1>3. IsSequence(rows, b * n)
  BY <1>1, TensorFlattens DEF IsLine, SameSize
<1>4. b * n = n * b /\ Len(rows) = b * n
  <2>1. PICK N : N = b * n
    OBVIOUS
  <2>2. Len(rows) = N
    BY <1>3, <2>1, SequenceFacts
  <2>3. QED
    BY <2>1, <2>2
<1>5. size = n
  BY <1>1, <1>4, ProductDivided
<1>6. ASSUME NEW g \in 1 .. b
      PROVE  /\ IsSequence(Reshape(t, b)[g], n)
             /\ \A i \in 1 .. n : Reshape(t, b)[g][i] = rows[(g - 1) * n + i]
  <2>1. PICK k : k = (g - 1) * n
    OBVIOUS
  <2>2. k \in Nat /\ k + n <= b * n
    <3>1. g - 1 \in Nat /\ g \in Nat /\ g <= b
      OBVIOUS
    <3>2. k \in Nat
      BY <2>1, <3>1
    <3>3. g * n <= b * n
      BY <3>1, ProductGrows
    <3>4. \A x, y \in Int : x * y = (x - 1) * y + y
      OBVIOUS
    <3>5. g * n = k + n
      BY <2>1, <3>1, <3>4
    <3>6. QED
      BY <3>2, <3>3, <3>5
  <2>3. Reshape(t, b)[g] = Narrow(rows, k, n)
    BY <1>2, <1>5, <2>1
  <2>4. PICK N : N = b * n
    OBVIOUS
  <2>5. IsPart(Narrow(rows, k, n), rows, k, n)
    BY <1>3, <2>2, <2>4, NarrowFacts
  <2>6. QED
    BY <2>1, <2>3, <2>5 DEF IsPart
<1>7. IsTensor(Reshape(t, b), b, n)
  <2>1. IsSequence(Reshape(t, b), b)
    BY <1>2 DEF IsSequence
  <2>2. QED
    BY <1>6, <2>1 DEF IsTensor
<1>8. ASSUME NEW g \in 1 .. b, NEW i \in 1 .. n, NEW j \in Nat, Cell(j, g - 1, i, n)
      PROVE  Reshape(t, b)[g][i] = FlattenSeq(t)[j]
  BY <1>1, <1>6, <1>8 DEF Cell
<1>9. QED
  BY <1>7, <1>8

LEMMA HeadFacts ==
  /\ Repetition \in Nat \ {0} /\ QueryHeadCount \in Nat \ {0} /\ KeyValueHeadCount \in Nat \ {0}
  /\ QueryHeadCount = KeyValueHeadCount * Repetition
  /\ \A h \in 1 .. QueryHeadCount :
       /\ KeyValueHead(h) \in 1 .. KeyValueHeadCount
       /\ \E e \in 1 .. Repetition : Cell(h, KeyValueHead(h) - 1, e, Repetition)
<1> DEFINE R == Repetition
           H == QueryHeadCount
           K == KeyValueHeadCount
<1>1. H \in Nat \ {0} /\ K \in Nat \ {0} /\ H % K = 0
  BY AttentionAssumption
<1>2. R = H \div K
  BY DEF Repetition
<1> HIDE DEF R, H, K
<1>3. R \in Nat /\ H = R * K + 0
  BY <1>1, <1>2
<1>4. H = R * K /\ R # 0
  <2>1. R * K \in Nat
    BY <1>1, <1>3
  <2>2. H = R * K
    BY <1>3, <2>1
  <2>3. 0 * K = 0
    BY <1>1
  <2>4. QED
    BY <1>1, <2>2, <2>3
<1>5. R * K = K * R
  BY <1>1, <1>3
<1>6. ASSUME NEW h \in 1 .. H
      PROVE  /\ KeyValueHead(h) \in 1 .. K
             /\ \E e \in 1 .. R : Cell(h, KeyValueHead(h) - 1, e, R)
  <2>1. PICK q, e : q = (h - 1) \div R /\ e = ((h - 1) % R) + 1
    OBVIOUS
  <2>2. R \in Nat \ {0} /\ h \in Nat \ {0} /\ h <= K * R /\ K \in Nat
    BY <1>1, <1>3, <1>4, <1>5
  <2>3. Cell(h, q, e, R)
    BY ONLY <2>1, <2>2, CellExists
  <2>4. q \in Nat /\ e \in 1 .. R
    BY <2>3 DEF Cell
  <2>5. q < K
    BY ONLY <2>2, <2>3, CellBound
  <2>6. KeyValueHead(h) = q + 1
    BY <2>1 DEF KeyValueHead, R
  <2>7. KeyValueHead(h) - 1 = q /\ KeyValueHead(h) \in 1 .. K
    BY <2>2, <2>4, <2>5, <2>6
  <2>8. QED
    BY <2>3, <2>4, <2>7
<1>7. R \in Nat \ {0} /\ H = K * R
  BY <1>3, <1>4, <1>5
<1>8. QED
  BY <1>1, <1>6, <1>7 DEF R, H, K

\* Cells of cells.
LEMMA CellsNest ==
  ASSUME NEW h, NEW g, NEW e, NEW r, Cell(h, g, e, r),
         NEW x, NEW i, NEW m, Cell(x, e - 1, i, m)
  PROVE  \E j \in Nat : Cell(j, h - 1, i, m) /\ Cell(j, g, x, r * m)
<1>1. g \in Nat /\ r \in Nat \ {0} /\ e \in 1 .. r /\ h = g * r + e
  BY DEF Cell
<1>2. e - 1 \in Nat /\ m \in Nat \ {0} /\ i \in 1 .. m /\ x = (e - 1) * m + i
  BY DEF Cell
<1>3. h \in Nat \ {0} /\ x \in Nat \ {0}
  BY CellIs
<1>4. x <= r * m
  BY <1>1, <1>2, CellBound
<1>5. PICK j : j = (h - 1) * m + i
  OBVIOUS
<1>6. h - 1 \in Nat /\ (h - 1) * m \in Nat
  BY <1>2, <1>3
<1>7. j \in Nat /\ Cell(j, h - 1, i, m)
  BY <1>2, <1>5, <1>6 DEF Cell
<1>8. r * m \in Nat
  BY <1>1, <1>2
<1>9. j = g * (r * m) + x
  <2>1. \A a, b, c, d, f \in Int : (a * b + c - 1) * d + f = a * (b * d) + ((c - 1) * d + f)
    OBVIOUS
  <2>2. QED
    BY <1>1, <1>2, <1>5, <2>1
<1>10. x \in 1 .. r * m
  <2>1. PICK n : n = r * m
    OBVIOUS
  <2>2. QED
    BY <1>3, <1>4, <1>8, <2>1
<1>11. Cell(j, g, x, r * m)
  BY <1>1, <1>8, <1>9, <1>10 DEF Cell
<1>12. QED
  BY <1>7, <1>11

\* u has in each key-value head the rows of the query heads that share it, one after the other.
Grouped(u, t, m) ==
  \A g \in 1 .. KeyValueHeadCount, e \in 1 .. Repetition, i \in 1 .. m, h \in Nat, x \in Nat :
    Cell(h, g - 1, e, Repetition) /\ Cell(x, e - 1, i, m) => u[g][x] = t[h][i]

LEMMA GroupingFacts ==
  ASSUME NEW g \in 1 .. KeyValueHeadCount, NEW e \in 1 .. Repetition, NEW m \in Nat,
         NEW i \in 1 .. m, NEW h \in Nat, NEW x \in Nat,
         Cell(h, g - 1, e, Repetition), Cell(x, e - 1, i, m)
  PROVE  /\ h \in 1 .. QueryHeadCount
         /\ x \in 1 .. Repetition * m
         /\ \E j \in Nat : Cell(j, h - 1, i, m) /\ Cell(j, g - 1, x, Repetition * m)
<1>1. /\ Repetition \in Nat \ {0} /\ KeyValueHeadCount \in Nat
      /\ QueryHeadCount = KeyValueHeadCount * Repetition
      /\ QueryHeadCount \in Nat
  BY HeadFacts
<1>2. PICK j \in Nat : Cell(j, h - 1, i, m) /\ Cell(j, g - 1, x, Repetition * m)
  BY CellsNest
<1>3. g - 1 < KeyValueHeadCount
  BY <1>1
<1>4. h <= KeyValueHeadCount * Repetition
  BY <1>1, <1>3, CellBound
<1>5. h \in 1 .. QueryHeadCount
  <2>1. h \in Nat \ {0}
    BY CellIs
  <2>2. h <= QueryHeadCount
    BY <1>1, <1>4
  <2>3. QED
    BY <1>1, <2>1, <2>2
<1>6. QED
  BY <1>2, <1>5 DEF Cell

LEMMA GroupingHeads ==
  ASSUME NEW t, NEW m, IsTensor(t, QueryHeadCount, m)
  PROVE  /\ IsTensor(Reshape(t, KeyValueHeadCount), KeyValueHeadCount, Repetition * m)
         /\ Grouped(Reshape(t, KeyValueHeadCount), t, m)
<1> DEFINE R == Repetition
           H == QueryHeadCount
           K == KeyValueHeadCount
<1>1. R \in Nat \ {0} /\ H \in Nat \ {0} /\ K \in Nat \ {0} /\ H = K * R /\ m \in Nat
  BY HeadFacts DEF IsTensor
<1>2. H * m = K * (R * m) /\ R * m \in Nat
  BY <1>1
<1>3. PICK n : n = R * m
  OBVIOUS
<1>4. /\ IsTensor(Reshape(t, K), K, n)
      /\ \A g \in 1 .. K, i \in 1 .. n, j \in Nat :
           Cell(j, g - 1, i, n) => Reshape(t, K)[g][i] = FlattenSeq(t)[j]
  <2>1. n \in Nat /\ SameSize(H, m, K, n)
    BY <1>2, <1>3 DEF SameSize
  <2>2. IsTensor(t, H, m)
    OBVIOUS
  <2>3. QED
    BY ONLY <1>1, <2>1, <2>2, ReshapeFacts
<1>5. \A h \in 1 .. H, i \in 1 .. m, j \in Nat :
        Cell(j, h - 1, i, m) => FlattenSeq(t)[j] = t[h][i]
  BY TensorFlattens DEF IsLine
<1>6. Grouped(Reshape(t, K), t, m)
  <2> SUFFICES ASSUME NEW g \in 1 .. K, NEW e \in 1 .. R, NEW i \in 1 .. m, NEW h \in Nat,
                      NEW x \in Nat, Cell(h, g - 1, e, R), Cell(x, e - 1, i, m)
               PROVE  Reshape(t, K)[g][x] = t[h][i]
    BY DEF Grouped
  <2>1. h \in 1 .. H /\ x \in 1 .. n
        /\ \E j \in Nat : Cell(j, h - 1, i, m) /\ Cell(j, g - 1, x, n)
    BY <1>1, <1>3, GroupingFacts
  <2>2. QED
    BY <1>4, <1>5, <2>1
<1>7. QED
  BY <1>3, <1>4, <1>6

LEMMA UngroupingHeads ==
  ASSUME NEW u, NEW m \in Nat, IsTensor(u, KeyValueHeadCount, Repetition * m)
  PROVE  /\ IsTensor(Reshape(u, QueryHeadCount), QueryHeadCount, m)
         /\ Grouped(u, Reshape(u, QueryHeadCount), m)
<1> DEFINE R == Repetition
           H == QueryHeadCount
           K == KeyValueHeadCount
<1>1. R \in Nat \ {0} /\ H \in Nat \ {0} /\ K \in Nat \ {0} /\ H = K * R
  BY HeadFacts
<1>2. H * m = K * (R * m) /\ R * m \in Nat
  BY <1>1
<1>3. PICK n : n = R * m
  OBVIOUS
<1>4. /\ IsTensor(Reshape(u, H), H, m)
      /\ \A h \in 1 .. H, i \in 1 .. m, j \in Nat :
           Cell(j, h - 1, i, m) => Reshape(u, H)[h][i] = FlattenSeq(u)[j]
  <2>1. n \in Nat /\ SameSize(K, n, H, m)
    BY <1>2, <1>3 DEF SameSize
  <2>2. IsTensor(u, K, n) /\ m \in Nat
    BY <1>3
  <2>3. QED
    BY ONLY <1>1, <2>1, <2>2, ReshapeFacts
<1>5. \A g \in 1 .. K, x \in 1 .. n, j \in Nat :
        Cell(j, g - 1, x, n) => FlattenSeq(u)[j] = u[g][x]
  BY <1>3, TensorFlattens DEF IsLine
<1>6. Grouped(u, Reshape(u, H), m)
  <2> SUFFICES ASSUME NEW g \in 1 .. K, NEW e \in 1 .. R, NEW i \in 1 .. m, NEW h \in Nat,
                      NEW x \in Nat, Cell(h, g - 1, e, R), Cell(x, e - 1, i, m)
               PROVE  u[g][x] = Reshape(u, H)[h][i]
    BY DEF Grouped
  <2>1. h \in 1 .. H /\ x \in 1 .. n
        /\ \E j \in Nat : Cell(j, h - 1, i, m) /\ Cell(j, g - 1, x, n)
    BY <1>1, <1>3, GroupingFacts
  <2>2. QED
    BY <1>4, <1>5, <2>1
<1>7. QED
  BY <1>4, <1>6

\* The row of a group that a query head's row is, the same one for all tensors of that shape.
LEMMA RowsOfGroups ==
  ASSUME NEW m \in Nat, NEW h \in 1 .. QueryHeadCount, NEW i \in 1 .. m
  PROVE  /\ KeyValueHead(h) \in 1 .. KeyValueHeadCount
         /\ \E x \in 1 .. Repetition * m :
              \A u, t : Grouped(u, t, m) => u[KeyValueHead(h)][x] = t[h][i]
<1>1. PICK e \in 1 .. Repetition : Cell(h, KeyValueHead(h) - 1, e, Repetition)
  BY HeadFacts
<1>2. KeyValueHead(h) \in 1 .. KeyValueHeadCount /\ h \in Nat /\ Repetition \in Nat
  BY HeadFacts
<1>3. PICK x : x = (e - 1) * m + i
  OBVIOUS
<1>4. e - 1 \in Nat /\ (e - 1) * m \in Nat
  BY <1>2
<1>5. x \in Nat /\ Cell(x, e - 1, i, m)
  BY <1>3, <1>4 DEF Cell
<1>6. x \in 1 .. Repetition * m
  BY <1>1, <1>2, <1>5, GroupingFacts
<1>7. ASSUME NEW u, NEW t, Grouped(u, t, m) PROVE u[KeyValueHead(h)][x] = t[h][i]
  <2>1. PICK g : g = KeyValueHead(h)
    OBVIOUS
  <2>2. g \in 1 .. KeyValueHeadCount /\ h \in Nat /\ Cell(h, g - 1, e, Repetition)
    BY <1>1, <1>2, <2>1
  <2>3. u[g][x] = t[h][i]
    BY ONLY <1>5, <1>7, <2>2 DEF Grouped
  <2>4. QED
    BY <2>1, <2>3
<1>8. QED
  BY <1>2, <1>6, <1>7

\* s has the scores of the m rows of each of a query heads for the n keys of the head it reads.
IsProduct(s, q, k, a, m, n) ==
  /\ IsTensor(s, a, m)
  /\ \A h \in 1 .. a, i \in 1 .. m :
       /\ IsSequence(s[h][i], n)
       /\ \A j \in 1 .. n : s[h][i][j] = <<q[h][i], k[h][j]>>

LEMMA ScoresFacts ==
  ASSUME NEW q, NEW k, NEW a, NEW m, NEW n, IsTensor(q, a, m), IsTensor(k, a, n)
  PROVE  IsProduct(Scores(q, k), q, k, a, m, n)
<1> DEFINE s == Scores(q, k)
<1>1. /\ a \in Nat /\ m \in Nat /\ n \in Nat /\ DOMAIN q = 1 .. a
      /\ \A h \in 1 .. a : DOMAIN q[h] = 1 .. m /\ DOMAIN k[h] = 1 .. n
  BY DEF IsTensor, IsSequence
<1>2. s = [h \in DOMAIN q |-> [i \in DOMAIN q[h] |-> [j \in DOMAIN k[h] |-> <<q[h][i], k[h][j]>>]]]
  BY DEF Scores
<1> HIDE DEF s
<1>3. IsSequence(s, a)
  BY <1>1, <1>2 DEF IsSequence
<1>4. ASSUME NEW h \in 1 .. a PROVE IsSequence(s[h], m)
  <2>1. s[h] = [i \in DOMAIN q[h] |-> [j \in DOMAIN k[h] |-> <<q[h][i], k[h][j]>>]]
    BY <1>1, <1>2
  <2>2. QED
    BY <1>1, <2>1 DEF IsSequence
<1>5. ASSUME NEW h \in 1 .. a, NEW i \in 1 .. m
      PROVE  /\ IsSequence(s[h][i], n)
             /\ \A j \in 1 .. n : s[h][i][j] = <<q[h][i], k[h][j]>>
  <2>1. s[h][i] = [j \in DOMAIN k[h] |-> <<q[h][i], k[h][j]>>]
    BY <1>1, <1>2
  <2>2. QED
    BY <1>1, <2>1 DEF IsSequence
<1>6. QED
  BY <1>1, <1>3, <1>4, <1>5 DEF IsProduct, IsTensor, s

LEMMA RepeatFacts ==
  ASSUME NEW t, NEW n, IsTensor(t, KeyValueHeadCount, n)
  PROVE  /\ IsTensor(RepeatKv(t), QueryHeadCount, n)
         /\ \A h \in 1 .. QueryHeadCount : RepeatKv(t)[h] = t[KeyValueHead(h)]
<1>1. \A h \in 1 .. QueryHeadCount : RepeatKv(t)[h] = t[KeyValueHead(h)]
  BY DEF RepeatKv, KeyValueHead
<1>2. IsSequence(RepeatKv(t), QueryHeadCount)
  BY HeadFacts DEF RepeatKv, IsSequence
<1>3. QED
  BY <1>1, <1>2, HeadFacts DEF IsTensor

\* What a row of weights takes of the values.
Consumed(row, values) == {<<row[j], values[j]>> : j \in {c \in DOMAIN row : row[c] # Masked}}

IsConsumption(y, w, v, a, m) ==
  IsTensor(y, a, m) /\ \A h \in 1 .. a, i \in 1 .. m : y[h][i] = Consumed(w[h][i], v[h])

LEMMA WeightedSumsFacts ==
  ASSUME NEW w, NEW v, NEW a, NEW m, IsTensor(w, a, m)
  PROVE  IsConsumption(WeightedSums(w, v), w, v, a, m)
<1> DEFINE y == WeightedSums(w, v)
<1>1. /\ a \in Nat /\ m \in Nat /\ DOMAIN w = 1 .. a
      /\ \A h \in 1 .. a : DOMAIN w[h] = 1 .. m
  BY DEF IsTensor, IsSequence
<1>2. y = [h \in DOMAIN w |-> [i \in DOMAIN w[h] |-> Consumed(w[h][i], v[h])]]
  BY DEF WeightedSums, Consumed
<1> HIDE DEF y
<1>3. IsSequence(y, a)
  BY <1>1, <1>2 DEF IsSequence
<1>4. ASSUME NEW h \in 1 .. a
      PROVE  IsSequence(y[h], m) /\ \A i \in 1 .. m : y[h][i] = Consumed(w[h][i], v[h])
  <2>1. y[h] = [i \in DOMAIN w[h] |-> Consumed(w[h][i], v[h])]
    BY <1>1, <1>2
  <2>2. QED
    BY <1>1, <2>1 DEF IsSequence
<1>5. QED
  BY <1>1, <1>3, <1>4 DEF IsConsumption, IsTensor, y

\* The two ways of the products agree: every query head reads the head that it shares.
IsScores(s, q, k, m, n) ==
  /\ IsTensor(s, QueryHeadCount, m)
  /\ \A h \in 1 .. QueryHeadCount, i \in 1 .. m :
       /\ IsSequence(s[h][i], n)
       /\ \A j \in 1 .. n : s[h][i][j] = <<q[h][i], k[KeyValueHead(h)][j]>>

LEMMA MatmulQueryKeyFacts ==
  ASSUME NEW q, NEW k, NEW m, NEW n, NEW grouped,
         IsTensor(q, QueryHeadCount, m), IsTensor(k, KeyValueHeadCount, n)
  PROVE  IsScores(MatmulQueryKey(q, k, grouped), q, k, m, n)
<1>0. m \in Nat /\ n \in Nat
  BY DEF IsTensor
<1>1. CASE ~ (grouped /\ Repetition > 1)
  <2>1. MatmulQueryKey(q, k, grouped) = Scores(q, RepeatKv(k))
    BY <1>1 DEF MatmulQueryKey
  <2>2. /\ IsTensor(RepeatKv(k), QueryHeadCount, n)
        /\ \A h \in 1 .. QueryHeadCount : RepeatKv(k)[h] = k[KeyValueHead(h)]
    BY RepeatFacts
  <2>3. IsProduct(Scores(q, RepeatKv(k)), q, RepeatKv(k), QueryHeadCount, m, n)
    BY <2>2, ScoresFacts
  <2>4. QED
    BY <2>1, <2>2, <2>3 DEF IsProduct, IsScores
<1>2. CASE grouped /\ Repetition > 1
  <2>1. PICK u, s, t : /\ u = Reshape(q, KeyValueHeadCount)
                       /\ s = Scores(u, k)
                       /\ t = Reshape(s, QueryHeadCount)
    OBVIOUS
  <2>2. MatmulQueryKey(q, k, grouped) = t
    BY <1>2, <2>1 DEF MatmulQueryKey
  <2>3. PICK N : N = Repetition * m
    OBVIOUS
  <2>4. IsTensor(u, KeyValueHeadCount, N) /\ Grouped(u, q, m)
    BY <2>1, <2>3, GroupingHeads
  <2>5. IsProduct(s, u, k, KeyValueHeadCount, N, n)
    BY <2>1, <2>4, ScoresFacts
  <2>6. IsTensor(s, KeyValueHeadCount, N)
    BY <2>5 DEF IsProduct
  <2>7. IsTensor(t, QueryHeadCount, m) /\ Grouped(s, t, m)
    BY <1>0, <2>1, <2>3, <2>6, UngroupingHeads
  <2>8. ASSUME NEW h \in 1 .. QueryHeadCount, NEW i \in 1 .. m
        PROVE  /\ IsSequence(t[h][i], n)
               /\ \A j \in 1 .. n : t[h][i][j] = <<q[h][i], k[KeyValueHead(h)][j]>>
    <3>1. /\ KeyValueHead(h) \in 1 .. KeyValueHeadCount
          /\ \E x \in 1 .. N : \A a, b : Grouped(a, b, m) => a[KeyValueHead(h)][x] = b[h][i]
      BY <1>0, <2>3, RowsOfGroups
    <3>0. PICK g : g = KeyValueHead(h)
      OBVIOUS
    <3>2. PICK x \in 1 .. N : \A a, b : Grouped(a, b, m) => a[g][x] = b[h][i]
      BY ONLY <3>0, <3>1
    <3>3. u[g][x] = q[h][i] /\ s[g][x] = t[h][i]
      BY <2>4, <2>7, <3>2
    <3>4. IsSequence(s[g][x], n) /\ \A j \in 1 .. n : s[g][x][j] = <<u[g][x], k[g][j]>>
      BY <2>5, <3>0, <3>1, <3>2 DEF IsProduct
    <3>5. QED
      BY <3>0, <3>2, <3>3, <3>4
  <2>9. QED
    BY <2>2, <2>7, <2>8 DEF IsScores
<1>3. QED
  BY <1>1, <1>2

IsWeighted(y, w, v, m) ==
  /\ IsTensor(y, QueryHeadCount, m)
  /\ \A h \in 1 .. QueryHeadCount, i \in 1 .. m :
       y[h][i] = Consumed(w[h][i], v[KeyValueHead(h)])

LEMMA MatmulAttentionValueFacts ==
  ASSUME NEW w, NEW v, NEW m, NEW n, NEW grouped,
         IsTensor(w, QueryHeadCount, m), IsTensor(v, KeyValueHeadCount, n)
  PROVE  IsWeighted(MatmulAttentionValue(w, v, grouped), w, v, m)
<1>0. m \in Nat /\ n \in Nat
  BY DEF IsTensor
<1>1. CASE ~ (grouped /\ Repetition > 1)
  <2>1. MatmulAttentionValue(w, v, grouped) = WeightedSums(w, RepeatKv(v))
    BY <1>1 DEF MatmulAttentionValue
  <2>2. \A h \in 1 .. QueryHeadCount : RepeatKv(v)[h] = v[KeyValueHead(h)]
    BY RepeatFacts
  <2>3. IsConsumption(WeightedSums(w, RepeatKv(v)), w, RepeatKv(v), QueryHeadCount, m)
    BY WeightedSumsFacts
  <2>4. QED
    BY <2>1, <2>2, <2>3 DEF IsConsumption, IsWeighted
<1>2. CASE grouped /\ Repetition > 1
  <2>1. PICK u, s, t : /\ u = Reshape(w, KeyValueHeadCount)
                       /\ s = WeightedSums(u, v)
                       /\ t = Reshape(s, QueryHeadCount)
    OBVIOUS
  <2>2. MatmulAttentionValue(w, v, grouped) = t
    BY <1>2, <2>1 DEF MatmulAttentionValue
  <2>3. PICK N : N = Repetition * m
    OBVIOUS
  <2>4. IsTensor(u, KeyValueHeadCount, N) /\ Grouped(u, w, m)
    BY <2>1, <2>3, GroupingHeads
  <2>5. IsConsumption(s, u, v, KeyValueHeadCount, N)
    BY <2>1, <2>4, WeightedSumsFacts
  <2>6. IsTensor(s, KeyValueHeadCount, N)
    BY <2>5 DEF IsConsumption
  <2>7. IsTensor(t, QueryHeadCount, m) /\ Grouped(s, t, m)
    BY <1>0, <2>1, <2>3, <2>6, UngroupingHeads
  <2>8. ASSUME NEW h \in 1 .. QueryHeadCount, NEW i \in 1 .. m
        PROVE  t[h][i] = Consumed(w[h][i], v[KeyValueHead(h)])
    <3>1. /\ KeyValueHead(h) \in 1 .. KeyValueHeadCount
          /\ \E x \in 1 .. N : \A a, b : Grouped(a, b, m) => a[KeyValueHead(h)][x] = b[h][i]
      BY <1>0, <2>3, RowsOfGroups
    <3>0. PICK g : g = KeyValueHead(h)
      OBVIOUS
    <3>2. PICK x \in 1 .. N : \A a, b : Grouped(a, b, m) => a[g][x] = b[h][i]
      BY ONLY <3>0, <3>1
    <3>3. u[g][x] = w[h][i] /\ s[g][x] = t[h][i]
      BY <2>4, <2>7, <3>2
    <3>4. s[g][x] = Consumed(u[g][x], v[g])
      BY <2>5, <3>0, <3>1, <3>2 DEF IsConsumption
    <3>5. QED
      BY <3>0, <3>2, <3>3, <3>4
  <2>9. QED
    BY <2>2, <2>7, <2>8 DEF IsWeighted
<1>3. QED
  BY <1>1, <1>2

\* The mask of a pass behind c cached rows.
IsMasked(w, q, k, c, m, n) ==
  /\ IsTensor(w, QueryHeadCount, m)
  /\ \A h \in 1 .. QueryHeadCount, i \in 1 .. m :
       /\ IsSequence(w[h][i], n)
       /\ \A j \in 1 .. n : w[h][i][j] = IF j > c + i THEN Masked
                                         ELSE <<q[h][i], k[KeyValueHead(h)][j]>>

LEMMA MaskFacts ==
  ASSUME NEW s, NEW q, NEW k, NEW c, NEW m, NEW n, IsScores(s, q, k, m, n)
  PROVE  IsMasked(ApplyCausalAttentionMask(s, c), q, k, c, m, n)
<1> DEFINE w == ApplyCausalAttentionMask(s, c)
           MaskedRow(row, i) == [j \in DOMAIN row |-> IF j > c + i THEN Masked ELSE row[j]]
<1>1. /\ m \in Nat /\ DOMAIN s = 1 .. QueryHeadCount /\ QueryHeadCount \in Nat
      /\ \A h \in 1 .. QueryHeadCount : DOMAIN s[h] = 1 .. m
      /\ \A h \in 1 .. QueryHeadCount, i \in 1 .. m :
           /\ DOMAIN s[h][i] = 1 .. n /\ n \in Nat
           /\ \A j \in 1 .. n : s[h][i][j] = <<q[h][i], k[KeyValueHead(h)][j]>>
  BY DEF IsScores, IsTensor, IsSequence
<1>2. w = [h \in DOMAIN s |-> [i \in DOMAIN s[h] |-> MaskedRow(s[h][i], i)]]
  BY DEF ApplyCausalAttentionMask
<1> HIDE DEF w, MaskedRow
<1>3. IsSequence(w, QueryHeadCount)
  BY <1>1, <1>2 DEF IsSequence
<1>4. ASSUME NEW h \in 1 .. QueryHeadCount
      PROVE  IsSequence(w[h], m) /\ \A i \in 1 .. m : w[h][i] = MaskedRow(s[h][i], i)
  <2>1. w[h] = [i \in DOMAIN s[h] |-> MaskedRow(s[h][i], i)]
    BY <1>1, <1>2
  <2>2. QED
    BY <1>1, <2>1 DEF IsSequence
<1>5. ASSUME NEW h \in 1 .. QueryHeadCount, NEW i \in 1 .. m
      PROVE  /\ IsSequence(w[h][i], n)
             /\ \A j \in 1 .. n : w[h][i][j] = IF j > c + i THEN Masked
                                               ELSE <<q[h][i], k[KeyValueHead(h)][j]>>
  <2>1. PICK row : row = s[h][i]
    OBVIOUS
  <2>2. w[h][i] = [j \in DOMAIN row |-> IF j > c + i THEN Masked ELSE row[j]]
    BY <1>4, <2>1 DEF MaskedRow
  <2>3. /\ DOMAIN row = 1 .. n /\ n \in Nat
        /\ \A j \in 1 .. n : row[j] = <<q[h][i], k[KeyValueHead(h)][j]>>
    BY <1>1, <2>1
  <2>4. QED
    BY ONLY <2>2, <2>3 DEF IsSequence
<1>6. QED
  BY <1>1, <1>3, <1>4, <1>5 DEF IsMasked, IsTensor, w

\* The attention of m queries behind c cached rows: each takes all rows up to its own.
IsAttention(y, q, k, v, c, m) ==
  /\ IsTensor(y, QueryHeadCount, m)
  /\ \A h \in 1 .. QueryHeadCount, i \in 1 .. m :
       y[h][i] = {<<<<q[h][i], k[KeyValueHead(h)][j]>>, v[KeyValueHead(h)][j]>> : j \in 1 .. c + i}

LEMMA MaskedRowsTakeThePast ==
  ASSUME NEW y, NEW w, NEW q, NEW k, NEW v, NEW c \in Nat, NEW m,
         IsMasked(w, q, k, c, m, c + m), IsWeighted(y, w, v, m)
  PROVE  IsAttention(y, q, k, v, c, m)
<1>1. m \in Nat
  BY DEF IsWeighted, IsTensor
<1>2. ASSUME NEW h \in 1 .. QueryHeadCount, NEW i \in 1 .. m
      PROVE  y[h][i] = {<<<<q[h][i], k[KeyValueHead(h)][j]>>, v[KeyValueHead(h)][j]>> :
                          j \in 1 .. c + i}
  <2>1. PICK row, x, kk, vv, n, d :
          /\ row = w[h][i] /\ x = q[h][i] /\ kk = k[KeyValueHead(h)] /\ vv = v[KeyValueHead(h)]
          /\ n = c + m /\ d = c + i
    OBVIOUS
  <2>2. y[h][i] = Consumed(row, vv)
    BY <2>1 DEF IsWeighted
  <2>3. /\ DOMAIN row = 1 .. n
        /\ \A j \in 1 .. n : row[j] = IF j > d THEN Masked ELSE <<x, kk[j]>>
    BY <2>1 DEF IsMasked, IsSequence
  <2>4. n \in Nat /\ d \in Nat /\ d <= n
    BY <1>1, <2>1
  <2>5. \A a, b : <<a, b>> # Masked
    BY DEF Masked
  <2>6. \A j : j \in {e \in DOMAIN row : row[e] # Masked} <=> j \in 1 .. d
    <3>1. \A j : j \in 1 .. d <=> j \in 1 .. n /\ ~ (j > d)
      BY ONLY <2>4
    <3>2. QED
      BY ONLY <2>3, <2>5, <3>1
  <2>7. {e \in DOMAIN row : row[e] # Masked} = 1 .. d
    BY ONLY <2>6
  <2>8. \A j \in 1 .. d : row[j] = <<x, kk[j]>>
    BY ONLY <2>3, <2>4
  <2>9. Consumed(row, vv) = {<<row[j], vv[j]>> : j \in 1 .. d}
    BY <2>7 DEF Consumed
  <2>10. {<<row[j], vv[j]>> : j \in 1 .. d} = {<<<<x, kk[j]>>, vv[j]>> : j \in 1 .. d}
    BY ONLY <2>8
  <2>11. y[h][i] = {<<<<x, kk[j]>>, vv[j]>> : j \in 1 .. d}
    BY ONLY <2>2, <2>9, <2>10
  <2>12. QED
    BY ONLY <2>1, <2>11
<1>3. QED
  BY <1>2 DEF IsAttention, IsWeighted

\* The pages of a tensor: cnt[p] rows in page p, full ones before it.
IsPages(ss, off, cnt, n) ==
  /\ IsSequence(ss, n) /\ IsOffsets(off, cnt, n)
  /\ \A p \in 1 .. n : IsTensor(ss[p], KeyValueHeadCount, cnt[p])
                       /\ off[p - 1] = (p - 1) * PageTokenCount

IsCat(t, ss, off, cnt, n) ==
  /\ IsTensor(t, KeyValueHeadCount, off[n])
  /\ \A g \in 1 .. KeyValueHeadCount, p \in 1 .. n : \A j \in 1 .. cnt[p] :
       off[p - 1] + j \in 1 .. off[n] /\ t[g][off[p - 1] + j] = ss[p][g][j]

LEMMA CatFacts ==
  ASSUME NEW ss, NEW off, NEW cnt, NEW n, IsPages(ss, off, cnt, n)
  PROVE  IsCat(Cat(ss), ss, off, cnt, n)
<1>1. /\ IsSequence(ss, n) /\ IsOffsets(off, cnt, n) /\ DOMAIN ss = 1 .. n /\ n \in Nat
      /\ \A p \in 1 .. n : IsTensor(ss[p], KeyValueHeadCount, cnt[p])
  BY DEF IsPages, IsSequence
<1>2. off[n] \in Nat
  BY <1>1 DEF IsOffsets
<1>3. KeyValueHeadCount \in Nat
  BY HeadFacts
<1>4. ASSUME NEW g \in 1 .. KeyValueHeadCount
      PROVE  /\ IsSequence(Cat(ss)[g], off[n])
             /\ \A p \in 1 .. n : \A j \in 1 .. cnt[p] :
                  off[p - 1] + j \in 1 .. off[n] /\ Cat(ss)[g][off[p - 1] + j] = ss[p][g][j]
  <2>1. PICK rows : rows = [p \in DOMAIN ss |-> ss[p][g]]
    OBVIOUS
  <2>2. Cat(ss)[g] = FlattenSeq(rows)
    BY <2>1 DEF Cat
  <2>3. IsSequence(rows, n) /\ \A p \in 1 .. n : rows[p] = ss[p][g]
    BY <1>1, <2>1 DEF IsSequence
  <2>4. \A p \in 1 .. n : IsSequence(rows[p], cnt[p])
    BY <1>1, <2>3 DEF IsTensor
  <2>5. IsFlat(FlattenSeq(rows), rows, off, cnt, n)
    BY ONLY <1>1, <2>3, <2>4, FlattenFacts
  <2>6. QED
    BY <2>2, <2>3, <2>5 DEF IsFlat
<1>5. IsSequence(Cat(ss), KeyValueHeadCount)
  BY <1>3 DEF Cat, IsSequence
<1>6. QED
  BY <1>2, <1>4, <1>5 DEF IsCat, IsTensor

\* The scores of the pages side by side are those of all rows.
LEMMA CatColumnsFacts ==
  ASSUME NEW q, NEW ks, NEW off, NEW cnt, NEW n, NEW m, NEW parts,
         IsTensor(q, QueryHeadCount, m), IsPages(ks, off, cnt, n),
         IsSequence(parts, n), \A p \in 1 .. n : IsScores(parts[p], q, ks[p], m, cnt[p])
  PROVE  IsScores(CatColumns(parts, m), q, Cat(ks), m, off[n])
<1>1. IsOffsets(off, cnt, n) /\ DOMAIN parts = 1 .. n /\ n \in Nat /\ m \in Nat
  BY DEF IsPages, IsSequence, IsTensor
<1>2. IsCat(Cat(ks), ks, off, cnt, n)
  BY CatFacts
<1> DEFINE w == CatColumns(parts, m)
<1>3. w = [h \in 1 .. QueryHeadCount |-> [i \in 1 .. m |->
             FlattenSeq([p \in DOMAIN parts |-> parts[p][h][i]])]]
  BY DEF CatColumns
<1> HIDE DEF w
<1>4. IsTensor(w, QueryHeadCount, m)
  BY <1>1, <1>3, HeadFacts DEF IsTensor, IsSequence
<1>5. ASSUME NEW h \in 1 .. QueryHeadCount, NEW i \in 1 .. m
      PROVE  /\ IsSequence(w[h][i], off[n])
             /\ \A j \in 1 .. off[n] : w[h][i][j] = <<q[h][i], Cat(ks)[KeyValueHead(h)][j]>>
  <2>1. PICK rows : rows = [p \in DOMAIN parts |-> parts[p][h][i]]
    OBVIOUS
  <2>2. w[h][i] = FlattenSeq(rows)
    BY <1>3, <2>1
  <2>3. IsSequence(rows, n) /\ \A p \in 1 .. n : rows[p] = parts[p][h][i]
    BY <1>1, <2>1 DEF IsSequence
  <2>4. \A p \in 1 .. n :
          /\ IsSequence(rows[p], cnt[p])
          /\ \A j \in 1 .. cnt[p] : rows[p][j] = <<q[h][i], ks[p][KeyValueHead(h)][j]>>
    BY <2>3 DEF IsScores
  <2>5. IsFlat(FlattenSeq(rows), rows, off, cnt, n)
    BY ONLY <1>1, <2>3, <2>4, FlattenFacts
  <2>6. ASSUME NEW j \in 1 .. off[n]
        PROVE  w[h][i][j] = <<q[h][i], Cat(ks)[KeyValueHead(h)][j]>>
    <3>1. PICK p \in 1 .. n : \E x \in 1 .. cnt[p] : j = off[p - 1] + x
      BY ONLY <1>1, OffsetsCover
    <3>2. PICK x \in 1 .. cnt[p] : j = off[p - 1] + x
      BY <3>1
    <3>3. FlattenSeq(rows)[j] = rows[p][x]
      BY <2>5, <3>2 DEF IsFlat
    <3>4. Cat(ks)[KeyValueHead(h)][j] = ks[p][KeyValueHead(h)][x]
      BY <1>2, <3>2, HeadFacts DEF IsCat
    <3>5. QED
      BY <2>2, <2>4, <3>3, <3>4
  <2>7. IsSequence(w[h][i], off[n])
    BY <2>2, <2>5 DEF IsFlat
  <2>8. QED
    BY <2>6, <2>7
<1>6. QED
  BY <1>4, <1>5 DEF IsScores, w

\* A row and its values, cut into pieces.
ArePieces(pieces, parts, row, values, off, cnt, n) ==
  \A p \in 1 .. n :
    /\ IsPart(pieces[p], row, off[p - 1], cnt[p])
    /\ \A j \in 1 .. cnt[p] :
         off[p - 1] + j \in 1 .. off[n] /\ values[off[p - 1] + j] = parts[p][j]

\* What the pages take of their columns is what the row takes.
LEMMA ConsumedByPages ==
  ASSUME NEW row, NEW values, NEW pieces, NEW parts, NEW off, NEW cnt, NEW n,
         IsOffsets(off, cnt, n), IsSequence(row, off[n]),
         ArePieces(pieces, parts, row, values, off, cnt, n)
  PROVE  UNION {Consumed(pieces[p], parts[p]) : p \in 1 .. n} = Consumed(row, values)
<1>1. DOMAIN row = 1 .. off[n] /\ \A p \in 1 .. n : DOMAIN pieces[p] = 1 .. cnt[p]
  BY DEF IsSequence, IsPart, ArePieces
<1>2. \A p \in 1 .. n : \A j \in 1 .. cnt[p] :
        /\ pieces[p][j] = row[off[p - 1] + j]
        /\ off[p - 1] + j \in 1 .. off[n] /\ values[off[p - 1] + j] = parts[p][j]
  BY DEF IsPart, ArePieces
<1>3. ASSUME NEW z, z \in UNION {Consumed(pieces[p], parts[p]) : p \in 1 .. n}
      PROVE  z \in Consumed(row, values)
  <2>1. PICK p \in 1 .. n : z \in Consumed(pieces[p], parts[p])
    BY <1>3
  <2>2. PICK j \in 1 .. cnt[p] : pieces[p][j] # Masked /\ z = <<pieces[p][j], parts[p][j]>>
    BY <1>1, <2>1 DEF Consumed
  <2>3. PICK k : k = off[p - 1] + j
    OBVIOUS
  <2>4. k \in DOMAIN row /\ row[k] # Masked /\ z = <<row[k], values[k]>>
    BY <1>1, <1>2, <2>2, <2>3
  <2>5. QED
    BY ONLY <2>4 DEF Consumed
<1>4. ASSUME NEW z, z \in Consumed(row, values)
      PROVE  z \in UNION {Consumed(pieces[p], parts[p]) : p \in 1 .. n}
  <2>1. PICK k \in 1 .. off[n] : row[k] # Masked /\ z = <<row[k], values[k]>>
    BY <1>1, <1>4 DEF Consumed
  <2>2. PICK p \in 1 .. n : \E j \in 1 .. cnt[p] : k = off[p - 1] + j
    BY OffsetsCover
  <2>3. PICK j \in 1 .. cnt[p] : k = off[p - 1] + j
    BY <2>2
  <2>4. /\ j \in DOMAIN pieces[p] /\ pieces[p][j] # Masked
        /\ z = <<pieces[p][j], parts[p][j]>>
    BY <1>1, <1>2, <2>1, <2>3
  <2>5. z \in Consumed(pieces[p], parts[p])
    BY ONLY <2>4 DEF Consumed
  <2>6. QED
    BY <2>5
<1>5. QED
  BY <1>3, <1>4

LEMMA PageColumnsFacts ==
  ASSUME NEW w, NEW m, NEW n, NEW p \in Nat \ {0}, NEW count \in Nat,
         IsTensor(w, QueryHeadCount, m),
         \A h \in 1 .. QueryHeadCount, i \in 1 .. m : IsSequence(w[h][i], n),
         (p - 1) * PageTokenCount + count <= n
  PROVE  /\ IsTensor(PageColumns(w, p, count), QueryHeadCount, m)
         /\ \A h \in 1 .. QueryHeadCount, i \in 1 .. m :
              IsPart(PageColumns(w, p, count)[h][i], w[h][i], (p - 1) * PageTokenCount, count)
<1>1. PICK a : a = (p - 1) * PageTokenCount
  OBVIOUS
<1>2. a \in Nat /\ a + count <= n
  <2>1. PageTokenCount \in Nat /\ p - 1 \in Nat
    BY AttentionAssumption
  <2>2. QED
    BY <1>1, <2>1
<1> DEFINE u == PageColumns(w, p, count)
<1>3. u = [h \in DOMAIN w |-> [i \in DOMAIN w[h] |-> Narrow(w[h][i], a, count)]]
  BY <1>1 DEF PageColumns
<1>4. /\ m \in Nat /\ QueryHeadCount \in Nat /\ DOMAIN w = 1 .. QueryHeadCount
      /\ \A h \in 1 .. QueryHeadCount : DOMAIN w[h] = 1 .. m
  BY DEF IsTensor, IsSequence
<1> HIDE DEF u
<1>5. IsSequence(u, QueryHeadCount)
  BY <1>3, <1>4 DEF IsSequence
<1>6. ASSUME NEW h \in 1 .. QueryHeadCount
      PROVE  IsSequence(u[h], m) /\ \A i \in 1 .. m : u[h][i] = Narrow(w[h][i], a, count)
  <2>1. u[h] = [i \in DOMAIN w[h] |-> Narrow(w[h][i], a, count)]
    BY <1>3, <1>4
  <2>2. QED
    BY <1>4, <2>1 DEF IsSequence
<1>7. \A h \in 1 .. QueryHeadCount, i \in 1 .. m :
        IsPart(Narrow(w[h][i], a, count), w[h][i], a, count)
  BY <1>2, NarrowFacts
<1>8. QED
  BY <1>1, <1>4, <1>5, <1>6, <1>7 DEF IsTensor, u

\* The attention over pages is the one over their rows together.
LEMMA ForwardPagedAttentionFacts ==
  ASSUME NEW q, NEW ks, NEW vs, NEW off, NEW cnt, NEW n, NEW x,
         x.start_pos \in Nat, IsTensor(q, QueryHeadCount, x.q_len),
         IsPages(ks, off, cnt, n), IsPages(vs, off, cnt, n), off[n] = x.start_pos + x.q_len
  PROVE  IsAttention(ForwardPagedAttention(q, ks, vs, x), q, Cat(ks), Cat(vs), x.start_pos, x.q_len)
<1>1. PICK m, c, total : m = x.q_len /\ c = x.start_pos /\ total = off[n]
  OBVIOUS
<1>2. m \in Nat /\ c \in Nat /\ total = c + m /\ IsTensor(q, QueryHeadCount, m)
  BY <1>1 DEF IsTensor
<1>3. /\ IsSequence(ks, n) /\ IsSequence(vs, n) /\ IsOffsets(off, cnt, n)
      /\ \A p \in 1 .. n : /\ IsTensor(ks[p], KeyValueHeadCount, cnt[p])
                           /\ IsTensor(vs[p], KeyValueHeadCount, cnt[p])
                           /\ off[p - 1] = (p - 1) * PageTokenCount
      /\ n \in Nat /\ DOMAIN ks = 1 .. n /\ DOMAIN vs = 1 .. n
  BY DEF IsPages, IsSequence
<1>4. PICK products : products = [p \in DOMAIN ks |-> MatmulQueryKey(q, ks[p], mode.grouped)]
  OBVIOUS
<1>5. IsSequence(products, n)
      /\ \A p \in 1 .. n : products[p] = MatmulQueryKey(q, ks[p], mode.grouped)
  BY <1>3, <1>4 DEF IsSequence
<1>6. Contiguous(products) = products
  BY <1>5, ContiguousIsSame
<1>7. \A p \in 1 .. n : IsScores(products[p], q, ks[p], m, cnt[p])
  BY <1>2, <1>3, <1>5, MatmulQueryKeyFacts
<1>8. IsScores(CatColumns(products, m), q, Cat(ks), m, total)
  BY ONLY <1>1, <1>2, <1>5, <1>7, IsPages(ks, off, cnt, n), CatColumnsFacts
<1>9. PICK w : w = ApplyCausalAttentionMask(CatColumns(products, m), c)
  OBVIOUS
<1>10. IsMasked(w, q, Cat(ks), c, m, total)
  BY <1>8, <1>9, MaskFacts
<1>11. IsTensor(w, QueryHeadCount, m)
       /\ \A h \in 1 .. QueryHeadCount, i \in 1 .. m : IsSequence(w[h][i], total)
  BY <1>10 DEF IsMasked
<1>12. IsCat(Cat(vs), vs, off, cnt, n)
  BY CatFacts
<1>13. PICK taken : taken = [p \in DOMAIN vs |->
                       MatmulAttentionValue(PageColumns(w, p, Len(vs[p][1])), vs[p], mode.grouped)]
  OBVIOUS
<1>14. IsSequence(taken, n)
  BY <1>3, <1>13 DEF IsSequence
<1>15. Contiguous(taken) = taken
  BY <1>14, ContiguousIsSame
<1>16. ForwardPagedAttention(q, ks, vs, x) =
         IF mode.pagewise
         THEN [h \in 1 .. QueryHeadCount |-> [i \in 1 .. m |->
                 UNION {taken[p][h][i] : p \in DOMAIN taken}]]
         ELSE MatmulAttentionValue(w, Cat(vs), mode.grouped)
  <2> DEFINE w0 == ApplyCausalAttentionMask(
                     CatColumns(Contiguous([p \in DOMAIN ks |->
                                  MatmulQueryKey(q, ks[p], mode.grouped)]), x.q_len), x.start_pos)
             t0 == Contiguous([p \in DOMAIN vs |->
                     MatmulAttentionValue(PageColumns(w0, p, Len(vs[p][1])), vs[p], mode.grouped)])
  <2>2. ForwardPagedAttention(q, ks, vs, x) =
          IF mode.pagewise
          THEN [h \in 1 .. QueryHeadCount |-> [i \in 1 .. x.q_len |->
                  UNION {t0[p][h][i] : p \in DOMAIN t0}]]
          ELSE MatmulAttentionValue(w0, Cat(vs), mode.grouped)
    BY DEF ForwardPagedAttention
  <2>3. w0 = w
    BY <1>1, <1>4, <1>6, <1>9
  <2>4. t0 = taken
    <3> HIDE DEF w0
    <3>1. QED
      BY <1>13, <1>15, <2>3
  <2> HIDE DEF w0, t0
  <2>5. QED
    BY ONLY <1>1, <2>2, <2>3, <2>4
<1>17. CASE ~ mode.pagewise
  <2>1. IsTensor(Cat(vs), KeyValueHeadCount, total)
    BY <1>1, <1>12 DEF IsCat
  <2>2. IsWeighted(MatmulAttentionValue(w, Cat(vs), mode.grouped), w, Cat(vs), m)
    BY <1>11, <2>1, MatmulAttentionValueFacts
  <2>3. IsMasked(w, q, Cat(ks), c, m, c + m)
    BY <1>2, <1>10
  <2>4. IsAttention(MatmulAttentionValue(w, Cat(vs), mode.grouped), q, Cat(ks), Cat(vs), c, m)
    BY ONLY <1>2, <2>2, <2>3, MaskedRowsTakeThePast
  <2>5. QED
    BY <1>1, <1>16, <1>17, <2>4
<1>18. CASE mode.pagewise
  <2>1. PICK y : y = [h \in 1 .. QueryHeadCount |-> [i \in 1 .. m |->
                        UNION {taken[p][h][i] : p \in DOMAIN taken}]]
    OBVIOUS
  <2>2. ASSUME NEW p \in 1 .. n
        PROVE  \A h \in 1 .. QueryHeadCount, i \in 1 .. m :
                 \E piece : /\ IsPart(piece, w[h][i], off[p - 1], cnt[p])
                            /\ taken[p][h][i] = Consumed(piece, vs[p][KeyValueHead(h)])
    <3>1. PICK u, count : count = Len(vs[p][1]) /\ u = PageColumns(w, p, count)
      OBVIOUS
    <3>2. count = cnt[p] /\ count \in Nat
      <4>1. 1 \in 1 .. KeyValueHeadCount
        BY HeadFacts
      <4>2. IsSequence(vs[p][1], cnt[p])
        BY <1>3, <4>1 DEF IsTensor
      <4>3. QED
        BY <3>1, <4>2, SequenceFacts
    <3>3. (p - 1) * PageTokenCount = off[p - 1] /\ off[p - 1] \in Nat
          /\ off[p - 1] + count <= total
      <4>1. /\ p - 1 \in 0 .. n /\ p \in 0 .. n /\ n \in 0 .. n /\ p \in 0 .. n
        BY <1>3
      <4>2. off[p] = off[p - 1] + count /\ off[p - 1] \in Nat
        BY <1>3, <3>2, <4>1 DEF IsOffsets
      <4>3. off[p] <= off[n]
        BY <1>3, <4>1, OffsetsGrow
      <4>4. QED
        BY <1>1, <1>3, <4>2, <4>3
    <3>4. PICK start : start = off[p - 1]
      OBVIOUS
    <3>5. /\ IsTensor(u, QueryHeadCount, m)
          /\ \A h \in 1 .. QueryHeadCount, i \in 1 .. m : IsPart(u[h][i], w[h][i], start, count)
      <4>1. p \in Nat \ {0} /\ (p - 1) * PageTokenCount + count <= total
        BY <1>3, <3>3
      <4>2. /\ IsTensor(PageColumns(w, p, count), QueryHeadCount, m)
            /\ \A h \in 1 .. QueryHeadCount, i \in 1 .. m :
                 IsPart(PageColumns(w, p, count)[h][i], w[h][i], (p - 1) * PageTokenCount, count)
        BY ONLY <1>11, <3>2, <4>1, PageColumnsFacts
      <4>3. QED
        BY <3>1, <3>3, <3>4, <4>2
    <3>6. taken[p] = MatmulAttentionValue(u, vs[p], mode.grouped)
      BY <1>3, <1>13, <3>1
    <3>7. IsWeighted(taken[p], u, vs[p], m)
      BY <1>3, <3>5, <3>6, MatmulAttentionValueFacts
    <3>8. QED
      BY <3>2, <3>4, <3>5, <3>7 DEF IsWeighted
  <2>3. ASSUME NEW h \in 1 .. QueryHeadCount, NEW i \in 1 .. m
        PROVE  UNION {taken[p][h][i] : p \in DOMAIN taken} =
                 Consumed(w[h][i], Cat(vs)[KeyValueHead(h)])
    <3>1. PICK row, values, g : row = w[h][i] /\ g = KeyValueHead(h) /\ values = Cat(vs)[g]
      OBVIOUS
    <3>2. g \in 1 .. KeyValueHeadCount
      BY <3>1, HeadFacts
    <3> DEFINE pieces == [p \in 1 .. n |->
                 CHOOSE piece : /\ IsPart(piece, row, off[p - 1], cnt[p])
                                /\ taken[p][h][i] = Consumed(piece, vs[p][g])]
               parts == [p \in 1 .. n |-> vs[p][g]]
    <3>3. ASSUME NEW p \in 1 .. n
          PROVE  /\ IsPart(pieces[p], row, off[p - 1], cnt[p])
                 /\ taken[p][h][i] = Consumed(pieces[p], parts[p])
                 /\ \A j \in 1 .. cnt[p] :
                      off[p - 1] + j \in 1 .. off[n] /\ values[off[p - 1] + j] = parts[p][j]
      <4>1. \E piece : /\ IsPart(piece, row, off[p - 1], cnt[p])
                       /\ taken[p][h][i] = Consumed(piece, vs[p][g])
        BY <2>2, <3>1
      <4>2. pieces[p] = CHOOSE piece : /\ IsPart(piece, row, off[p - 1], cnt[p])
                                       /\ taken[p][h][i] = Consumed(piece, vs[p][g])
        OBVIOUS
      <4> HIDE DEF pieces
      <4>3. /\ IsPart(pieces[p], row, off[p - 1], cnt[p])
            /\ taken[p][h][i] = Consumed(pieces[p], vs[p][g])
        BY ONLY <4>1, <4>2
      <4>4. parts[p] = vs[p][g]
        OBVIOUS
      <4>5. \A j \in 1 .. cnt[p] :
              off[p - 1] + j \in 1 .. off[n] /\ values[off[p - 1] + j] = vs[p][g][j]
        BY <1>12, <3>1, <3>2 DEF IsCat
      <4> HIDE DEF parts
      <4>6. QED
        BY ONLY <4>3, <4>4, <4>5
    <3> HIDE DEF pieces, parts
    <3>4. IsSequence(row, off[n])
      BY <1>1, <1>11, <3>1
    <3>5. UNION {Consumed(pieces[p], parts[p]) : p \in 1 .. n} = Consumed(row, values)
      <4>1. ArePieces(pieces, parts, row, values, off, cnt, n)
        BY ONLY <3>3 DEF ArePieces
      <4>2. QED
        BY ONLY <1>3, <3>4, <4>1, ConsumedByPages
    <3>6. DOMAIN taken = 1 .. n
      BY <1>14 DEF IsSequence
    <3>7. {taken[p][h][i] : p \in DOMAIN taken} = {Consumed(pieces[p], parts[p]) : p \in 1 .. n}
      BY ONLY <3>3, <3>6
    <3>8. QED
      BY <3>1, <3>5, <3>7
  <2>4. IsWeighted(y, w, Cat(vs), m)
    <3>1. IsTensor(y, QueryHeadCount, m)
      BY <1>2, <2>1, HeadFacts DEF IsTensor, IsSequence
    <3>2. ASSUME NEW h \in 1 .. QueryHeadCount, NEW i \in 1 .. m
          PROVE  y[h][i] = Consumed(w[h][i], Cat(vs)[KeyValueHead(h)])
      BY <2>1, <2>3
    <3>3. QED
      BY <3>1, <3>2 DEF IsWeighted
  <2>5. IsMasked(w, q, Cat(ks), c, m, c + m)
    BY <1>2, <1>10
  <2>6. IsAttention(y, q, Cat(ks), Cat(vs), c, m)
    BY ONLY <1>2, <2>4, <2>5, MaskedRowsTakeThePast
  <2>7. QED
    BY <1>1, <1>16, <1>18, <2>1, <2>6
<1>19. QED
  BY <1>17, <1>18

-----------------------------------------------------------------------------
(* Places of rows in pages *)

\* The slot of row j in its page, which is page PagesFor(j) of the block table.
SlotFor(j) == ((j - 1) % PageTokenCount) + 1

LEMMA NoPages == PagesFor(0) = 0
<1> DEFINE P == PageTokenCount
<1>1. P \in Nat \ {0}
  BY AttentionAssumption
<1> HIDE DEF P
<1>2. PICK n : n = 0 + P - 1
  OBVIOUS
<1>3. n \in Nat /\ 0 * P = 0 /\ n < 0 * P + P
  BY <1>1, <1>2
<1>4. n \div P <= 0 /\ n \div P \in Nat
  <2>1. n \div P <= 0
    BY <1>1, <1>3, QuotientIsLargest
  <2>2. n \div P \in Nat
    BY <1>1, <1>3, QuotientFacts
  <2>3. QED
    BY <2>1, <2>2
<1>5. n \div P = 0
  BY <1>4
<1>6. QED
  BY <1>2, <1>5 DEF PagesFor, P

LEMMA PagesOfRow ==
  ASSUME NEW j, NEW q, NEW i, Cell(j, q, i, PageTokenCount)
  PROVE  PagesFor(j) = q + 1 /\ SlotFor(j) = i
<1> DEFINE P == PageTokenCount
           p == q * P
<1>1. q \in Nat /\ P \in Nat \ {0} /\ i \in 1 .. P /\ j = p + i
  BY DEF Cell
<1>2. p \in Nat /\ (q + 1) * P = p + P
  BY <1>1
<1> HIDE DEF P, p
<1>3. PICK n, k : n = j + P - 1 /\ k = q + 1
  OBVIOUS
<1>4. n \in Nat /\ k \in Nat /\ p + P <= n /\ n < p + P + P
  BY <1>1, <1>2, <1>3
<1>5. k * P <= n /\ n < k * P + P
  BY <1>2, <1>3, <1>4
<1>6. k <= n \div P /\ n \div P <= k /\ n \div P \in Nat
  <2>1. k <= n \div P /\ n \div P <= k
    BY ONLY <1>1, <1>4, <1>5, QuotientIsLargest
  <2>2. n \div P \in Nat
    BY ONLY <1>1, <1>4, QuotientFacts
  <2>3. QED
    BY <2>1, <2>2
<1>7. n \div P = k
  BY ONLY <1>4, <1>6
<1>8. PagesFor(j) = q + 1
  BY <1>3, <1>7 DEF PagesFor, P
<1>9. SlotFor(j) = i
  BY CellIs DEF SlotFor
<1>10. QED
  BY <1>8, <1>9

LEMMA PlaceOfRow ==
  ASSUME NEW j \in Nat \ {0}
  PROVE  /\ PagesFor(j) \in Nat \ {0} /\ SlotFor(j) \in 1 .. PageTokenCount
         /\ Cell(j, PagesFor(j) - 1, SlotFor(j), PageTokenCount)
<1>1. PageTokenCount \in Nat \ {0}
  BY AttentionAssumption
<1>2. PICK q, i : q = (j - 1) \div PageTokenCount /\ i = ((j - 1) % PageTokenCount) + 1
  OBVIOUS
<1>3. Cell(j, q, i, PageTokenCount)
  BY <1>1, <1>2, CellExists
<1>4. PagesFor(j) = q + 1 /\ SlotFor(j) = i
  BY <1>3, PagesOfRow
<1>5. q \in Nat /\ i \in 1 .. PageTokenCount
  BY <1>3 DEF Cell
<1>6. q + 1 - 1 = q /\ q + 1 \in Nat \ {0}
  BY <1>5
<1>7. QED
  BY <1>3, <1>4, <1>5, <1>6

LEMMA PagesForIsNatural ==
  ASSUME NEW n \in Nat
  PROVE  PagesFor(n) \in Nat
<1>1. CASE n = 0
  BY <1>1, NoPages
<1>2. CASE n # 0
  BY <1>2, PlaceOfRow
<1>3. QED
  BY <1>1, <1>2

LEMMA PagesForGrows ==
  ASSUME NEW i \in Nat, NEW n \in Nat, i <= n
  PROVE  PagesFor(i) <= PagesFor(n)
<1>1. CASE i = 0
  <2>1. PagesFor(i) = 0 /\ PagesFor(n) \in Nat
    BY <1>1, NoPages, PagesForIsNatural
  <2>2. QED
    BY <2>1
<1>2. CASE i # 0
  <2>1. i \in Nat \ {0} /\ n \in Nat \ {0}
    BY <1>2
  <2>2. PICK a, b, s, t : a = PagesFor(i) /\ b = PagesFor(n) /\ s = SlotFor(i) /\ t = SlotFor(n)
    OBVIOUS
  <2>3. /\ a \in Nat \ {0} /\ b \in Nat \ {0} /\ Cell(i, a - 1, s, PageTokenCount)
        /\ Cell(n, b - 1, t, PageTokenCount)
    BY <2>1, <2>2, PlaceOfRow
  <2>4. PICK P, u : P = PageTokenCount /\ u = b * P
    OBVIOUS
  <2>5. n <= u
    <3>1. b - 1 < b /\ b \in Nat
      BY <2>3
    <3>2. n <= b * P
      BY <2>3, <2>4, <3>1, CellBound
    <3>3. QED
      BY <2>4, <3>2
  <2>6. u \in Nat
    BY <2>3, <2>4, AttentionAssumption
  <2>7. i <= u
    BY <2>5, <2>6
  <2>8. a - 1 < b
    BY <2>3, <2>4, <2>7, CellBound
  <2>9. QED
    BY <2>2, <2>3, <2>8
<1>3. QED
  BY <1>1, <1>2

\* Where the rows go that follow the first n, up to the end of a page.
LEMMA PlacesBehind ==
  ASSUME NEW n \in Nat, NEW i \in 1 .. PageTokenCount - (n % PageTokenCount)
  PROVE  /\ n % PageTokenCount \in 0 .. PageTokenCount - 1
         /\ PagesFor(n + i) = IF n % PageTokenCount = 0 THEN PagesFor(n) + 1 ELSE PagesFor(n)
         /\ SlotFor(n + i) = (n % PageTokenCount) + i
<1> DEFINE P == PageTokenCount
           o == n % P
           a == n \div P
           p == a * P
<1>1. P \in Nat \ {0}
  BY AttentionAssumption
<1>2. a \in Nat /\ o \in 0 .. P - 1 /\ n = p + o
  BY <1>1
<1>3. p \in Nat
  BY <1>1, <1>2
<1> HIDE DEF o, a, P
<1>4. i \in 1 .. P - o
  BY DEF o, P
<1>5. PICK j, s : j = n + i /\ s = o + i
  OBVIOUS
<1>6. s \in 1 .. P /\ j = p + s
  <2> HIDE DEF p
  <2>1. QED
    BY <1>1, <1>2, <1>3, <1>4, <1>5
<1>7. Cell(j, a, s, P)
  BY <1>1, <1>2, <1>6 DEF Cell
<1>8. PagesFor(j) = a + 1 /\ SlotFor(j) = s
  BY <1>7, PagesOfRow DEF P
<1>9. CASE o = 0
  <2>1. PagesFor(n) = a
    <3>1. CASE a = 0
      <4>1. n = 0
        BY <1>1, <1>2, <1>9, <3>1
      <4>2. QED
        BY <3>1, <4>1, NoPages
    <3>2. CASE a # 0
      <4>1. a - 1 \in Nat /\ a - 1 + 1 = a
        BY <1>2, <3>2
      <4>2. \A x, y \in Int : x * y = (x - 1) * y + y
        OBVIOUS
      <4>3. p = (a - 1) * P + P
        BY <1>1, <1>2, <4>2
      <4>4. n = (a - 1) * P + P
        BY <1>2, <1>3, <1>9, <4>3
      <4>5. Cell(n, a - 1, P, P)
        BY <1>1, <4>1, <4>4 DEF Cell
      <4>6. PagesFor(n) = a - 1 + 1
        BY <4>5, PagesOfRow DEF P
      <4>7. QED
        BY <4>1, <4>6
    <3>3. QED
      BY <3>1, <3>2
  <2>2. QED
    BY <1>2, <1>5, <1>8, <1>9, <2>1 DEF o, P
<1>10. CASE o # 0
  <2>1. Cell(n, a, o, P)
    BY <1>1, <1>2, <1>10 DEF Cell
  <2>2. PagesFor(n) = a + 1
    BY <2>1, PagesOfRow DEF P
  <2>3. QED
    BY <1>2, <1>5, <1>8, <1>10, <2>2 DEF o, P
<1>11. QED
  BY <1>9, <1>10

\* Rows of the last page that were there before come first in it.
LEMMA SlotsBefore ==
  ASSUME NEW n \in Nat, NEW j \in 1 .. n, PagesFor(j) = PagesFor(n), n % PageTokenCount # 0
  PROVE  SlotFor(j) <= n % PageTokenCount
<1> DEFINE P == PageTokenCount
           o == n % P
           a == n \div P
           p == a * P
<1>1. P \in Nat \ {0}
  BY AttentionAssumption
<1>2. a \in Nat /\ o \in 1 .. P - 1 /\ n = p + o
  BY <1>1
<1>3. p \in Nat
  BY <1>1, <1>2
<1> HIDE DEF o, a, P
<1>4. Cell(n, a, o, P)
  BY <1>1, <1>2 DEF Cell
<1>5. PagesFor(n) = a + 1
  BY <1>4, PagesOfRow DEF P
<1>6. PICK s : s = SlotFor(j)
  OBVIOUS
<1>7. Cell(j, PagesFor(j) - 1, s, P)
  BY <1>6, PlaceOfRow DEF P
<1>8. PagesFor(j) - 1 = a
  BY <1>2, <1>5
<1>9. j = p + s /\ s \in Nat
  BY <1>7, <1>8 DEF Cell
<1>10. s <= o
  <2> HIDE DEF p
  <2>1. j <= n
    OBVIOUS
  <2>2. QED
    BY ONLY <1>2, <1>3, <1>9, <2>1
<1>11. QED
  BY <1>6, <1>10 DEF o, P

-----------------------------------------------------------------------------
(* Appending to the cache *)

Table == [page_ids : Seq(1 .. PageCount), cached_token_count : Nat]

Layers == 1 .. LayerCount

PoolPages == IF mode.cache = "Paged" THEN PageCount ELSE LayerCount
PoolSlots == IF mode.cache = "Paged" THEN PageTokenCount ELSE MaxLength

CacheTypeOK(c) ==
  /\ c.tables \in [Requests -> [Layers -> Table]]
  /\ c.free \in Seq(1 .. PageCount)
  /\ DOMAIN c.pools = 1 .. PoolPages
  /\ \A p \in 1 .. PoolPages : DOMAIN c.pools[p] = 1 .. PoolSlots

Pages(c, r, l) == c.tables[r][l].page_ids
Count(c, r, l) == c.tables[r][l].cached_token_count

\* Every page is in one place: a place of a block table or of the free list.
PagesAreApart(c) ==
  /\ \A r \in Requests, l \in Layers : Len(Pages(c, r, l)) = PagesFor(Count(c, r, l))
  /\ \A ra \in Requests, la \in Layers, rb \in Requests, lb \in Layers :
       \A n1 \in 1 .. Len(Pages(c, ra, la)), n2 \in 1 .. Len(Pages(c, rb, lb)) :
         Pages(c, ra, la)[n1] = Pages(c, rb, lb)[n2] => ra = rb /\ la = lb /\ n1 = n2
  /\ \A i \in 1 .. Len(c.free), j \in 1 .. Len(c.free) : c.free[i] = c.free[j] => i = j
  /\ \A r \in Requests, l \in Layers :
       \A n \in 1 .. Len(Pages(c, r, l)), i \in 1 .. Len(c.free) : Pages(c, r, l)[n] # c.free[i]

CacheOK(c) == CacheTypeOK(c) /\ (mode.cache = "Paged" => PagesAreApart(c))

\* Row j of a request in a layer.
PagedRow(c, r, l, j) == c.pools[Pages(c, r, l)[PagesFor(j)]][SlotFor(j)]
Row(c, r, l, j) == IF mode.cache = "Contiguous" THEN c.pools[l][j] ELSE PagedRow(c, r, l, j)

\* What a write does to a pool.
IsWritten(new, store, page, offset, k, v, input_offset, count) ==
  /\ DOMAIN new = DOMAIN store
  /\ \A p \in DOMAIN store : DOMAIN new[p] = DOMAIN store[p]
  /\ \A p \in DOMAIN store : \A s \in DOMAIN store[p] :
       p # page \/ s <= offset => new[p][s] = store[p][s]
  /\ \A i \in 1 .. count :
       offset + i \in DOMAIN store[page] => new[page][offset + i] = Entries(k, v, input_offset + i)

LEMMA WrittenFacts ==
  ASSUME NEW store, NEW page \in DOMAIN store, NEW offset \in Nat, NEW k, NEW v,
         NEW input_offset \in Nat, NEW count \in Nat,
         \A p \in DOMAIN store : DOMAIN store[p] \subseteq Nat
  PROVE  IsWritten(Written(store, page, offset, k, v, input_offset, count),
                   store, page, offset, k, v, input_offset, count)
<1>1. PICK new : new = Written(store, page, offset, k, v, input_offset, count)
  OBVIOUS
<1>2. /\ DOMAIN new = DOMAIN store
      /\ \A p \in DOMAIN store \ {page} : new[p] = store[p]
      /\ new[page] = [s \in DOMAIN store[page] |->
                        IF s \in offset + 1 .. offset + count
                        THEN Entries(k, v, input_offset + s - offset) ELSE store[page][s]]
  BY <1>1 DEF Written
<1>3. DOMAIN new[page] = DOMAIN store[page]
  BY <1>2
<1>4. ASSUME NEW s \in DOMAIN store[page], s <= offset PROVE new[page][s] = store[page][s]
  <2>1. s \in Nat /\ s \notin offset + 1 .. offset + count
    BY <1>4
  <2>2. QED
    BY <1>2, <2>1
<1>5. ASSUME NEW i \in 1 .. count, offset + i \in DOMAIN store[page]
      PROVE  new[page][offset + i] = Entries(k, v, input_offset + i)
  <2>1. PICK s, x : s = offset + i /\ x = input_offset + i
    OBVIOUS
  <2>2. s \in offset + 1 .. offset + count /\ input_offset + s - offset = x
    BY <2>1
  <2>3. s \in DOMAIN store[page]
    BY <1>5, <2>1
  <2>4. new[page][s] = Entries(k, v, input_offset + s - offset)
    BY ONLY <1>2, <2>2, <2>3
  <2>5. QED
    BY <2>1, <2>2, <2>4
<1>6. QED
  BY <1>1, <1>2, <1>3, <1>4, <1>5 DEF IsWritten

\* d has `count` rows of k and v, those behind the first w, behind the rows that c has.
Appended(d, c, r, l, k, v, w, count) ==
  /\ CacheOK(d)
  /\ \A q \in Requests, n \in Layers :
       /\ q # r \/ n # l => Count(d, q, n) = Count(c, q, n)
       /\ \A j \in 1 .. Count(c, q, n) : Row(d, q, n, j) = Row(c, q, n, j)
  /\ Count(d, r, l) = Count(c, r, l) + count
  /\ \A i \in 1 .. count : Row(d, r, l, Count(c, r, l) + i) = Entries(k, v, w + i)
  /\ mode.cache = "Paged" =>
       Len(d.free) + PagesFor(Count(d, r, l)) = Len(c.free) + PagesFor(Count(c, r, l))

LEMMA CacheModes == mode \in Modes => mode.cache \in {"Contiguous", "Paged"}
  BY AttentionAssumption

LEMMA MinOfTwo ==
  ASSUME NEW a \in Nat, NEW b \in Nat
  PROVE  Min({a, b}) = IF a <= b THEN a ELSE b
<1>1. {a, b} \in SUBSET Nat /\ {a, b} # {}
  OBVIOUS
<1>2. Min({a, b}) \in {a, b} /\ Min({a, b}) <= a /\ Min({a, b}) <= b
  BY <1>1, MinIsLeast
<1>3. QED
  BY <1>2

LEMMA LastAndFront ==
  ASSUME NEW S, NEW s \in Seq(S), Len(s) > 0
  PROVE  /\ Last(s) = s[Len(s)] /\ Last(s) \in S
         /\ Front(s) \in Seq(S) /\ Len(Front(s)) = Len(s) - 1
         /\ \A i \in 1 .. Len(s) - 1 : Front(s)[i] = s[i]
<1>1. PICK a : a = Len(s)
  OBVIOUS
<1>2. a \in Nat \ {0} /\ a \in 1 .. a
  BY <1>1
<1>3. s[a] \in S
  BY <1>1, <1>2
<1>4. SubSeq(s, 1, a - 1) \in Seq(S) /\ Len(SubSeq(s, 1, a - 1)) = a - 1
  <2>1. \A i \in 1 .. a - 1 : i \in 1 .. Len(s)
    BY <1>1, <1>2
  <2>2. SubSeq(s, 1, a - 1) \in Seq(S)
    BY <1>1, <1>2, <2>1
  <2>3. Len(SubSeq(s, 1, a - 1)) = a - 1
    BY <1>1, <1>2
  <2>4. QED
    BY <2>2, <2>3
<1>5. \A i \in 1 .. a - 1 : SubSeq(s, 1, a - 1)[i] = s[i]
  BY <1>1, <1>2
<1>6. Front(s) = SubSeq(s, 1, a - 1) /\ Last(s) = s[a]
  BY <1>1 DEF Front, Last
<1>7. QED
  BY <1>1, <1>3, <1>4, <1>5, <1>6

\* The block table and the free list with which a round writes to `page`.
IsNextPage(c, r, l, ids, rest, page) ==
  /\ page \in 1 .. PageCount /\ ids \in Seq(1 .. PageCount) /\ rest \in Seq(1 .. PageCount)
  /\ Len(ids) > 0 /\ ids[Len(ids)] = page
  /\ Len(Pages(c, r, l)) <= Len(ids)
  /\ \A i \in 1 .. Len(Pages(c, r, l)) : ids[i] = Pages(c, r, l)[i]
  /\ \A i \in 1 .. Len(ids), j \in 1 .. Len(ids) : ids[i] = ids[j] => i = j
  /\ \A i \in 1 .. Len(rest), j \in 1 .. Len(rest) : rest[i] = rest[j] => i = j
  /\ \A i \in 1 .. Len(ids), j \in 1 .. Len(rest) : ids[i] # rest[j]
  /\ \A q \in Requests, n \in Layers : q # r \/ n # l =>
       \A i \in 1 .. Len(Pages(c, q, n)) :
         /\ \A j \in 1 .. Len(ids) : Pages(c, q, n)[i] # ids[j]
         /\ \A j \in 1 .. Len(rest) : Pages(c, q, n)[i] # rest[j]

LEMMA ApartPages ==
  ASSUME NEW c, PagesAreApart(c), NEW ra \in Requests, NEW la \in Layers, NEW rb \in Requests,
         NEW lb \in Layers, NEW n1, n1 \in 1 .. Len(Pages(c, ra, la)), NEW n2,
         n2 \in 1 .. Len(Pages(c, rb, lb)), Pages(c, ra, la)[n1] = Pages(c, rb, lb)[n2]
  PROVE  ra = rb /\ la = lb /\ n1 = n2
BY DEF PagesAreApart

LEMMA ApartFromFree ==
  ASSUME NEW c, PagesAreApart(c), NEW r \in Requests, NEW l \in Layers, NEW n,
         n \in 1 .. Len(Pages(c, r, l)), NEW i, i \in 1 .. Len(c.free)
  PROVE  Pages(c, r, l)[n] # c.free[i]
BY DEF PagesAreApart

LEMMA LastPageFacts ==
  ASSUME NEW c, CacheTypeOK(c), PagesAreApart(c), NEW r \in Requests, NEW l \in Layers,
         Len(Pages(c, r, l)) > 0
  PROVE  IsNextPage(c, r, l, Pages(c, r, l), c.free, Last(Pages(c, r, l)))
<1>1. PICK ids, a : ids = Pages(c, r, l) /\ a = Len(ids)
  OBVIOUS
<1>2. c.tables \in [Requests -> [Layers -> Table]] /\ c.free \in Seq(1 .. PageCount)
  BY DEF CacheTypeOK
<1>3. ids \in Seq(1 .. PageCount)
  BY <1>1, <1>2 DEF Pages, Table
<1>4. a \in Nat /\ a > 0 /\ a \in 1 .. a
  BY <1>1, <1>3
<1>5. Last(ids) = ids[a] /\ ids[a] \in 1 .. PageCount
  BY <1>1, <1>3, <1>4, LastAndFront
<1>6. \A i \in 1 .. Len(ids), j \in 1 .. Len(ids) : ids[i] = ids[j] => i = j
  <2> TAKE i \in 1 .. Len(ids), j \in 1 .. Len(ids)
  <2>1. QED
    BY <1>1, ApartPages
<1>7. \A i \in 1 .. Len(c.free), j \in 1 .. Len(c.free) : c.free[i] = c.free[j] => i = j
  BY DEF PagesAreApart
<1>8. \A i \in 1 .. Len(ids), j \in 1 .. Len(c.free) : ids[i] # c.free[j]
  BY <1>1, ApartFromFree
<1>9. ASSUME NEW q \in Requests, NEW n \in Layers, q # r \/ n # l,
             NEW i \in 1 .. Len(Pages(c, q, n))
      PROVE  /\ \A j \in 1 .. Len(ids) : Pages(c, q, n)[i] # ids[j]
             /\ \A j \in 1 .. Len(c.free) : Pages(c, q, n)[i] # c.free[j]
  <2>1. \A j \in 1 .. Len(ids) : Pages(c, q, n)[i] # ids[j]
    BY <1>1, <1>9, ApartPages
  <2>2. \A j \in 1 .. Len(c.free) : Pages(c, q, n)[i] # c.free[j]
    BY ApartFromFree
  <2>3. QED
    BY <2>1, <2>2
<1>10. QED
  <2>1. PICK rest, page : rest = c.free /\ page = ids[a]
    OBVIOUS
  <2>2. /\ page \in 1 .. PageCount /\ ids \in Seq(1 .. PageCount) /\ rest \in Seq(1 .. PageCount)
        /\ Len(ids) > 0 /\ ids[Len(ids)] = page
    BY <1>1, <1>2, <1>3, <1>4, <1>5, <2>1
  <2>3. /\ Len(Pages(c, r, l)) <= Len(ids)
        /\ \A i \in 1 .. Len(Pages(c, r, l)) : ids[i] = Pages(c, r, l)[i]
    BY <1>1, <1>4
  <2>4. /\ \A i \in 1 .. Len(rest), j \in 1 .. Len(rest) : rest[i] = rest[j] => i = j
        /\ \A i \in 1 .. Len(ids), j \in 1 .. Len(rest) : ids[i] # rest[j]
    BY <1>7, <1>8, <2>1
  <2>5. \A q \in Requests, n \in Layers : q # r \/ n # l =>
          \A i \in 1 .. Len(Pages(c, q, n)) :
            /\ \A j \in 1 .. Len(ids) : Pages(c, q, n)[i] # ids[j]
            /\ \A j \in 1 .. Len(rest) : Pages(c, q, n)[i] # rest[j]
    BY <1>9, <2>1
  <2>6. IsNextPage(c, r, l, ids, rest, page)
    BY ONLY <1>6, <2>2, <2>3, <2>4, <2>5 DEF IsNextPage
  <2>7. QED
    BY <1>1, <1>5, <2>1, <2>6

LEMMA FreshPageFacts ==
  ASSUME NEW c, CacheTypeOK(c), PagesAreApart(c), NEW r \in Requests, NEW l \in Layers,
         Len(c.free) > 0
  PROVE  /\ IsNextPage(c, r, l, Append(Pages(c, r, l), Last(c.free)), Front(c.free), Last(c.free))
         /\ Len(Append(Pages(c, r, l), Last(c.free))) = Len(Pages(c, r, l)) + 1
         /\ Len(Front(c.free)) = Len(c.free) - 1
<1>1. PICK old, n, stack, a, page : /\ old = Pages(c, r, l) /\ n = Len(old)
                                    /\ stack = c.free /\ a = Len(stack) /\ page = stack[a]
  OBVIOUS
<1>2. c.tables \in [Requests -> [Layers -> Table]] /\ stack \in Seq(1 .. PageCount)
  BY <1>1 DEF CacheTypeOK
<1>3. old \in Seq(1 .. PageCount)
  BY <1>1, <1>2 DEF Pages, Table
<1>4. n \in Nat /\ a \in Nat \ {0} /\ a \in 1 .. a
  BY <1>1, <1>2, <1>3
<1>5. page \in 1 .. PageCount /\ Last(stack) = page
  BY <1>1, <1>2, <1>4, LastAndFront
<1>6. PICK ids, rest : ids = Append(old, page) /\ rest = Front(stack)
  OBVIOUS
<1>7. /\ ids \in Seq(1 .. PageCount) /\ Len(ids) = n + 1 /\ ids[n + 1] = page
      /\ \A i \in 1 .. n : ids[i] = old[i]
  BY <1>1, <1>3, <1>4, <1>5, <1>6
<1>8. Len(stack) > 0
  BY <1>1, <1>4
<1>9. rest \in Seq(1 .. PageCount) /\ Len(rest) = a - 1
  BY <1>1, <1>2, <1>6, <1>8, LastAndFront
<1>10. \A i \in 1 .. a - 1 : rest[i] = stack[i]
  BY <1>1, <1>2, <1>6, <1>8, LastAndFront
<1>11. \A i \in 1 .. a - 1 : i \in 1 .. a /\ i # a
  BY <1>4
<1>12. \A i \in 1 .. n + 1 : i \in 1 .. n \/ i = n + 1
  BY <1>4
<1>13. /\ \A i \in 1 .. n, j \in 1 .. n : old[i] = old[j] => i = j
       /\ \A i \in 1 .. a, j \in 1 .. a : stack[i] = stack[j] => i = j
       /\ \A i \in 1 .. n, j \in 1 .. a : old[i] # stack[j]
       /\ \A q \in Requests, x \in Layers : \A i \in 1 .. Len(Pages(c, q, x)) :
            /\ \A j \in 1 .. n : Pages(c, q, x)[i] = old[j] => q = r /\ x = l
            /\ \A j \in 1 .. a : Pages(c, q, x)[i] # stack[j]
  BY <1>1 DEF PagesAreApart
<1>14. \A i \in 1 .. n : old[i] # page
  BY <1>1, <1>4, <1>13
<1>15. \A i \in 1 .. n + 1, j \in 1 .. n + 1 : ids[i] = ids[j] => i = j
  BY <1>7, <1>12, <1>13, <1>14
<1>16. \A i \in 1 .. a - 1, j \in 1 .. a - 1 : rest[i] = rest[j] => i = j
  BY <1>10, <1>11, <1>13
<1>17. \A i \in 1 .. n + 1, j \in 1 .. a - 1 : ids[i] # rest[j]
  <2> TAKE i \in 1 .. n + 1, j \in 1 .. a - 1
  <2>1. rest[j] = stack[j] /\ j \in 1 .. a /\ j # a
    BY <1>10, <1>11
  <2>2. stack[j] # page
    BY <1>1, <1>4, <1>13, <2>1
  <2>3. QED
    BY <1>7, <1>12, <1>13, <2>1, <2>2
<1>18. ASSUME NEW q \in Requests, NEW x \in Layers, q # r \/ x # l,
             NEW i \in 1 .. Len(Pages(c, q, x))
       PROVE  /\ \A j \in 1 .. n + 1 : Pages(c, q, x)[i] # ids[j]
              /\ \A j \in 1 .. a - 1 : Pages(c, q, x)[i] # rest[j]
  <2>1. \A j \in 1 .. n : Pages(c, q, x)[i] # old[j]
    BY <1>13, <1>18
  <2>2. \A j \in 1 .. a : Pages(c, q, x)[i] # stack[j]
    BY <1>13
  <2>3. Pages(c, q, x)[i] # page
    BY <1>1, <1>4, <2>2
  <2>4. \A j \in 1 .. n + 1 : Pages(c, q, x)[i] # ids[j]
    BY <1>7, <1>12, <2>1, <2>3
  <2>5. \A j \in 1 .. a - 1 : Pages(c, q, x)[i] # rest[j]
    BY <1>10, <1>11, <2>2
  <2>6. QED
    BY <2>4, <2>5
<1>19. Len(Pages(c, r, l)) <= Len(ids) /\ Len(ids) > 0 /\ Len(ids) = n + 1 /\ Len(rest) = a - 1
  BY <1>1, <1>4, <1>7, <1>9
<1>20. IsNextPage(c, r, l, ids, rest, page)
  BY <1>1, <1>5, <1>7, <1>9, <1>15, <1>16, <1>17, <1>18, <1>19 DEF IsNextPage
<1>21. QED
  BY <1>1, <1>5, <1>6, <1>7, <1>9, <1>20

LEMMA ElementOf ==
  ASSUME NEW S, NEW t \in Seq(S), NEW i \in 1 .. Len(t)
  PROVE  t[i] \in S
  OBVIOUS

\* The tables and pages after a round: `page`, the last of `ids`, takes `count` rows behind n.
LEMMA NextPageAppends ==
  ASSUME mode.cache = "Paged", NEW c, CacheOK(c), NEW r \in Requests, NEW l \in Layers,
         NEW k, NEW v, NEW w \in Nat, NEW n, n = Count(c, r, l),
         NEW count \in 1 .. PageTokenCount - (n % PageTokenCount),
         NEW ids, NEW rest, NEW page, IsNextPage(c, r, l, ids, rest, page),
         Len(ids) = PagesFor(n + count),
         Len(rest) + PagesFor(n + count) = Len(c.free) + PagesFor(n),
         NEW d, d.free = rest,
         d.pools = Written(c.pools, page, n % PageTokenCount, k, v, w, count),
         d.tables = [c.tables EXCEPT ![r][l] = [page_ids |-> ids, cached_token_count |-> n + count]]
  PROVE  Appended(d, c, r, l, k, v, w, count)
<1>1. PICK o, P, m : o = n % PageTokenCount /\ P = PageTokenCount /\ m = n + count
  OBVIOUS
<1>2. P \in Nat \ {0}
  BY <1>1, AttentionAssumption
<1>3. /\ c.tables \in [Requests -> [Layers -> Table]]
      /\ DOMAIN c.pools = 1 .. PageCount
      /\ \A p \in 1 .. PageCount : DOMAIN c.pools[p] = 1 .. P
      /\ PagesAreApart(c)
  BY <1>1 DEF CacheOK, CacheTypeOK, PoolPages, PoolSlots
<1>4. n \in Nat /\ \A q \in Requests, x \in Layers : Count(c, q, x) \in Nat
  BY <1>3 DEF Count, Table
<1>5. o \in 0 .. P - 1 /\ count \in 1 .. P - o /\ count \in Nat
  BY <1>1, <1>2, <1>4
<1>6. m \in Nat /\ n < m
  BY <1>1, <1>4, <1>5
<1>7. /\ page \in 1 .. PageCount /\ ids \in Seq(1 .. PageCount) /\ rest \in Seq(1 .. PageCount)
      /\ Len(ids) > 0 /\ ids[Len(ids)] = page
  BY DEF IsNextPage
<1>8. /\ d.tables \in [Requests -> [Layers -> Table]]
      /\ Pages(d, r, l) = ids /\ Count(d, r, l) = m
      /\ \A q \in Requests, x \in Layers : q # r \/ x # l =>
           Pages(d, q, x) = Pages(c, q, x) /\ Count(d, q, x) = Count(c, q, x)
  <2>1. PICK t : t = [page_ids |-> ids, cached_token_count |-> m]
    OBVIOUS
  <2>2. t \in Table /\ t.page_ids = ids /\ t.cached_token_count = m
    BY <1>6, <1>7, <2>1 DEF Table
  <2>3. d.tables = [c.tables EXCEPT ![r][l] = t]
    BY <1>1, <2>1
  <2>4. /\ d.tables \in [Requests -> [Layers -> Table]] /\ d.tables[r][l] = t
        /\ \A q \in Requests, x \in Layers : q # r \/ x # l => d.tables[q][x] = c.tables[q][x]
    BY ONLY <1>3, <2>2, <2>3
  <2>5. QED
    BY <2>2, <2>4 DEF Pages, Count
<1>9. IsWritten(d.pools, c.pools, page, o, k, v, w, count)
  <2>1. \A p \in DOMAIN c.pools : DOMAIN c.pools[p] \subseteq Nat
    BY <1>2, <1>3
  <2>2. page \in DOMAIN c.pools /\ o \in Nat /\ count \in Nat
    BY <1>2, <1>3, <1>5, <1>7
  <2>3. QED
    BY <1>1, <2>1, <2>2, WrittenFacts
<1>10. /\ DOMAIN d.pools = 1 .. PageCount
       /\ \A p \in 1 .. PageCount : DOMAIN d.pools[p] = 1 .. P
  BY <1>3, <1>9 DEF IsWritten
<1>11. CacheTypeOK(d)
  BY <1>1, <1>7, <1>8, <1>10 DEF CacheTypeOK, PoolPages, PoolSlots
<1>12. PagesAreApart(d)
  <2>1. Len(ids) = PagesFor(m)
    BY <1>1
  <2>2. \A q \in Requests, x \in Layers : Len(Pages(d, q, x)) = PagesFor(Count(d, q, x))
    BY <1>3, <1>8, <2>1 DEF PagesAreApart
  <2>3. ASSUME NEW ra \in Requests, NEW la \in Layers, NEW rb \in Requests, NEW lb \in Layers,
               NEW n1 \in 1 .. Len(Pages(d, ra, la)), NEW n2 \in 1 .. Len(Pages(d, rb, lb)),
               Pages(d, ra, la)[n1] = Pages(d, rb, lb)[n2]
        PROVE  ra = rb /\ la = lb /\ n1 = n2
    <3>1. CASE (ra # r \/ la # l) /\ (rb # r \/ lb # l)
      <4>1. Pages(d, ra, la) = Pages(c, ra, la) /\ Pages(d, rb, lb) = Pages(c, rb, lb)
        BY <1>8, <3>1
      <4>2. /\ n1 \in 1 .. Len(Pages(c, ra, la)) /\ n2 \in 1 .. Len(Pages(c, rb, lb))
            /\ Pages(c, ra, la)[n1] = Pages(c, rb, lb)[n2] /\ PagesAreApart(c)
        BY <1>3, <2>3, <4>1
      <4>3. QED
        BY ONLY <4>2, ApartPages
    <3>2. CASE (ra = r /\ la = l) /\ (rb # r \/ lb # l)
      BY <1>8, <2>3, <3>2 DEF IsNextPage
    <3>3. CASE (ra # r \/ la # l) /\ (rb = r /\ lb = l)
      BY <1>8, <2>3, <3>3 DEF IsNextPage
    <3>4. CASE (ra = r /\ la = l) /\ (rb = r /\ lb = l)
      BY <1>8, <2>3, <3>4 DEF IsNextPage
    <3>5. QED
      BY <3>1, <3>2, <3>3, <3>4
  <2>4. \A i \in 1 .. Len(d.free), j \in 1 .. Len(d.free) : d.free[i] = d.free[j] => i = j
    BY DEF IsNextPage
  <2>5. ASSUME NEW q \in Requests, NEW x \in Layers,
               NEW n1 \in 1 .. Len(Pages(d, q, x)), NEW i \in 1 .. Len(d.free)
        PROVE  Pages(d, q, x)[n1] # d.free[i]
    <3>1. CASE q = r /\ x = l
      BY <1>8, <3>1 DEF IsNextPage
    <3>2. CASE q # r \/ x # l
      BY <1>8, <3>2 DEF IsNextPage
    <3>3. QED
      BY <3>1, <3>2
  <2>6. QED
    BY ONLY <2>2, <2>3, <2>4, <2>5 DEF PagesAreApart
<1>13. \A q \in Requests, x \in Layers : q # r \/ x # l => Count(d, q, x) = Count(c, q, x)
  BY <1>8
<1>14. ASSUME NEW q \in Requests, NEW x \in Layers, NEW j \in 1 .. Count(c, q, x)
       PROVE  PagedRow(d, q, x, j) = PagedRow(c, q, x, j)
  <2>1. PICK i, s, p : i = PagesFor(j) /\ s = SlotFor(j) /\ p = Pages(c, q, x)[i]
    OBVIOUS
  <2>2. j \in Nat \ {0} /\ Count(c, q, x) \in Nat /\ j <= Count(c, q, x)
    BY <1>4
  <2>3. i \in Nat \ {0} /\ s \in 1 .. P
    BY <1>1, <2>1, <2>2, PlaceOfRow
  <2>4. i \in 1 .. Len(Pages(c, q, x))
    <3>1. i <= PagesFor(Count(c, q, x)) /\ PagesFor(Count(c, q, x)) \in Nat
      BY <2>1, <2>2, PagesForGrows, PagesForIsNatural
    <3>2. Len(Pages(c, q, x)) = PagesFor(Count(c, q, x))
      BY <1>3 DEF PagesAreApart
    <3>3. QED
      BY <2>3, <3>1, <3>2
  <2>5. p \in 1 .. PageCount
    <3>1. Pages(c, q, x) \in Seq(1 .. PageCount)
      BY <1>3 DEF Pages, Table
    <3>2. QED
      BY <2>1, <2>4, <3>1, ElementOf
  <2>6. Pages(d, q, x)[i] = p
    <3>1. CASE q = r /\ x = l
      BY <1>8, <2>1, <2>4, <3>1 DEF IsNextPage
    <3>2. CASE q # r \/ x # l
      BY <1>8, <2>1, <3>2
    <3>3. QED
      BY <3>1, <3>2
  <2>7. p # page \/ s <= o
    <3>1. SUFFICES ASSUME p = page PROVE s <= o
      OBVIOUS
    <3>2. Len(ids) \in 1 .. Len(ids)
      BY <1>7
    <3>3. q = r /\ x = l
      <4>1. SUFFICES ASSUME q # r \/ x # l PROVE FALSE
        OBVIOUS
      <4>2. \A y \in 1 .. Len(ids) : Pages(c, q, x)[i] # ids[y]
        BY ONLY <2>4, <4>1, IsNextPage(c, r, l, ids, rest, page) DEF IsNextPage
      <4>3. QED
        BY <1>7, <2>1, <3>1, <3>2, <4>2
    <3>4. i \in 1 .. Len(ids) /\ ids[i] = p
      BY <1>7, <2>1, <2>3, <2>4, <3>3 DEF IsNextPage
    <3>5. i = Len(ids)
      BY <1>7, <3>1, <3>2, <3>4 DEF IsNextPage
    <3>6. PagesFor(m) = PagesFor(j) /\ j <= n /\ j \in 1 .. n
      BY <1>1, <2>1, <2>2, <3>3, <3>5
    <3>7. PagesFor(n) = PagesFor(j) /\ PagesFor(n) = PagesFor(m)
      <4>1. PagesFor(j) <= PagesFor(n) /\ PagesFor(n) <= PagesFor(m)
        BY <1>4, <1>6, <2>2, <3>6, PagesForGrows
      <4>2. PagesFor(j) \in Nat /\ PagesFor(n) \in Nat /\ PagesFor(m) \in Nat
        BY <1>4, <1>6, <2>2, PagesForIsNatural
      <4>3. QED
        BY <3>6, <4>1, <4>2
    <3>8. o # 0
      <4>1. PagesFor(m) = IF o = 0 THEN PagesFor(n) + 1 ELSE PagesFor(n)
        BY <1>1, <1>4, PlacesBehind
      <4>2. PagesFor(n) \in Nat
        BY <1>4, PagesForIsNatural
      <4>3. QED
        BY <3>7, <4>1, <4>2
    <3>9. QED
      BY <1>1, <1>4, <2>1, <3>6, <3>7, <3>8, SlotsBefore
  <2>8. d.pools[p][s] = c.pools[p][s]
    BY <1>3, <1>9, <2>3, <2>5, <2>7 DEF IsWritten
  <2>9. QED
    BY <2>1, <2>6, <2>8 DEF PagedRow
<1>15. ASSUME NEW i \in 1 .. count
       PROVE  PagedRow(d, r, l, n + i) = Entries(k, v, w + i)
  <2>1. i \in 1 .. P - o /\ i \in Nat /\ i <= count
    BY <1>2, <1>5
  <2>2. PICK j : j = n + i
    OBVIOUS
  <2>3. /\ PagesFor(j) = IF o = 0 THEN PagesFor(n) + 1 ELSE PagesFor(n)
        /\ SlotFor(j) = o + i
    BY <1>1, <1>4, <2>1, <2>2, PlacesBehind
  <2>4. PagesFor(m) = IF o = 0 THEN PagesFor(n) + 1 ELSE PagesFor(n)
    BY <1>1, <1>4, PlacesBehind
  <2>5. Pages(d, r, l)[PagesFor(j)] = page
    BY <1>1, <1>7, <1>8, <2>3, <2>4
  <2>6. o + i \in 1 .. P
    BY <1>2, <1>5, <2>1
  <2>7. d.pools[page][o + i] = Entries(k, v, w + i)
    BY <1>3, <1>7, <1>9, <2>6 DEF IsWritten
  <2>8. QED
    BY <2>2, <2>3, <2>5, <2>7 DEF PagedRow
<1>16. Len(d.free) + PagesFor(Count(d, r, l)) = Len(c.free) + PagesFor(Count(c, r, l))
  BY <1>1, <1>8
<1>17. CacheOK(d)
  BY <1>11, <1>12 DEF CacheOK
<1>18. \A e, q, x, j : Row(e, q, x, j) = PagedRow(e, q, x, j)
  BY DEF Row
<1>19. Count(d, r, l) = Count(c, r, l) + count
  BY <1>1, <1>8
<1>20. QED
  BY <1>13, <1>14, <1>15, <1>16, <1>17, <1>18, <1>19 DEF Appended

LEMMA NothingRemains ==
  ASSUME NEW d \in Nat \ {0}
  PROVE  0 % d = 0
<1> DEFINE o == 0 % d
           a == 0 \div d
           p == a * d
<1>1. a \in Nat /\ o \in Nat /\ 0 = p + o
  OBVIOUS
<1>2. p \in Nat
  BY <1>1
<1> HIDE DEF o, p
<1>3. o = 0
  BY <1>1, <1>2
<1>4. QED
  BY <1>3 DEF o

LEMMA AppendToPageFacts ==
  ASSUME mode.cache = "Paged", NEW c, CacheOK(c), NEW r \in Requests, NEW l \in Layers,
         NEW k, NEW v, NEW m \in Nat, Len(k[1]) = m, NEW w \in Nat, w < m,
         Count(c, r, l) % PageTokenCount = 0 => Len(c.free) > 0
  PROVE  \E count \in 1 .. m - w : Appended(AppendToPage(c, r, l, k, v, w), c, r, l, k, v, w, count)
<1>1. PICK P, old, n, o, fresh : /\ P = PageTokenCount /\ old = Pages(c, r, l)
                                 /\ n = Count(c, r, l) /\ o = n % P /\ fresh = (o = 0)
  OBVIOUS
<1>2. PICK page, count, ids, rest :
        /\ page = IF fresh THEN Last(c.free) ELSE Last(old)
        /\ count = Min({P - o, m - w})
        /\ ids = IF fresh THEN Append(old, page) ELSE old
        /\ rest = IF fresh THEN Front(c.free) ELSE c.free
  OBVIOUS
<1>3. P \in Nat \ {0}
  BY <1>1, AttentionAssumption
<1>4. CacheTypeOK(c) /\ PagesAreApart(c) /\ c.tables \in [Requests -> [Layers -> Table]]
  BY DEF CacheOK, CacheTypeOK
<1>5. c.tables[r][l] \in Table
  BY <1>4
<1>6. n \in Nat /\ Len(old) = PagesFor(n) /\ PagesFor(n) \in Nat
  <2>1. n \in Nat
    BY <1>1, <1>5 DEF Count, Table
  <2>2. Len(old) = PagesFor(n)
    BY <1>1, <1>4 DEF PagesAreApart
  <2>3. QED
    BY <2>1, <2>2, PagesForIsNatural
<1>7. o \in 0 .. P - 1
  BY <1>1, <1>3, <1>6
<1>8. count \in 1 .. P - o /\ count \in 1 .. m - w
  <2>1. P - o \in Nat \ {0} /\ m - w \in Nat \ {0}
    BY <1>3, <1>7
  <2>2. count = IF P - o <= m - w THEN P - o ELSE m - w
    BY <1>2, <2>1, MinOfTwo
  <2>3. QED
    BY <2>1, <2>2
<1>9. count \in 1 .. PageTokenCount - (n % PageTokenCount)
  BY <1>1, <1>8
<1>10. PagesFor(n + count) = IF o = 0 THEN PagesFor(n) + 1 ELSE PagesFor(n)
  BY <1>1, <1>6, <1>9, PlacesBehind
<1>11. PICK d : d = AppendToPage(c, r, l, k, v, w)
  OBVIOUS
<1>12. /\ d.pools = Written(c.pools, page, n % PageTokenCount, k, v, w, count)
       /\ d.free = rest
       /\ d.tables = [c.tables EXCEPT ![r][l] =
                      [page_ids |-> ids, cached_token_count |-> n + count]]
  <2>1. /\ d.pools = Written(c.pools, page, o, k, v, w, count)
        /\ d.free = rest
        /\ d.tables = [c.tables EXCEPT ![r][l] =
                         [page_ids |-> IF fresh THEN Append(@.page_ids, page) ELSE @.page_ids,
                          cached_token_count |-> @.cached_token_count + count]]
    BY <1>1, <1>2, <1>11 DEF AppendToPage, Pages, Count
  <2>2. /\ c.tables[r][l].page_ids = old /\ c.tables[r][l].cached_token_count = n
        /\ c.tables \in [Requests -> [Layers -> Table]]
    BY <1>1, <1>4 DEF Pages, Count
  <2>3. d.tables = [c.tables EXCEPT ![r][l] = [page_ids |-> ids, cached_token_count |-> n + count]]
    BY ONLY <1>2, <2>1, <2>2, r \in Requests, l \in Layers
  <2>4. QED
    BY <1>1, <2>1, <2>3
<1>13. IsNextPage(c, r, l, ids, rest, page) /\ Len(ids) = PagesFor(n + count)
       /\ Len(rest) + PagesFor(n + count) = Len(c.free) + PagesFor(n)
  <2>1. CASE fresh
    <3>1. Len(c.free) > 0
      BY <1>1, <2>1
    <3>2. /\ IsNextPage(c, r, l, Append(old, Last(c.free)), Front(c.free), Last(c.free))
          /\ Len(Append(old, Last(c.free))) = Len(old) + 1
          /\ Len(Front(c.free)) = Len(c.free) - 1
      BY <1>1, <1>4, <3>1, FreshPageFacts
    <3>3. Len(c.free) \in Nat
      BY <1>4 DEF CacheTypeOK
    <3>4. ids = Append(old, Last(c.free)) /\ rest = Front(c.free) /\ page = Last(c.free)
      BY <1>2, <2>1
    <3>5. PagesFor(n + count) = PagesFor(n) + 1
      BY <1>1, <1>10, <2>1
    <3>6. Len(rest) + PagesFor(n + count) = Len(c.free) + PagesFor(n)
      BY <1>6, <3>2, <3>3, <3>4, <3>5
    <3>7. QED
      BY <1>6, <3>2, <3>4, <3>5, <3>6
  <2>2. CASE ~ fresh
    <3>1. PagesFor(n + count) = PagesFor(n)
      BY <1>1, <1>10, <2>2
    <3>2. Len(old) > 0
      <4>1. n \in Nat \ {0}
        BY <1>1, <1>3, <1>6, <2>2, NothingRemains
      <4>2. PagesFor(n) \in Nat \ {0}
        BY <4>1, PlaceOfRow
      <4>3. QED
        BY <1>6, <4>2
    <3>3. IsNextPage(c, r, l, old, c.free, Last(old))
      BY <1>1, <1>4, <3>2, LastPageFacts
    <3>4. ids = old /\ rest = c.free /\ page = Last(old)
      BY <1>2, <2>2
    <3>5. QED
      BY <1>6, <3>1, <3>3, <3>4
  <2>3. fresh \in BOOLEAN
    BY <1>1
  <2>4. QED
    BY <2>1, <2>2
<1>14. Appended(d, c, r, l, k, v, w, count)
  BY <1>1, <1>6, <1>9, <1>12, <1>13, NextPageAppends
<1>15. QED
  BY <1>8, <1>11, <1>14

LEMMA CountsAreNatural ==
  ASSUME NEW c, CacheOK(c), NEW r \in Requests, NEW l \in Layers
  PROVE  Count(c, r, l) \in Nat /\ Len(c.free) \in Nat
<1>1. c.tables \in [Requests -> [Layers -> Table]] /\ c.free \in Seq(1 .. PageCount)
  BY DEF CacheOK, CacheTypeOK
<1>2. c.tables[r][l] \in Table
  BY <1>1
<1>3. QED
  BY <1>1, <1>2 DEF Count, Table

LEMMA AppendedNothing ==
  ASSUME NEW c, CacheOK(c), NEW r \in Requests, NEW l \in Layers, NEW k, NEW v
  PROVE  Appended(c, c, r, l, k, v, 0, 0)
<1>1. Count(c, r, l) \in Nat
  BY CountsAreNatural
<1>2. QED
  BY <1>1 DEF Appended

LEMMA AppendedTwice ==
  ASSUME NEW c, NEW d, NEW e, NEW r \in Requests, NEW l \in Layers, NEW k, NEW v, CacheOK(c),
         NEW w \in Nat, NEW a \in Nat, NEW b \in Nat, NEW u, u = w + a,
         Appended(d, c, r, l, k, v, w, a), Appended(e, d, r, l, k, v, u, b)
  PROVE  Appended(e, c, r, l, k, v, w, a + b)
<1>1. CacheOK(d) /\ CacheOK(e)
  BY DEF Appended
<1>2. PICK n, m : n = Count(c, r, l) /\ m = Count(d, r, l)
  OBVIOUS
<1>3. n \in Nat /\ m = n + a /\ Count(e, r, l) = m + b /\ m \in Nat
  BY <1>1, <1>2, CountsAreNatural DEF Appended
<1>4. Count(e, r, l) = n + (a + b)
  BY <1>3
<1>5. ASSUME NEW q \in Requests, NEW x \in Layers
      PROVE  /\ q # r \/ x # l => Count(e, q, x) = Count(c, q, x)
             /\ \A j \in 1 .. Count(c, q, x) : Row(e, q, x, j) = Row(c, q, x, j)
  <2>1. q # r \/ x # l => Count(d, q, x) = Count(c, q, x) /\ Count(e, q, x) = Count(d, q, x)
    BY DEF Appended
  <2>2. Count(c, q, x) \in Nat /\ Count(d, q, x) \in Nat /\ Count(c, q, x) <= Count(d, q, x)
    <3>1. CASE q = r /\ x = l
      <4>1. n \in Nat /\ m \in Nat /\ n <= m
        BY <1>3
      <4>2. QED
        BY <1>2, <3>1, <4>1
    <3>2. CASE q # r \/ x # l
      <4>1. Count(c, q, x) \in Nat
        BY CountsAreNatural
      <4>2. QED
        BY <2>1, <3>2, <4>1
    <3>3. QED
      BY <3>1, <3>2
  <2>3. ASSUME NEW j \in 1 .. Count(c, q, x) PROVE Row(e, q, x, j) = Row(c, q, x, j)
    <3>1. j \in 1 .. Count(d, q, x)
      BY <2>2
    <3>2. Row(e, q, x, j) = Row(d, q, x, j) /\ Row(d, q, x, j) = Row(c, q, x, j)
      BY <3>1 DEF Appended
    <3>3. QED
      BY <3>2
  <2>4. QED
    BY <2>1, <2>3
<1>6. ASSUME NEW i \in 1 .. a + b
      PROVE  Row(e, r, l, n + i) = Entries(k, v, w + i)
  <2>1. CASE i \in 1 .. a
    <3>1. Row(d, r, l, n + i) = Entries(k, v, w + i)
      BY <1>2, <2>1 DEF Appended
    <3>2. n + i \in 1 .. m
      BY <1>3, <2>1
    <3>3. Row(e, r, l, n + i) = Row(d, r, l, n + i)
      BY <1>2, <3>2 DEF Appended
    <3>4. QED
      BY <3>1, <3>3
  <2>2. CASE i \notin 1 .. a
    <3>1. PICK y : y = i - a
      OBVIOUS
    <3>2. y \in 1 .. b /\ m + y = n + i /\ u + y = w + i
      BY <1>3, <2>2, <3>1
    <3>3. Row(e, r, l, m + y) = Entries(k, v, u + y)
      BY <1>2, <3>2 DEF Appended
    <3>4. QED
      BY <3>2, <3>3
  <2>3. QED
    BY <2>1, <2>2
<1>7. mode.cache = "Paged" =>
        Len(e.free) + PagesFor(Count(e, r, l)) = Len(c.free) + PagesFor(n)
  BY <1>2 DEF Appended
<1>8. QED
  BY <1>1, <1>2, <1>4, <1>5, <1>6, <1>7 DEF Appended

\* There is a page for every row.
HasPages(c, r, l, m) == PagesFor(Count(c, r, l) + m) <= Len(c.free) + PagesFor(Count(c, r, l))

\* A round that finds rows left writes some.
LEMMA AppendRoundFacts ==
  ASSUME mode.cache = "Paged", NEW c, CacheOK(c), NEW r \in Requests, NEW l \in Layers,
         NEW k, NEW v, NEW m \in Nat, Len(k[1]) = m, HasPages(c, r, l, m),
         NEW w \in 0 .. m, NEW d, Appended(d, c, r, l, k, v, 0, w)
  PROVE  \E u \in 0 .. m : /\ u > w \/ u = m
                           /\ Appended(AppendRound(d, r, l, k, v, Count(c, r, l)),
                                       c, r, l, k, v, 0, u)
<1>1. PICK n, s : n = Count(c, r, l) /\ s = Count(d, r, l)
  OBVIOUS
<1>2. CacheOK(d)
  BY DEF Appended
<1>3. n \in Nat /\ s \in Nat /\ s = n + w /\ s - n = w /\ Len(c.free) \in Nat /\ Len(d.free) \in Nat
  <2>1. n \in Nat /\ s \in Nat /\ Len(c.free) \in Nat /\ Len(d.free) \in Nat
    BY <1>1, <1>2, CountsAreNatural
  <2>2. s = n + w
    BY <1>1 DEF Appended
  <2>3. QED
    BY <2>1, <2>2
<1>4. PICK e : e = AppendRound(d, r, l, k, v, n)
  OBVIOUS
<1>5. e = IF w < m THEN AppendToPage(d, r, l, k, v, w) ELSE d
  <2>1. d.tables[r][l].cached_token_count = s
    BY <1>1 DEF Count
  <2>2. e = IF s - n < m THEN AppendToPage(d, r, l, k, v, s - n) ELSE d
    BY <1>4, <2>1 DEF AppendRound
  <2>3. QED
    BY <1>3, <2>2
<1>6. CASE w < m
  <2>1. s % PageTokenCount = 0 => Len(d.free) > 0
    <3>1. SUFFICES ASSUME s % PageTokenCount = 0 PROVE Len(d.free) > 0
      OBVIOUS
    <3>2. PICK P : P = PageTokenCount
      OBVIOUS
    <3>3. P \in Nat \ {0}
      BY <3>2, AttentionAssumption
    <3>4. 1 \in 1 .. P - (s % P)
      BY <3>1, <3>2, <3>3
    <3>5. PagesFor(s + 1) = PagesFor(s) + 1
      BY <1>3, <3>1, <3>2, <3>4, PlacesBehind
    <3>6. s + 1 \in Nat /\ n + m \in Nat /\ s + 1 <= n + m
      BY <1>3, <1>6
    <3>7. PagesFor(s + 1) <= PagesFor(n + m)
      BY <3>6, PagesForGrows
    <3>8. Len(d.free) + PagesFor(s) = Len(c.free) + PagesFor(n)
      BY <1>1 DEF Appended
    <3>9. PagesFor(n + m) <= Len(c.free) + PagesFor(n)
      BY <1>1 DEF HasPages
    <3>10. PagesFor(s) \in Nat /\ PagesFor(n) \in Nat /\ PagesFor(n + m) \in Nat
      BY <1>3, <3>6, PagesForIsNatural
    <3>11. PICK a, b, e0, f, g : /\ a = Len(d.free) /\ b = Len(c.free) /\ e0 = PagesFor(s)
                                 /\ f = PagesFor(n) /\ g = PagesFor(n + m)
      OBVIOUS
    <3>12. a \in Nat /\ b \in Nat /\ e0 \in Nat /\ f \in Nat /\ g \in Nat
      BY <1>3, <3>10, <3>11
    <3>13. e0 + 1 <= g /\ a + e0 = b + f /\ g <= b + f
      BY <3>5, <3>7, <3>8, <3>9, <3>11
    <3>14. a > 0
      BY ONLY <3>12, <3>13
    <3>15. QED
      BY <3>11, <3>14
  <2>2. w \in Nat
    OBVIOUS
  <2>3. PICK count \in 1 .. m - w : Appended(e, d, r, l, k, v, w, count)
    BY <1>1, <1>2, <1>5, <1>6, <2>1, <2>2, AppendToPageFacts
  <2>4. w + count \in 0 .. m /\ w + count > w /\ count \in Nat /\ w = 0 + w
    BY <1>6, <2>2
  <2>5. Appended(e, c, r, l, k, v, 0, w + count)
    BY <2>2, <2>3, <2>4, AppendedTwice
  <2>6. QED
    BY <1>1, <1>4, <2>4, <2>5
<1>7. CASE ~ (w < m)
  <2>1. w = m /\ e = d
    BY <1>5, <1>7
  <2>2. QED
    BY <1>1, <1>4, <2>1
<1>8. QED
  BY <1>6, <1>7

IsAppending(f, c, r, l, k, v, start, n) ==
  f = [i \in 0 .. n |-> IF i = 0 THEN c ELSE AppendRound(f[i - 1], r, l, k, v, start)]

LEMMA AppendingExists ==
  ASSUME NEW c, NEW r, NEW l, NEW k, NEW v, NEW start, NEW n \in Nat
  PROVE  \E f : IsAppending(f, c, r, l, k, v, start, n)
<1> DEFINE T == {j \in 0 .. n : \E f : IsAppending(f, c, r, l, k, v, start, j)}
<1>1. 0 \in T
  <2> DEFINE f == [i \in 0 .. 0 |-> c]
  <2>1. f = [i \in 0 .. 0 |-> IF i = 0 THEN c ELSE AppendRound(f[i - 1], r, l, k, v, start)]
    OBVIOUS
  <2>2. IsAppending(f, c, r, l, k, v, start, 0)
    BY ONLY <2>1 DEF IsAppending
  <2>3. QED
    BY <2>2
<1>2. ASSUME NEW j \in 0 .. n - 1, j \in T PROVE j + 1 \in T
  <2>1. PICK f : IsAppending(f, c, r, l, k, v, start, j)
    BY <1>2
  <2>2. j \in Nat /\ j + 1 \in 0 .. n /\ j \in 0 .. j
    OBVIOUS
  <2> DEFINE g == [i \in 0 .. j + 1 |-> IF i <= j THEN f[i]
                                        ELSE AppendRound(f[j], r, l, k, v, start)]
             h == [i \in 0 .. j + 1 |-> IF i = 0 THEN c
                                        ELSE AppendRound(g[i - 1], r, l, k, v, start)]
  <2>3. \A i \in 0 .. j : f[i] = IF i = 0 THEN c ELSE AppendRound(f[i - 1], r, l, k, v, start)
    BY <2>1 DEF IsAppending
  <2>4. \A i \in 0 .. j : g[i] = f[i]
    BY <2>2
  <2>5. g[j + 1] = AppendRound(f[j], r, l, k, v, start)
    BY <2>2
  <2>6. ASSUME NEW i \in 0 .. j + 1
        PROVE  g[i] = IF i = 0 THEN c ELSE AppendRound(g[i - 1], r, l, k, v, start)
    <3> HIDE DEF g
    <3>1. CASE i = 0
      BY <2>2, <2>3, <2>4, <3>1
    <3>2. CASE i # 0 /\ i <= j
      <4>1. i \in 0 .. j /\ i - 1 \in 0 .. j
        BY <2>2, <3>2
      <4>2. QED
        BY <2>3, <2>4, <3>2, <4>1
    <3>3. CASE i = j + 1
      <4>1. i - 1 = j /\ i # 0
        BY <2>2, <3>3
      <4>2. QED
        BY <2>2, <2>4, <2>5, <3>3, <4>1
    <3>4. QED
      BY <2>2, <3>1, <3>2, <3>3
  <2>7. g = h
    <3>1. \A i \in 0 .. j + 1 : g[i] = h[i]
      <4> HIDE DEF g
      <4>1. QED
        BY <2>6
    <3>2. QED
      BY <3>1
  <2>8. IsAppending(g, c, r, l, k, v, start, j + 1)
    <3> HIDE DEF g
    <3>1. QED
      BY <2>7 DEF IsAppending
  <2> HIDE DEF g
  <2>9. QED
    BY <2>2, <2>8
<1> HIDE DEF T
<1>3. n \in 0 .. n /\ \A j \in 0 .. n : j \in T
  BY ONLY <1>1, <1>2, InductionTo
<1>4. QED
  BY <1>3 DEF T

LEMMA AppendToPagesFacts ==
  ASSUME mode.cache = "Paged", NEW c, CacheOK(c), NEW r \in Requests, NEW l \in Layers,
         NEW k, NEW v, NEW m \in Nat, Len(k[1]) = m, HasPages(c, r, l, m)
  PROVE  Appended(AppendToPages(c, r, l, k, v), c, r, l, k, v, 0, m)
<1>1. PICK start : start = Count(c, r, l)
  OBVIOUS
<1>2. PICK f : f = CHOOSE g : IsAppending(g, c, r, l, k, v, start, m)
  OBVIOUS
<1>3. IsAppending(f, c, r, l, k, v, start, m)
  BY <1>2, AppendingExists
<1>4. AppendToPages(c, r, l, k, v) = f[m]
  BY <1>1, <1>2 DEF AppendToPages, IsAppending, Count
<1>5. /\ f[0] = c
      /\ \A i \in 1 .. m : f[i] = AppendRound(f[i - 1], r, l, k, v, start)
  BY <1>3 DEF IsAppending
<1> DEFINE T == {i \in 0 .. m : \E w \in 0 .. m : w >= i /\ Appended(f[i], c, r, l, k, v, 0, w)}
<1>6. 0 \in T
  BY <1>5, AppendedNothing
<1>7. ASSUME NEW i \in 0 .. m - 1, i \in T PROVE i + 1 \in T
  <2>1. PICK w \in 0 .. m : w >= i /\ Appended(f[i], c, r, l, k, v, 0, w)
    BY <1>7
  <2>2. i + 1 \in 1 .. m /\ i + 1 - 1 = i /\ i + 1 \in 0 .. m
    OBVIOUS
  <2>3. f[i + 1] = AppendRound(f[i], r, l, k, v, Count(c, r, l))
    BY <1>1, <1>5, <2>2
  <2>4. PICK u \in 0 .. m : /\ u > w \/ u = m
                            /\ Appended(f[i + 1], c, r, l, k, v, 0, u)
    BY <2>1, <2>3, AppendRoundFacts
  <2>5. u >= i + 1
    BY <2>1, <2>2, <2>4
  <2>6. QED
    BY <2>2, <2>4, <2>5
<1> HIDE DEF T
<1>8. \A i \in 0 .. m : i \in T
  BY ONLY <1>6, <1>7, m \in Nat, InductionTo
<1>9. PICK w \in 0 .. m : w >= m /\ Appended(f[m], c, r, l, k, v, 0, w)
  BY <1>8 DEF T
<1>10. w = m
  BY <1>9
<1>11. QED
  BY <1>4, <1>9, <1>10

\* There is a slot for every row.
HasSlots(c, r, l, m) ==
  /\ \A q \in Requests \ {r}, x \in Layers : Count(c, q, x) = 0
  /\ Count(c, r, l) + m <= MaxLength

LEMMA AppendContiguousFacts ==
  ASSUME mode.cache = "Contiguous", NEW c, CacheOK(c), NEW r \in Requests, NEW l \in Layers,
         NEW k, NEW v, NEW m \in Nat, Len(k[1]) = m, HasSlots(c, r, l, m)
  PROVE  Appended(AppendContiguous(c, r, l, k, v), c, r, l, k, v, 0, m)
<1>1. PICK n, ids : n = Count(c, r, l) /\ ids = Pages(c, r, l)
  OBVIOUS
<1>2. PICK d : d = AppendContiguous(c, r, l, k, v)
  OBVIOUS
<1>3. /\ c.tables \in [Requests -> [Layers -> Table]] /\ c.free \in Seq(1 .. PageCount)
      /\ DOMAIN c.pools = Layers
      /\ \A p \in Layers : DOMAIN c.pools[p] = 1 .. MaxLength
  BY DEF CacheOK, CacheTypeOK, PoolPages, PoolSlots, Layers
<1>4. n \in Nat /\ n + m \in Nat /\ n + m <= MaxLength /\ MaxLength \in Nat
  <2>1. n \in Nat
    BY <1>1, CountsAreNatural
  <2>2. QED
    BY <1>1, <2>1, AttentionAssumption DEF HasSlots
<1>5. ids \in Seq(1 .. PageCount)
  BY <1>1, <1>3 DEF Pages, Table
<1>6. /\ d.pools = Written(c.pools, l, n, k, v, 0, m)
      /\ d.free = c.free
      /\ d.tables = [c.tables EXCEPT ![r][l] =
                       [page_ids |-> @.page_ids, cached_token_count |-> @.cached_token_count + m]]
  BY <1>1, <1>2 DEF AppendContiguous, Count
<1>7. /\ d.tables \in [Requests -> [Layers -> Table]] /\ Count(d, r, l) = n + m
      /\ \A q \in Requests, x \in Layers : q # r \/ x # l => Count(d, q, x) = Count(c, q, x)
  <2>1. PICK t : t = [page_ids |-> ids, cached_token_count |-> n + m]
    OBVIOUS
  <2>2. t \in Table /\ t.cached_token_count = n + m
    BY <1>4, <1>5, <2>1 DEF Table
  <2>3. c.tables[r][l].page_ids = ids /\ c.tables[r][l].cached_token_count = n
    BY <1>1 DEF Pages, Count
  <2>4. d.tables = [c.tables EXCEPT ![r][l] = t]
    BY ONLY <1>3, <1>6, <2>1, <2>3, r \in Requests, l \in Layers
  <2>5. /\ d.tables \in [Requests -> [Layers -> Table]] /\ d.tables[r][l] = t
        /\ \A q \in Requests, x \in Layers : q # r \/ x # l => d.tables[q][x] = c.tables[q][x]
    BY ONLY <1>3, <2>2, <2>4
  <2>6. QED
    BY <2>2, <2>5 DEF Count
<1>8. IsWritten(d.pools, c.pools, l, n, k, v, 0, m)
  <2>1. \A p \in DOMAIN c.pools : DOMAIN c.pools[p] \subseteq Nat
    BY <1>3, <1>4
  <2>2. l \in DOMAIN c.pools /\ 0 \in Nat
    BY <1>3
  <2>3. QED
    BY <1>4, <1>6, <2>1, <2>2, WrittenFacts
<1>9. DOMAIN d.pools = Layers /\ \A p \in Layers : DOMAIN d.pools[p] = 1 .. MaxLength
  BY <1>3, <1>8 DEF IsWritten
<1>10. CacheOK(d)
  BY <1>3, <1>6, <1>7, <1>9 DEF CacheOK, CacheTypeOK, PoolPages, PoolSlots, Layers
<1>11. \A e, q, x, j : Row(e, q, x, j) = e.pools[x][j]
  BY DEF Row
<1>12. ASSUME NEW q \in Requests, NEW x \in Layers, NEW j \in 1 .. Count(c, q, x)
       PROVE  d.pools[x][j] = c.pools[x][j]
  <2>1. q = r
    BY DEF HasSlots
  <2>2. CASE x = l
    <3>1. j \in 1 .. MaxLength /\ j <= n
      BY <1>1, <1>4, <2>1, <2>2
    <3>2. QED
      BY <1>3, <1>8, <3>1 DEF IsWritten
  <2>3. CASE x # l
    <3>1. ASSUME j \in 1 .. MaxLength PROVE d.pools[x][j] = c.pools[x][j]
      BY <1>3, <1>8, <2>3, <3>1 DEF IsWritten
    <3>2. CASE j \notin 1 .. MaxLength
      <4>1. d.pools[x] = c.pools[x]
        BY <1>3, <1>6, <2>3 DEF Written
      <4>2. QED
        BY <4>1
    <3>3. QED
      BY <3>1, <3>2
  <2>4. QED
    BY <2>2, <2>3
<1>13. ASSUME NEW i \in 1 .. m PROVE d.pools[l][n + i] = Entries(k, v, 0 + i)
  <2>1. n + i \in 1 .. MaxLength
    BY <1>4
  <2>2. QED
    BY <1>3, <1>8, <2>1 DEF IsWritten
<1>14. QED
  BY <1>1, <1>2, <1>7, <1>10, <1>11, <1>12, <1>13 DEF Appended

HasSpace(c, r, l, m) ==
  IF mode.cache = "Contiguous" THEN HasSlots(c, r, l, m) ELSE HasPages(c, r, l, m)

LEMMA AppendFacts ==
  ASSUME mode \in Modes, NEW c, CacheOK(c), NEW r \in Requests, NEW l \in Layers,
         NEW k, NEW v, NEW m \in Nat, Len(k[1]) = m, HasSpace(c, r, l, m)
  PROVE  Appended(AppendNewKeyValue(c, r, l, k, v), c, r, l, k, v, 0, m)
<1>1. CASE mode.cache = "Contiguous"
  BY <1>1, AppendContiguousFacts DEF AppendNewKeyValue, HasSpace
<1>2. CASE mode.cache # "Contiguous"
  <2>1. mode.cache = "Paged"
    BY <1>2, CacheModes
  <2>2. QED
    BY <1>2, <2>1, AppendToPagesFacts DEF AppendNewKeyValue, HasSpace
<1>3. QED
  BY <1>1, <1>2

-----------------------------------------------------------------------------
(* Reading the cache *)

\* The rows behind the first q pages of n rows, and what the next page holds of them.
LEMMA RowsOfPage ==
  ASSUME NEW n \in Nat, NEW p \in 1 .. PagesFor(n)
  PROVE  /\ (p - 1) * PageTokenCount \in Nat /\ (p - 1) * PageTokenCount < n
         /\ p * PageTokenCount = (p - 1) * PageTokenCount + PageTokenCount
         /\ p < PagesFor(n) => p * PageTokenCount < n
         /\ p = PagesFor(n) => p * PageTokenCount >= n
<1>1. PICK P, N, a, b : /\ P = PageTokenCount /\ N = PagesFor(n)
                        /\ a = (p - 1) * P /\ b = p * P
  OBVIOUS
<1>2. P \in Nat \ {0} /\ N \in Nat
  BY <1>1, AttentionAssumption, PagesForIsNatural
<1>3. p \in Nat \ {0} /\ p <= N /\ p - 1 \in Nat
  BY <1>1, <1>2
<1>4. a \in Nat /\ b \in Nat
  BY <1>1, <1>2, <1>3
<1>5. b = a + P
  <2>1. \A x, y \in Int : x * y = (x - 1) * y + y
    OBVIOUS
  <2>2. QED
    BY <1>1, <1>2, <1>3, <2>1
<1>6. n # 0
  BY <1>1, <1>3, NoPages
<1>7. Cell(n, N - 1, SlotFor(n), P)
  BY <1>1, <1>6, PlaceOfRow
<1>8. n <= a <=> N - 1 < p - 1
  BY <1>1, <1>3, <1>7, CellBound
<1>9. n <= b <=> N - 1 < p
  BY <1>1, <1>3, <1>7, CellBound
<1>10. a < n /\ (p < N => b < n) /\ (p = N => b >= n)
  BY <1>2, <1>3, <1>4, <1>8, <1>9
<1>11. QED
  BY <1>1, <1>4, <1>5, <1>10

\* Where the rows of the pages end, and how many each has.
PageEnds(n) ==
  [p \in 0 .. PagesFor(n) |-> IF p * PageTokenCount <= n THEN p * PageTokenCount ELSE n]
PageRows(n) ==
  [p \in 1 .. PagesFor(n) |-> Min({PageTokenCount, n - (p - 1) * PageTokenCount})]

LEMMA PageRowsFacts ==
  ASSUME NEW n \in Nat
  PROVE  /\ IsOffsets(PageEnds(n), PageRows(n), PagesFor(n))
         /\ PageEnds(n)[PagesFor(n)] = n
         /\ \A p \in 1 .. PagesFor(n) : /\ PageEnds(n)[p - 1] = (p - 1) * PageTokenCount
                                        /\ PageRows(n)[p] \in 0 .. PageTokenCount
<1>1. PICK P, N, off, cnt : /\ P = PageTokenCount /\ N = PagesFor(n)
                            /\ off = PageEnds(n) /\ cnt = PageRows(n)
  OBVIOUS
<1>2. P \in Nat \ {0} /\ N \in Nat
  BY <1>1, AttentionAssumption, PagesForIsNatural
<1>3. off = [p \in 0 .. N |-> IF p * P <= n THEN p * P ELSE n]
  BY <1>1 DEF PageEnds
<1>4. off \in [0 .. N -> Nat]
  <2>1. \A p \in 0 .. N : p * P \in Nat
    BY <1>2
  <2>2. QED
    BY <1>3, <2>1
<1>5. off[0] = 0
  <2>1. 0 * P = 0 /\ 0 \in 0 .. N
    BY <1>2
  <2>2. off[0] = IF 0 * P <= n THEN 0 * P ELSE n
    BY <1>3, <2>1
  <2>3. QED
    BY <2>1, <2>2
<1>6. ASSUME NEW p \in 1 .. N
      PROVE  /\ off[p - 1] = (p - 1) * P
             /\ cnt[p] \in 0 .. P
             /\ off[p] = off[p - 1] + cnt[p]
  <2>1. PICK a, b : a = (p - 1) * P /\ b = p * P
    OBVIOUS
  <2>2. a \in Nat /\ a < n /\ b = a + P /\ (p < N => b < n) /\ (p = N => b >= n)
    BY <1>1, <2>1, RowsOfPage
  <2>3. p - 1 \in 0 .. N /\ p \in 0 .. N
    BY <1>2
  <2>4. off[p - 1] = IF (p - 1) * P <= n THEN (p - 1) * P ELSE n
    BY <1>3, <2>3
  <2>5. off[p - 1] = a
    BY <2>1, <2>2, <2>4
  <2>6. off[p] = IF b <= n THEN b ELSE n
    BY <1>3, <2>1, <2>3
  <2>7. cnt[p] = Min({P, n - a})
    BY <1>1, <2>1 DEF PageRows
  <2>8. n - a \in Nat
    BY <2>2
  <2>9. cnt[p] = IF P <= n - a THEN P ELSE n - a
    BY <1>2, <2>7, <2>8, MinOfTwo
  <2>10. cnt[p] \in 0 .. P /\ off[p] = a + cnt[p]
    BY <1>2, <2>2, <2>6, <2>8, <2>9
  <2>11. QED
    BY <2>1, <2>5, <2>10
<1>7. off[N] = n
  <2>1. CASE N = 0
    <3>1. n = 0
      <4>1. SUFFICES ASSUME n # 0 PROVE FALSE
        OBVIOUS
      <4>2. PagesFor(n) # 0
        BY <4>1, PlaceOfRow
      <4>3. QED
        BY <1>1, <2>1, <4>2
    <3>2. QED
      BY <1>5, <2>1, <3>1
  <2>2. CASE N # 0
    <3>1. N \in 1 .. N /\ N \in 0 .. N
      BY <1>2, <2>2
    <3>2. PICK b : b = N * P
      OBVIOUS
    <3>3. b >= n /\ b \in Nat
      BY <1>1, <1>2, <3>1, <3>2, RowsOfPage
    <3>4. off[N] = IF b <= n THEN b ELSE n
      BY <1>3, <3>1, <3>2
    <3>5. QED
      BY <3>3, <3>4
  <2>3. QED
    BY <2>1, <2>2
<1>8. IsOffsets(off, cnt, N)
  <2>1. \A p \in 1 .. N : cnt[p] \in Nat
    BY <1>2, <1>6
  <2>2. QED
    BY <1>2, <1>4, <1>5, <1>6, <2>1 DEF IsOffsets
<1>9. QED
  BY <1>1, <1>6, <1>7, <1>8

IsSlice(t, store, page, count, part) ==
  /\ IsTensor(t, KeyValueHeadCount, count)
  /\ \A g \in 1 .. KeyValueHeadCount, j \in 1 .. count : t[g][j] = store[page][j][part][g]

LEMMA SliceFacts ==
  ASSUME NEW store, NEW page, NEW count \in Nat, NEW part
  PROVE  IsSlice(Slice(store, page, count, part), store, page, count, part)
<1> DEFINE t == Slice(store, page, count, part)
<1>1. t = [h \in 1 .. KeyValueHeadCount |-> [s \in 1 .. count |-> store[page][s][part][h]]]
  BY DEF Slice
<1> HIDE DEF t
<1>2. \A g \in 1 .. KeyValueHeadCount : t[g] = [s \in 1 .. count |-> store[page][s][part][g]]
  BY <1>1
<1>3. DOMAIN t = 1 .. KeyValueHeadCount /\ t = [h \in 1 .. KeyValueHeadCount |-> t[h]]
  BY <1>1
<1>4. IsSequence(t, KeyValueHeadCount)
  BY <1>3, AttentionAssumption DEF IsSequence
<1>5. \A g \in 1 .. KeyValueHeadCount : IsSequence(t[g], count)
  BY <1>2 DEF IsSequence
<1>6. \A g \in 1 .. KeyValueHeadCount, j \in 1 .. count : t[g][j] = store[page][j][part][g]
  BY <1>2
<1>7. QED
  BY <1>4, <1>5, <1>6 DEF t, IsTensor, IsSlice

\* t has what the first n rows of a request have cached of keys or of values.
IsCached(t, c, r, l, part, n) ==
  /\ IsTensor(t, KeyValueHeadCount, n)
  /\ \A g \in 1 .. KeyValueHeadCount, j \in 1 .. n : t[g][j] = Row(c, r, l, j)[part][g]

LEMMA PageSlicesFacts ==
  ASSUME mode.cache = "Paged", NEW c, CacheOK(c), NEW r \in Requests, NEW l \in Layers,
         NEW part, NEW n, n = Count(c, r, l)
  PROVE  /\ IsPages(PageSlices(c, r, l, part), PageEnds(n), PageRows(n), PagesFor(n))
         /\ IsCached(Cat(PageSlices(c, r, l, part)), c, r, l, part, n)
<1>1. PICK N, off, cnt, ids, ss : /\ N = PagesFor(n) /\ off = PageEnds(n) /\ cnt = PageRows(n)
                                  /\ ids = Pages(c, r, l) /\ ss = PageSlices(c, r, l, part)
  OBVIOUS
<1>2. n \in Nat /\ N \in Nat
  BY <1>1, CountsAreNatural, PagesForIsNatural
<1>3. IsSequence(ids, N)
  <2>1. c.tables \in [Requests -> [Layers -> Table]] /\ PagesAreApart(c)
    BY DEF CacheOK, CacheTypeOK
  <2>2. ids \in Seq(1 .. PageCount)
    BY <1>1, <2>1 DEF Pages, Table
  <2>3. Len(ids) = N
    BY <1>1, <2>1 DEF PagesAreApart
  <2>4. QED
    BY <2>2, <2>3, SequencesAreSequences
<1>4. DOMAIN ids = 1 .. N
  BY <1>3 DEF IsSequence
<1>5. ss = [p \in 1 .. N |-> Slice(c.pools, ids[p], cnt[p], part)]
  <2>1. ss = [p \in DOMAIN ids |->
                Slice(c.pools, ids[p], Min({PageTokenCount, n - (p - 1) * PageTokenCount}), part)]
    BY <1>1 DEF PageSlices, Pages, Count
  <2>2. \A p \in 1 .. N : cnt[p] = Min({PageTokenCount, n - (p - 1) * PageTokenCount})
    BY <1>1 DEF PageRows
  <2>3. QED
    BY <1>4, <2>1, <2>2
<1>6. /\ IsOffsets(off, cnt, N) /\ off[N] = n
      /\ \A p \in 1 .. N : off[p - 1] = (p - 1) * PageTokenCount /\ cnt[p] \in 0 .. PageTokenCount
  BY <1>1, <1>2, PageRowsFacts
<1>7. IsSequence(ss, N) /\ \A p \in 1 .. N : ss[p] = Slice(c.pools, ids[p], cnt[p], part)
  BY <1>2, <1>5 DEF IsSequence
<1>8. \A p \in 1 .. N :
        /\ cnt[p] \in Nat
        /\ IsTensor(ss[p], KeyValueHeadCount, cnt[p])
        /\ \A g \in 1 .. KeyValueHeadCount, j \in 1 .. cnt[p] :
             ss[p][g][j] = c.pools[ids[p]][j][part][g]
  <2> TAKE p \in 1 .. N
  <2>1. cnt[p] \in Nat
    BY <1>6 DEF IsOffsets
  <2>2. PICK store, page, count, t : /\ store = c.pools /\ page = ids[p] /\ count = cnt[p]
                                     /\ t = Slice(store, page, count, part)
    OBVIOUS
  <2>3. /\ IsTensor(t, KeyValueHeadCount, count)
        /\ \A g \in 1 .. KeyValueHeadCount, j \in 1 .. count : t[g][j] = store[page][j][part][g]
    <3>1. count \in Nat
      BY <2>1, <2>2
    <3>2. IsSlice(t, store, page, count, part)
      BY <2>2, <3>1, SliceFacts
    <3>3. QED
      BY <3>2 DEF IsSlice
  <2>4. ss[p] = t
    BY <1>7, <2>2
  <2>5. QED
    BY <2>1, <2>2, <2>3, <2>4
<1>9. IsPages(ss, off, cnt, N)
  BY <1>6, <1>7, <1>8 DEF IsPages
<1>10. PICK t : t = Cat(ss)
  OBVIOUS
<1>11. IsCat(t, ss, off, cnt, N)
  BY <1>9, <1>10, CatFacts
<1>12. ASSUME NEW g \in 1 .. KeyValueHeadCount, NEW j \in 1 .. n
       PROVE  t[g][j] = Row(c, r, l, j)[part][g]
  <2>1. PICK p \in 1 .. N : \E i \in 1 .. cnt[p] : j = off[p - 1] + i
    <3>1. j \in 1 .. off[N]
      BY <1>6
    <3>2. QED
      BY <1>6, <3>1, OffsetsCover
  <2>0. PICK i \in 1 .. cnt[p] : j = off[p - 1] + i
    BY <2>1
  <2>2. t[g][j] = ss[p][g][i]
    BY <1>11, <2>0 DEF IsCat
  <2>3. i \in 1 .. PageTokenCount
    BY <1>6, <2>0, AttentionAssumption
  <2>4. Cell(j, p - 1, i, PageTokenCount)
    <3>1. PICK P, q : P = PageTokenCount /\ q = p - 1
      OBVIOUS
    <3>2. P \in Nat /\ q \in Nat
      BY <1>2, <3>1, AttentionAssumption
    <3>3. j = q * P + i /\ i \in 1 .. P
      BY <1>6, <2>0, <2>3, <3>1
    <3>4. Cell(j, q, i, P)
      BY ONLY <3>2, <3>3 DEF Cell
    <3>5. QED
      BY <3>1, <3>4
  <2>5. PagesFor(j) = p /\ SlotFor(j) = i
    BY <1>2, <2>4, PagesOfRow
  <2>6. Row(c, r, l, j) = c.pools[ids[p]][i]
    BY <1>1, <2>5 DEF Row, PagedRow
  <2>7. QED
    BY <1>8, <2>0, <2>2, <2>6
<1>13. IsCached(t, c, r, l, part, n)
  BY <1>6, <1>11, <1>12 DEF IsCat, IsCached
<1>14. QED
  BY <1>1, <1>9, <1>10, <1>13

LEMMA CachedTensorFacts ==
  ASSUME mode \in Modes, NEW c, CacheOK(c), NEW r \in Requests, NEW l \in Layers, NEW part,
         NEW n, n = Count(c, r, l)
  PROVE  IsCached(GetContiguousCacheTensor(c, r, l, part), c, r, l, part, n)
<1>1. n \in Nat
  BY CountsAreNatural
<1>2. CASE mode.cache = "Contiguous"
  <2>1. GetContiguousCacheTensor(c, r, l, part) = Slice(c.pools, l, n, part)
    BY <1>2 DEF GetContiguousCacheTensor, Count
  <2>2. \A j : Row(c, r, l, j) = c.pools[l][j]
    BY <1>2 DEF Row
  <2>3. PICK store, t : store = c.pools /\ t = Slice(store, l, n, part)
    OBVIOUS
  <2>4. /\ IsTensor(t, KeyValueHeadCount, n)
        /\ \A g \in 1 .. KeyValueHeadCount, j \in 1 .. n : t[g][j] = store[l][j][part][g]
    <3>1. IsSlice(Slice(store, l, n, part), store, l, n, part)
      BY <1>1, SliceFacts
    <3>2. IsSlice(t, store, l, n, part)
      BY <2>3, <3>1
    <3>3. QED
      BY ONLY <3>2 DEF IsSlice
  <2>5. \A g \in 1 .. KeyValueHeadCount, j \in 1 .. n : t[g][j] = Row(c, r, l, j)[part][g]
    BY <2>2, <2>3, <2>4
  <2>6. IsCached(t, c, r, l, part, n)
    BY <2>4, <2>5 DEF IsCached
  <2>7. QED
    BY <2>1, <2>3, <2>6
<1>3. CASE mode.cache # "Contiguous"
  <2>1. mode.cache = "Paged"
    BY <1>3, CacheModes
  <2>2. GetContiguousCacheTensor(c, r, l, part) = Cat(PageSlices(c, r, l, part))
    BY <1>3 DEF GetContiguousCacheTensor
  <2>3. QED
    BY <2>1, <2>2, PageSlicesFacts
<1>4. QED
  BY <1>2, <1>3

\* y is the attention of the queries to the cached rows up to their own.
AttendsTo(y, q, c, r, l, start, m) ==
  /\ IsTensor(y, QueryHeadCount, m)
  /\ \A h \in 1 .. QueryHeadCount, i \in 1 .. m :
       y[h][i] = {<<<<q[h][i], Row(c, r, l, j).key[KeyValueHead(h)]>>,
                    Row(c, r, l, j).value[KeyValueHead(h)]>> : j \in 1 .. start + i}

LEMMA AttentionReadsRows ==
  ASSUME NEW y, NEW q, NEW k, NEW v, NEW c, NEW r, NEW l, NEW start \in Nat, NEW m \in Nat,
         NEW n, n = start + m,
         IsAttention(y, q, k, v, start, m), IsCached(k, c, r, l, "key", n),
         IsCached(v, c, r, l, "value", n)
  PROVE  AttendsTo(y, q, c, r, l, start, m)
<1>1. IsTensor(y, QueryHeadCount, m)
  BY DEF IsAttention
<1>2. ASSUME NEW h \in 1 .. QueryHeadCount, NEW i \in 1 .. m
      PROVE  y[h][i] = {<<<<q[h][i], Row(c, r, l, j).key[KeyValueHead(h)]>>,
                          Row(c, r, l, j).value[KeyValueHead(h)]>> : j \in 1 .. start + i}
  <2>1. PICK g : g = KeyValueHead(h)
    OBVIOUS
  <2>2. g \in 1 .. KeyValueHeadCount
    BY <2>1, HeadFacts
  <2>3. y[h][i] = {<<<<q[h][i], k[g][j]>>, v[g][j]>> : j \in 1 .. start + i}
    BY <2>1 DEF IsAttention
  <2>4. ASSUME NEW j \in 1 .. start + i
        PROVE  k[g][j] = Row(c, r, l, j).key[g] /\ v[g][j] = Row(c, r, l, j).value[g]
    <3>1. j \in 1 .. n
      OBVIOUS
    <3>2. QED
      BY <2>2, <3>1 DEF IsCached
  <2>5. y[h][i] = {<<<<q[h][i], Row(c, r, l, j).key[g]>>, Row(c, r, l, j).value[g]>> :
                     j \in 1 .. start + i}
    BY ONLY <2>3, <2>4
  <2>6. QED
    BY ONLY <2>1, <2>5
<1>3. QED
  BY ONLY <1>1, <1>2 DEF AttendsTo

LEMMA ForwardContiguousAttentionFacts ==
  ASSUME NEW q, NEW k, NEW v, NEW x, NEW grouped, NEW start \in Nat, NEW m, NEW n,
         start = x.start_pos, n = start + m,
         IsTensor(q, QueryHeadCount, m), IsTensor(k, KeyValueHeadCount, n),
         IsTensor(v, KeyValueHeadCount, n)
  PROVE  IsAttention(ForwardContiguousAttention(q, k, v, x, grouped), q, k, v, start, m)
<1>1. PICK s, w, y : /\ s = MatmulQueryKey(q, k, grouped)
                     /\ w = ApplyCausalAttentionMask(s, start)
                     /\ y = MatmulAttentionValue(w, v, grouped)
  OBVIOUS
<1>2. IsScores(s, q, k, m, n)
  BY <1>1, MatmulQueryKeyFacts
<1>3. IsMasked(w, q, k, start, m, n)
  BY <1>1, <1>2, MaskFacts
<1>4. IsTensor(w, QueryHeadCount, m)
  BY <1>3 DEF IsMasked
<1>5. IsWeighted(y, w, v, m)
  BY <1>1, <1>4, MatmulAttentionValueFacts
<1>6. IsMasked(w, q, k, start, m, start + m)
  BY <1>3
<1>7. IsAttention(y, q, k, v, start, m)
  BY <1>5, <1>6, MaskedRowsTakeThePast
<1>8. y = ForwardContiguousAttention(q, k, v, x, grouped)
  BY <1>1 DEF ForwardContiguousAttention
<1>9. QED
  BY <1>7, <1>8

\* A single query needs no mask.
LEMMA SingleQueryFacts ==
  ASSUME NEW q, NEW k, NEW v, NEW start \in Nat, NEW n, n = start + 1,
         IsTensor(q, QueryHeadCount, 1), IsTensor(k, KeyValueHeadCount, n),
         IsTensor(v, KeyValueHeadCount, n)
  PROVE  IsAttention(WeightedSums(Scores(q, RepeatKv(k)), RepeatKv(v)), q, k, v, start, 1)
<1>1. PICK w, y : w = MatmulQueryKey(q, k, FALSE) /\ y = MatmulAttentionValue(w, v, FALSE)
  OBVIOUS
<1>2. IsScores(w, q, k, 1, n)
  BY <1>1, MatmulQueryKeyFacts
<1>3. IsTensor(w, QueryHeadCount, 1)
  BY <1>2 DEF IsScores
<1>4. IsWeighted(y, w, v, 1)
  BY <1>1, <1>3, MatmulAttentionValueFacts
<1>5. \A i \in 1 .. 1, j \in 1 .. n : ~ (j > start + i)
  OBVIOUS
<1>6. IsMasked(w, q, k, start, 1, start + 1)
  BY <1>2, <1>5 DEF IsScores, IsMasked
<1>7. IsAttention(y, q, k, v, start, 1)
  BY <1>4, <1>6, MaskedRowsTakeThePast
<1>8. y = WeightedSums(Scores(q, RepeatKv(k)), RepeatKv(v))
  BY <1>1 DEF MatmulQueryKey, MatmulAttentionValue
<1>9. QED
  BY <1>7, <1>8

\* Every kernel gives the attention of the queries to the cached rows up to their own.
LEMMA ForwardSelfAttentionFacts ==
  ASSUME mode \in Modes, NEW c, CacheOK(c), NEW x, x.request_id \in Requests, NEW l \in Layers,
         NEW q, x.start_pos \in Nat, IsTensor(q, QueryHeadCount, x.q_len),
         Count(c, x.request_id, l) = x.start_pos + x.q_len
  PROVE  AttendsTo(ForwardSelfAttention(c, x, l, q), q, c, x.request_id, l, x.start_pos, x.q_len)
<1>1. PICK r, start, m, n : /\ r = x.request_id /\ start = x.start_pos /\ m = x.q_len
                            /\ n = start + m
  OBVIOUS
<1>2. r \in Requests /\ start \in Nat /\ m \in Nat /\ n \in Nat /\ n = Count(c, r, l)
  BY <1>1 DEF IsTensor
<1>3. PICK k, v : /\ k = GetContiguousCacheTensor(c, r, l, "key")
                  /\ v = GetContiguousCacheTensor(c, r, l, "value")
  OBVIOUS
<1>4. IsCached(k, c, r, l, "key", n) /\ IsCached(v, c, r, l, "value", n)
  BY <1>2, <1>3, CachedTensorFacts
<1>5. IsTensor(k, KeyValueHeadCount, n) /\ IsTensor(v, KeyValueHeadCount, n)
  BY <1>4 DEF IsCached
<1>6. PICK y : y = ForwardSelfAttention(c, x, l, q)
  OBVIOUS
<1>7. \/ /\ mode.cache = "Paged"
         /\ y = ForwardPagedAttention(q, PageSlices(c, r, l, "key"),
                                      PageSlices(c, r, l, "value"), x)
      \/ m = 1 /\ y = WeightedSums(Scores(q, RepeatKv(k)), RepeatKv(v))
      \/ \E grouped : y = ForwardContiguousAttention(q, k, v, x, grouped)
  BY <1>1, <1>3, <1>6 DEF ForwardSelfAttention
<1>8. CASE /\ mode.cache = "Paged"
           /\ y = ForwardPagedAttention(q, PageSlices(c, r, l, "key"),
                                        PageSlices(c, r, l, "value"), x)
  <2>1. PICK ks, vs, off, cnt, N :
          /\ ks = PageSlices(c, r, l, "key") /\ vs = PageSlices(c, r, l, "value")
          /\ off = PageEnds(n) /\ cnt = PageRows(n) /\ N = PagesFor(n)
    OBVIOUS
  <2>2. /\ IsPages(ks, off, cnt, N) /\ IsPages(vs, off, cnt, N)
        /\ IsCached(Cat(ks), c, r, l, "key", n) /\ IsCached(Cat(vs), c, r, l, "value", n)
    BY <1>2, <1>8, <2>1, PageSlicesFacts
  <2>3. off[N] = x.start_pos + x.q_len
    BY <1>1, <1>2, <2>1, PageRowsFacts
  <2>4. IsAttention(y, q, Cat(ks), Cat(vs), x.start_pos, x.q_len)
    BY <1>8, <2>1, <2>2, <2>3, ForwardPagedAttentionFacts
  <2>5. AttendsTo(y, q, c, r, l, start, m)
    BY <1>1, <1>2, <2>2, <2>4, AttentionReadsRows
  <2>6. QED
    BY <1>1, <1>6, <2>5
<1>9. CASE m = 1 /\ y = WeightedSums(Scores(q, RepeatKv(k)), RepeatKv(v))
  <2>1. IsTensor(q, QueryHeadCount, 1) /\ n = start + 1
    BY <1>1, <1>9
  <2>2. IsAttention(y, q, k, v, start, 1)
    BY <1>2, <1>5, <1>9, <2>1, SingleQueryFacts
  <2>3. AttendsTo(y, q, c, r, l, start, 1)
    BY <1>2, <1>4, <2>1, <2>2, AttentionReadsRows
  <2>4. QED
    BY <1>1, <1>6, <1>9, <2>3
<1>10. CASE \E grouped : y = ForwardContiguousAttention(q, k, v, x, grouped)
  <2>1. PICK grouped : y = ForwardContiguousAttention(q, k, v, x, grouped)
    BY <1>10
  <2>2. IsAttention(y, q, k, v, start, m)
    BY <1>1, <1>2, <1>5, <2>1, ForwardContiguousAttentionFacts
  <2>3. AttendsTo(y, q, c, r, l, start, m)
    BY <1>1, <1>2, <1>4, <2>2, AttentionReadsRows
  <2>4. QED
    BY <1>1, <1>6, <2>3
<1>11. QED
  BY <1>7, <1>8, <1>9, <1>10

-----------------------------------------------------------------------------
(* The reference *)

IsReference(f, s, n) == f = [i \in 0 .. n |-> IF i = 0 THEN s ELSE ReferenceBlock(f[i - 1], i)]

LEMMA ReferenceExists ==
  ASSUME NEW s, NEW n \in Nat
  PROVE  \E f : IsReference(f, s, n)
<1> DEFINE T == {j \in 0 .. n : \E f : IsReference(f, s, j)}
<1>1. 0 \in T
  <2> DEFINE f == [i \in 0 .. 0 |-> s]
  <2>1. f = [i \in 0 .. 0 |-> IF i = 0 THEN s ELSE ReferenceBlock(f[i - 1], i)]
    OBVIOUS
  <2>2. IsReference(f, s, 0)
    BY ONLY <2>1 DEF IsReference
  <2>3. QED
    BY <2>2
<1>2. ASSUME NEW j \in 0 .. n - 1, j \in T PROVE j + 1 \in T
  <2>1. PICK f : IsReference(f, s, j)
    BY <1>2
  <2>2. j \in Nat /\ j + 1 \in 0 .. n /\ j \in 0 .. j
    OBVIOUS
  <2> DEFINE g == [i \in 0 .. j + 1 |-> IF i <= j THEN f[i] ELSE ReferenceBlock(f[j], j + 1)]
             h == [i \in 0 .. j + 1 |-> IF i = 0 THEN s ELSE ReferenceBlock(g[i - 1], i)]
  <2>3. \A i \in 0 .. j : f[i] = IF i = 0 THEN s ELSE ReferenceBlock(f[i - 1], i)
    BY <2>1 DEF IsReference
  <2>4. \A i \in 0 .. j : g[i] = f[i]
    BY <2>2
  <2>5. g[j + 1] = ReferenceBlock(f[j], j + 1)
    BY <2>2
  <2>6. ASSUME NEW i \in 0 .. j + 1
        PROVE  g[i] = IF i = 0 THEN s ELSE ReferenceBlock(g[i - 1], i)
    <3> HIDE DEF g
    <3>1. CASE i = 0
      BY <2>2, <2>3, <2>4, <3>1
    <3>2. CASE i # 0 /\ i <= j
      <4>1. i \in 0 .. j /\ i - 1 \in 0 .. j
        BY <2>2, <3>2
      <4>2. QED
        BY <2>3, <2>4, <3>2, <4>1
    <3>3. CASE i = j + 1
      <4>1. i - 1 = j /\ i # 0
        BY <2>2, <3>3
      <4>2. QED
        BY <2>2, <2>4, <2>5, <3>3, <4>1
    <3>4. QED
      BY <2>2, <3>1, <3>2, <3>3
  <2>7. g = h
    <3>1. \A i \in 0 .. j + 1 : g[i] = h[i]
      <4> HIDE DEF g
      <4>1. QED
        BY <2>6
    <3>2. QED
      BY <3>1
  <2>8. IsReference(g, s, j + 1)
    <3> HIDE DEF g
    <3>1. QED
      BY <2>7 DEF IsReference
  <2> HIDE DEF g
  <2>9. QED
    BY <2>2, <2>8
<1> HIDE DEF T
<1>3. n \in 0 .. n /\ \A j \in 0 .. n : j \in T
  BY ONLY <1>1, <1>2, InductionTo
<1>4. QED
  BY <1>3 DEF T

\* The state of token i of s after layer l.
State(s, l, i) == ReferenceStates(s)[l][i]

\* State i after layer l, from the states before.
ReferenceRow(states, l, i) ==
  [own |-> states[i],
   heads |-> [h \in 1 .. QueryHeadCount |->
                {<<h, KeyValueHead(h), KeyValueHead(h), i, j>> : j \in 1 .. i}],
   seen |-> {<<<<<<"query", l>>, states[i]>>, j,
               <<<<"key", l>>, states[j]>>, <<<<"value", l>>, states[j]>>>> : j \in 1 .. i}]

IsNextState(t, s, l, n) == IsSequence(t, n) /\ \A i \in 1 .. n : t[i] = ReferenceRow(s, l, i)

LEMMA ReferenceBlockFacts ==
  ASSUME NEW s, NEW n, IsSequence(s, n), NEW l
  PROVE  IsNextState(ReferenceBlock(s, l), s, l, n)
<1> DEFINE t == [i \in DOMAIN s |-> ReferenceRow(s, l, i)]
<1>1. DOMAIN s = 1 .. n /\ n \in Nat
  BY DEF IsSequence
<1>2. t = [i \in 1 .. n |-> ReferenceRow(s, l, i)]
  BY ONLY <1>1
<1>3. ReferenceBlock(s, l) = Contiguous(t)
  BY DEF ReferenceBlock, ReferenceRow
<1> HIDE DEF t
<1>4. IsSequence(t, n) /\ \A i \in 1 .. n : t[i] = ReferenceRow(s, l, i)
  BY ONLY <1>1, <1>2 DEF IsSequence
<1>5. Contiguous(t) = t
  BY <1>4, ContiguousIsSame
<1>6. QED
  BY <1>3, <1>4, <1>5 DEF IsNextState

LEMMA ReferenceStatesFacts ==
  ASSUME NEW s, NEW n, IsSequence(s, n)
  PROVE  /\ \A l \in 0 .. LayerCount : IsSequence(ReferenceStates(s)[l], n)
         /\ ReferenceStates(s)[0] = s
         /\ \A l \in Layers, i \in 1 .. n :
              ReferenceStates(s)[l][i] = ReferenceRow(ReferenceStates(s)[l - 1], l, i)
<1>1. LayerCount \in Nat
  BY AttentionAssumption
<1>2. PICK f : f = CHOOSE g : IsReference(g, s, LayerCount)
  OBVIOUS
<1>3. IsReference(f, s, LayerCount)
  BY <1>1, <1>2, ReferenceExists
<1>4. ReferenceStates(s) = f
  BY <1>2 DEF ReferenceStates, IsReference
<1>5. f[0] = s /\ \A l \in 1 .. LayerCount : f[l] = ReferenceBlock(f[l - 1], l)
  BY <1>1, <1>3 DEF IsReference
<1> DEFINE T == {l \in 0 .. LayerCount : IsSequence(f[l], n)}
<1>6. 0 \in T
  BY <1>1, <1>5
<1>7. ASSUME NEW l \in 0 .. LayerCount - 1, l \in T PROVE l + 1 \in T
  <2>1. l + 1 \in 1 .. LayerCount /\ l + 1 - 1 = l /\ l + 1 \in 0 .. LayerCount
    BY <1>1
  <2>2. f[l + 1] = ReferenceBlock(f[l], l + 1)
    BY <1>5, <2>1
  <2>3. IsSequence(f[l], n)
    BY <1>7
  <2>4. IsNextState(f[l + 1], f[l], l + 1, n)
    BY <2>2, <2>3, ReferenceBlockFacts
  <2>5. QED
    BY <2>1, <2>4 DEF IsNextState
<1> HIDE DEF T
<1>8. \A l \in 0 .. LayerCount : l \in T
  BY ONLY <1>1, <1>6, <1>7, InductionTo
<1>9. \A l \in 0 .. LayerCount : IsSequence(f[l], n)
  BY <1>8 DEF T
<1>10. ASSUME NEW l \in Layers, NEW i \in 1 .. n
       PROVE  f[l][i] = ReferenceRow(f[l - 1], l, i)
  <2>1. l \in 1 .. LayerCount /\ l - 1 \in 0 .. LayerCount
    BY <1>1 DEF Layers
  <2>2. f[l] = ReferenceBlock(f[l - 1], l)
    BY <1>5, <2>1
  <2>3. IsSequence(f[l - 1], n)
    BY <1>9, <2>1
  <2>4. IsNextState(f[l], f[l - 1], l, n)
    BY <2>2, <2>3, ReferenceBlockFacts
  <2>5. QED
    BY <2>4 DEF IsNextState
<1>11. QED
  BY <1>4, <1>5, <1>9, <1>10

\* The states of a token depend on the tokens up to it.
LEMMA StatesAreCausal ==
  ASSUME NEW s, NEW m, NEW t, NEW n, IsSequence(s, m), IsSequence(t, n), m <= n,
         \A i \in 1 .. m : s[i] = t[i]
  PROVE  \A l \in 0 .. LayerCount, i \in 1 .. m : State(s, l, i) = State(t, l, i)
<1>1. LayerCount \in Nat /\ m \in Nat /\ n \in Nat
  BY AttentionAssumption DEF IsSequence
<1>2. PICK f, g : f = ReferenceStates(s) /\ g = ReferenceStates(t)
  OBVIOUS
<1>3. /\ f[0] = s /\ g[0] = t
      /\ \A l \in Layers, i \in 1 .. m : f[l][i] = ReferenceRow(f[l - 1], l, i)
      /\ \A l \in Layers, i \in 1 .. n : g[l][i] = ReferenceRow(g[l - 1], l, i)
  BY <1>2, ReferenceStatesFacts
<1> DEFINE T == {l \in 0 .. LayerCount : \A i \in 1 .. m : f[l][i] = g[l][i]}
<1>4. 0 \in T
  BY <1>1, <1>3
<1>5. ASSUME NEW l \in 0 .. LayerCount - 1, l \in T PROVE l + 1 \in T
  <2>1. PICK k : k = l + 1
    OBVIOUS
  <2>2. k \in Layers /\ k - 1 = l /\ k \in 0 .. LayerCount
    BY <1>1, <2>1 DEF Layers
  <2>3. ASSUME NEW i \in 1 .. m PROVE f[k][i] = g[k][i]
    <3>1. i \in 1 .. n
      BY <1>1
    <3>2. f[k][i] = ReferenceRow(f[l], k, i) /\ g[k][i] = ReferenceRow(g[l], k, i)
      BY <1>3, <2>2, <3>1
    <3>3. \A j \in 1 .. i : f[l][j] = g[l][j]
      <4>1. \A j \in 1 .. i : j \in 1 .. m
        BY <1>1
      <4>2. QED
        BY <1>5, <4>1
    <3>4. f[l][i] = g[l][i]
      BY <3>3
    <3>5. {<<<<<<"query", k>>, f[l][i]>>, j,
             <<<<"key", k>>, f[l][j]>>, <<<<"value", k>>, f[l][j]>>>> : j \in 1 .. i}
          = {<<<<<<"query", k>>, g[l][i]>>, j,
               <<<<"key", k>>, g[l][j]>>, <<<<"value", k>>, g[l][j]>>>> : j \in 1 .. i}
      BY ONLY <3>3, <3>4
    <3>6. ReferenceRow(f[l], k, i) = ReferenceRow(g[l], k, i)
      BY ONLY <3>4, <3>5 DEF ReferenceRow
    <3>7. QED
      BY <3>2, <3>6
  <2>4. QED
    BY <2>1, <2>2, <2>3
<1> HIDE DEF T
<1>6. \A l \in 0 .. LayerCount : l \in T
  BY ONLY <1>1, <1>4, <1>5, InductionTo
<1>7. QED
  BY <1>2, <1>6 DEF T, State

\* The terms of a query, a key and a value row.
QueryTerm(l, h, p, state) == <<p, <<h, <<<<"query", l>>, state>>>>>>
KeyTerm(l, g, j, state) == <<j, <<g, <<<<"key", l>>, state>>>>>>
ValueTerm(l, g, state) == <<g, <<<<"value", l>>, state>>>>

\* What head h of token p of s attends to in layer l.
Attended(s, l, h, p) ==
  {<<<<QueryTerm(l, h, p, State(s, l - 1, p)), KeyTerm(l, KeyValueHead(h), j, State(s, l - 1, j))>>,
     ValueTerm(l, KeyValueHead(h), State(s, l - 1, j))>> : j \in 1 .. p}

\* A pair of a score and a value, by what Hidden takes of it.
LEMMA PairFacts ==
  ASSUME NEW l, NEW h, NEW g, NEW p, NEW j, NEW own, NEW state, NEW e,
         e = <<<<QueryTerm(l, h, p, own), KeyTerm(l, g, j, state)>>, ValueTerm(l, g, state)>>
  PROVE  /\ e[1][1][1] = p /\ e[1][1][2][1] = h /\ e[1][1][2][2] = <<<<"query", l>>, own>>
         /\ e[1][2][1] = j /\ e[1][2][2][1] = g /\ e[1][2][2][2] = <<<<"key", l>>, state>>
         /\ e[2][1] = g /\ e[2][2] = <<<<"value", l>>, state>>
<1>1. PICK q, k, v : q = QueryTerm(l, h, p, own) /\ k = KeyTerm(l, g, j, state)
                     /\ v = ValueTerm(l, g, state)
  OBVIOUS
<1>2. e[1][1] = q /\ e[1][2] = k /\ e[2] = v
  BY <1>1
<1>3. q[1] = p /\ q[2][1] = h /\ q[2][2] = <<<<"query", l>>, own>>
  BY ONLY <1>1 DEF QueryTerm
<1>4. k[1] = j /\ k[2][1] = g /\ k[2][2] = <<<<"key", l>>, state>>
  BY ONLY <1>1 DEF KeyTerm
<1>5. v[1] = g /\ v[2] = <<<<"value", l>>, state>>
  BY ONLY <1>1 DEF ValueTerm
<1>6. QED
  BY ONLY <1>2, <1>3, <1>4, <1>5

\* What Hidden keeps of one head.
HeadPart(H) == {<<e[1][1][2][1], e[1][2][2][1], e[2][1], e[1][1][1], e[1][2][1]>> : e \in H}
SeenPart(H) == {<<e[1][1][2][2], e[1][2][1], e[1][2][2][2], e[2][2]>> : e \in H}

LEMMA PartFacts ==
  ASSUME NEW s, NEW l, NEW h, NEW p, NEW g, g = KeyValueHead(h), NEW states,
         states = ReferenceStates(s)[l - 1]
  PROVE  /\ HeadPart(Attended(s, l, h, p)) = {<<h, g, g, p, j>> : j \in 1 .. p}
         /\ SeenPart(Attended(s, l, h, p)) =
              {<<<<<<"query", l>>, states[p]>>, j,
                 <<<<"key", l>>, states[j]>>, <<<<"value", l>>, states[j]>>>> : j \in 1 .. p}
<1> DEFINE Pair(j) == <<<<QueryTerm(l, h, p, states[p]), KeyTerm(l, g, j, states[j])>>,
                        ValueTerm(l, g, states[j])>>
<1>1. Attended(s, l, h, p) = {Pair(j) : j \in 1 .. p}
  BY DEF Attended, State
<1>2. \A j : LET e == Pair(j) IN
        /\ e[1][1][1] = p /\ e[1][1][2][1] = h /\ e[1][1][2][2] = <<<<"query", l>>, states[p]>>
        /\ e[1][2][1] = j /\ e[1][2][2][1] = g /\ e[1][2][2][2] = <<<<"key", l>>, states[j]>>
        /\ e[2][1] = g /\ e[2][2] = <<<<"value", l>>, states[j]>>
  <2> TAKE j
  <2>1. PICK e, state, own : e = Pair(j) /\ state = states[j] /\ own = states[p]
    OBVIOUS
  <2>2. /\ e[1][1][1] = p /\ e[1][1][2][1] = h /\ e[1][1][2][2] = <<<<"query", l>>, own>>
        /\ e[1][2][1] = j /\ e[1][2][2][1] = g /\ e[1][2][2][2] = <<<<"key", l>>, state>>
        /\ e[2][1] = g /\ e[2][2] = <<<<"value", l>>, state>>
    BY <2>1, PairFacts
  <2> HIDE DEF Pair
  <2>3. QED
    BY ONLY <2>1, <2>2
<1> HIDE DEF Pair
<1>3. HeadPart({Pair(j) : j \in 1 .. p}) = {<<h, g, g, p, j>> : j \in 1 .. p}
  <2> DEFINE Part(e) == <<e[1][1][2][1], e[1][2][2][1], e[2][1], e[1][1][1], e[1][2][1]>>
  <2>1. HeadPart({Pair(j) : j \in 1 .. p}) = {Part(e) : e \in {Pair(j) : j \in 1 .. p}}
    BY DEF HeadPart
  <2>2. \A j : Part(Pair(j)) = <<h, g, g, p, j>>
    BY ONLY <1>2
  <2> HIDE DEF Part
  <2>3. {Part(e) : e \in {Pair(j) : j \in 1 .. p}} = {<<h, g, g, p, j>> : j \in 1 .. p}
    BY ONLY <2>2
  <2>4. QED
    BY ONLY <2>1, <2>3
<1>4. SeenPart({Pair(j) : j \in 1 .. p}) =
        {<<<<<<"query", l>>, states[p]>>, j,
           <<<<"key", l>>, states[j]>>, <<<<"value", l>>, states[j]>>>> : j \in 1 .. p}
  <2> DEFINE Part(e) == <<e[1][1][2][2], e[1][2][1], e[1][2][2][2], e[2][2]>>
             Seen(j) == <<<<<<"query", l>>, states[p]>>, j,
                          <<<<"key", l>>, states[j]>>, <<<<"value", l>>, states[j]>>>>
  <2>1. SeenPart({Pair(j) : j \in 1 .. p}) = {Part(e) : e \in {Pair(j) : j \in 1 .. p}}
    BY DEF SeenPart
  <2>2. \A j : Part(Pair(j)) = Seen(j)
    BY ONLY <1>2
  <2> HIDE DEF Part
  <2>3. {Part(e) : e \in {Pair(j) : j \in 1 .. p}} = {Seen(j) : j \in 1 .. p}
    <3> HIDE DEF Seen
    <3>1. QED
      BY ONLY <2>2
  <2>4. QED
    BY ONLY <2>1, <2>3
<1>5. QED
  BY ONLY <1>1, <1>3, <1>4

LEMMA HiddenFacts ==
  ASSUME NEW s, NEW n, IsSequence(s, n), NEW l \in Layers, NEW p \in 1 .. n,
         NEW own, own = State(s, l - 1, p), NEW heads, IsSequence(heads, QueryHeadCount),
         \A h \in 1 .. QueryHeadCount : heads[h] = Attended(s, l, h, p)
  PROVE  Hidden(own, heads) = State(s, l, p)
<1>1. PICK H, states : H = QueryHeadCount /\ states = ReferenceStates(s)[l - 1]
  OBVIOUS
<1>2. H \in Nat \ {0} /\ DOMAIN heads = 1 .. H
  BY <1>1, AttentionAssumption DEF IsSequence
<1> DEFINE t == [h \in DOMAIN heads |-> HeadPart(heads[h])]
           u == UNION {SeenPart(heads[h]) : h \in DOMAIN heads}
<1>3. Hidden(own, heads) = [own |-> own, heads |-> Contiguous(t), seen |-> u]
  BY DEF Hidden, HeadPart, SeenPart
<1>4. t = [h \in 1 .. H |-> {<<h, KeyValueHead(h), KeyValueHead(h), p, j>> : j \in 1 .. p}]
  <2>1. \A h \in 1 .. H :
          HeadPart(heads[h]) = {<<h, KeyValueHead(h), KeyValueHead(h), p, j>> : j \in 1 .. p}
    BY <1>1, PartFacts
  <2>2. QED
    BY ONLY <1>2, <2>1
<1> HIDE DEF t
<1>5. Contiguous(t) = t
  <2>1. IsSequence(t, H)
    BY ONLY <1>2, <1>4 DEF IsSequence
  <2>2. QED
    BY <2>1, ContiguousIsSame
<1>6. u = {<<<<<<"query", l>>, states[p]>>, j,
             <<<<"key", l>>, states[j]>>, <<<<"value", l>>, states[j]>>>> : j \in 1 .. p}
  <2>1. PICK W : W = {<<<<<<"query", l>>, states[p]>>, j,
                        <<<<"key", l>>, states[j]>>, <<<<"value", l>>, states[j]>>>> : j \in 1 .. p}
    OBVIOUS
  <2>2. \A h \in 1 .. H : SeenPart(heads[h]) = W
    BY <1>1, <2>1, PartFacts
  <2>3. 1 \in 1 .. H
    BY <1>2
  <2>4. u = W
    BY ONLY <1>2, <2>2, <2>3
  <2> HIDE DEF u
  <2>5. QED
    BY ONLY <2>1, <2>4
<1> HIDE DEF u
<1>7. own = states[p]
  BY <1>1 DEF State
<1>8. ReferenceRow(states, l, p) = [own |-> own, heads |-> t, seen |-> u]
  BY ONLY <1>1, <1>4, <1>6, <1>7 DEF ReferenceRow
<1>9. State(s, l, p) = ReferenceRow(states, l, p)
  BY <1>1, ReferenceStatesFacts DEF State
<1>10. QED
  BY ONLY <1>3, <1>5, <1>8, <1>9

-----------------------------------------------------------------------------
(* One request's part of a pass *)

IsProjection(t, weights, rows, n) ==
  IsSequence(t, n) /\ \A i \in 1 .. n : t[i] = <<weights, rows[i]>>

LEMMA ProjectFacts ==
  ASSUME NEW weights, NEW rows, NEW n, IsSequence(rows, n)
  PROVE  IsProjection(Project(weights, rows), weights, rows, n)
<1> DEFINE t == [i \in DOMAIN rows |-> <<weights, rows[i]>>]
           u == [i \in DOMAIN rows |-> <<<<weights, rows[i]>>>>]
<1>1. Project(weights, rows) = t \/ Project(weights, rows) = FlattenSeq(u)
  BY DEF Project
<1>2. n \in Nat /\ DOMAIN rows = 1 .. n
  BY DEF IsSequence
<1>3. IsProjection(t, weights, rows, n)
  BY <1>2 DEF IsProjection, IsSequence
<1>4. IsProjection(FlattenSeq(u), weights, rows, n)
  <2>1. PICK off, len : off = [i \in 0 .. n |-> i] /\ len = [i \in 1 .. n |-> 1]
    OBVIOUS
  <2>2. IsOffsets(off, len, n) /\ off[n] = n
    BY <1>2, <2>1 DEF IsOffsets
  <2>3. IsSequence(u, n)
    BY <1>2 DEF IsSequence
  <2>4. \A i \in 1 .. n : u[i] = <<<<weights, rows[i]>>>> /\ len[i] = 1
    BY <1>2, <2>1
  <2> HIDE DEF u
  <2>5. \A i \in 1 .. n : IsSequence(u[i], len[i]) /\ u[i][1] = <<weights, rows[i]>>
    BY ONLY <2>4 DEF IsSequence
  <2>6. IsFlat(FlattenSeq(u), u, off, len, n)
    BY <2>2, <2>3, <2>5, FlattenFacts
  <2>7. PICK f : f = FlattenSeq(u)
    OBVIOUS
  <2>8. IsSequence(f, n)
    BY <2>2, <2>6, <2>7 DEF IsFlat
  <2>9. ASSUME NEW i \in 1 .. n PROVE f[i] = <<weights, rows[i]>>
    <3>1. i - 1 \in 0 .. n /\ i - 1 + 1 = i /\ 1 \in 1 .. len[i] /\ off[i - 1] = i - 1
      BY <1>2, <2>1
    <3>2. f[off[i - 1] + 1] = u[i][1]
      BY <2>6, <2>7, <3>1 DEF IsFlat
    <3>3. QED
      BY <2>5, <3>1, <3>2
  <2>10. QED
    BY <2>7, <2>8, <2>9 DEF IsProjection
<1>5. QED
  BY <1>1, <1>3, <1>4

\* The rows of one request, projected to `count` heads.
IsOwn(t, name, l, count, rows, a, m) ==
  /\ IsTensor(t, count, m)
  /\ \A h \in 1 .. count, i \in 1 .. m : t[h][i] = <<h, <<<<name, l>>, rows[a + i]>>>>

LEMMA OwnRowsFacts ==
  ASSUME NEW name, NEW l, NEW count \in Nat, NEW rows, NEW n, IsSequence(rows, n), NEW x,
         NEW a \in Nat, NEW m \in Nat, a = x.q_start_index, m = x.q_len, a + m <= n
  PROVE  IsOwn(OwnRows(ProjectHeads(name, l, count, rows), x), name, l, count, rows, a, m)
<1>1. PICK projected : projected = Project(<<name, l>>, rows)
  OBVIOUS
<1>2. IsProjection(projected, <<name, l>>, rows, n)
  BY <1>1, ProjectFacts
<1>3. n \in Nat /\ DOMAIN rows = 1 .. n
  BY DEF IsSequence
<1>4. PICK t : t = ProjectHeads(name, l, count, rows)
  OBVIOUS
<1>5. t = [h \in 1 .. count |-> [i \in 1 .. n |-> <<h, projected[i]>>]]
  BY <1>1, <1>3, <1>4 DEF ProjectHeads
<1>6. \A h \in 1 .. count : t[h] = [i \in 1 .. n |-> <<h, projected[i]>>]
  BY <1>5
<1>7. \A h \in 1 .. count :
        /\ IsSequence(t[h], n)
        /\ \A i \in 1 .. n : t[h][i] = <<h, <<<<name, l>>, rows[i]>>>>
  <2> TAKE h \in 1 .. count
  <2>1. t[h] = [i \in 1 .. n |-> <<h, projected[i]>>]
    BY <1>6
  <2>2. IsSequence(t[h], n)
    BY ONLY <1>3, <2>1 DEF IsSequence
  <2>3. \A i \in 1 .. n : projected[i] = <<<<name, l>>, rows[i]>>
    BY <1>2 DEF IsProjection
  <2>4. \A i \in 1 .. n : t[h][i] = <<h, <<<<name, l>>, rows[i]>>>>
    BY ONLY <2>1, <2>3
  <2>5. QED
    BY <2>2, <2>4
<1>8. DOMAIN t = 1 .. count
  BY <1>5
<1>9. PICK u : u = OwnRows(t, x)
  OBVIOUS
<1>10. u = [h \in 1 .. count |-> Narrow(t[h], a, m)]
  BY <1>8, <1>9 DEF OwnRows
<1>11. \A h \in 1 .. count : u[h] = Narrow(t[h], a, m)
  BY <1>10
<1>12. IsSequence(u, count)
  BY <1>10 DEF IsSequence
<1>13. ASSUME NEW h \in 1 .. count
       PROVE  IsPart(u[h], t[h], a, m)
  <2>1. IsSequence(t[h], n)
    BY <1>7
  <2>2. IsPart(Narrow(t[h], a, m), t[h], a, m)
    BY <2>1, NarrowFacts
  <2>3. QED
    BY <1>11, <2>2
<1>14. IsTensor(u, count, m)
  BY <1>12, <1>13 DEF IsTensor, IsPart
<1>15. ASSUME NEW h \in 1 .. count, NEW i \in 1 .. m
       PROVE  u[h][i] = <<h, <<<<name, l>>, rows[a + i]>>>>
  <2>1. a + i \in 1 .. n
    BY <1>3
  <2>2. u[h][i] = t[h][a + i]
    BY <1>13 DEF IsPart
  <2>3. QED
    BY <1>7, <2>1, <2>2
<1>16. QED
  BY <1>4, <1>9, <1>14, <1>15 DEF IsOwn

IsRoped(u, t, start, count, m) ==
  IsTensor(u, count, m) /\ \A h \in 1 .. count, i \in 1 .. m : u[h][i] = <<start + i, t[h][i]>>

LEMMA RopeFacts ==
  ASSUME NEW t, NEW count, NEW m, IsTensor(t, count, m), NEW start
  PROVE  IsRoped(Rope(t, start), t, start, count, m)
<1>1. /\ DOMAIN t = 1 .. count /\ count \in Nat /\ m \in Nat
      /\ \A h \in 1 .. count : DOMAIN t[h] = 1 .. m
  BY DEF IsTensor, IsSequence
<1>2. PICK u : u = Rope(t, start)
  OBVIOUS
<1>3. u = [h \in 1 .. count |-> [i \in DOMAIN t[h] |-> <<start + i, t[h][i]>>]]
  BY <1>1, <1>2 DEF Rope
<1>4. ASSUME NEW h \in 1 .. count PROVE u[h] = [i \in 1 .. m |-> <<start + i, t[h][i]>>]
  <2>1. u[h] = [i \in DOMAIN t[h] |-> <<start + i, t[h][i]>>]
    BY <1>3
  <2>2. DOMAIN t[h] = 1 .. m
    BY <1>1
  <2>3. QED
    BY ONLY <2>1, <2>2
<1>5. IsSequence(u, count) /\ \A h \in 1 .. count : IsSequence(u[h], m)
  BY <1>1, <1>3, <1>4 DEF IsSequence
<1>6. \A h \in 1 .. count, i \in 1 .. m : u[h][i] = <<start + i, t[h][i]>>
  BY <1>4
<1>7. QED
  BY <1>1, <1>2, <1>5, <1>6 DEF IsRoped, IsTensor

CachedEntry(l, j, state) ==
  [key |-> [g \in 1 .. KeyValueHeadCount |-> KeyTerm(l, g, j, state)],
   value |-> [g \in 1 .. KeyValueHeadCount |-> ValueTerm(l, g, state)]]

\* The first n tokens of s are cached in a layer: the terms of their states.
Holds(c, r, l, s, n) ==
  Count(c, r, l) = n /\ \A j \in 1 .. n : Row(c, r, l, j) = CachedEntry(l, j, State(s, l - 1, j))

\* A request of a pass.
IsPlaced(x, n) ==
  /\ x.request_id \in Requests /\ x.start_pos \in Nat /\ x.q_start_index \in Nat /\ x.q_len \in Nat
  /\ x.q_start_index + x.q_len <= n

\* The rows of a request are the states of its tokens.
AreStates(rows, x, s, l) ==
  \A i \in 1 .. x.q_len : rows[x.q_start_index + i] = State(s, l, x.start_pos + i)

\* What a request's part of a pass does to the cache and gives.
IsAttended(e, y, c, x, l, s) ==
  /\ CacheOK(e) /\ Holds(e, x.request_id, l, s, x.start_pos + x.q_len)
  /\ \A r \in Requests, n \in Layers : r # x.request_id \/ n # l =>
       \A t, m : Holds(c, r, n, t, m) => Holds(e, r, n, t, m)
  /\ mode.cache = "Paged" =>
       Len(e.free) + PagesFor(x.start_pos + x.q_len) = Len(c.free) + PagesFor(x.start_pos)
  /\ IsTensor(y, QueryHeadCount, x.q_len)
  /\ \A h \in 1 .. QueryHeadCount, i \in 1 .. x.q_len : y[h][i] = Attended(s, l, h, x.start_pos + i)

LEMMA EntriesFacts ==
  ASSUME NEW k, NEW v, NEW m, IsTensor(k, KeyValueHeadCount, m), IsTensor(v, KeyValueHeadCount, m),
         NEW i, NEW l, NEW p, NEW state,
         \A g \in 1 .. KeyValueHeadCount : /\ k[g][i] = KeyTerm(l, g, p, state)
                                           /\ v[g][i] = ValueTerm(l, g, state)
  PROVE  Entries(k, v, i) = CachedEntry(l, p, state)
<1>1. DOMAIN k = 1 .. KeyValueHeadCount /\ DOMAIN v = 1 .. KeyValueHeadCount
  BY DEF IsTensor, IsSequence
<1>2. [g \in DOMAIN k |-> k[g][i]] = [g \in 1 .. KeyValueHeadCount |-> KeyTerm(l, g, p, state)]
  BY <1>1
<1>3. [g \in DOMAIN v |-> v[g][i]] = [g \in 1 .. KeyValueHeadCount |-> ValueTerm(l, g, state)]
  BY <1>1
<1>4. QED
  BY ONLY <1>2, <1>3 DEF Entries, CachedEntry

LEMMA AttendFacts ==
  ASSUME mode \in Modes, NEW c, CacheOK(c), NEW x, NEW rows, NEW n, IsSequence(rows, n),
         IsPlaced(x, n), NEW l \in Layers, NEW s, AreStates(rows, x, s, l - 1),
         Holds(c, x.request_id, l, s, x.start_pos), HasSpace(c, x.request_id, l, x.q_len),
         NEW done, done.cache = c, NEW pq, NEW pk, NEW pv,
         pq = ProjectHeads("query", l, QueryHeadCount, rows),
         pk = ProjectHeads("key", l, KeyValueHeadCount, rows),
         pv = ProjectHeads("value", l, KeyValueHeadCount, rows)
  PROVE  \E e, y : /\ Attend(done, x, l, pq, pk, pv) = [cache |-> e, ys |-> Append(done.ys, y)]
                   /\ IsAttended(e, y, c, x, l, s)
<1>1. PICK r, start, a, m : /\ r = x.request_id /\ start = x.start_pos /\ a = x.q_start_index
                            /\ m = x.q_len
  OBVIOUS
<1>2. r \in Requests /\ start \in Nat /\ a \in Nat /\ m \in Nat /\ a + m <= n
  BY <1>1 DEF IsPlaced
<1>3. PICK oq, ok, v, q, k : /\ oq = OwnRows(pq, x) /\ ok = OwnRows(pk, x) /\ v = OwnRows(pv, x)
                             /\ q = Rope(oq, start) /\ k = Rope(ok, start)
  OBVIOUS
<1>4. QueryHeadCount \in Nat \ {0} /\ KeyValueHeadCount \in Nat \ {0}
  BY AttentionAssumption
<1>5. IsOwn(oq, "query", l, QueryHeadCount, rows, a, m)
  BY <1>1, <1>2, <1>3, <1>4, OwnRowsFacts
<1>6. /\ IsOwn(ok, "key", l, KeyValueHeadCount, rows, a, m)
      /\ IsOwn(v, "value", l, KeyValueHeadCount, rows, a, m)
  BY <1>1, <1>2, <1>3, <1>4, OwnRowsFacts
<1>7. IsRoped(q, oq, start, QueryHeadCount, m)
  BY <1>3, <1>5, RopeFacts DEF IsOwn
<1>8. IsRoped(k, ok, start, KeyValueHeadCount, m)
  BY <1>3, <1>6, RopeFacts DEF IsOwn
<1>9. /\ IsTensor(q, QueryHeadCount, m) /\ IsTensor(k, KeyValueHeadCount, m)
      /\ IsTensor(v, KeyValueHeadCount, m)
  BY <1>6, <1>7, <1>8 DEF IsRoped, IsOwn
<1>10. \A i \in 1 .. m : rows[a + i] = State(s, l - 1, start + i)
  BY <1>1 DEF AreStates
<1>11. \A h \in 1 .. QueryHeadCount, i \in 1 .. m :
         q[h][i] = QueryTerm(l, h, start + i, State(s, l - 1, start + i))
  BY <1>5, <1>7, <1>10 DEF IsOwn, IsRoped, QueryTerm
<1>12. \A g \in 1 .. KeyValueHeadCount, i \in 1 .. m :
         /\ k[g][i] = KeyTerm(l, g, start + i, State(s, l - 1, start + i))
         /\ v[g][i] = ValueTerm(l, g, State(s, l - 1, start + i))
  BY <1>6, <1>8, <1>10 DEF IsOwn, IsRoped, KeyTerm, ValueTerm
<1>13. \A i \in 1 .. m : Entries(k, v, i) = CachedEntry(l, start + i, State(s, l - 1, start + i))
  BY <1>9, <1>12, EntriesFacts
<1>14. Len(k[1]) = m
  <2>1. 1 \in 1 .. KeyValueHeadCount
    BY <1>4
  <2>2. IsSequence(k[1], m)
    BY <1>9, <2>1 DEF IsTensor
  <2>3. QED
    BY <2>2, SequenceFacts
<1>15. PICK e : e = AppendNewKeyValue(c, r, l, k, v)
  OBVIOUS
<1>16. Appended(e, c, r, l, k, v, 0, m)
  BY <1>1, <1>2, <1>14, <1>15, AppendFacts
<1>17. Count(c, r, l) = start
       /\ \A j \in 1 .. start : Row(c, r, l, j) = CachedEntry(l, j, State(s, l - 1, j))
  BY <1>1 DEF Holds
<1>18. CacheOK(e) /\ Count(e, r, l) = start + m
  BY <1>16, <1>17 DEF Appended
<1>19. ASSUME NEW j \in 1 .. start + m
       PROVE  Row(e, r, l, j) = CachedEntry(l, j, State(s, l - 1, j))
  <2>1. CASE j \in 1 .. start
    <3>1. Row(e, r, l, j) = Row(c, r, l, j)
      BY <1>2, <1>16, <1>17, <2>1 DEF Appended
    <3>2. QED
      BY <1>17, <2>1, <3>1
  <2>2. CASE j \notin 1 .. start
    <3>1. PICK i : i = j - start
      OBVIOUS
    <3>2. i \in 1 .. m /\ start + i = j /\ 0 + i = i
      BY <1>2, <2>2, <3>1
    <3>3. Row(e, r, l, start + i) = Entries(k, v, 0 + i)
      BY <1>16, <1>17, <3>2 DEF Appended
    <3>4. QED
      BY <1>13, <3>2, <3>3
  <2>3. QED
    BY <2>1, <2>2
<1>20. Holds(e, r, l, s, start + m)
  BY <1>18, <1>19 DEF Holds
<1>21. ASSUME NEW rb \in Requests, NEW lb \in Layers, rb # r \/ lb # l, NEW t, NEW b,
              Holds(c, rb, lb, t, b)
       PROVE  Holds(e, rb, lb, t, b)
  <2>1. /\ Count(e, rb, lb) = Count(c, rb, lb)
        /\ \A j \in 1 .. Count(c, rb, lb) : Row(e, rb, lb, j) = Row(c, rb, lb, j)
    BY <1>16, <1>21 DEF Appended
  <2>2. QED
    BY <1>21, <2>1 DEF Holds
<1>22. mode.cache = "Paged" => Len(e.free) + PagesFor(start + m) = Len(c.free) + PagesFor(start)
  BY <1>16, <1>17, <1>18 DEF Appended
<1>23. PICK y : y = ForwardSelfAttention(e, x, l, q)
  OBVIOUS
<1>24. AttendsTo(y, q, e, r, l, start, m)
  BY <1>1, <1>2, <1>9, <1>18, <1>23, ForwardSelfAttentionFacts
<1>25. IsTensor(y, QueryHeadCount, m)
  BY <1>24 DEF AttendsTo
<1>26. ASSUME NEW h \in 1 .. QueryHeadCount, NEW i \in 1 .. m
       PROVE  y[h][i] = Attended(s, l, h, start + i)
  <2>1. PICK g, p : g = KeyValueHead(h) /\ p = start + i
    OBVIOUS
  <2>2. g \in 1 .. KeyValueHeadCount
    BY <2>1, HeadFacts
  <2>3. y[h][i] = {<<<<q[h][i], Row(e, r, l, j).key[g]>>, Row(e, r, l, j).value[g]>> : j \in 1 .. p}
    BY <1>24, <2>1 DEF AttendsTo
  <2>4. ASSUME NEW j \in 1 .. p
        PROVE  /\ Row(e, r, l, j).key[g] = KeyTerm(l, g, j, State(s, l - 1, j))
               /\ Row(e, r, l, j).value[g] = ValueTerm(l, g, State(s, l - 1, j))
    <3>1. j \in 1 .. start + m
      BY <1>2, <2>1
    <3>2. QED
      <4>1. PICK state, entry : state = State(s, l - 1, j) /\ entry = CachedEntry(l, j, state)
        OBVIOUS
      <4>2. Row(e, r, l, j) = entry
        BY <1>19, <3>1, <4>1
      <4>3. entry.key[g] = KeyTerm(l, g, j, state) /\ entry.value[g] = ValueTerm(l, g, state)
        BY ONLY <2>2, <4>1 DEF CachedEntry
      <4>4. QED
        BY ONLY <4>1, <4>2, <4>3
  <2>5. q[h][i] = QueryTerm(l, h, p, State(s, l - 1, p))
    BY <1>11, <2>1
  <2>6. y[h][i] = {<<<<QueryTerm(l, h, p, State(s, l - 1, p)),
                       KeyTerm(l, g, j, State(s, l - 1, j))>>,
                     ValueTerm(l, g, State(s, l - 1, j))>> : j \in 1 .. p}
    BY ONLY <2>3, <2>4, <2>5
  <2>7. QED
    BY ONLY <2>1, <2>6 DEF Attended
<1>27. IsAttended(e, y, c, x, l, s)
  BY <1>1, <1>18, <1>20, <1>21, <1>22, <1>25, <1>26 DEF IsAttended
<1>28. Attend(done, x, l, pq, pk, pv) = [cache |-> e, ys |-> Append(done.ys, y)]
  BY <1>1, <1>3, <1>15, <1>23 DEF Attend
<1>29. QED
  BY <1>27, <1>28

-----------------------------------------------------------------------------
(* The requests of a pass, one after the other *)

IsExtended(u, t, n, y) == IsSequence(u, n + 1) /\ u[n + 1] = y /\ \A i \in 1 .. n : u[i] = t[i]

LEMMA ExtendedFacts ==
  ASSUME NEW t, NEW n, IsSequence(t, n), NEW y
  PROVE  IsExtended(Append(t, y), t, n, y)
<1> DEFINE S == {t[i] : i \in 1 .. n} \cup {y}
<1>1. t \in Seq({t[i] : i \in 1 .. n}) /\ Len(t) = n /\ n \in Nat
  BY SequenceFacts
<1>2. \A A, B : A \subseteq B => Seq(A) \subseteq Seq(B)
  OBVIOUS
<1>3. t \in Seq(S)
  BY <1>1, <1>2
<1>4. y \in S
  OBVIOUS
<1> HIDE DEF S
<1>5. Append(t, y) \in Seq(S) /\ Len(Append(t, y)) = n + 1
  BY ONLY <1>1, <1>3, <1>4
<1>6. Append(t, y)[n + 1] = y /\ \A i \in 1 .. n : Append(t, y)[i] = t[i]
  BY ONLY <1>1, <1>3, <1>4
<1>7. IsSequence(Append(t, y), n + 1)
  BY ONLY <1>5, SequencesAreSequences
<1>8. QED
  BY <1>6, <1>7 DEF IsExtended

\* The n contexts xs of a pass over `total` rows: request r has the tokens s[r] behind the pass,
\* and from[r] of them before.
IsBatch(xs, n, off, len, total, s, from) ==
  /\ IsSequence(xs, n) /\ IsOffsets(off, len, n) /\ off[n] = total
  /\ \A r \in Requests : IsSequence(s[r], Len(s[r])) /\ from[r] \in Nat
  /\ \A i \in 1 .. n : /\ xs[i].request_id \in Requests
                        /\ xs[i].start_pos = from[xs[i].request_id]
                        /\ xs[i].q_start_index = off[i - 1] /\ xs[i].q_len = len[i]
                        /\ Len(s[xs[i].request_id]) = xs[i].start_pos + xs[i].q_len
  /\ \A i \in 1 .. n, j \in 1 .. n : xs[i].request_id = xs[j].request_id => i = j
  /\ \A r \in Requests : (\A i \in 1 .. n : xs[i].request_id # r) => Len(s[r]) = from[r]
  /\ mode.cache = "Contiguous" =>
       \A i \in 1 .. n : /\ Len(s[xs[i].request_id]) <= MaxLength
                         /\ \A q \in Requests \ {xs[i].request_id} : Len(s[q]) = 0 /\ from[q] = 0

\* In layer l, the first n requests are done.
Reached(r, z, l, xs, n) == z < l \/ (z = l /\ \E i \in 1 .. n : xs[i].request_id = r)

Progress(c, s, from, l, xs, n) ==
  /\ CacheOK(c)
  /\ \A r \in Requests, z \in Layers :
       Holds(c, r, z, s[r], IF Reached(r, z, l, xs, n) THEN Len(s[r]) ELSE from[r])

\* How many pages the requests need in a layer.
NeedsPages(xs, n, poff, need) ==
  /\ IsOffsets(poff, need, n)
  /\ \A i \in 1 .. n : PagesFor(xs[i].start_pos + xs[i].q_len) = PagesFor(xs[i].start_pos) + need[i]

LEMMA SpaceIsLeft ==
  ASSUME mode \in Modes, NEW xs, NEW n, NEW off, NEW len, NEW total, NEW s, NEW from,
         IsBatch(xs, n, off, len, total, s, from), NEW poff, NEW need,
         NeedsPages(xs, n, poff, need),
         NEW l \in Layers, NEW i \in 1 .. n, NEW c, Progress(c, s, from, l, xs, i - 1),
         mode.cache = "Paged" => Len(c.free) + poff[i - 1] >= poff[n],
         NEW x, x = xs[i]
  PROVE  /\ Holds(c, x.request_id, l, s[x.request_id], x.start_pos)
         /\ HasSpace(c, x.request_id, l, x.q_len)
<1>1. PICK r, start, m : r = x.request_id /\ start = x.start_pos /\ m = x.q_len
  OBVIOUS
<1>2. /\ r \in Requests /\ start = from[r] /\ start \in Nat /\ m = len[i] /\ m \in Nat
      /\ Len(s[r]) = start + m /\ n \in Nat /\ i \in Nat
  <2>1. /\ r \in Requests /\ start = from[r] /\ m = len[i] /\ Len(s[r]) = start + m
        /\ from[r] \in Nat /\ IsOffsets(off, len, n)
    BY <1>1 DEF IsBatch
  <2>2. n \in Nat /\ len[i] \in Nat
    BY <2>1 DEF IsOffsets
  <2>3. QED
    BY <2>1, <2>2
<1>3. ~ Reached(r, l, l, xs, i - 1)
  <2>1. ~ (l < l)
    BY AttentionAssumption DEF Layers
  <2>2. \A j \in 1 .. i - 1 : j \in 1 .. n /\ j # i
    BY <1>2
  <2>3. \A j \in 1 .. i - 1 : xs[j].request_id # r
    BY <1>1, <2>2 DEF IsBatch
  <2>4. QED
    BY <2>1, <2>3 DEF Reached
<1>4. Holds(c, r, l, s[r], start)
  BY <1>2, <1>3 DEF Progress
<1>5. Count(c, r, l) = start
  BY <1>4 DEF Holds
<1>6. CASE mode.cache = "Contiguous"
  <2>1. /\ Len(s[r]) <= MaxLength
        /\ \A q \in Requests \ {r} : Len(s[q]) = 0 /\ from[q] = 0
    BY <1>1, <1>6 DEF IsBatch
  <2>2. \A q \in Requests \ {r}, z \in Layers : Count(c, q, z) = 0
    BY <2>1 DEF Progress, Holds
  <2>3. HasSlots(c, r, l, m)
    BY <1>2, <1>5, <2>1, <2>2 DEF HasSlots
  <2>4. QED
    BY <1>1, <1>4, <1>6, <2>3 DEF HasSpace
<1>7. CASE mode.cache # "Contiguous"
  <2>1. mode.cache = "Paged"
    BY <1>7, CacheModes
  <2>2. i - 1 \in 0 .. n /\ i \in 0 .. n /\ i <= n
    BY <1>2
  <2>3. /\ poff[i] = poff[i - 1] + need[i] /\ need[i] \in Nat
        /\ poff[i] \in Nat /\ poff[i - 1] \in Nat /\ poff[n] \in Nat
    BY <1>2, <2>2 DEF NeedsPages, IsOffsets
  <2>4. poff[i] <= poff[n]
    BY <1>2, <2>2, OffsetsGrow DEF NeedsPages
  <2>5. PagesFor(start + m) = PagesFor(start) + need[i]
    BY <1>1 DEF NeedsPages
  <2>6. PagesFor(start) \in Nat /\ Len(c.free) \in Nat
    BY <1>2, PagesForIsNatural, CountsAreNatural DEF Progress
  <2>7. PagesFor(start + m) <= Len(c.free) + PagesFor(start)
    <3>1. PICK a, b, d, e, f : /\ a = poff[i - 1] /\ b = poff[i] /\ d = poff[n] /\ e = need[i]
                               /\ f = Len(c.free)
      OBVIOUS
    <3>2. PICK u, v : u = PagesFor(start) /\ v = PagesFor(start + m)
      OBVIOUS
    <3>3. f + a >= d
      BY <2>1, <3>1
    <3>4. a \in Nat /\ b \in Nat /\ d \in Nat /\ e \in Nat /\ f \in Nat /\ b = a + e /\ b <= d
      BY <2>3, <2>4, <2>6, <3>1
    <3>5. u \in Nat /\ v = u + e
      BY <2>5, <2>6, <3>1, <3>2
    <3>6. v <= f + u
      BY ONLY <3>3, <3>4, <3>5
    <3>7. QED
      BY <3>1, <3>2, <3>6
  <2>8. HasPages(c, r, l, m)
    BY <1>5, <2>7 DEF HasPages
  <2>9. QED
    BY <1>1, <1>4, <1>7, <2>8 DEF HasSpace
<1>8. QED
  BY <1>6, <1>7

IsAttending(f, c, xs, l, pq, pk, pv, n) ==
  f = [i \in 0 .. n |-> IF i = 0 THEN [cache |-> c, ys |-> <<>>]
                        ELSE Attend(f[i - 1], xs[i], l, pq, pk, pv)]

LEMMA AttendingExists ==
  ASSUME NEW c, NEW xs, NEW l, NEW pq, NEW pk, NEW pv, NEW n \in Nat
  PROVE  \E f : IsAttending(f, c, xs, l, pq, pk, pv, n)
<1> DEFINE T == {j \in 0 .. n : \E f : IsAttending(f, c, xs, l, pq, pk, pv, j)}
<1>1. 0 \in T
  <2> DEFINE f == [i \in 0 .. 0 |-> [cache |-> c, ys |-> <<>>]]
  <2>1. f = [i \in 0 .. 0 |-> IF i = 0 THEN [cache |-> c, ys |-> <<>>]
                              ELSE Attend(f[i - 1], xs[i], l, pq, pk, pv)]
    OBVIOUS
  <2>2. IsAttending(f, c, xs, l, pq, pk, pv, 0)
    BY ONLY <2>1 DEF IsAttending
  <2>3. QED
    BY <2>2
<1>2. ASSUME NEW j \in 0 .. n - 1, j \in T PROVE j + 1 \in T
  <2>1. PICK f : IsAttending(f, c, xs, l, pq, pk, pv, j)
    BY <1>2
  <2>2. j \in Nat /\ j + 1 \in 0 .. n /\ j \in 0 .. j
    OBVIOUS
  <2> DEFINE g == [i \in 0 .. j + 1 |-> IF i <= j THEN f[i]
                                        ELSE Attend(f[j], xs[j + 1], l, pq, pk, pv)]
             h == [i \in 0 .. j + 1 |-> IF i = 0 THEN [cache |-> c, ys |-> <<>>]
                                        ELSE Attend(g[i - 1], xs[i], l, pq, pk, pv)]
  <2>3. \A i \in 0 .. j : f[i] = IF i = 0 THEN [cache |-> c, ys |-> <<>>]
                                 ELSE Attend(f[i - 1], xs[i], l, pq, pk, pv)
    BY <2>1 DEF IsAttending
  <2>4. \A i \in 0 .. j : g[i] = f[i]
    BY <2>2
  <2>5. g[j + 1] = Attend(f[j], xs[j + 1], l, pq, pk, pv)
    BY <2>2
  <2>6. ASSUME NEW i \in 0 .. j + 1
        PROVE  g[i] = IF i = 0 THEN [cache |-> c, ys |-> <<>>]
                      ELSE Attend(g[i - 1], xs[i], l, pq, pk, pv)
    <3> HIDE DEF g
    <3>1. CASE i = 0
      BY <2>2, <2>3, <2>4, <3>1
    <3>2. CASE i # 0 /\ i <= j
      <4>1. i \in 0 .. j /\ i - 1 \in 0 .. j
        BY <2>2, <3>2
      <4>2. QED
        BY <2>3, <2>4, <3>2, <4>1
    <3>3. CASE i = j + 1
      <4>1. i - 1 = j /\ i # 0
        BY <2>2, <3>3
      <4>2. QED
        BY <2>2, <2>4, <2>5, <3>3, <4>1
    <3>4. QED
      BY <2>2, <3>1, <3>2, <3>3
  <2>7. g = h
    <3>1. \A i \in 0 .. j + 1 : g[i] = h[i]
      <4> HIDE DEF g
      <4>1. QED
        BY <2>6
    <3>2. QED
      BY <3>1
  <2>8. IsAttending(g, c, xs, l, pq, pk, pv, j + 1)
    <3> HIDE DEF g
    <3>1. QED
      BY <2>7 DEF IsAttending
  <2> HIDE DEF g
  <2>9. QED
    BY <2>2, <2>8
<1> HIDE DEF T
<1>3. n \in 0 .. n /\ \A j \in 0 .. n : j \in T
  BY ONLY <1>1, <1>2, InductionTo
<1>4. QED
  BY <1>3 DEF T

\* What head h of the rows of request x gives.
IsAttendedRows(y, x, l, s) ==
  /\ IsTensor(y, QueryHeadCount, x.q_len)
  /\ \A h \in 1 .. QueryHeadCount, i \in 1 .. x.q_len : y[h][i] = Attended(s, l, h, x.start_pos + i)

\* One request further.
LEMMA OneRequestFurther ==
  ASSUME NEW xs, NEW n, NEW off, NEW len, NEW total, NEW s, NEW from,
         IsBatch(xs, n, off, len, total, s, from),
         NEW l \in Layers, NEW i \in 1 .. n, NEW c, Progress(c, s, from, l, xs, i - 1),
         NEW x, x = xs[i], NEW e, NEW y, IsAttended(e, y, c, x, l, s[x.request_id])
  PROVE  Progress(e, s, from, l, xs, i)
<1>1. PICK r : r = x.request_id
  OBVIOUS
<1>2. CacheOK(e)
  BY DEF IsAttended
<1>3. i \in Nat
  BY DEF IsBatch, IsOffsets
<1>4. ASSUME NEW q \in Requests, NEW z \in Layers
      PROVE  Holds(e, q, z, s[q], IF Reached(q, z, l, xs, i) THEN Len(s[q]) ELSE from[q])
  <2>1. CASE q = r /\ z = l
    <3>1. i \in 1 .. i
      BY <1>3
    <3>2. Reached(q, z, l, xs, i)
      BY <1>1, <2>1, <3>1 DEF Reached
    <3>3. Len(s[r]) = x.start_pos + x.q_len
      BY <1>1 DEF IsBatch
    <3>4. Holds(e, r, l, s[r], x.start_pos + x.q_len)
      BY <1>1 DEF IsAttended
    <3>5. QED
      BY <2>1, <3>2, <3>3, <3>4
  <2>2. CASE q # r \/ z # l
    <3>1. Reached(q, z, l, xs, i) <=> Reached(q, z, l, xs, i - 1)
      <4>1. \A j \in 1 .. i : j \in 1 .. i - 1 \/ j = i
        BY <1>3
      <4>2. \A j \in 1 .. i - 1 : j \in 1 .. i
        BY <1>3
      <4>3. z = l => xs[i].request_id # q
        BY <1>1, <2>2
      <4>4. QED
        BY <4>1, <4>2, <4>3 DEF Reached
    <3>2. PICK m : m = IF Reached(q, z, l, xs, i) THEN Len(s[q]) ELSE from[q]
      OBVIOUS
    <3>3. Holds(c, q, z, s[q], m)
      BY <3>1, <3>2 DEF Progress
    <3>4. Holds(e, q, z, s[q], m)
      BY <1>1, <2>2, <3>3 DEF IsAttended
    <3>5. QED
      BY <3>2, <3>4
  <2>3. QED
    BY <2>1, <2>2
<1>5. QED
  BY <1>2, <1>4 DEF Progress

\* The cache and the attention of the first i requests.
AreAttended(done, i, c, s, from, l, xs, poff) ==
  /\ Progress(done.cache, s, from, l, xs, i)
  /\ mode.cache = "Paged" => Len(done.cache.free) + poff[i] = Len(c.free)
  /\ IsSequence(done.ys, i)
  /\ \A j \in 1 .. i : IsAttendedRows(done.ys[j], xs[j], l, s[xs[j].request_id])

LEMMA NextIsAttended ==
  ASSUME mode \in Modes, NEW xs, NEW n, NEW off, NEW len, NEW total, NEW s, NEW from,
         IsBatch(xs, n, off, len, total, s, from), NEW poff, NEW need,
         NeedsPages(xs, n, poff, need),
         NEW l \in Layers, NEW i \in 1 .. n, NEW c, mode.cache = "Paged" => Len(c.free) >= poff[n],
         NEW rows, IsSequence(rows, total),
         \A j \in 1 .. n : AreStates(rows, xs[j], s[xs[j].request_id], l - 1),
         NEW done, AreAttended(done, i - 1, c, s, from, l, xs, poff), NEW pq, NEW pk, NEW pv,
         pq = ProjectHeads("query", l, QueryHeadCount, rows),
         pk = ProjectHeads("key", l, KeyValueHeadCount, rows),
         pv = ProjectHeads("value", l, KeyValueHeadCount, rows)
  PROVE  AreAttended(Attend(done, xs[i], l, pq, pk, pv), i, c, s, from, l, xs, poff)
<1>1. PICK x, b, t : x = xs[i] /\ b = done.cache /\ t = s[x.request_id]
  OBVIOUS
<1>2. Progress(b, s, from, l, xs, i - 1) /\ CacheOK(b)
  BY <1>1 DEF AreAttended, Progress
<1>3. n \in Nat /\ i \in Nat /\ i - 1 \in 0 .. n /\ i \in 0 .. n /\ i - 1 \in Nat
  BY DEF IsBatch, IsOffsets
<1>4. mode.cache = "Paged" => Len(b.free) + poff[i - 1] = Len(c.free)
  BY <1>1 DEF AreAttended
<1>5. mode.cache = "Paged" => Len(b.free) + poff[i - 1] >= poff[n]
  BY <1>4
<1>6. /\ Holds(b, x.request_id, l, t, x.start_pos)
      /\ HasSpace(b, x.request_id, l, x.q_len)
  BY <1>1, <1>2, <1>5, SpaceIsLeft
<1>7. IsPlaced(x, total) /\ x.start_pos \in Nat /\ x.q_len \in Nat /\ x.request_id \in Requests
  <2>1. /\ x.request_id \in Requests /\ x.start_pos = from[x.request_id]
        /\ x.q_start_index = off[i - 1] /\ x.q_len = len[i] /\ off[n] = total
        /\ IsOffsets(off, len, n)
    BY <1>1 DEF IsBatch
  <2>2. from[x.request_id] \in Nat
    BY <2>1 DEF IsBatch
  <2>3. off[i - 1] \in Nat /\ len[i] \in Nat /\ off[i] = off[i - 1] + len[i]
    BY <1>3, <2>1 DEF IsOffsets
  <2>4. off[i] <= off[n]
    BY <1>3, <2>1, OffsetsGrow
  <2>5. QED
    BY <2>1, <2>2, <2>3, <2>4 DEF IsPlaced
<1>8. AreStates(rows, x, t, l - 1)
  BY <1>1
<1>9. PICK e, y : /\ Attend(done, x, l, pq, pk, pv) = [cache |-> e, ys |-> Append(done.ys, y)]
                  /\ IsAttended(e, y, b, x, l, t)
  <2>1. /\ mode \in Modes /\ CacheOK(b) /\ IsSequence(rows, total) /\ IsPlaced(x, total)
        /\ l \in Layers /\ AreStates(rows, x, t, l - 1) /\ done.cache = b
        /\ Holds(b, x.request_id, l, t, x.start_pos) /\ HasSpace(b, x.request_id, l, x.q_len)
    BY <1>1, <1>2, <1>6, <1>7, <1>8
  <2>2. /\ pq = ProjectHeads("query", l, QueryHeadCount, rows)
        /\ pk = ProjectHeads("key", l, KeyValueHeadCount, rows)
        /\ pv = ProjectHeads("value", l, KeyValueHeadCount, rows)
    OBVIOUS
  <2>3. QED
    BY ONLY <2>1, <2>2, AttendFacts
<1>10. Progress(e, s, from, l, xs, i)
  BY <1>1, <1>2, <1>9, OneRequestFurther
<1>11. ASSUME mode.cache = "Paged" PROVE Len(e.free) + poff[i] = Len(c.free)
  <2>1. Len(e.free) + PagesFor(x.start_pos + x.q_len) = Len(b.free) + PagesFor(x.start_pos)
    BY <1>9, <1>11 DEF IsAttended
  <2>2. PagesFor(x.start_pos + x.q_len) = PagesFor(x.start_pos) + need[i]
    BY <1>1 DEF NeedsPages
  <2>3. /\ poff[i] = poff[i - 1] + need[i] /\ need[i] \in Nat /\ poff[i - 1] \in Nat
    BY <1>3 DEF NeedsPages, IsOffsets
  <2>4. PagesFor(x.start_pos) \in Nat
    BY <1>7, PagesForIsNatural
  <2>5. CacheOK(e)
    BY <1>10 DEF Progress
  <2>6. Len(b.free) \in Nat /\ Len(e.free) \in Nat
    BY <1>2, <1>7, <2>5, CountsAreNatural
  <2>7. QED
    <3>1. PICK A, B, C, u, v, w, p, q :
            /\ A = Len(e.free) /\ B = Len(b.free) /\ C = Len(c.free)
            /\ u = PagesFor(x.start_pos) /\ v = PagesFor(x.start_pos + x.q_len) /\ w = need[i]
            /\ p = poff[i - 1] /\ q = poff[i]
      OBVIOUS
    <3>2. A \in Nat /\ B \in Nat /\ u \in Nat /\ w \in Nat /\ p \in Nat
      BY ONLY <3>1, <2>3, <2>4, <2>6
    <3>3. A + v = B + u /\ v = u + w /\ q = p + w /\ B + p = C
      BY ONLY <3>1, <2>1, <2>2, <2>3, <1>4, <1>11
    <3>4. A + q = C
      BY ONLY <3>2, <3>3
    <3>5. QED
      BY ONLY <3>1, <3>4
<1>12. IsSequence(done.ys, i - 1)
       /\ \A j \in 1 .. i - 1 : IsAttendedRows(done.ys[j], xs[j], l, s[xs[j].request_id])
  BY DEF AreAttended
<1>13. PICK ys : ys = Append(done.ys, y)
  OBVIOUS
<1>14. IsExtended(ys, done.ys, i - 1, y)
  BY <1>12, <1>13, ExtendedFacts
<1>15. i - 1 + 1 = i
  BY <1>3
<1>16. IsSequence(ys, i) /\ ys[i] = y /\ \A j \in 1 .. i - 1 : ys[j] = done.ys[j]
  BY <1>14, <1>15 DEF IsExtended
<1>17. IsAttendedRows(y, x, l, t)
  BY <1>9 DEF IsAttended, IsAttendedRows
<1>18. ASSUME NEW j \in 1 .. i PROVE IsAttendedRows(ys[j], xs[j], l, s[xs[j].request_id])
  <2>1. CASE j = i
    BY <1>1, <1>16, <1>17, <2>1
  <2>2. CASE j # i
    <3>1. j \in 1 .. i - 1
      BY <1>3, <2>2
    <3>2. QED
      BY <1>12, <1>16, <3>1
  <2>3. QED
    BY <2>1, <2>2
<1>19. PICK z : z = Attend(done, x, l, pq, pk, pv)
  OBVIOUS
<1>20. z.cache = e /\ z.ys = ys
  BY <1>9, <1>13, <1>19
<1>21. AreAttended(z, i, c, s, from, l, xs, poff)
  BY <1>10, <1>11, <1>16, <1>18, <1>20 DEF AreAttended
<1>22. QED
  BY <1>1, <1>19, <1>21

LEMMA ForwardAttentionFacts ==
  ASSUME mode \in Modes, NEW xs, NEW n, NEW off, NEW len, NEW total, NEW s, NEW from,
         IsBatch(xs, n, off, len, total, s, from), NEW poff, NEW need,
         NeedsPages(xs, n, poff, need),
         NEW l \in Layers, NEW c, Progress(c, s, from, l, xs, 0),
         mode.cache = "Paged" => Len(c.free) >= poff[n], NEW rows, IsSequence(rows, total),
         \A j \in 1 .. n : AreStates(rows, xs[j], s[xs[j].request_id], l - 1),
         NEW pq, NEW pk, NEW pv,
         pq = ProjectHeads("query", l, QueryHeadCount, rows),
         pk = ProjectHeads("key", l, KeyValueHeadCount, rows),
         pv = ProjectHeads("value", l, KeyValueHeadCount, rows)
  PROVE  AreAttended(ForwardAttention(c, xs, l, pq, pk, pv), n, c, s, from, l, xs, poff)
<1>1. n \in Nat /\ IsSequence(xs, n)
  BY DEF IsBatch, IsOffsets
<1>2. Len(xs) = n
  BY <1>1, SequenceFacts
<1>3. PICK f : f = CHOOSE g : IsAttending(g, c, xs, l, pq, pk, pv, n)
  OBVIOUS
<1>4. IsAttending(f, c, xs, l, pq, pk, pv, n)
  BY <1>1, <1>3, AttendingExists
<1>5. ForwardAttention(c, xs, l, pq, pk, pv) = f[n]
  BY <1>2, <1>3 DEF ForwardAttention, IsAttending
<1>6. /\ f[0] = [cache |-> c, ys |-> <<>>]
      /\ \A i \in 1 .. n : f[i] = Attend(f[i - 1], xs[i], l, pq, pk, pv)
  BY <1>1, <1>4 DEF IsAttending
<1> DEFINE T == {i \in 0 .. n : AreAttended(f[i], i, c, s, from, l, xs, poff)}
<1>7. 0 \in T
  <2>1. f[0].cache = c /\ f[0].ys = <<>>
    BY <1>6
  <2>2. IsSequence(<<>>, 0)
    BY DEF IsSequence
  <2>3. CacheOK(c) /\ c.free \in Seq(1 .. PageCount)
    BY DEF Progress, CacheOK, CacheTypeOK
  <2>4. poff[0] = 0 /\ Len(c.free) \in Nat
    BY <2>3 DEF NeedsPages, IsOffsets
  <2>5. AreAttended(f[0], 0, c, s, from, l, xs, poff)
    BY <2>1, <2>2, <2>4 DEF AreAttended
  <2>6. QED
    BY <1>1, <2>5
<1>8. ASSUME NEW i \in 0 .. n - 1, i \in T PROVE i + 1 \in T
  <2>1. PICK k, done : k = i + 1 /\ done = f[i]
    OBVIOUS
  <2>2. k \in 1 .. n /\ k - 1 = i /\ k \in 0 .. n
    BY <1>1, <2>1
  <2>3. AreAttended(done, k - 1, c, s, from, l, xs, poff)
    BY <1>8, <2>1, <2>2
  <2>4. AreAttended(Attend(done, xs[k], l, pq, pk, pv), k, c, s, from, l, xs, poff)
    BY <2>2, <2>3, NextIsAttended
  <2>5. f[k] = Attend(done, xs[k], l, pq, pk, pv)
    BY <1>6, <2>1, <2>2
  <2>6. QED
    BY <2>1, <2>2, <2>4, <2>5
<1> HIDE DEF T
<1>9. \A i \in 0 .. n : i \in T
  BY ONLY <1>1, <1>7, <1>8, InductionTo
<1>10. AreAttended(f[n], n, c, s, from, l, xs, poff)
  BY <1>1, <1>9 DEF T
<1>11. QED
  BY <1>5, <1>10

-----------------------------------------------------------------------------
(* A block, and the layers *)

IsPacked(t, ys, off, len, n, total) ==
  /\ IsTensor(t, QueryHeadCount, total)
  /\ \A h \in 1 .. QueryHeadCount, j \in 1 .. n : \A i \in 1 .. len[j] :
       t[h][off[j - 1] + i] = ys[j][h][i]

LEMMA PackedOutputFacts ==
  ASSUME NEW ys, NEW off, NEW len, NEW n, IsSequence(ys, n), IsOffsets(off, len, n), NEW total,
         total = off[n], \A j \in 1 .. n : IsTensor(ys[j], QueryHeadCount, len[j])
  PROVE  IsPacked(Contiguous(PackedOutput(ys)), ys, off, len, n, total)
<1>1. PICK t : t = PackedOutput(ys)
  OBVIOUS
<1>2. DOMAIN ys = 1 .. n /\ n \in Nat /\ total \in Nat /\ QueryHeadCount \in Nat
  BY AttentionAssumption DEF IsSequence, IsOffsets
<1>3. t = [h \in 1 .. QueryHeadCount |-> FlattenSeq([j \in 1 .. n |-> ys[j][h]])]
  BY <1>1, <1>2 DEF PackedOutput
<1>4. ASSUME NEW h \in 1 .. QueryHeadCount
      PROVE  /\ IsSequence(t[h], total)
             /\ \A j \in 1 .. n : \A i \in 1 .. len[j] : t[h][off[j - 1] + i] = ys[j][h][i]
  <2>1. PICK u : u = [j \in 1 .. n |-> ys[j][h]]
    OBVIOUS
  <2>2. IsSequence(u, n) /\ \A j \in 1 .. n : u[j] = ys[j][h]
    BY <1>2, <2>1 DEF IsSequence
  <2>3. \A j \in 1 .. n : IsSequence(u[j], len[j])
    BY <2>2 DEF IsTensor
  <2>4. IsFlat(FlattenSeq(u), u, off, len, n)
    BY <2>2, <2>3, FlattenFacts
  <2>5. t[h] = FlattenSeq(u)
    BY <1>3, <2>1
  <2>6. QED
    BY <2>2, <2>4, <2>5 DEF IsFlat
<1>5. IsSequence(t, QueryHeadCount)
  BY <1>2, <1>3 DEF IsSequence
<1>6. Contiguous(t) = t
  BY <1>5, ContiguousIsSame
<1>7. IsPacked(t, ys, off, len, n, total)
  BY <1>2, <1>4, <1>5 DEF IsPacked, IsTensor
<1>8. QED
  BY <1>1, <1>6, <1>7

\* The rows are the states of the requests' tokens.
AreRows(rows, total, xs, n, s, l) ==
  IsSequence(rows, total) /\ \A j \in 1 .. n : AreStates(rows, xs[j], s[xs[j].request_id], l)

LEMMA ForwardBlockFacts ==
  ASSUME mode \in Modes, NEW xs, NEW n, NEW off, NEW len, NEW total, NEW s, NEW from,
         IsBatch(xs, n, off, len, total, s, from), NEW poff, NEW need,
         NeedsPages(xs, n, poff, need),
         NEW l \in Layers, NEW c, Progress(c, s, from, l, xs, 0),
         mode.cache = "Paged" => Len(c.free) >= poff[n], NEW rows,
         AreRows(rows, total, xs, n, s, l - 1)
  PROVE  LET result == ForwardBlock(c, rows, xs, l)
         IN  /\ Progress(result.cache, s, from, l, xs, n)
             /\ mode.cache = "Paged" => Len(result.cache.free) + poff[n] = Len(c.free)
             /\ AreRows(result.rows, total, xs, n, s, l)
<1>1. PICK pq, pk, pv : /\ pq = ProjectHeads("query", l, QueryHeadCount, rows)
                        /\ pk = ProjectHeads("key", l, KeyValueHeadCount, rows)
                        /\ pv = ProjectHeads("value", l, KeyValueHeadCount, rows)
  OBVIOUS
<1>2. PICK done, t : done = ForwardAttention(c, xs, l, pq, pk, pv)
                     /\ t = Contiguous(PackedOutput(done.ys))
  OBVIOUS
<1>3. /\ IsSequence(rows, total)
      /\ \A j \in 1 .. n : AreStates(rows, xs[j], s[xs[j].request_id], l - 1)
  BY DEF AreRows
<1>4. AreAttended(done, n, c, s, from, l, xs, poff)
  BY <1>1, <1>2, <1>3, ForwardAttentionFacts
<1>5. /\ Progress(done.cache, s, from, l, xs, n)
      /\ mode.cache = "Paged" => Len(done.cache.free) + poff[n] = Len(c.free)
      /\ IsSequence(done.ys, n)
      /\ \A j \in 1 .. n : IsAttendedRows(done.ys[j], xs[j], l, s[xs[j].request_id])
  BY <1>4 DEF AreAttended
<1>6. /\ IsOffsets(off, len, n) /\ off[n] = total
      /\ \A j \in 1 .. n : xs[j].q_len = len[j] /\ xs[j].q_start_index = off[j - 1]
  BY DEF IsBatch
<1>7. \A j \in 1 .. n : IsTensor(done.ys[j], QueryHeadCount, len[j])
  BY <1>5, <1>6 DEF IsAttendedRows
<1>8. IsPacked(t, done.ys, off, len, n, total)
  BY <1>2, <1>5, <1>6, <1>7, PackedOutputFacts
<1> DEFINE Heads(i) == [h \in 1 .. QueryHeadCount |-> t[h][i]]
           u == [i \in DOMAIN rows |-> Hidden(rows[i], Heads(i))]
<1>9. ForwardBlock(c, rows, xs, l) = [cache |-> done.cache, rows |-> Contiguous(u)]
  BY <1>1, <1>2 DEF ForwardBlock
<1>10. DOMAIN rows = 1 .. total /\ total \in Nat /\ QueryHeadCount \in Nat
  BY <1>3, AttentionAssumption DEF IsSequence
<1>11. IsSequence(u, total) /\ \A i \in 1 .. total : u[i] = Hidden(rows[i], Heads(i))
  <2> HIDE DEF Heads
  <2>1. QED
    BY <1>10 DEF IsSequence
<1> HIDE DEF u
<1>12. Contiguous(u) = u
  BY <1>11, ContiguousIsSame
<1>13. ASSUME NEW j \in 1 .. n PROVE AreStates(u, xs[j], s[xs[j].request_id], l)
  <2>1. PICK x, r : x = xs[j] /\ r = x.request_id
    OBVIOUS
  <2>2. /\ r \in Requests /\ x.start_pos = from[r] /\ from[r] \in Nat
        /\ IsSequence(s[r], Len(s[r])) /\ Len(s[r]) = x.start_pos + x.q_len
        /\ x.q_start_index = off[j - 1] /\ x.q_len = len[j]
    BY <2>1 DEF IsBatch
  <2>3. AreStates(rows, x, s[r], l - 1) /\ IsAttendedRows(done.ys[j], x, l, s[r])
    BY <1>3, <1>5, <2>1
  <2>4. ASSUME NEW i \in 1 .. x.q_len
        PROVE  u[x.q_start_index + i] = State(s[r], l, x.start_pos + i)
    <3>1. PICK a, p : a = off[j - 1] + i /\ p = x.start_pos + i
      OBVIOUS
    <3>2. len[j] \in Nat /\ off[j - 1] \in Nat /\ off[j] = off[j - 1] + len[j] /\ n \in Nat
          /\ off[j] <= off[n] /\ off[j] \in Nat
      <4>1. n \in Nat /\ j - 1 \in 0 .. n /\ j \in 0 .. n /\ n \in 0 .. n /\ j \in 0 .. n
        BY <1>6 DEF IsOffsets
      <4>2. off[j] <= off[n]
        BY <1>6, <4>1, OffsetsGrow
      <4>3. QED
        BY <1>6, <4>1, <4>2 DEF IsOffsets
    <3>3. a \in 1 .. total /\ p \in 1 .. Len(s[r]) /\ i \in 1 .. len[j]
      <4>1. PICK A, B, C, D, st, L : /\ A = off[j - 1] /\ B = len[j] /\ C = off[j] /\ D = off[n]
                                     /\ st = x.start_pos /\ L = Len(s[r])
        OBVIOUS
      <4>2. /\ A \in Nat /\ B \in Nat /\ C = A + B /\ C <= D /\ D = total /\ st \in Nat
            /\ L = st + B /\ i \in 1 .. B /\ a = A + i /\ p = st + i
        BY <1>6, <2>2, <3>1, <3>2, <4>1
      <4>3. a \in 1 .. total /\ p \in 1 .. L
        BY ONLY <1>10, <4>2
      <4>4. QED
        BY ONLY <4>1, <4>2, <4>3
    <3>4. rows[a] = State(s[r], l - 1, p)
      BY <2>2, <2>3, <3>1 DEF AreStates
    <3>5. \A h \in 1 .. QueryHeadCount : t[h][a] = Attended(s[r], l, h, p)
      <4>1. \A h \in 1 .. QueryHeadCount : t[h][a] = done.ys[j][h][i]
        BY <1>8, <3>1, <3>3 DEF IsPacked
      <4>2. \A h \in 1 .. QueryHeadCount : done.ys[j][h][i] = Attended(s[r], l, h, p)
        BY <2>3, <3>1 DEF IsAttendedRows
      <4>3. QED
        BY <4>1, <4>2
    <3>6. PICK heads : heads = Heads(a)
      OBVIOUS
    <3>7. IsSequence(heads, QueryHeadCount)
          /\ \A h \in 1 .. QueryHeadCount : heads[h] = Attended(s[r], l, h, p)
      BY <1>10, <3>5, <3>6 DEF IsSequence
    <3> HIDE DEF Heads
    <3>8. Hidden(rows[a], heads) = State(s[r], l, p)
      BY <2>2, <3>3, <3>4, <3>7, HiddenFacts
    <3>9. u[a] = Hidden(rows[a], heads)
      BY <1>11, <3>3, <3>6
    <3>10. QED
      BY <2>2, <3>1, <3>8, <3>9
  <2>5. QED
    BY <2>1, <2>4 DEF AreStates
<1>14. AreRows(u, total, xs, n, s, l)
  BY <1>11, <1>13 DEF AreRows
<1>15. PICK result : result = ForwardBlock(c, rows, xs, l)
  OBVIOUS
<1>16. result.cache = done.cache /\ result.rows = u
  BY <1>9, <1>12, <1>15
<1>17. QED
  BY <1>5, <1>14, <1>15, <1>16

IsLayering(f, c, rows, xs, n) ==
  f = [i \in 0 .. n |-> IF i = 0 THEN [cache |-> c, rows |-> rows]
                        ELSE ForwardBlock(f[i - 1].cache, f[i - 1].rows, xs, i)]

LEMMA LayeringExists ==
  ASSUME NEW c, NEW rows, NEW xs, NEW n \in Nat
  PROVE  \E f : IsLayering(f, c, rows, xs, n)
<1> DEFINE T == {j \in 0 .. n : \E f : IsLayering(f, c, rows, xs, j)}
<1>1. 0 \in T
  <2> DEFINE f == [i \in 0 .. 0 |-> [cache |-> c, rows |-> rows]]
  <2>1. f = [i \in 0 .. 0 |-> IF i = 0 THEN [cache |-> c, rows |-> rows]
                              ELSE ForwardBlock(f[i - 1].cache, f[i - 1].rows, xs, i)]
    OBVIOUS
  <2>2. IsLayering(f, c, rows, xs, 0)
    BY ONLY <2>1 DEF IsLayering
  <2>3. QED
    BY <2>2
<1>2. ASSUME NEW j \in 0 .. n - 1, j \in T PROVE j + 1 \in T
  <2>1. PICK f : IsLayering(f, c, rows, xs, j)
    BY <1>2
  <2>2. j \in Nat /\ j + 1 \in 0 .. n /\ j \in 0 .. j
    OBVIOUS
  <2> DEFINE g == [i \in 0 .. j + 1 |-> IF i <= j THEN f[i]
                                        ELSE ForwardBlock(f[j].cache, f[j].rows, xs, j + 1)]
             h == [i \in 0 .. j + 1 |-> IF i = 0 THEN [cache |-> c, rows |-> rows]
                                        ELSE ForwardBlock(g[i - 1].cache, g[i - 1].rows, xs, i)]
  <2>3. \A i \in 0 .. j : f[i] = IF i = 0 THEN [cache |-> c, rows |-> rows]
                                 ELSE ForwardBlock(f[i - 1].cache, f[i - 1].rows, xs, i)
    BY <2>1 DEF IsLayering
  <2>4. \A i \in 0 .. j : g[i] = f[i]
    BY <2>2
  <2>5. g[j + 1] = ForwardBlock(f[j].cache, f[j].rows, xs, j + 1)
    BY <2>2
  <2>6. ASSUME NEW i \in 0 .. j + 1
        PROVE  g[i] = IF i = 0 THEN [cache |-> c, rows |-> rows]
                      ELSE ForwardBlock(g[i - 1].cache, g[i - 1].rows, xs, i)
    <3> HIDE DEF g
    <3>1. CASE i = 0
      BY <2>2, <2>3, <2>4, <3>1
    <3>2. CASE i # 0 /\ i <= j
      <4>1. i \in 0 .. j /\ i - 1 \in 0 .. j
        BY <2>2, <3>2
      <4>2. QED
        BY <2>3, <2>4, <3>2, <4>1
    <3>3. CASE i = j + 1
      <4>1. i - 1 = j /\ i # 0
        BY <2>2, <3>3
      <4>2. QED
        BY <2>2, <2>4, <2>5, <3>3, <4>1
    <3>4. QED
      BY <2>2, <3>1, <3>2, <3>3
  <2>7. g = h
    <3>1. \A i \in 0 .. j + 1 : g[i] = h[i]
      <4> HIDE DEF g
      <4>1. QED
        BY <2>6
    <3>2. QED
      BY <3>1
  <2>8. IsLayering(g, c, rows, xs, j + 1)
    <3> HIDE DEF g
    <3>1. QED
      BY <2>7 DEF IsLayering
  <2> HIDE DEF g
  <2>9. QED
    BY <2>2, <2>8
<1> HIDE DEF T
<1>3. n \in 0 .. n /\ \A j \in 0 .. n : j \in T
  BY ONLY <1>1, <1>2, InductionTo
<1>4. QED
  BY <1>3 DEF T

\* A layer that every request has passed is behind the next one.
LEMMA NextLayer ==
  ASSUME NEW xs, NEW n, NEW off, NEW len, NEW total, NEW s, NEW from,
         IsBatch(xs, n, off, len, total, s, from), NEW l \in Nat, NEW c, NEW k, k = l + 1,
         Progress(c, s, from, l, xs, n)
  PROVE  Progress(c, s, from, k, xs, 0)
<1>1. CacheOK(c)
  BY DEF Progress
<1>2. ASSUME NEW r \in Requests, NEW z \in Layers
      PROVE  Holds(c, r, z, s[r], IF Reached(r, z, k, xs, 0) THEN Len(s[r]) ELSE from[r])
  <2>1. Holds(c, r, z, s[r], IF Reached(r, z, l, xs, n) THEN Len(s[r]) ELSE from[r])
    BY DEF Progress
  <2>2. z \in Nat /\ (z < k <=> z < l \/ z = l)
    BY AttentionAssumption DEF Layers
  <2>3. Reached(r, z, k, xs, 0) <=> z < l \/ z = l
    BY <2>2 DEF Reached
  <2>4. CASE z = l /\ \A i \in 1 .. n : xs[i].request_id # r
    <3>1. Len(s[r]) = from[r]
      BY <2>4 DEF IsBatch
    <3>2. QED
      BY <2>1, <3>1
  <2>5. CASE ~ (z = l /\ \A i \in 1 .. n : xs[i].request_id # r)
    <3>1. Reached(r, z, l, xs, n) <=> z < l \/ z = l
      BY <2>5 DEF Reached
    <3>2. QED
      BY <2>1, <2>3, <3>1
  <2>6. QED
    BY <2>4, <2>5
<1>3. QED
  BY <1>1, <1>2 DEF Progress

\* The cache and the rows behind layer l.
IsLayered(done, l, c, s, from, xs, n, total, pages) ==
  /\ Progress(done.cache, s, from, l + 1, xs, 0)
  /\ AreRows(done.rows, total, xs, n, s, l)
  /\ mode.cache = "Paged" => Len(done.cache.free) + l * pages = Len(c.free)

LEMMA PagesPerLayer ==
  ASSUME NEW pages \in Nat, NEW l \in Layers, NEW a \in Nat, NEW f \in Nat,
         LayerCount * pages <= f, a + (l - 1) * pages = f
  PROVE  a >= pages /\ \A b \in Nat : b + pages = a => b + l * pages = f
<1>1. l \in Nat /\ LayerCount \in Nat /\ l <= LayerCount /\ l \in Nat \ {0} /\ l - 1 \in Nat
  BY AttentionAssumption DEF Layers
<1>2. \A x, y \in Int : x * y = (x - 1) * y + y
  OBVIOUS
<1>3. PICK p, q, r : p = (l - 1) * pages /\ q = l * pages /\ r = LayerCount * pages
  OBVIOUS
<1>4. q = p + pages /\ p \in Nat /\ q \in Nat /\ r \in Nat
  BY <1>1, <1>2, <1>3
<1>5. q <= r
  BY <1>1, <1>3, ProductGrows
<1>6. a + p = f /\ r <= f
  BY <1>3
<1>7. a >= pages /\ \A b \in Nat : b + pages = a => b + q = f
  BY ONLY <1>4, <1>5, <1>6, pages \in Nat, a \in Nat, f \in Nat
<1>8. QED
  BY <1>3, <1>7

LEMMA ForwardLayersFacts ==
  ASSUME mode \in Modes, NEW xs, NEW n, NEW off, NEW len, NEW total, NEW s, NEW from,
         IsBatch(xs, n, off, len, total, s, from), NEW poff, NEW need,
         NeedsPages(xs, n, poff, need),
         NEW c, Progress(c, s, from, 1, xs, 0),
         mode.cache = "Paged" => LayerCount * poff[n] <= Len(c.free),
         NEW rows, AreRows(rows, total, xs, n, s, 0)
  PROVE  IsLayered(ForwardLayers(c, rows, xs), LayerCount, c, s, from, xs, n, total, poff[n])
<1>1. LayerCount \in Nat /\ n \in Nat /\ CacheOK(c) /\ c.free \in Seq(1 .. PageCount)
  BY AttentionAssumption DEF IsBatch, IsOffsets, Progress, CacheOK, CacheTypeOK
<1>2. PICK pages : pages = poff[n]
  OBVIOUS
<1>3. pages \in Nat /\ Len(c.free) \in Nat
  BY <1>1, <1>2 DEF NeedsPages, IsOffsets
<1>4. PICK f : f = CHOOSE g : IsLayering(g, c, rows, xs, LayerCount)
  OBVIOUS
<1>5. IsLayering(f, c, rows, xs, LayerCount)
  BY <1>1, <1>4, LayeringExists
<1>6. ForwardLayers(c, rows, xs) = f[LayerCount]
  BY <1>4 DEF ForwardLayers, IsLayering
<1>7. /\ f[0] = [cache |-> c, rows |-> rows]
      /\ \A l \in 1 .. LayerCount : f[l] = ForwardBlock(f[l - 1].cache, f[l - 1].rows, xs, l)
  BY <1>1, <1>5 DEF IsLayering
<1> DEFINE T == {l \in 0 .. LayerCount : IsLayered(f[l], l, c, s, from, xs, n, total, pages)}
<1>8. 0 \in T
  <2>1. f[0].cache = c /\ f[0].rows = rows
    BY <1>7
  <2>2. 0 * pages = 0 /\ Len(c.free) + 0 = Len(c.free) /\ 0 + 1 = 1
    BY <1>3
  <2>3. IsLayered(f[0], 0, c, s, from, xs, n, total, pages)
    BY <2>1, <2>2 DEF IsLayered
  <2>4. QED
    BY <1>1, <2>3
<1>9. ASSUME NEW i \in 0 .. LayerCount - 1, i \in T PROVE i + 1 \in T
  <2>1. PICK l, done, d, e : /\ l = i + 1 /\ done = f[i] /\ d = done.cache
                             /\ e = ForwardBlock(d, done.rows, xs, l)
    OBVIOUS
  <2>2. l \in Layers /\ l - 1 = i /\ l \in 1 .. LayerCount /\ l \in 0 .. LayerCount /\ l \in Nat
    BY <1>1, <2>1 DEF Layers
  <2>3. /\ Progress(d, s, from, l, xs, 0) /\ AreRows(done.rows, total, xs, n, s, l - 1)
        /\ mode.cache = "Paged" => Len(d.free) + (l - 1) * pages = Len(c.free)
    BY <1>9, <2>1, <2>2 DEF IsLayered
  <2>4. Len(d.free) \in Nat
    <3>1. d.free \in Seq(1 .. PageCount)
      BY <2>3 DEF Progress, CacheOK, CacheTypeOK
    <3>2. QED
      BY <3>1
  <2>5. mode.cache = "Paged" => Len(d.free) >= poff[n]
    BY <1>2, <1>3, <2>2, <2>3, <2>4, PagesPerLayer
  <2>6. /\ Progress(e.cache, s, from, l, xs, n)
        /\ mode.cache = "Paged" => Len(e.cache.free) + poff[n] = Len(d.free)
        /\ AreRows(e.rows, total, xs, n, s, l)
    BY <2>1, <2>2, <2>3, <2>5, ForwardBlockFacts
  <2>7. Progress(e.cache, s, from, l + 1, xs, 0)
    BY <2>2, <2>6, NextLayer
  <2>8. Len(e.cache.free) \in Nat
    <3>1. e.cache.free \in Seq(1 .. PageCount)
      BY <2>6 DEF Progress, CacheOK, CacheTypeOK
    <3>2. QED
      BY <3>1
  <2>9. mode.cache = "Paged" => Len(e.cache.free) + l * pages = Len(c.free)
    <3>1. SUFFICES ASSUME mode.cache = "Paged" PROVE Len(e.cache.free) + l * pages = Len(c.free)
      OBVIOUS
    <3>2. PICK a, b, g : a = Len(d.free) /\ b = Len(e.cache.free) /\ g = Len(c.free)
      OBVIOUS
    <3>3. a \in Nat /\ b \in Nat /\ g \in Nat /\ a + (l - 1) * pages = g /\ b + pages = a
          /\ LayerCount * pages <= g
      BY <1>2, <1>3, <2>3, <2>4, <2>6, <2>8, <3>1, <3>2
    <3>4. b + l * pages = g
      BY ONLY <1>3, <2>2, <3>3, PagesPerLayer
    <3>5. QED
      BY <3>2, <3>4
  <2>10. f[l] = e
    BY <1>7, <2>1, <2>2
  <2>11. IsLayered(f[l], l, c, s, from, xs, n, total, pages)
    BY <2>6, <2>7, <2>9, <2>10 DEF IsLayered
  <2>12. QED
    BY <2>1, <2>2, <2>11
<1> HIDE DEF T
<1>10. \A l \in 0 .. LayerCount : l \in T
  BY ONLY <1>1, <1>8, <1>9, InductionTo
<1>11. IsLayered(f[LayerCount], LayerCount, c, s, from, xs, n, total, pages)
  BY <1>1, <1>10 DEF T
<1>12. QED
  BY <1>2, <1>6, <1>11

-----------------------------------------------------------------------------
(* The contexts of a pass *)

\* o lists the elements of S, each once.
IsOrder(o, S) ==
  /\ IsSequence(o, Cardinality(S))
  /\ \A i \in 1 .. Cardinality(S) : o[i] \in S
  /\ \A i \in 1 .. Cardinality(S), j \in 1 .. Cardinality(S) : o[i] = o[j] => i = j
  /\ \A e \in S : \E i \in 1 .. Cardinality(S) : o[i] = e

LEMMA OrderFacts ==
  ASSUME NEW S, IsFiniteSet(S)
  PROVE  IsOrder(SetToSeq(S), S)
<1>1. PICK n : n = Cardinality(S)
  OBVIOUS
<1>2. n \in Nat /\ ExistsBijection(1 .. n, S)
  BY <1>1, FS_CardinalityType
<1>3. \E f \in [1 .. n -> S] : IsInjective(f)
  BY <1>2 DEF ExistsBijection, Bijection, Injection
<1>4. PICK o : o = SetToSeq(S)
  OBVIOUS
<1>5. o \in [1 .. n -> S] /\ IsInjective(o)
  BY <1>1, <1>3, <1>4 DEF SetToSeq
<1>6. IsFiniteSet(1 .. n) /\ Cardinality(1 .. n) = n
  BY <1>2, FS_Interval
<1>7. o \in Injection(1 .. n, S)
  BY <1>5 DEF Injection
<1>8. o \in Surjection(1 .. n, S)
  BY <1>1, <1>6, <1>7, FS_Injection
<1>9. IsSequence(o, n)
  BY <1>2, <1>5 DEF IsSequence
<1>10. \A i \in 1 .. n, j \in 1 .. n : o[i] = o[j] => i = j
  BY <1>5 DEF IsInjective
<1>11. \A e \in S : \E i \in 1 .. n : o[i] = e
  BY <1>8 DEF Surjection
<1>12. QED
  BY <1>1, <1>4, <1>5, <1>9, <1>10, <1>11 DEF IsOrder

\* The inputs t of the n requests of S.
AreInputs(t, S, given, n) ==
  /\ IsSequence(t, n)
  /\ \A i \in 1 .. n : /\ t[i].request_id \in S /\ t[i].input = given[t[i].request_id]
                       /\ t[i].start_position = Len(context[t[i].request_id])
  /\ \A i \in 1 .. n, j \in 1 .. n : t[i].request_id = t[j].request_id => i = j
  /\ \A r \in S : \E i \in 1 .. n : t[i].request_id = r

LEMMA InputsFacts ==
  ASSUME NEW S, IsFiniteSet(S), NEW given
  PROVE  AreInputs(Inputs(S, given), S, given, Cardinality(S))
<1>1. PICK o, n, t : o = SetToSeq(S) /\ n = Cardinality(S) /\ t = Inputs(S, given)
  OBVIOUS
<1>2. IsOrder(o, S)
  BY <1>1, OrderFacts
<1>3. IsSequence(o, n)
  BY <1>1, <1>2 DEF IsOrder
<1>4. DOMAIN o = 1 .. n /\ n \in Nat
  BY <1>3 DEF IsSequence
<1>5. t = [i \in 1 .. n |-> [request_id |-> o[i], input |-> given[o[i]],
                            start_position |-> Len(context[o[i]])]]
  BY <1>1, <1>4 DEF Inputs
<1>6. \A i \in 1 .. n : /\ t[i].request_id = o[i] /\ t[i].input = given[o[i]]
                        /\ t[i].start_position = Len(context[o[i]])
  BY <1>5
<1>7. IsSequence(t, n)
  BY <1>4, <1>5 DEF IsSequence
<1>8. \A i \in 1 .. n : o[i] \in S
  BY <1>1, <1>2 DEF IsOrder
<1>9. \A i \in 1 .. n, j \in 1 .. n : o[i] = o[j] => i = j
  BY <1>1, <1>2 DEF IsOrder
<1>10. \A r \in S : \E i \in 1 .. n : o[i] = r
  BY <1>1, <1>2 DEF IsOrder
<1>11. AreInputs(t, S, given, n)
  BY <1>6, <1>7, <1>8, <1>9, <1>10 DEF AreInputs
<1>12. QED
  BY <1>1, <1>11

\* The inputs of the generations, and behind them those of the verifications.
LEMMA AllInputsFacts ==
  ASSUME NEW S, NEW T, IsFiniteSet(S), IsFiniteSet(T), S \cap T = {}, NEW given, NEW m, NEW n,
         m = Cardinality(S), n = Cardinality(T), NEW t, t = Inputs(S, given) \o Inputs(T, given)
  PROVE  /\ m \in Nat /\ n \in Nat /\ AreInputs(t, S \cup T, given, m + n)
<1>1. PICK a, b : a = Inputs(S, given) /\ b = Inputs(T, given)
  OBVIOUS
<1>2. AreInputs(a, S, given, m) /\ AreInputs(b, T, given, n)
  BY <1>1, InputsFacts
<1>3. IsSequence(a, m) /\ IsSequence(b, n)
  BY <1>2 DEF AreInputs
<1>4. m \in Nat /\ n \in Nat
  BY <1>3 DEF IsSequence
<1>5. IsConcat(t, a, b, m, n)
  BY <1>1, <1>3, ConcatFacts
<1>6. /\ IsSequence(t, m + n)
      /\ \A i \in 1 .. m : t[i] = a[i]
      /\ \A i \in 1 .. n : t[m + i] = b[i]
  BY <1>5 DEF IsConcat
<1>7. \A i \in 1 .. m + n : \/ i \in 1 .. m /\ t[i] = a[i]
                            \/ \E k \in 1 .. n : i = m + k /\ t[i] = b[k]
  <2> TAKE i \in 1 .. m + n
  <2>1. CASE i \in 1 .. m
    BY <1>6, <2>1
  <2>2. CASE i \notin 1 .. m
    <3>1. i - m \in 1 .. n /\ m + (i - m) = i
      BY <1>4, <2>2
    <3>2. PICK k \in 1 .. n : m + k = i
      BY <3>1
    <3>3. QED
      BY <1>6, <3>2
  <2>3. QED
    BY <2>1, <2>2
<1>8. \A i \in 1 .. m : /\ a[i].request_id \in S /\ a[i].input = given[a[i].request_id]
                        /\ a[i].start_position = Len(context[a[i].request_id])
  BY <1>2 DEF AreInputs
<1>9. \A i \in 1 .. n : /\ b[i].request_id \in T /\ b[i].input = given[b[i].request_id]
                        /\ b[i].start_position = Len(context[b[i].request_id])
  BY <1>2 DEF AreInputs
<1>10. \A i \in 1 .. m + n : /\ t[i].request_id \in S \cup T /\ t[i].input = given[t[i].request_id]
                             /\ t[i].start_position = Len(context[t[i].request_id])
  <2> TAKE i \in 1 .. m + n
  <2>1. CASE i \in 1 .. m /\ t[i] = a[i]
    BY <1>8, <2>1
  <2>2. CASE \E k \in 1 .. n : i = m + k /\ t[i] = b[k]
    <3>1. PICK k \in 1 .. n : t[i] = b[k]
      BY <2>2
    <3>2. QED
      BY <1>9, <3>1
  <2>3. QED
    BY <1>7, <2>1, <2>2
<1>11. ASSUME NEW i \in 1 .. m + n, NEW j \in 1 .. m + n, t[i].request_id = t[j].request_id
       PROVE  i = j
  <2>1. CASE i \in 1 .. m /\ t[i] = a[i] /\ j \in 1 .. m /\ t[j] = a[j]
    BY <1>2, <1>11, <2>1 DEF AreInputs
  <2>2. CASE /\ \E k \in 1 .. n : i = m + k /\ t[i] = b[k]
             /\ \E k \in 1 .. n : j = m + k /\ t[j] = b[k]
    <3>1. PICK x \in 1 .. n : i = m + x /\ t[i] = b[x]
      BY <2>2
    <3>2. PICK y \in 1 .. n : j = m + y /\ t[j] = b[y]
      BY <2>2
    <3>3. x = y
      BY <1>2, <1>11, <3>1, <3>2 DEF AreInputs
    <3>4. QED
      BY <3>1, <3>2, <3>3
  <2>3. CASE i \in 1 .. m /\ t[i] = a[i] /\ \E k \in 1 .. n : j = m + k /\ t[j] = b[k]
    BY <1>8, <1>9, <1>11, <2>3
  <2>4. CASE j \in 1 .. m /\ t[j] = a[j] /\ \E k \in 1 .. n : i = m + k /\ t[i] = b[k]
    BY <1>8, <1>9, <1>11, <2>4
  <2>5. QED
    BY <1>7, <2>1, <2>2, <2>3, <2>4
<1>12. ASSUME NEW r \in S \cup T PROVE \E i \in 1 .. m + n : t[i].request_id = r
  <2>1. CASE r \in S
    <3>1. PICK i \in 1 .. m : a[i].request_id = r
      BY <1>2, <2>1 DEF AreInputs
    <3>2. i \in 1 .. m + n
      BY <1>4
    <3>3. QED
      BY <1>6, <3>1, <3>2
  <2>2. CASE r \in T
    <3>1. PICK i \in 1 .. n : b[i].request_id = r
      BY <1>2, <2>2 DEF AreInputs
    <3>2. PICK k : k = m + i
      OBVIOUS
    <3>3. k \in 1 .. m + n
      BY <1>4, <3>2
    <3>4. t[k] = b[i]
      BY <1>6, <3>2
    <3>5. QED
      BY <3>1, <3>3, <3>4
  <2>3. QED
    BY <2>1, <2>2
<1>13. AreInputs(t, S \cup T, given, m + n)
  BY <1>6, <1>10, <1>11, <1>12 DEF AreInputs
<1>14. QED
  BY <1>4, <1>13

\* The contexts xs of the n inputs t.
IsContexts(xs, t, n, off, len) ==
  /\ IsSequence(xs, n) /\ IsOffsets(off, len, n)
  /\ \A i \in 1 .. n : /\ xs[i].request_id = t[i].request_id
                       /\ xs[i].start_pos = t[i].start_position
                       /\ xs[i].q_start_index = off[i - 1] /\ xs[i].q_len = len[i]
                       /\ len[i] = Len(t[i].input)

Lengths(t) == [i \in DOMAIN t |-> Len(t[i].input)]

LEMMA ContextsFacts ==
  ASSUME NEW t, NEW n, IsSequence(t, n), \A i \in 1 .. n : Len(t[i].input) \in Nat
  PROVE  IsContexts(Contexts(t), t, n, Sums(Lengths(t)), Lengths(t))
<1>1. DOMAIN t = 1 .. n /\ n \in Nat
  BY DEF IsSequence
<1>2. PICK len : len = Lengths(t)
  OBVIOUS
<1>3. len = [i \in 1 .. n |-> Len(t[i].input)]
  BY <1>1, <1>2 DEF Lengths
<1>4. IsSequence(len, n)
  BY <1>1, <1>3 DEF IsSequence
<1>5. Len(len) = n
  BY <1>4, SequenceFacts
<1>6. PICK off : off = Sums(len)
  OBVIOUS
<1>7. \A i \in 1 .. n : len[i] \in Nat /\ len[i] = Len(t[i].input)
  BY <1>3
<1>8. IsOffsets(off, len, n)
  BY <1>1, <1>5, <1>6, <1>7, SumsAreOffsets
<1>9. PICK xs : xs = Contexts(t)
  OBVIOUS
<1>10. xs = [i \in 1 .. n |->
               [request_id |-> t[i].request_id, start_pos |-> t[i].start_position,
                q_start_index |-> off[i - 1], q_len |-> Len(t[i].input)]]
  BY <1>1, <1>3, <1>6, <1>9 DEF Contexts
<1>11. IsSequence(xs, n)
  BY <1>1, <1>10 DEF IsSequence
<1>12. \A i \in 1 .. n : /\ xs[i].request_id = t[i].request_id
                         /\ xs[i].start_pos = t[i].start_position
                         /\ xs[i].q_start_index = off[i - 1] /\ xs[i].q_len = Len(t[i].input)
  BY <1>10
<1>13. IsContexts(xs, t, n, off, len)
  BY <1>7, <1>8, <1>11, <1>12 DEF IsContexts
<1>14. QED
  BY <1>2, <1>6, <1>9, <1>13

\* The tokens of a request behind a pass.
After(given) ==
  [r \in Requests |-> IF r \in DOMAIN given THEN context[r] \o given[r] ELSE context[r]]

Before == [r \in Requests |-> Len(context[r])]

\* What the requests of B may be given.
MayBeGiven(given, B) ==
  /\ B \subseteq Requests /\ DOMAIN given = B
  /\ \A r \in B : given[r] \in Seq(Tokens) /\ Len(context[r]) + Len(given[r]) <= MaxLength
  /\ MayRun(B)

ContextTypeOK == context \in [Requests -> Seq(Tokens)]

IsExtension(s, t, u, m, n) ==
  /\ IsSequence(s, m + n) /\ m \in Nat /\ n \in Nat /\ Len(s) = m + n
  /\ \A i \in 1 .. m : s[i] = t[i]
  /\ \A i \in 1 .. n : s[m + i] = u[i]

LEMMA AfterFacts ==
  ASSUME ContextTypeOK, NEW B, NEW given, MayBeGiven(given, B), NEW s, s = After(given),
         NEW r \in Requests
  PROVE  /\ r \in B => IsExtension(s[r], context[r], given[r], Len(context[r]), Len(given[r]))
         /\ r \notin B => s[r] = context[r]
         /\ IsSequence(s[r], Len(s[r])) /\ IsSequence(context[r], Len(context[r]))
         /\ Before[r] = Len(context[r]) /\ Before[r] \in Nat
         /\ Before[r] <= Len(s[r]) /\ \A i \in 1 .. Before[r] : context[r][i] = s[r][i]
<1>1. context[r] \in Seq(Tokens) /\ Before[r] = Len(context[r])
  BY DEF ContextTypeOK, Before
<1>2. PICK a, m : a = context[r] /\ m = Len(a)
  OBVIOUS
<1>3. IsSequence(a, m) /\ m \in Nat
  BY <1>1, <1>2, SequencesAreSequences
<1>4. CASE r \in B
  <2>1. s[r] = a \o given[r] /\ given[r] \in Seq(Tokens)
    BY <1>2, <1>4 DEF After, MayBeGiven
  <2>2. PICK b, n, w : b = given[r] /\ n = Len(b) /\ w = s[r]
    OBVIOUS
  <2>3. IsSequence(b, n) /\ n \in Nat
    BY <2>1, <2>2, SequencesAreSequences
  <2>4. IsConcat(w, a, b, m, n)
    BY <1>3, <2>1, <2>2, <2>3, ConcatFacts
  <2>5. /\ IsSequence(w, m + n) /\ \A i \in 1 .. m : w[i] = a[i]
        /\ \A i \in 1 .. n : w[m + i] = b[i]
    BY <2>4 DEF IsConcat
  <2>6. Len(w) = m + n
    BY <2>5, SequenceFacts
  <2>7. IsExtension(w, a, b, m, n)
    BY <1>3, <2>3, <2>5, <2>6 DEF IsExtension
  <2>8. m <= Len(w)
    BY <1>3, <2>3, <2>6
  <2>9. IsSequence(w, Len(w))
    BY <2>5, <2>6
  <2>10. QED
    BY <1>1, <1>2, <1>3, <1>4, <2>2, <2>5, <2>7, <2>8, <2>9
<1>5. CASE r \notin B
  <2>1. s[r] = a
    BY <1>2, <1>5 DEF After, MayBeGiven
  <2>2. m <= m
    BY <1>3
  <2>3. QED
    BY <1>1, <1>2, <1>3, <1>5, <2>1, <2>2
<1>6. QED
  BY <1>4, <1>5

LEMMA BatchFacts ==
  ASSUME ContextTypeOK, NEW B, NEW given, MayBeGiven(given, B), NEW n, NEW t,
         AreInputs(t, B, given, n), NEW xs, NEW off, NEW len, IsContexts(xs, t, n, off, len),
         NEW s, s = After(given)
  PROVE  IsBatch(xs, n, off, len, off[n], s, Before)
<1>1. IsSequence(xs, n) /\ IsOffsets(off, len, n)
  BY DEF IsContexts
<1>2. \A r \in Requests : IsSequence(s[r], Len(s[r])) /\ Before[r] \in Nat
  BY AfterFacts
<1>3. ASSUME NEW i \in 1 .. n
      PROVE  /\ xs[i].request_id \in B /\ xs[i].request_id \in Requests
             /\ xs[i].start_pos = Before[xs[i].request_id]
             /\ xs[i].q_start_index = off[i - 1] /\ xs[i].q_len = len[i]
             /\ Len(s[xs[i].request_id]) = xs[i].start_pos + xs[i].q_len
             /\ xs[i].start_pos = Len(context[xs[i].request_id])
             /\ xs[i].q_len = Len(given[xs[i].request_id])
  <2>1. PICK r : r = t[i].request_id
    OBVIOUS
  <2>2. /\ r \in B /\ xs[i].request_id = r /\ xs[i].start_pos = Len(context[r])
        /\ xs[i].q_start_index = off[i - 1] /\ xs[i].q_len = len[i] /\ len[i] = Len(given[r])
    BY <2>1 DEF AreInputs, IsContexts
  <2>3. r \in Requests
    BY <2>2 DEF MayBeGiven
  <2>4. Len(s[r]) = Len(context[r]) + Len(given[r])
    <3>1. IsExtension(s[r], context[r], given[r], Len(context[r]), Len(given[r]))
      BY <2>2, <2>3, AfterFacts
    <3>2. QED
      BY <3>1 DEF IsExtension
  <2>5. Before[r] = Len(context[r])
    BY <2>3, AfterFacts
  <2>6. QED
    BY <2>2, <2>3, <2>4, <2>5
<1>4. \A i \in 1 .. n, j \in 1 .. n : xs[i].request_id = xs[j].request_id => i = j
  BY DEF AreInputs, IsContexts
<1>5. ASSUME NEW r \in Requests, \A i \in 1 .. n : xs[i].request_id # r PROVE Len(s[r]) = Before[r]
  <2>1. r \notin B
    BY <1>5 DEF AreInputs, IsContexts
  <2>2. QED
    BY <2>1, AfterFacts
<1>6. ASSUME mode.cache = "Contiguous", NEW i \in 1 .. n
      PROVE  /\ Len(s[xs[i].request_id]) <= MaxLength
             /\ \A q \in Requests \ {xs[i].request_id} : Len(s[q]) = 0 /\ Before[q] = 0
  <2>1. PICK r : r = xs[i].request_id
    OBVIOUS
  <2>2. r \in B /\ r \in Requests /\ Len(s[r]) = Len(context[r]) + Len(given[r])
    BY <1>3, <2>1
  <2>3. Len(s[r]) <= MaxLength
    BY <2>2 DEF MayBeGiven
  <2>4. Cardinality(B) = 1 /\ \A q \in Requests \ B : context[q] = <<>>
    BY <1>6 DEF MayBeGiven, MayRun
  <2>5. \E e : B = {e}
    <3>1. IsFiniteSet(B)
      BY AttentionAssumption, FS_Subset DEF MayBeGiven
    <3>2. QED
      BY <2>4, <3>1, FS_Singleton
  <2>6. \A q \in Requests \ {r} : q \notin B
    BY <2>2, <2>5
  <2>7. ASSUME NEW q \in Requests \ {r} PROVE Len(s[q]) = 0 /\ Before[q] = 0
    <3>1. context[q] = <<>> /\ q \notin B
      BY <2>4, <2>6
    <3>2. s[q] = context[q] /\ Before[q] = Len(context[q])
      BY <3>1, AfterFacts
    <3>3. QED
      BY <3>1, <3>2
  <2>8. QED
    BY <2>1, <2>3, <2>7
<1>7. QED
  BY <1>1, <1>2, <1>3, <1>4, <1>5, <1>6 DEF IsBatch

NeededPages(xs) ==
  [n \in DOMAIN xs |-> PagesFor(xs[n].start_pos + xs[n].q_len) - PagesFor(xs[n].start_pos)]

\* The reservations leave room for the rows of a pass.
LEMMA NeededPagesFacts ==
  ASSUME NEW xs, NEW n, NEW off, NEW len, NEW total, NEW s, NEW from,
         IsBatch(xs, n, off, len, total, s, from), HasRoom(xs)
  PROVE  /\ NeedsPages(xs, n, Sums(NeededPages(xs)), NeededPages(xs))
         /\ mode.cache = "Paged" => LayerCount * Sums(NeededPages(xs))[n] <= Len(free)
<1>1. IsSequence(xs, n)
  BY DEF IsBatch
<1>2. n \in Nat /\ DOMAIN xs = 1 .. n /\ Len(xs) = n
  BY <1>1, SequenceFacts
<1>3. PICK need : need = NeededPages(xs)
  OBVIOUS
<1>4. need = [i \in 1 .. n |-> PagesFor(xs[i].start_pos + xs[i].q_len) - PagesFor(xs[i].start_pos)]
  BY <1>2, <1>3 DEF NeededPages
<1>5. ASSUME NEW i \in 1 .. n
      PROVE  need[i] \in Nat
             /\ PagesFor(xs[i].start_pos + xs[i].q_len) = PagesFor(xs[i].start_pos) + need[i]
  <2>1. PICK a, m : a = xs[i].start_pos /\ m = xs[i].q_len
    OBVIOUS
  <2>2. a \in Nat
    BY <2>1 DEF IsBatch
  <2>3. m \in Nat
    BY <2>1 DEF IsBatch, IsOffsets
  <2>4. a + m \in Nat /\ a <= a + m
    BY <2>2, <2>3
  <2>5. PICK x, y : x = PagesFor(a) /\ y = PagesFor(a + m)
    OBVIOUS
  <2>6. x \in Nat /\ y \in Nat /\ x <= y
    BY <2>2, <2>4, <2>5, PagesForIsNatural, PagesForGrows
  <2>7. need[i] = y - x
    BY <1>4, <2>1, <2>5
  <2>8. need[i] \in Nat /\ y = x + need[i]
    BY <2>6, <2>7
  <2>9. QED
    BY <2>1, <2>5, <2>8
<1>6. IsSequence(need, n)
  BY <1>2, <1>4 DEF IsSequence
<1>7. Len(need) = n
  BY <1>6, SequenceFacts
<1>8. IsOffsets(Sums(need), need, n)
  BY <1>2, <1>5, <1>7, SumsAreOffsets
<1>9. NeedsPages(xs, n, Sums(need), need)
  BY <1>5, <1>8 DEF NeedsPages
<1>10. mode.cache = "Paged" => LayerCount * Sums(need)[n] <= Len(free)
  BY <1>2, <1>3 DEF HasRoom, NeededPages
<1>11. QED
  BY <1>3, <1>9, <1>10

\* The rows before the first layer are the tokens.
LEMMA EmbeddingsFacts ==
  ASSUME ContextTypeOK, NEW B, NEW given, MayBeGiven(given, B), NEW n, NEW t,
         AreInputs(t, B, given, n), NEW xs, NEW off, NEW len, IsContexts(xs, t, n, off, len),
         NEW s, s = After(given)
  PROVE  AreRows(FlattenSeq([i \in DOMAIN t |-> t[i].input]), off[n], xs, n, s, 0)
<1>1. IsOffsets(off, len, n) /\ n \in Nat /\ DOMAIN t = 1 .. n
  BY DEF IsContexts, AreInputs, IsSequence
<1>2. PICK ts : ts = [i \in DOMAIN t |-> t[i].input]
  OBVIOUS
<1>3. ts = [i \in 1 .. n |-> t[i].input]
  BY <1>1, <1>2
<1>4. IsSequence(ts, n)
  BY <1>1, <1>3 DEF IsSequence
<1>5. ASSUME NEW i \in 1 .. n
      PROVE  /\ t[i].request_id \in B /\ xs[i].request_id = t[i].request_id
             /\ ts[i] = given[t[i].request_id]
             /\ xs[i].start_pos = Len(context[t[i].request_id])
             /\ xs[i].q_start_index = off[i - 1] /\ xs[i].q_len = len[i]
             /\ len[i] = Len(given[t[i].request_id])
  <2>1. /\ t[i].request_id \in B /\ t[i].input = given[t[i].request_id]
        /\ t[i].start_position = Len(context[t[i].request_id])
    BY DEF AreInputs
  <2>2. /\ xs[i].request_id = t[i].request_id /\ xs[i].start_pos = t[i].start_position
        /\ xs[i].q_start_index = off[i - 1] /\ xs[i].q_len = len[i]
        /\ len[i] = Len(t[i].input)
    BY DEF IsContexts
  <2>3. ts[i] = t[i].input
    BY <1>3
  <2>4. QED
    BY <2>1, <2>2, <2>3
<1>6. ASSUME NEW i \in 1 .. n PROVE IsSequence(ts[i], len[i])
  <2>1. PICK r : r = t[i].request_id
    OBVIOUS
  <2>2. ts[i] = given[r] /\ len[i] = Len(given[r]) /\ r \in B
    BY <1>5, <2>1
  <2>3. given[r] \in Seq(Tokens)
    BY <2>2 DEF MayBeGiven
  <2>4. QED
    BY <2>2, <2>3, SequencesAreSequences
<1>7. PICK rows : rows = FlattenSeq(ts)
  OBVIOUS
<1>8. IsFlat(rows, ts, off, len, n)
  BY <1>1, <1>4, <1>6, <1>7, FlattenFacts
<1>9. IsSequence(rows, off[n])
  BY <1>8 DEF IsFlat
<1>10. ASSUME NEW i \in 1 .. n PROVE AreStates(rows, xs[i], s[xs[i].request_id], 0)
  <2>1. PICK r, x, a, m, w : /\ r = t[i].request_id /\ x = xs[i] /\ a = Len(context[r])
                             /\ m = Len(given[r]) /\ w = s[r]
    OBVIOUS
  <2>2. /\ r \in B /\ x.request_id = r /\ ts[i] = given[r] /\ x.start_pos = a
        /\ x.q_start_index = off[i - 1] /\ x.q_len = m /\ len[i] = m
    BY <1>5, <2>1
  <2>3. r \in Requests
    BY <2>2 DEF MayBeGiven
  <2>4. IsExtension(w, context[r], given[r], a, m)
    BY <2>1, <2>2, <2>3, AfterFacts
  <2>5. ReferenceStates(w)[0] = w
    BY <2>4, ReferenceStatesFacts DEF IsExtension
  <2>6. ASSUME NEW j \in 1 .. m PROVE rows[off[i - 1] + j] = State(w, 0, a + j)
    <3>1. rows[off[i - 1] + j] = ts[i][j]
      BY <1>8, <2>2 DEF IsFlat
    <3>2. w[a + j] = given[r][j]
      BY <2>4 DEF IsExtension
    <3>3. State(w, 0, a + j) = w[a + j]
      BY <2>5 DEF State
    <3>4. QED
      BY <2>2, <3>1, <3>2, <3>3
  <2>7. AreStates(rows, x, w, 0)
    BY <2>2, <2>6 DEF AreStates
  <2>8. QED
    BY <2>1, <2>2, <2>7
<1>11. QED
  BY <1>2, <1>7, <1>9, <1>10 DEF AreRows

\* The cached rows of a request's tokens are also those of more or fewer of them.
LEMMA HoldsOfAgreeing ==
  ASSUME NEW c, NEW r, NEW z \in Layers, NEW s, NEW m, NEW t, NEW n, IsSequence(s, m),
         IsSequence(t, n), m <= n, \A i \in 1 .. m : s[i] = t[i]
  PROVE  Holds(c, r, z, s, m) <=> Holds(c, r, z, t, m)
<1>1. \A i \in 1 .. m : State(s, z - 1, i) = State(t, z - 1, i)
  <2>1. z - 1 \in 0 .. LayerCount
    BY AttentionAssumption DEF Layers
  <2>2. QED
    BY <2>1, StatesAreCausal
<1>2. QED
  BY <1>1 DEF Holds

\* Every token of every request is cached in every layer.
IsCacheOf(c, s) == \A r \in Requests, z \in Layers : Holds(c, r, z, s[r], Len(s[r]))

LEMMA PassStarts ==
  ASSUME ContextTypeOK, NEW B, NEW given, MayBeGiven(given, B), NEW s, s = After(given),
         NEW c, CacheOK(c), IsCacheOf(c, context), NEW xs
  PROVE  Progress(c, s, Before, 1, xs, 0)
<1>1. ASSUME NEW r \in Requests, NEW z \in Layers
      PROVE  Holds(c, r, z, s[r], IF Reached(r, z, 1, xs, 0) THEN Len(s[r]) ELSE Before[r])
  <2>1. ~ Reached(r, z, 1, xs, 0)
    BY AttentionAssumption DEF Reached, Layers
  <2>2. PICK a, m, w, n : a = context[r] /\ m = Before[r] /\ w = s[r] /\ n = Len(w)
    OBVIOUS
  <2>3. /\ IsSequence(w, n) /\ IsSequence(a, Len(a)) /\ m = Len(a) /\ m <= n
        /\ \A i \in 1 .. m : a[i] = w[i]
    BY <2>2, AfterFacts
  <2>4. Holds(c, r, z, a, m)
    BY <2>2, <2>3 DEF IsCacheOf
  <2>5. Holds(c, r, z, w, m)
    BY <2>3, <2>4, HoldsOfAgreeing
  <2>6. QED
    BY <2>1, <2>2, <2>5
<1>2. QED
  BY <1>1 DEF Progress

LEMMA PassEnds ==
  ASSUME NEW c, NEW s, NEW from, NEW xs, Progress(c, s, from, LayerCount + 1, xs, 0)
  PROVE  CacheOK(c) /\ IsCacheOf(c, s)
<1>1. ASSUME NEW r \in Requests, NEW z \in Layers PROVE Holds(c, r, z, s[r], Len(s[r]))
  <2>1. z < LayerCount + 1
    BY AttentionAssumption DEF Layers
  <2>2. Reached(r, z, LayerCount + 1, xs, 0)
    BY <2>1 DEF Reached
  <2>3. QED
    BY <2>2 DEF Progress
<1>2. QED
  BY <1>1 DEF Progress, IsCacheOf

-----------------------------------------------------------------------------
(* The logits of a pass *)

\* The rows that are packed: the last one of each of the contexts g, all of each of the contexts v.
IsPackedHidden(packed, rows, g, m, v, off, len, n) ==
  /\ IsSequence(packed, m + off[n])
  /\ \A i \in 1 .. m : packed[i] = rows[g[i].q_start_index + g[i].q_len]
  /\ \A i \in 1 .. n : \A j \in 1 .. len[i] :
       packed[m + (off[i - 1] + j)] = rows[v[i].q_start_index + j]

RowCounts(v) == [n \in DOMAIN v |-> v[n].q_len]

LEMMA PackOutputFacts ==
  ASSUME NEW rows, NEW total, IsSequence(rows, total), NEW g, NEW m, IsSequence(g, m),
         NEW v, NEW n, IsSequence(v, n), NEW off, NEW len, len = RowCounts(v), off = Sums(len),
         \A i \in 1 .. n : /\ v[i].q_start_index \in Nat /\ v[i].q_len \in Nat
                           /\ v[i].q_start_index + v[i].q_len <= total
  PROVE  /\ IsOffsets(off, len, n) /\ \A i \in 1 .. n : len[i] = v[i].q_len
         /\ IsPackedHidden(PackOutputHiddenStates(rows, g, v), rows, g, m, v, off, len, n)
<1>1. DOMAIN g = 1 .. m /\ m \in Nat /\ DOMAIN v = 1 .. n /\ n \in Nat
  BY DEF IsSequence
<1>2. len = [i \in 1 .. n |-> v[i].q_len]
  BY <1>1 DEF RowCounts
<1>3. \A i \in 1 .. n : len[i] = v[i].q_len /\ len[i] \in Nat
  BY <1>2
<1>4. IsSequence(len, n)
  BY <1>1, <1>2 DEF IsSequence
<1>5. Len(len) = n
  BY <1>4, SequenceFacts
<1>6. IsOffsets(off, len, n)
  BY <1>1, <1>3, <1>5, SumsAreOffsets
<1>7. PICK a, b, flat, packed :
        /\ a = [i \in 1 .. m |-> rows[g[i].q_start_index + g[i].q_len]]
        /\ b = [i \in 1 .. n |-> Narrow(rows, v[i].q_start_index, v[i].q_len)]
        /\ flat = FlattenSeq(b) /\ packed = a \o flat
  OBVIOUS
<1>8. packed = PackOutputHiddenStates(rows, g, v)
  BY <1>1, <1>7 DEF PackOutputHiddenStates
<1>9. IsSequence(a, m) /\ IsSequence(b, n)
  BY <1>1, <1>7 DEF IsSequence
<1>10. ASSUME NEW i \in 1 .. n PROVE IsPart(b[i], rows, v[i].q_start_index, len[i])
  <2>1. b[i] = Narrow(rows, v[i].q_start_index, v[i].q_len)
    BY <1>7
  <2>2. QED
    BY <1>3, <2>1, NarrowFacts
<1>11. \A i \in 1 .. n : IsSequence(b[i], len[i])
  BY <1>10 DEF IsPart
<1>12. IsFlat(flat, b, off, len, n)
  BY <1>6, <1>7, <1>9, <1>11, FlattenFacts
<1>13. IsSequence(flat, off[n])
  BY <1>12 DEF IsFlat
<1>14. IsConcat(packed, a, flat, m, off[n])
  BY <1>7, <1>9, <1>13, ConcatFacts
<1>15. IsSequence(packed, m + off[n])
  BY <1>14 DEF IsConcat
<1>16. ASSUME NEW i \in 1 .. m PROVE packed[i] = rows[g[i].q_start_index + g[i].q_len]
  <2>1. packed[i] = a[i]
    BY <1>14 DEF IsConcat
  <2>2. a[i] = rows[g[i].q_start_index + g[i].q_len]
    BY <1>7
  <2>3. QED
    BY <2>1, <2>2
<1>17. ASSUME NEW i \in 1 .. n, NEW j \in 1 .. len[i]
       PROVE  packed[m + (off[i - 1] + j)] = rows[v[i].q_start_index + j]
  <2>1. PICK k : k = off[i - 1] + j
    OBVIOUS
  <2>2. k \in 1 .. off[n]
    BY <1>12, <2>1 DEF IsFlat
  <2>3. flat[k] = b[i][j]
    BY <1>12, <2>1 DEF IsFlat
  <2>4. b[i][j] = rows[v[i].q_start_index + j]
    BY <1>10 DEF IsPart
  <2>5. packed[m + k] = flat[k]
    BY <1>14, <2>2 DEF IsConcat
  <2>6. QED
    BY <2>1, <2>3, <2>4, <2>5
<1>18. IsPackedHidden(packed, rows, g, m, v, off, len, n)
  BY <1>15, <1>16, <1>17 DEF IsPackedHidden
<1>19. QED
  BY <1>3, <1>6, <1>8, <1>18

\* Every output is the logits of its request's state behind the last layer.
AreOutputs(os, s) == \A o \in os : o[3] = <<<<"output", 0>>, State(s[o[1]], LayerCount, o[2])>>

\* The rows of the contexts are the last states of their requests.
AreLastStates(rows, xs, n, s) ==
  \A i \in 1 .. n : AreStates(rows, xs[i], s[xs[i].request_id], LayerCount)

LEMMA OutputFacts ==
  ASSUME NEW rows, NEW total, IsSequence(rows, total), NEW s, NEW g, NEW m, IsSequence(g, m),
         NEW v, NEW n, IsSequence(v, n),
         \A i \in 1 .. m : g[i].q_len \in Nat \ {0},
         \A i \in 1 .. n : /\ v[i].q_start_index \in Nat /\ v[i].q_len \in Nat
                           /\ v[i].q_start_index + v[i].q_len <= total,
         AreLastStates(rows, g, m, s), AreLastStates(rows, v, n, s),
         NEW logits, logits = Project(<<"output", 0>>, PackOutputHiddenStates(rows, g, v))
  PROVE  AreOutputs(CreateForwardOutput(logits, g, v), s)
<1>1. PICK len, off : len = RowCounts(v) /\ off = Sums(len)
  OBVIOUS
<1>2. PICK packed : packed = PackOutputHiddenStates(rows, g, v)
  OBVIOUS
<1>3. /\ IsOffsets(off, len, n) /\ \A i \in 1 .. n : len[i] = v[i].q_len
      /\ IsPackedHidden(packed, rows, g, m, v, off, len, n)
  BY <1>1, <1>2, PackOutputFacts
<1>4. DOMAIN g = 1 .. m /\ m \in Nat /\ DOMAIN v = 1 .. n /\ n \in Nat /\ Len(g) = m
  BY SequenceFacts
<1>5. IsSequence(packed, m + off[n])
  BY <1>3 DEF IsPackedHidden
<1>6. IsProjection(logits, <<"output", 0>>, packed, m + off[n])
  BY <1>2, <1>5, ProjectFacts
<1>7. \A k \in 1 .. m + off[n] : logits[k] = <<<<"output", 0>>, packed[k]>>
  BY <1>6 DEF IsProjection
<1>8. off[n] \in Nat
  BY <1>3 DEF IsOffsets
<1>9. ASSUME NEW i \in 1 .. m, NEW x, x = g[i]
      PROVE  logits[i] = <<<<"output", 0>>,
                           State(s[x.request_id], LayerCount, x.start_pos + x.q_len)>>
  <2>1. i \in 1 .. m + off[n]
    BY <1>4, <1>8
  <2>2. packed[i] = rows[x.q_start_index + x.q_len]
    BY <1>3, <1>9 DEF IsPackedHidden
  <2>3. x.q_len \in 1 .. x.q_len
    <3>1. x.q_len \in Nat \ {0}
      BY <1>9
    <3>2. QED
      BY <3>1
  <2>4. AreStates(rows, x, s[x.request_id], LayerCount)
    BY <1>9 DEF AreLastStates
  <2>5. rows[x.q_start_index + x.q_len] = State(s[x.request_id], LayerCount, x.start_pos + x.q_len)
    BY <2>3, <2>4 DEF AreStates
  <2>6. QED
    BY <1>7, <2>1, <2>2, <2>5
<1>10. ASSUME NEW i \in 1 .. n, NEW x, x = v[i], NEW j \in 1 .. x.q_len
       PROVE  logits[m + off[i - 1] + j] =
                <<<<"output", 0>>, State(s[x.request_id], LayerCount, x.start_pos + j)>>
  <2>1. len[i] = x.q_len /\ len[i] \in Nat
    BY <1>3, <1>10 DEF IsOffsets
  <2>2. i - 1 \in 0 .. n /\ i \in 0 .. n /\ i <= n
    BY <1>4
  <2>3. off[i] = off[i - 1] + len[i] /\ off[i - 1] \in Nat /\ off[i] <= off[n] /\ off[i] \in Nat
    <3>1. off[i] = off[i - 1] + len[i] /\ off[i - 1] \in Nat /\ off[i] \in Nat
      BY <1>3, <2>2 DEF IsOffsets
    <3>2. off[i] <= off[n]
      BY <1>3, <1>4, <2>2, OffsetsGrow
    <3>3. QED
      BY <3>1, <3>2
  <2>4. PICK a, k : a = off[i - 1] /\ k = m + (a + j)
    OBVIOUS
  <2>5. k \in 1 .. m + off[n] /\ k = m + off[i - 1] + j
    <3>1. PICK b, d, e : b = off[n] /\ d = len[i] /\ e = off[i]
      OBVIOUS
    <3>2. /\ a \in Nat /\ b \in Nat /\ d \in Nat /\ e \in Nat /\ m \in Nat /\ e = a + d /\ e <= b
          /\ j \in 1 .. d
      BY <1>4, <1>8, <2>1, <2>3, <2>4, <3>1
    <3>3. m + (a + j) \in 1 .. m + b /\ m + (a + j) = m + a + j
      BY ONLY <3>2
    <3>4. QED
      BY <2>4, <3>1, <3>3
  <2>6. packed[k] = rows[x.q_start_index + j]
    BY <1>3, <1>10, <2>1, <2>4 DEF IsPackedHidden
  <2>7. AreStates(rows, x, s[x.request_id], LayerCount)
    BY <1>10 DEF AreLastStates
  <2>8. rows[x.q_start_index + j] = State(s[x.request_id], LayerCount, x.start_pos + j)
    BY <2>7 DEF AreStates
  <2>9. QED
    BY <1>7, <2>5, <2>6, <2>8
<1> DEFINE G == {<<g[i].request_id, g[i].start_pos + g[i].q_len, logits[i]>> : i \in 1 .. m}
           V(i) == {<<v[i].request_id, v[i].start_pos + j, logits[m + off[i - 1] + j]>> :
                      j \in 1 .. v[i].q_len}
<1>11. CreateForwardOutput(logits, g, v) = G \cup UNION {V(i) : i \in 1 .. n}
  BY <1>1, <1>4 DEF CreateForwardOutput, RowCounts
<1>12. \A o \in G : o[3] = <<<<"output", 0>>, State(s[o[1]], LayerCount, o[2])>>
  <2> TAKE o \in G
  <2>1. PICK i \in 1 .. m : o = <<g[i].request_id, g[i].start_pos + g[i].q_len, logits[i]>>
    OBVIOUS
  <2>2. PICK x : x = g[i]
    OBVIOUS
  <2>3. o[1] = x.request_id /\ o[2] = x.start_pos + x.q_len /\ o[3] = logits[i]
    BY <2>1, <2>2
  <2>4. QED
    BY <1>9, <2>2, <2>3
<1>13. \A i \in 1 .. n : \A o \in V(i) :
         o[3] = <<<<"output", 0>>, State(s[o[1]], LayerCount, o[2])>>
  <2> TAKE i \in 1 .. n
  <2> TAKE o \in V(i)
  <2>1. PICK j \in 1 .. v[i].q_len :
          o = <<v[i].request_id, v[i].start_pos + j, logits[m + off[i - 1] + j]>>
    OBVIOUS
  <2>2. PICK x : x = v[i]
    OBVIOUS
  <2>3. o[1] = x.request_id /\ o[2] = x.start_pos + j /\ o[3] = logits[m + off[i - 1] + j]
    BY <2>1, <2>2
  <2>4. j \in 1 .. x.q_len
    BY <2>2
  <2>5. QED
    BY <1>10, <2>2, <2>3, <2>4
<1> HIDE DEF G, V
<1>14. QED
  BY <1>11, <1>12, <1>13 DEF AreOutputs

-----------------------------------------------------------------------------
(* A pass *)

\* Every request of B is given a token.
IsGiven(given, B) == MayBeGiven(given, B) /\ \A r \in B : given[r] # <<>>

\* The places of the contexts' rows.
LEMMA ContextPlaces ==
  ASSUME ContextTypeOK, NEW B, NEW given, IsGiven(given, B), NEW n, NEW t,
         AreInputs(t, B, given, n), NEW xs, NEW off, NEW len, IsContexts(xs, t, n, off, len),
         NEW i \in 1 .. n
  PROVE  /\ xs[i].q_start_index \in Nat /\ xs[i].q_len \in Nat \ {0}
         /\ xs[i].q_start_index + xs[i].q_len <= off[n]
<1>1. PICK r, b : r = t[i].request_id /\ b = given[r]
  OBVIOUS
<1>2. r \in B /\ t[i].input = b
  BY <1>1 DEF AreInputs
<1>3. b \in Seq(Tokens) /\ b # <<>>
  BY <1>1, <1>2 DEF IsGiven, MayBeGiven
<1>4. Len(b) \in Nat \ {0}
  BY <1>3
<1>5. xs[i].q_start_index = off[i - 1] /\ xs[i].q_len = len[i] /\ len[i] = Len(b)
  BY <1>2 DEF IsContexts
<1>6. IsOffsets(off, len, n)
  BY DEF IsContexts
<1>7. n \in Nat
  BY <1>6 DEF IsOffsets
<1>8. i - 1 \in 0 .. n /\ i \in 0 .. n /\ n \in 0 .. n
  BY <1>7
<1>9. off[i - 1] \in Nat /\ off[i] = off[i - 1] + len[i]
  BY <1>6, <1>8 DEF IsOffsets
<1>10. off[i] <= off[n]
  BY <1>6, <1>8, OffsetsGrow
<1>11. QED
  BY <1>4, <1>5, <1>9, <1>10

\* The steps of a pass over the cache c: the inputs t, their contexts xs with those of the
\* generations g and of the verifications v, the result of the layers, and the logits.
IsPass(S, T, given, c, t, xs, g, v, result, logits) ==
  /\ t = Inputs(S, given) \o Inputs(T, given)
  /\ xs = Contexts(t)
  /\ g = Narrow(xs, 0, Cardinality(S)) /\ v = SubSeq(xs, Cardinality(S) + 1, Len(xs))
  /\ result = ForwardLayers(c, FlattenSeq([n \in DOMAIN t |-> t[n].input]), xs)
  /\ logits = Project(<<"output", 0>>, PackOutputHiddenStates(result.rows, g, v))

LEMMA PassFacts ==
  ASSUME mode \in Modes, ContextTypeOK, NEW S, NEW T, S \cap T = {}, NEW given,
         IsGiven(given, S \cup T), NEW c, c.free = free, CacheOK(c), IsCacheOf(c, context),
         NEW t, NEW xs, NEW g, NEW v, NEW result, NEW logits,
         IsPass(S, T, given, c, t, xs, g, v, result, logits), HasRoom(xs),
         NEW s, s = After(given)
  PROVE  /\ CacheOK(result.cache) /\ IsCacheOf(result.cache, s)
         /\ AreOutputs(CreateForwardOutput(logits, g, v), s)
<1> DEFINE ts == [n \in DOMAIN t |-> t[n].input]
<1>0. /\ t = Inputs(S, given) \o Inputs(T, given)
      /\ xs = Contexts(t)
      /\ g = Narrow(xs, 0, Cardinality(S)) /\ v = SubSeq(xs, Cardinality(S) + 1, Len(xs))
      /\ result = ForwardLayers(c, FlattenSeq(ts), xs)
      /\ logits = Project(<<"output", 0>>, PackOutputHiddenStates(result.rows, g, v))
  BY DEF IsPass
<1> HIDE DEF ts
<1>1. PICK B, m, k, n : B = S \cup T /\ m = Cardinality(S) /\ k = Cardinality(T) /\ n = m + k
  OBVIOUS
<1>2. MayBeGiven(given, B) /\ B \subseteq Requests
  BY <1>1 DEF IsGiven, MayBeGiven
<1>3. IsFiniteSet(S) /\ IsFiniteSet(T)
  BY <1>1, <1>2, AttentionAssumption, FS_Subset
<1>4. m \in Nat /\ k \in Nat /\ AreInputs(t, B, given, n)
  BY <1>0, <1>1, <1>3, AllInputsFacts
<1>5. IsSequence(t, n)
  BY <1>4 DEF AreInputs
<1>6. ASSUME NEW i \in 1 .. n PROVE Len(t[i].input) \in Nat
  <2>1. PICK r : r = t[i].request_id
    OBVIOUS
  <2>2. r \in B /\ t[i].input = given[r]
    BY <1>4, <2>1 DEF AreInputs
  <2>3. given[r] \in Seq(Tokens)
    BY <1>2, <2>2 DEF MayBeGiven
  <2>4. QED
    BY <2>2, <2>3
<1>7. PICK len, off, total : len = Lengths(t) /\ off = Sums(len) /\ total = off[n]
  OBVIOUS
<1>8. IsContexts(xs, t, n, off, len)
  BY <1>0, <1>5, <1>6, <1>7, ContextsFacts
<1>9. IsBatch(xs, n, off, len, total, s, Before)
  BY <1>2, <1>4, <1>7, <1>8, BatchFacts
<1>10. PICK need, poff : need = NeededPages(xs) /\ poff = Sums(need)
  OBVIOUS
<1>11. /\ NeedsPages(xs, n, poff, need)
       /\ mode.cache = "Paged" => LayerCount * poff[n] <= Len(c.free)
  BY <1>9, <1>10, NeededPagesFacts
<1>12. Progress(c, s, Before, 1, xs, 0)
  BY <1>2, PassStarts
<1>13. PICK rows : rows = FlattenSeq(ts)
  OBVIOUS
<1>14. AreRows(rows, total, xs, n, s, 0)
  BY <1>2, <1>4, <1>7, <1>8, <1>13, EmbeddingsFacts DEF ts
<1>15. IsLayered(result, LayerCount, c, s, Before, xs, n, total, poff[n])
  BY <1>0, <1>9, <1>11, <1>12, <1>13, <1>14, ForwardLayersFacts
<1>16. /\ Progress(result.cache, s, Before, LayerCount + 1, xs, 0)
       /\ AreRows(result.rows, total, xs, n, s, LayerCount)
  BY <1>15 DEF IsLayered
<1>17. CacheOK(result.cache) /\ IsCacheOf(result.cache, s)
  BY <1>16, PassEnds
<1>18. IsSequence(xs, n)
  BY <1>8 DEF IsContexts
<1>19. n \in Nat /\ 0 + m <= n /\ m + k <= n /\ 0 \in Nat
  BY <1>1, <1>4
<1>20. IsPart(g, xs, 0, m)
  BY <1>0, <1>1, <1>4, <1>18, <1>19, NarrowFacts
<1>21. v = Narrow(xs, m, k)
  <2>1. Len(xs) = n
    BY <1>18, SequenceFacts
  <2>2. QED
    BY <1>0, <1>1, <2>1 DEF Narrow
<1>22. IsPart(v, xs, m, k)
  BY <1>4, <1>18, <1>19, <1>21, NarrowFacts
<1>23. ASSUME NEW i \in 1 .. m PROVE i \in 1 .. n /\ g[i] = xs[i]
  <2>1. i \in 1 .. n /\ 0 + i = i
    BY <1>1, <1>4
  <2>2. g[i] = xs[0 + i]
    BY <1>20 DEF IsPart
  <2>3. QED
    BY <2>1, <2>2
<1>24. ASSUME NEW i \in 1 .. k PROVE m + i \in 1 .. n /\ v[i] = xs[m + i]
  <2>1. m + i \in 1 .. n
    BY <1>1, <1>4
  <2>2. v[i] = xs[m + i]
    BY <1>22 DEF IsPart
  <2>3. QED
    BY <2>1, <2>2
<1>25. \A i \in 1 .. n : /\ xs[i].q_start_index \in Nat /\ xs[i].q_len \in Nat \ {0}
                         /\ xs[i].q_start_index + xs[i].q_len <= total
  BY <1>1, <1>4, <1>7, <1>8, ContextPlaces
<1>26. \A i \in 1 .. n : AreStates(result.rows, xs[i], s[xs[i].request_id], LayerCount)
  BY <1>16 DEF AreRows
<1>27. AreLastStates(result.rows, g, m, s)
  BY <1>23, <1>26 DEF AreLastStates
<1>28. AreLastStates(result.rows, v, k, s)
  BY <1>24, <1>26 DEF AreLastStates
<1>29. \A i \in 1 .. m : g[i].q_len \in Nat \ {0}
  BY <1>23, <1>25
<1>30. \A i \in 1 .. k : /\ v[i].q_start_index \in Nat /\ v[i].q_len \in Nat
                         /\ v[i].q_start_index + v[i].q_len <= total
  BY <1>24, <1>25
<1>31. IsSequence(g, m) /\ IsSequence(v, k) /\ IsSequence(result.rows, total)
  BY <1>16, <1>20, <1>22 DEF IsPart, AreRows
<1>32. AreOutputs(CreateForwardOutput(logits, g, v), s)
  BY <1>0, <1>27, <1>28, <1>29, <1>30, <1>31, OutputFacts
<1>33. QED
  BY <1>17, <1>32

-----------------------------------------------------------------------------
(* Truncation *)

\* The pages that are kept are those of the tokens that are.
LEMMA RetainedPages ==
  ASSUME NEW n \in Nat
  PROVE  (IF n = 0 THEN 0 ELSE ((n - 1) \div PageTokenCount) + 1) = PagesFor(n)
<1>1. CASE n = 0
  BY <1>1, NoPages
<1>2. CASE n # 0
  <2>1. Cell(n, (n - 1) \div PageTokenCount, ((n - 1) % PageTokenCount) + 1, PageTokenCount)
    BY <1>2, AttentionAssumption, CellExists
  <2>2. PagesFor(n) = ((n - 1) \div PageTokenCount) + 1
    BY <2>1, PagesOfRow
  <2>3. QED
    BY <1>2, <2>2
<1>3. QED
  BY <1>1, <1>2

IsBehind(u, p, keep) ==
  Len(u) \in Nat /\ \A j \in 1 .. Len(u) : keep + j \in 1 .. Len(p) /\ u[j] = p[keep + j]

LEMMA BehindFacts ==
  ASSUME NEW S, NEW p \in Seq(S), NEW keep \in Nat, NEW u, u = SubSeq(p, keep + 1, Len(p))
  PROVE  u \in Seq(S) /\ IsBehind(u, p, keep)
<1>1. Len(p) \in Nat /\ keep + 1 \in Nat \ {0}
  OBVIOUS
<1>2. u \in Seq(S)
  BY <1>1
<1>3. \A j \in 1 .. Len(u) : keep + j \in 1 .. Len(p) /\ u[j] = p[keep + j]
  BY <1>1
<1>4. QED
  BY <1>2, <1>3 DEF IsBehind

LEMMA SequenceOf ==
  ASSUME NEW S, NEW w, NEW n, IsSequence(w, n), \A i \in 1 .. n : w[i] \in S
  PROVE  w \in Seq(S)
<1>1. w \in [1 .. n -> S] /\ n \in Nat
  BY DEF IsSequence
<1>2. QED
  BY <1>1

\* Page i of w was in layer l of the block tables ps, behind the first `keep` pages.
WasReleased(w, i, size, ps, keep, off, len) ==
  \E l \in Layers : \E j \in 1 .. len[l] :
    i = size + (off[l - 1] + j) /\ keep + j \in 1 .. Len(ps[l]) /\ w[i] = ps[l][keep + j]

\* The pages w are the pages f and behind them those that were released.
IsReleased(w, f, ps, keep, off, len) ==
  \A i \in 1 .. Len(w) : (i \in 1 .. Len(f) /\ w[i] = f[i])
                         \/ WasReleased(w, i, Len(f), ps, keep, off, len)

LEMMA ReleasedFacts ==
  ASSUME NEW ps, \A l \in Layers : ps[l] \in Seq(1 .. PageCount), NEW keep \in Nat,
         NEW f \in Seq(1 .. PageCount), NEW w,
         w = f \o FlattenSeq([l \in 1 .. LayerCount |-> SubSeq(ps[l], keep + 1, Len(ps[l]))])
  PROVE  w \in Seq(1 .. PageCount) /\ \E off, len : IsReleased(w, f, ps, keep, off, len)
<1>1. PICK n : n = LayerCount
  OBVIOUS
<1>2. n \in Nat /\ Layers = 1 .. n
  BY <1>1, AttentionAssumption DEF Layers
<1>3. PICK rel : rel = [l \in 1 .. n |-> SubSeq(ps[l], keep + 1, Len(ps[l]))]
  OBVIOUS
<1>4. IsSequence(rel, n)
  BY <1>2, <1>3 DEF IsSequence
<1>5. ASSUME NEW l \in 1 .. n
      PROVE  /\ rel[l] \in Seq(1 .. PageCount)
             /\ \A j \in 1 .. Len(rel[l]) : /\ keep + j \in 1 .. Len(ps[l])
                                            /\ rel[l][j] = ps[l][keep + j]
  <2>1. PICK p, u : p = ps[l] /\ u = rel[l]
    OBVIOUS
  <2>2. p \in Seq(1 .. PageCount) /\ u = SubSeq(p, keep + 1, Len(p))
    BY <1>2, <1>3, <2>1
  <2>3. u \in Seq(1 .. PageCount) /\ IsBehind(u, p, keep)
    BY <2>2, BehindFacts
  <2>4. QED
    BY <2>1, <2>3 DEF IsBehind
<1>6. PICK len : len = [l \in 1 .. n |-> Len(rel[l])]
  OBVIOUS
<1>7. \A l \in 1 .. n : len[l] = Len(rel[l]) /\ len[l] \in Nat
  <2> TAKE l \in 1 .. n
  <2>1. len[l] = Len(rel[l])
    BY <1>6
  <2>2. rel[l] = SubSeq(ps[l], keep + 1, Len(ps[l])) /\ ps[l] \in Seq(1 .. PageCount)
    BY <1>2, <1>3
  <2>3. IsBehind(rel[l], ps[l], keep)
    BY <2>2, BehindFacts
  <2>4. QED
    BY <2>1, <2>3 DEF IsBehind
<1>8. IsSequence(len, n)
  BY <1>2, <1>6 DEF IsSequence
<1>9. Len(len) = n
  BY <1>8, SequenceFacts
<1>10. PICK off : off = Sums(len)
  OBVIOUS
<1>11. IsOffsets(off, len, n)
  BY <1>2, <1>7, <1>9, <1>10, SumsAreOffsets
<1>12. \A l \in 1 .. n : IsSequence(rel[l], len[l])
  BY <1>5, <1>7, SequencesAreSequences
<1>13. PICK flat, size : flat = FlattenSeq(rel) /\ size = Len(f)
  OBVIOUS
<1>14. IsFlat(flat, rel, off, len, n)
  BY <1>4, <1>11, <1>12, <1>13, FlattenFacts
<1>15. IsSequence(flat, off[n]) /\ IsSequence(f, size) /\ size \in Nat
  BY <1>13, <1>14, SequencesAreSequences DEF IsFlat
<1>16. w = f \o flat
  BY <1>1, <1>3, <1>13
<1>17. IsConcat(w, f, flat, size, off[n])
  BY <1>15, <1>16, ConcatFacts
<1>18. IsSequence(w, size + off[n]) /\ off[n] \in Nat
  BY <1>17 DEF IsConcat
<1>19. Len(w) = size + off[n]
  BY <1>18, SequenceFacts
<1>20. ASSUME NEW i \in 1 .. Len(w)
       PROVE  /\ w[i] \in 1 .. PageCount
              /\ (i \in 1 .. size /\ w[i] = f[i]) \/ WasReleased(w, i, size, ps, keep, off, len)
  <2>1. CASE i \in 1 .. size
    <3>1. w[i] = f[i]
      BY <1>17, <2>1 DEF IsConcat
    <3>2. f[i] \in 1 .. PageCount
      BY <1>13, <2>1, ElementOf
    <3>3. QED
      BY <2>1, <3>1, <3>2
  <2>2. CASE i \notin 1 .. size
    <3>1. PICK b : b = off[n]
      OBVIOUS
    <3>2. i - size \in 1 .. b /\ size + (i - size) = i
      BY <1>15, <1>18, <1>19, <2>2, <3>1
    <3>3. PICK k \in 1 .. off[n] : i = size + k
      BY <3>1, <3>2
    <3>4. w[i] = flat[k]
      BY <1>17, <3>3 DEF IsConcat
    <3>5. PICK l \in 1 .. n : \E j \in 1 .. len[l] : k = off[l - 1] + j
      <4>1. k \in 1 .. off[n]
        BY <3>3
      <4>2. QED
        BY ONLY <1>11, <4>1, OffsetsCover
    <3>6. PICK j \in 1 .. len[l] : k = off[l - 1] + j
      BY ONLY <3>5
    <3>7. flat[k] = rel[l][j]
      BY <1>14, <3>6 DEF IsFlat
    <3>8. j \in 1 .. Len(rel[l])
      BY <1>7
    <3>9. keep + j \in 1 .. Len(ps[l]) /\ rel[l][j] = ps[l][keep + j]
      BY <1>5, <3>8
    <3>10. rel[l][j] \in 1 .. PageCount
      <4>1. rel[l] \in Seq(1 .. PageCount)
        BY <1>5
      <4>2. QED
        BY <3>8, <4>1, ElementOf
    <3>11. WasReleased(w, i, size, ps, keep, off, len)
      BY <1>2, <3>3, <3>4, <3>6, <3>7, <3>9 DEF WasReleased
    <3>12. QED
      BY <3>4, <3>7, <3>10, <3>11
  <2>3. QED
    BY <2>1, <2>2
<1>21. w \in Seq(1 .. PageCount)
  <2>1. PICK b : b = Len(w)
    OBVIOUS
  <2>2. IsSequence(w, b) /\ \A i \in 1 .. b : w[i] \in 1 .. PageCount
    BY <1>18, <1>19, <1>20, <2>1
  <2>3. QED
    BY <2>2, SequenceOf
<1>22. IsReleased(w, f, ps, keep, off, len)
  BY <1>13, <1>20 DEF IsReleased
<1>23. QED
  BY <1>21, <1>22

\* Layer l of request r holds `count` tokens behind a truncation, in the first pages.
TruncatedTable(table, count, keep) ==
  [page_ids |-> IF mode.cache = "Paged" THEN Narrow(table.page_ids, 0, keep) ELSE <<>>,
   cached_token_count |-> count]

\* Request r has `count` tokens left, and the pages of these.
IsShortened(d, c, r, count) ==
  /\ d.pools = c.pools
  /\ d.tables \in [Requests -> [Layers -> Table]]
  /\ \A l \in Layers : /\ Count(d, r, l) = count
                       /\ mode.cache = "Paged" =>
                            IsPart(Pages(d, r, l), Pages(c, r, l), 0, PagesFor(count))
  /\ \A q \in Requests, l \in Layers : q # r => d.tables[q][l] = c.tables[q][l]

LEMMA ShortenedFacts ==
  ASSUME mode \in Modes, NEW c, CacheOK(c), NEW r \in Requests, NEW count \in Nat,
         \A l \in Layers : count <= Count(c, r, l), NEW d, d.pools = c.pools,
         d.tables = [c.tables EXCEPT ![r] =
                       [l \in DOMAIN @ |-> TruncatedTable(@[l], count, PagesFor(count))]]
  PROVE  IsShortened(d, c, r, count)
<1>1. c.tables \in [Requests -> [Layers -> Table]]
  BY DEF CacheOK, CacheTypeOK
<1>2. PICK keep : keep = PagesFor(count)
  OBVIOUS
<1>3. keep \in Nat
  BY <1>2, PagesForIsNatural
<1>4. DOMAIN c.tables[r] = Layers
  BY <1>1
<1>5. PICK row : row = [l \in Layers |-> TruncatedTable(c.tables[r][l], count, keep)]
  OBVIOUS
<1>6. d.tables = [c.tables EXCEPT ![r] = row]
  BY <1>1, <1>2, <1>4, <1>5
<1>7. d.tables[r] = row /\ \A q \in Requests : q # r => d.tables[q] = c.tables[q]
  BY <1>1, <1>6
<1>8. ASSUME NEW l \in Layers
      PROVE  /\ row[l] \in Table /\ row[l].cached_token_count = count
             /\ mode.cache = "Paged" => IsPart(row[l].page_ids, Pages(c, r, l), 0, keep)
  <2>1. row[l] = TruncatedTable(c.tables[r][l], count, keep)
    BY <1>5
  <2>2. PICK p, n : p = Pages(c, r, l) /\ n = Count(c, r, l)
    OBVIOUS
  <2>3. p \in Seq(1 .. PageCount) /\ n \in Nat /\ count <= n
    <3>1. c.tables[r][l] \in Table
      BY <1>1
    <3>2. QED
      BY <2>2, <3>1 DEF Table, Pages, Count
  <2>4. CASE mode.cache # "Paged"
    <3>1. row[l] = [page_ids |-> <<>>, cached_token_count |-> count]
      BY <2>1, <2>4 DEF TruncatedTable
    <3>2. <<>> \in Seq(1 .. PageCount)
      OBVIOUS
    <3>3. row[l] \in Table
      BY <3>1, <3>2 DEF Table
    <3>4. QED
      BY <2>4, <3>1, <3>3
  <2>5. CASE mode.cache = "Paged"
    <3>1. Len(p) = PagesFor(n)
      BY <2>2, <2>5 DEF CacheOK, PagesAreApart
    <3>2. keep <= Len(p)
      BY <1>2, <2>3, <3>1, PagesForGrows
    <3>3. PICK u : u = Narrow(p, 0, keep)
      OBVIOUS
    <3>4. IsSequence(p, Len(p)) /\ 0 + keep <= Len(p) /\ 0 \in Nat
      BY <1>3, <2>3, <3>2, SequencesAreSequences
    <3>5. IsPart(u, p, 0, keep)
      BY <1>3, <3>3, <3>4, NarrowFacts
    <3>6. row[l] = [page_ids |-> u, cached_token_count |-> count]
      BY <2>1, <2>2, <2>5, <3>3 DEF TruncatedTable, Pages
    <3>7. u \in Seq(1 .. PageCount)
      <4>1. ASSUME NEW i \in 1 .. keep PROVE u[i] \in 1 .. PageCount
        <5>1. u[i] = p[0 + i] /\ 0 + i = i
          BY <1>3, <3>5 DEF IsPart
        <5>2. i \in 1 .. Len(p)
          <6>1. PICK b : b = Len(p)
            OBVIOUS
          <6>2. b \in Nat /\ keep <= b
            BY <2>3, <3>2, <6>1
          <6>3. QED
            BY <1>3, <6>1, <6>2
        <5>3. p[i] \in 1 .. PageCount
          BY <2>3, <5>2, ElementOf
        <5>4. QED
          BY <5>1, <5>3
      <4>2. IsSequence(u, keep)
        BY <3>5 DEF IsPart
      <4>3. QED
        BY <4>1, <4>2, SequenceOf
    <3>8. row[l] \in Table
      BY <3>6, <3>7 DEF Table
    <3>9. QED
      BY <2>2, <3>5, <3>6, <3>8
  <2>6. QED
    BY <2>4, <2>5
<1>9. d.tables \in [Requests -> [Layers -> Table]]
  <2>1. row \in [Layers -> Table]
    BY <1>5, <1>8
  <2>2. QED
    BY <1>1, <1>6, <2>1
<1>10. QED
  BY <1>2, <1>7, <1>8, <1>9 DEF IsShortened, Count, Pages

\* What is left of the rows.
LEMMA ShortenedHolds ==
  ASSUME mode \in Modes, NEW c, CacheOK(c), NEW r \in Requests, NEW count \in Nat, NEW d,
         IsShortened(d, c, r, count), \A z \in Layers : count <= Count(c, r, z),
         NEW l \in Layers, NEW s
  PROVE  /\ Holds(c, r, l, s, Count(c, r, l)) => Holds(d, r, l, s, count)
         /\ \A q \in Requests : \A n : q # r => (Holds(c, q, l, s, n) => Holds(d, q, l, s, n))
<1>1. ASSUME NEW j \in 1 .. count PROVE Row(d, r, l, j) = Row(c, r, l, j)
  <2>1. CASE mode.cache = "Contiguous"
    BY <2>1 DEF Row, IsShortened
  <2>2. CASE mode.cache # "Contiguous"
    <3>1. mode.cache = "Paged"
      BY <2>2, CacheModes
    <3>2. j \in Nat \ {0} /\ j \in Nat /\ j <= count
      OBVIOUS
    <3>3. PICK k, p, u : k = PagesFor(j) /\ p = Pages(c, r, l) /\ u = Pages(d, r, l)
      OBVIOUS
    <3>4. k \in Nat \ {0} /\ k <= PagesFor(count)
      BY <3>2, <3>3, PlaceOfRow, PagesForGrows
    <3>5. k \in 1 .. PagesFor(count) /\ 0 + k = k
      <4>1. PICK b : b = PagesFor(count)
        OBVIOUS
      <4>2. b \in Nat
        BY <4>1, PagesForIsNatural
      <4>3. QED
        BY <3>4, <4>1, <4>2
    <3>6. u[k] = p[k]
      BY <3>1, <3>3, <3>5 DEF IsShortened, IsPart
    <3>7. d.pools = c.pools
      BY DEF IsShortened
    <3>8. QED
      BY <2>2, <3>3, <3>6, <3>7 DEF Row, PagedRow
  <2>3. QED
    BY <2>1, <2>2
<1>2. ASSUME Holds(c, r, l, s, Count(c, r, l)) PROVE Holds(d, r, l, s, count)
  <2>1. PICK n : n = Count(c, r, l)
    OBVIOUS
  <2>2. n \in Nat /\ count <= n
    BY <2>1, CountsAreNatural
  <2>3. \A j \in 1 .. count : j \in 1 .. n
    BY <2>2
  <2>4. \A j \in 1 .. n : Row(c, r, l, j) = CachedEntry(l, j, State(s, l - 1, j))
    BY <1>2, <2>1 DEF Holds
  <2>5. Count(d, r, l) = count
    BY DEF IsShortened
  <2>6. \A j \in 1 .. count : Row(d, r, l, j) = CachedEntry(l, j, State(s, l - 1, j))
    BY <1>1, <2>3, <2>4
  <2>7. QED
    BY <2>5, <2>6 DEF Holds
<1>3. ASSUME NEW q \in Requests, NEW n, q # r, Holds(c, q, l, s, n) PROVE Holds(d, q, l, s, n)
  <2>1. d.pools = c.pools /\ d.tables[q][l] = c.tables[q][l]
    BY <1>3 DEF IsShortened
  <2>2. Count(d, q, l) = Count(c, q, l) /\ \A j : Row(d, q, l, j) = Row(c, q, l, j)
    BY <2>1 DEF Count, Row, PagedRow, Pages
  <2>3. QED
    BY <1>3, <2>2 DEF Holds
<1>4. QED
  BY <1>2, <1>3

\* A page of a block table behind a truncation was there before.
LEMMA PagesBefore ==
  ASSUME mode.cache = "Paged", NEW c, CacheOK(c), NEW r \in Requests, NEW count \in Nat, NEW d,
         IsShortened(d, c, r, count), \A z \in Layers : count <= Count(c, r, z),
         NEW q \in Requests, NEW l \in Layers, NEW n \in 1 .. Len(Pages(d, q, l))
  PROVE  /\ n \in 1 .. Len(Pages(c, q, l)) /\ Pages(d, q, l)[n] = Pages(c, q, l)[n]
         /\ q = r => n <= PagesFor(count)
<1>1. CASE q # r
  <2>1. Pages(d, q, l) = Pages(c, q, l)
    BY <1>1 DEF IsShortened, Pages
  <2>2. QED
    BY <1>1, <2>1
<1>2. CASE q = r
  <2>1. PICK p, u, keep, b : /\ p = Pages(c, r, l) /\ u = Pages(d, r, l) /\ keep = PagesFor(count)
                             /\ b = Count(c, r, l)
    OBVIOUS
  <2>2. IsPart(u, p, 0, keep)
    BY <2>1 DEF IsShortened
  <2>3. IsSequence(u, keep)
    BY <2>2 DEF IsPart
  <2>4. Len(u) = keep /\ keep \in Nat
    BY <2>3, SequenceFacts
  <2>5. n \in 1 .. keep /\ n <= keep /\ 0 + n = n
    BY <1>2, <2>1, <2>4
  <2>6. u[n] = p[n]
    BY <2>2, <2>5 DEF IsPart
  <2>7. Len(p) = PagesFor(b) /\ b \in Nat /\ count <= b
    BY <2>1, CountsAreNatural DEF CacheOK, PagesAreApart
  <2>8. keep <= Len(p) /\ Len(p) \in Nat
    BY <2>1, <2>7, PagesForGrows, PagesForIsNatural
  <2>9. n \in 1 .. Len(p)
    <3>1. PICK a : a = Len(p)
      OBVIOUS
    <3>2. a \in Nat /\ keep <= a
      BY <2>8, <3>1
    <3>3. n \in 1 .. a
      BY ONLY <2>4, <2>5, <3>2
    <3>4. QED
      BY <3>1, <3>3
  <2>10. QED
    BY <1>2, <2>1, <2>5, <2>6, <2>9
<1>3. QED
  BY <1>1, <1>2

\* The pages stay apart when those behind the kept ones go to the free list.
LEMMA ReleasedPagesAreApart ==
  ASSUME mode.cache = "Paged", NEW c, CacheOK(c), NEW r \in Requests, NEW count \in Nat, NEW d,
         IsShortened(d, c, r, count), \A z \in Layers : count <= Count(c, r, z),
         NEW ps, \A z \in Layers : ps[z] = Pages(c, r, z), NEW off, NEW len,
         IsReleased(d.free, c.free, ps, PagesFor(count), off, len)
  PROVE  PagesAreApart(d)
<1> DEFINE keep == PagesFor(count)
           f == c.free
           w == d.free
<1>1. PagesAreApart(c)
  BY DEF CacheOK
<1>2. keep \in Nat
  BY PagesForIsNatural
<1>3. ASSUME NEW q \in Requests, NEW l \in Layers
      PROVE  Len(Pages(d, q, l)) = PagesFor(Count(d, q, l))
  <2>1. CASE q # r
    <3>1. Pages(d, q, l) = Pages(c, q, l) /\ Count(d, q, l) = Count(c, q, l)
      BY <2>1 DEF IsShortened, Pages, Count
    <3>2. QED
      BY <1>1, <3>1 DEF PagesAreApart
  <2>2. CASE q = r
    <3>1. Count(d, r, l) = count /\ IsSequence(Pages(d, r, l), PagesFor(count))
      BY DEF IsShortened, IsPart
    <3>2. QED
      BY <2>2, <3>1, SequenceFacts
  <2>3. QED
    BY <2>1, <2>2
<1>4. ASSUME NEW ra \in Requests, NEW la \in Layers, NEW rb \in Requests, NEW lb \in Layers,
             NEW n1 \in 1 .. Len(Pages(d, ra, la)), NEW n2 \in 1 .. Len(Pages(d, rb, lb)),
             Pages(d, ra, la)[n1] = Pages(d, rb, lb)[n2]
      PROVE  ra = rb /\ la = lb /\ n1 = n2
  <2>1. n1 \in 1 .. Len(Pages(c, ra, la)) /\ Pages(d, ra, la)[n1] = Pages(c, ra, la)[n1]
    BY PagesBefore
  <2>2. n2 \in 1 .. Len(Pages(c, rb, lb)) /\ Pages(d, rb, lb)[n2] = Pages(c, rb, lb)[n2]
    BY PagesBefore
  <2>3. Pages(c, ra, la)[n1] = Pages(c, rb, lb)[n2]
    BY <1>4, <2>1, <2>2
  <2>4. n1 \in 1 .. Len(Pages(c, ra, la)) /\ n2 \in 1 .. Len(Pages(c, rb, lb)) /\ PagesAreApart(c)
    BY <1>1, <2>1, <2>2
  <2>5. QED
    BY ONLY <2>3, <2>4, ApartPages
<1>5. ASSUME NEW i \in 1 .. Len(w)
      PROVE  \/ i \in 1 .. Len(f) /\ w[i] = f[i]
             \/ \E l \in Layers : \E j \in 1 .. len[l] :
                  /\ i = Len(f) + (off[l - 1] + j) /\ keep + j \in 1 .. Len(Pages(c, r, l))
                  /\ w[i] = Pages(c, r, l)[keep + j]
  <2>1. CASE i \in 1 .. Len(f) /\ w[i] = f[i]
    BY <2>1
  <2>2. CASE WasReleased(w, i, Len(f), ps, keep, off, len)
    <3>1. PICK l \in Layers : \E j \in 1 .. len[l] :
                 /\ i = Len(f) + (off[l - 1] + j) /\ keep + j \in 1 .. Len(ps[l])
                 /\ w[i] = ps[l][keep + j]
      BY <2>2 DEF WasReleased
    <3>2. ps[l] = Pages(c, r, l)
      OBVIOUS
    <3>3. QED
      BY <3>1, <3>2
  <2>3. QED
    BY <2>1, <2>2 DEF IsReleased
<1>6. \A i \in 1 .. Len(f), j \in 1 .. Len(f) : f[i] = f[j] => i = j
  BY <1>1 DEF PagesAreApart
<1>7. \A l \in Layers : \A n \in 1 .. Len(Pages(c, r, l)), i \in 1 .. Len(f) :
        Pages(c, r, l)[n] # f[i]
  BY <1>1 DEF PagesAreApart
<1>8. ASSUME NEW l1 \in Layers, NEW l2 \in Layers, NEW a \in 1 .. Len(Pages(c, r, l1)),
             NEW b \in 1 .. Len(Pages(c, r, l2)), Pages(c, r, l1)[a] = Pages(c, r, l2)[b]
      PROVE  l1 = l2 /\ a = b
  BY <1>1, <1>8 DEF PagesAreApart
<1>9. ASSUME NEW i1 \in 1 .. Len(w), NEW i2 \in 1 .. Len(w), w[i1] = w[i2] PROVE i1 = i2
  <2> DEFINE Stayed(i) == i \in 1 .. Len(f) /\ w[i] = f[i]
             Moved(i) == \E l \in Layers : \E j \in 1 .. len[l] :
                          /\ i = Len(f) + (off[l - 1] + j) /\ keep + j \in 1 .. Len(Pages(c, r, l))
                          /\ w[i] = Pages(c, r, l)[keep + j]
  <2>1. (Stayed(i1) \/ Moved(i1)) /\ (Stayed(i2) \/ Moved(i2))
    BY <1>5
  <2>2. CASE Stayed(i1) /\ Stayed(i2)
    BY <1>6, <1>9, <2>2
  <2>3. CASE Stayed(i1) /\ Moved(i2)
    BY <1>7, <1>9, <2>3
  <2>4. CASE Moved(i1) /\ Stayed(i2)
    BY <1>7, <1>9, <2>4
  <2>5. CASE Moved(i1) /\ Moved(i2)
    <3>1. PICK l1 \in Layers : \E j \in 1 .. len[l1] :
            /\ i1 = Len(f) + (off[l1 - 1] + j) /\ keep + j \in 1 .. Len(Pages(c, r, l1))
            /\ w[i1] = Pages(c, r, l1)[keep + j]
      BY <2>5
    <3>2. PICK j1 \in 1 .. len[l1] :
            /\ i1 = Len(f) + (off[l1 - 1] + j1) /\ keep + j1 \in 1 .. Len(Pages(c, r, l1))
            /\ w[i1] = Pages(c, r, l1)[keep + j1]
      BY <3>1
    <3>3. PICK l2 \in Layers : \E j \in 1 .. len[l2] :
            /\ i2 = Len(f) + (off[l2 - 1] + j) /\ keep + j \in 1 .. Len(Pages(c, r, l2))
            /\ w[i2] = Pages(c, r, l2)[keep + j]
      BY <2>5
    <3>4. PICK j2 \in 1 .. len[l2] :
            /\ i2 = Len(f) + (off[l2 - 1] + j2) /\ keep + j2 \in 1 .. Len(Pages(c, r, l2))
            /\ w[i2] = Pages(c, r, l2)[keep + j2]
      BY <3>3
    <3>5. PICK k1, k2 : k1 = keep + j1 /\ k2 = keep + j2
      OBVIOUS
    <3>6. l1 = l2 /\ k1 = k2
      BY <1>8, <1>9, <3>2, <3>4, <3>5
    <3>7. j1 = j2
      <4> HIDE DEF keep
      <4>1. QED
        BY <1>2, <3>5, <3>6
    <3>8. QED
      BY <3>2, <3>4, <3>6, <3>7
  <2>6. QED
    BY <2>1, <2>2, <2>3, <2>4, <2>5
<1>10. ASSUME NEW q \in Requests, NEW l \in Layers, NEW n \in 1 .. Len(Pages(d, q, l)),
              NEW i \in 1 .. Len(w), Pages(d, q, l)[n] = w[i]
       PROVE  FALSE
  <2>1. /\ n \in 1 .. Len(Pages(c, q, l)) /\ w[i] = Pages(c, q, l)[n]
        /\ q = r => n <= keep
    BY <1>10, PagesBefore
  <2>2. CASE i \in 1 .. Len(f) /\ w[i] = f[i]
    <3>1. n \in 1 .. Len(Pages(c, q, l)) /\ i \in 1 .. Len(c.free)
      BY <2>1, <2>2
    <3>2. Pages(c, q, l)[n] # c.free[i]
      BY <1>1, <3>1, ApartFromFree
    <3>3. w[i] = Pages(c, q, l)[n] /\ w[i] = f[i]
      BY <2>1, <2>2
    <3>4. QED
      BY <3>2, <3>3
  <2>3. CASE \E z \in Layers : \E j \in 1 .. len[z] :
               /\ i = Len(f) + (off[z - 1] + j) /\ keep + j \in 1 .. Len(Pages(c, r, z))
               /\ w[i] = Pages(c, r, z)[keep + j]
    <3>1. PICK z \in Layers : \E j \in 1 .. len[z] :
            keep + j \in 1 .. Len(Pages(c, r, z)) /\ w[i] = Pages(c, r, z)[keep + j]
      BY <2>3
    <3>2. PICK j \in 1 .. len[z] :
            keep + j \in 1 .. Len(Pages(c, r, z)) /\ w[i] = Pages(c, r, z)[keep + j]
      BY <3>1
    <3>3. PICK k : k = keep + j
      OBVIOUS
    <3>4. q = r /\ n = k
      <4>1. k \in 1 .. Len(Pages(c, r, z)) /\ Pages(c, q, l)[n] = Pages(c, r, z)[k]
        BY <2>1, <3>2, <3>3
      <4>2. QED
        BY <1>1, <2>1, <4>1, ApartPages
    <3>5. n <= keep
      BY <2>1, <3>4
    <3>6. QED
      <4> HIDE DEF keep
      <4>1. QED
        BY <1>2, <3>3, <3>4, <3>5
  <2>4. QED
    BY <1>5, <2>2, <2>3
<1>11. QED
  BY <1>3, <1>4, <1>9, <1>10 DEF PagesAreApart

-----------------------------------------------------------------------------
(* Attention is causal *)

\* The inductive invariant: every token that a request was given is cached in every layer, as the
\* terms of its state by the reference.
AttentionInv ==
  /\ mode \in Modes
  /\ ContextTypeOK
  /\ CacheOK(cache)
  /\ IsCacheOf(cache, context)
  /\ AreOutputs(outputs, context)

LEMMA SameCache ==
  ASSUME NEW c, NEW d, d.pools = c.pools, d.free = c.free, d.tables = c.tables, NEW s
  PROVE  /\ CacheOK(c) => CacheOK(d)
         /\ IsCacheOf(c, s) => IsCacheOf(d, s)
<1>1. /\ \A r, l : Pages(d, r, l) = Pages(c, r, l) /\ Count(d, r, l) = Count(c, r, l)
      /\ \A r, l, j : Row(d, r, l, j) = Row(c, r, l, j)
  BY DEF Pages, Count, Row, PagedRow
<1>2. ASSUME CacheOK(c) PROVE CacheOK(d)
  <2>1. CacheTypeOK(d)
    BY <1>2 DEF CacheOK, CacheTypeOK
  <2>2. ASSUME mode.cache = "Paged" PROVE PagesAreApart(d)
    <3>1. PagesAreApart(c)
      BY <1>2, <2>2 DEF CacheOK
    <3>2. QED
      BY <3>1 DEF PagesAreApart, Pages, Count
  <2>3. QED
    BY <2>1, <2>2 DEF CacheOK
<1>3. ASSUME IsCacheOf(c, s) PROVE IsCacheOf(d, s)
  BY <1>1, <1>3 DEF IsCacheOf, Holds
<1>4. QED
  BY <1>2, <1>3

\* What the next state of the cache has to be.
LEMMA NextCache ==
  ASSUME mode' = mode, NEW c, c.pools = pools', c.free = free', c.tables = tables', CacheOK(c),
         IsCacheOf(c, context')
  PROVE  CacheOK(cache)' /\ IsCacheOf(cache, context)'
<1>1. PICK d, s : d = cache' /\ s = context'
  OBVIOUS
<1>2. d.pools = pools' /\ d.free = free' /\ d.tables = tables'
  BY <1>1 DEF cache
<1>3. CacheOK(d) /\ IsCacheOf(d, s)
  BY <1>1, <1>2, SameCache
<1>4. CacheOK(cache)'
  <2>1. CacheTypeOK(cache)'
    BY <1>1, <1>3 DEF CacheOK, CacheTypeOK, PoolPages, PoolSlots
  <2>2. mode.cache = "Paged" => PagesAreApart(cache)'
    BY <1>1, <1>3 DEF CacheOK, PagesAreApart, Pages, Count
  <2>3. QED
    BY <2>1, <2>2 DEF CacheOK
<1>5. IsCacheOf(cache, context)'
  BY <1>1, <1>3 DEF IsCacheOf, Holds, Row, PagedRow, Pages, Count
<1>6. QED
  BY <1>4, <1>5

LEMMA AttentionInitially ==
  ASSUME AttentionInit
  PROVE  AttentionInv
<1>1. /\ mode \in Modes /\ context = [r \in Requests |-> <<>>] /\ outputs = {}
      /\ tables = [r \in Requests |->
                     [l \in Layers |-> [page_ids |-> <<>>, cached_token_count |-> 0]]]
  BY DEF AttentionInit, Layers
<1>2. ContextTypeOK
  BY <1>1 DEF ContextTypeOK
<1>3. \A r \in Requests, l \in Layers : Pages(cache, r, l) = <<>> /\ Count(cache, r, l) = 0
  BY <1>1 DEF cache, Pages, Count
<1>4. cache.tables \in [Requests -> [Layers -> Table]]
  <2>1. [page_ids |-> <<>>, cached_token_count |-> 0] \in Table
    BY DEF Table
  <2>2. cache.tables = tables
    BY DEF cache
  <2>3. QED
    BY <1>1, <2>1, <2>2
<1>5. free = IF mode.cache = "Paged" THEN [n \in 1 .. PageCount |-> PageCount + 1 - n] ELSE <<>>
  BY DEF AttentionInit
<1>6. PageCount \in Nat /\ LayerCount \in Nat /\ cache.free = free /\ cache.pools = pools
  BY AttentionAssumption DEF cache
<1>7. mode.cache = "Paged" =>
        /\ IsSequence(free, PageCount)
        /\ \A n \in 1 .. PageCount : free[n] = PageCount + 1 - n /\ free[n] \in 1 .. PageCount
  BY <1>5, <1>6 DEF IsSequence
<1>8. free \in Seq(1 .. PageCount)
  <2>1. CASE mode.cache = "Paged"
    BY <1>7, <2>1, SequenceOf
  <2>2. CASE mode.cache # "Paged"
    <3>1. free = <<>>
      BY <1>5, <2>2
    <3>2. QED
      BY <3>1
  <2>3. QED
    BY <2>1, <2>2
<1>9. pools = IF mode.cache = "Paged"
              THEN [p \in 1 .. PageCount |-> [s \in 1 .. PageTokenCount |-> Stale]]
              ELSE [l \in 1 .. LayerCount |-> [s \in 1 .. MaxLength |-> Stale]]
  BY DEF AttentionInit
<1>10. DOMAIN pools = 1 .. PoolPages /\ \A p \in 1 .. PoolPages : DOMAIN pools[p] = 1 .. PoolSlots
  <2>1. CASE mode.cache = "Paged"
    BY <1>9, <2>1 DEF PoolPages, PoolSlots
  <2>2. CASE mode.cache # "Paged"
    BY <1>9, <2>2 DEF PoolPages, PoolSlots
  <2>3. QED
    BY <2>1, <2>2
<1>11. CacheTypeOK(cache)
  BY <1>4, <1>6, <1>8, <1>10 DEF CacheTypeOK
<1>12. ASSUME mode.cache = "Paged" PROVE PagesAreApart(cache)
  <2>1. \A r \in Requests, l \in Layers : Len(Pages(cache, r, l)) = PagesFor(Count(cache, r, l))
    BY <1>3, NoPages
  <2>2. Len(free) = PageCount
    BY <1>7, <1>12, SequenceFacts
  <2>3. \A i \in 1 .. Len(free), j \in 1 .. Len(free) : free[i] = free[j] => i = j
    BY <1>6, <1>7, <1>12, <2>2
  <2>4. QED
    BY <1>3, <1>6, <2>1, <2>3 DEF PagesAreApart
<1>13. IsCacheOf(cache, context)
  <2>1. \A r \in Requests : context[r] = <<>> /\ Len(context[r]) = 0
    BY <1>1
  <2>2. QED
    BY <1>3, <2>1 DEF IsCacheOf, Holds
<1>14. QED
  BY <1>1, <1>2, <1>11, <1>12, <1>13 DEF AttentionInv, CacheOK, AreOutputs

\* A pass leaves the cache with the states of all tokens, and gives those of its outputs.
LEMMA PassPreserves ==
  ASSUME AttentionInv, mode' = mode, NEW S, NEW T, S \cap T = {}, NEW given,
         IsGiven(given, S \cup T), Pass(S, T, given)
  PROVE  AttentionInv'
<1>1. PICK t : t = Inputs(S, given) \o Inputs(T, given)
  OBVIOUS
<1>2. PICK xs : xs = Contexts(t)
  OBVIOUS
<1>3. PICK g, v : /\ g = Narrow(xs, 0, Cardinality(S))
                  /\ v = SubSeq(xs, Cardinality(S) + 1, Len(xs))
  OBVIOUS
<1>4. PICK c, s : c = cache /\ s = After(given)
  OBVIOUS
<1>5. PICK result : result = ForwardLayers(c, FlattenSeq([n \in DOMAIN t |-> t[n].input]), xs)
  OBVIOUS
<1>6. PICK logits :
        logits = Project(<<"output", 0>>, PackOutputHiddenStates(result.rows, g, v))
  OBVIOUS
<1>7. /\ HasRoom(xs)
      /\ pools' = result.cache.pools /\ free' = result.cache.free
      /\ tables' = result.cache.tables
      /\ outputs' = CreateForwardOutput(logits, g, v)
  BY <1>1, <1>2, <1>3, <1>4, <1>5, <1>6 DEF Pass
<1>8. context' = s
  BY <1>4 DEF Pass, After
<1>9. c.free = free
  BY <1>4 DEF cache
<1>10. mode \in Modes /\ ContextTypeOK /\ CacheOK(c) /\ IsCacheOf(c, context)
  BY <1>4 DEF AttentionInv
<1>11. /\ CacheOK(result.cache) /\ IsCacheOf(result.cache, s)
       /\ AreOutputs(CreateForwardOutput(logits, g, v), s)
  <2>1. IsPass(S, T, given, c, t, xs, g, v, result, logits)
    BY <1>1, <1>2, <1>3, <1>5, <1>6 DEF IsPass
  <2>2. QED
    BY <1>4, <1>7, <1>9, <1>10, <2>1, PassFacts
<1>12. ContextTypeOK'
  <2>1. MayBeGiven(given, S \cup T)
    BY DEF IsGiven
  <2>2. ASSUME NEW r \in Requests PROVE s[r] \in Seq(Tokens)
    <3>1. context[r] \in Seq(Tokens)
      BY <1>10 DEF ContextTypeOK
    <3>2. CASE r \in DOMAIN given
      <4>1. given[r] \in Seq(Tokens)
        BY <2>1, <3>2 DEF MayBeGiven
      <4>2. s[r] = context[r] \o given[r]
        BY <1>4, <3>2 DEF After
      <4>3. QED
        BY <3>1, <4>1, <4>2
    <3>3. CASE r \notin DOMAIN given
      BY <1>4, <3>1, <3>3 DEF After
    <3>4. QED
      BY <3>2, <3>3
  <2>3. s \in [Requests -> Seq(Tokens)]
    BY <1>4, <2>2 DEF After
  <2>4. QED
    BY <1>8, <2>3 DEF ContextTypeOK
<1>13. CacheOK(cache)' /\ IsCacheOf(cache, context)'
  BY <1>7, <1>8, <1>11, NextCache
<1>14. AreOutputs(outputs, context)'
  BY <1>7, <1>8, <1>11 DEF AreOutputs, State
<1>15. mode' \in Modes
  BY <1>10
<1>16. QED
  BY <1>12, <1>13, <1>14, <1>15 DEF AttentionInv

LEMMA ForwardPreserves ==
  ASSUME AttentionInv, mode' = mode, Forward
  PROVE  AttentionInv'
<1>1. PICK S \in SUBSET Requests, T \in SUBSET Requests :
        \E given \in [S \cup T -> GenerationInputs \cup VerificationInputs] :
          /\ S \cap T = {} /\ MayRun(S \cup T)
          /\ \A r \in DOMAIN given : Len(context[r]) + Len(given[r]) <= MaxLength
          /\ Pass(S, T, given)
  BY DEF Forward
<1>2. PICK given \in [S \cup T -> GenerationInputs \cup VerificationInputs] :
          /\ S \cap T = {} /\ MayRun(S \cup T)
          /\ \A r \in DOMAIN given : Len(context[r]) + Len(given[r]) <= MaxLength
          /\ Pass(S, T, given)
  BY <1>1
<1>3. \A r \in S \cup T : given[r] \in Seq(Tokens) /\ given[r] # <<>>
  BY <1>2, AttentionAssumption
<1>4. DOMAIN given = S \cup T
  BY <1>2
<1>5. IsGiven(given, S \cup T)
  BY <1>1, <1>2, <1>3, <1>4 DEF IsGiven, MayBeGiven
<1>6. QED
  BY <1>2, <1>5, PassPreserves

\* A truncation leaves the cache with the states of the tokens that are left.
LEMMA TruncatePreserves ==
  ASSUME AttentionInv, mode' = mode, Truncate
  PROVE  AttentionInv'
<1> DEFINE Retained(n) == IF n = 0 THEN 0 ELSE ((n - 1) \div PageTokenCount) + 1
<1>1. PICK r \in Requests : \E n \in 0 .. Len(context[r]) - 1 :
        /\ context' = [context EXCEPT ![r] = Narrow(@, 0, n)]
        /\ tables' = [tables EXCEPT ![r] = [l \in DOMAIN @ |->
                        [page_ids |-> IF mode.cache = "Paged"
                                      THEN Narrow(@[l].page_ids, 0, Retained(n)) ELSE <<>>,
                         cached_token_count |-> n]]]
        /\ free' = free \o FlattenSeq([l \in 1 .. LayerCount |->
                     SubSeq(tables[r][l].page_ids, Retained(n) + 1, Len(tables[r][l].page_ids))])
        /\ outputs' = {} /\ pools' = pools
  BY DEF Truncate
<1>2. PICK n \in 0 .. Len(context[r]) - 1 :
        /\ context' = [context EXCEPT ![r] = Narrow(@, 0, n)]
        /\ tables' = [tables EXCEPT ![r] = [l \in DOMAIN @ |->
                        [page_ids |-> IF mode.cache = "Paged"
                                      THEN Narrow(@[l].page_ids, 0, Retained(n)) ELSE <<>>,
                         cached_token_count |-> n]]]
        /\ free' = free \o FlattenSeq([l \in 1 .. LayerCount |->
                     SubSeq(tables[r][l].page_ids, Retained(n) + 1, Len(tables[r][l].page_ids))])
        /\ outputs' = {} /\ pools' = pools
  BY <1>1
<1>3. PICK c, d, a, m, s : /\ c = cache /\ d = cache' /\ a = context[r] /\ m = Len(a)
                           /\ s = Narrow(a, 0, n)
  OBVIOUS
<1>4. mode \in Modes /\ ContextTypeOK /\ CacheOK(c) /\ IsCacheOf(c, context)
  BY <1>3 DEF AttentionInv
<1>5. a \in Seq(Tokens) /\ context \in [Requests -> Seq(Tokens)]
  BY <1>3, <1>4 DEF ContextTypeOK
<1>6. IsSequence(a, m) /\ m \in Nat
  BY <1>3, <1>5, SequencesAreSequences
<1>7. n \in Nat /\ 0 + n <= m /\ n <= m /\ 0 \in Nat
  BY <1>2, <1>3, <1>6
<1>8. IsPart(s, a, 0, n)
  BY <1>3, <1>6, <1>7, NarrowFacts
<1>9. IsSequence(s, n) /\ \A i \in 1 .. n : s[i] = a[i]
  BY <1>7, <1>8 DEF IsPart
<1>10. Retained(n) = PagesFor(n)
  BY <1>7, RetainedPages
<1>11. ASSUME NEW l \in Layers PROVE Count(c, r, l) = m /\ n <= Count(c, r, l)
  BY <1>3, <1>4, <1>7 DEF IsCacheOf, Holds
<1>12. /\ c.pools = pools /\ c.free = free /\ c.tables = tables
       /\ d.pools = pools' /\ d.free = free' /\ d.tables = tables'
  BY <1>3 DEF cache
<1>13. d.tables = [c.tables EXCEPT ![r] =
                     [l \in DOMAIN @ |-> TruncatedTable(@[l], n, PagesFor(n))]]
  BY <1>2, <1>10, <1>12 DEF TruncatedTable
<1>14. d.pools = c.pools
  BY <1>2, <1>12
<1>15. IsShortened(d, c, r, n)
  BY <1>4, <1>7, <1>11, <1>13, <1>14, ShortenedFacts
<1>16. PICK ps : ps = [l \in Layers |-> Pages(c, r, l)]
  OBVIOUS
<1>17. \A l \in Layers : ps[l] = Pages(c, r, l) /\ ps[l] = tables[r][l].page_ids
  BY <1>12, <1>16 DEF Pages
<1>18. c.free \in Seq(1 .. PageCount) /\ c.tables \in [Requests -> [Layers -> Table]]
  BY <1>4 DEF CacheOK, CacheTypeOK
<1>19. \A l \in Layers : ps[l] \in Seq(1 .. PageCount)
  BY <1>12, <1>17, <1>18 DEF Table
<1>20. d.free = c.free \o FlattenSeq([l \in 1 .. LayerCount |->
                              SubSeq(ps[l], PagesFor(n) + 1, Len(ps[l]))])
  <2>1. [l \in 1 .. LayerCount |->
           SubSeq(tables[r][l].page_ids, Retained(n) + 1, Len(tables[r][l].page_ids))]
          = [l \in 1 .. LayerCount |-> SubSeq(ps[l], PagesFor(n) + 1, Len(ps[l]))]
    <3> HIDE DEF Retained
    <3>1. QED
      BY <1>10, <1>17 DEF Layers
  <2>2. QED
    BY <1>2, <1>12, <2>1
<1>21. PagesFor(n) \in Nat
  BY <1>7, PagesForIsNatural
<1>22. d.free \in Seq(1 .. PageCount)
       /\ \E off, len : IsReleased(d.free, c.free, ps, PagesFor(n), off, len)
  BY <1>18, <1>19, <1>20, <1>21, ReleasedFacts
<1>23. CacheTypeOK(d)
  <2>1. CacheTypeOK(c)
    BY <1>4 DEF CacheOK
  <2>2. QED
    BY <1>14, <1>15, <1>22, <2>1 DEF CacheTypeOK, IsShortened
<1>24. ASSUME mode.cache = "Paged" PROVE PagesAreApart(d)
  <2>1. PICK off, len : IsReleased(d.free, c.free, ps, PagesFor(n), off, len)
    BY <1>22
  <2>2. \A z \in Layers : n <= Count(c, r, z)
    BY <1>11
  <2>3. \A z \in Layers : ps[z] = Pages(c, r, z)
    BY <1>17
  <2>4. QED
    BY <1>4, <1>7, <1>15, <1>24, <2>1, <2>2, <2>3, ReleasedPagesAreApart
<1>25. CacheOK(d)
  BY <1>23, <1>24 DEF CacheOK
<1>26. context' \in [Requests -> Seq(Tokens)]
  <2>1. ASSUME NEW i \in 1 .. n PROVE s[i] \in Tokens
    <3>1. i \in 1 .. Len(a)
      BY <1>3, <1>6, <1>7
    <3>2. a[i] \in Tokens
      BY <1>5, <3>1, ElementOf
    <3>3. QED
      BY <1>9, <3>2
  <2>2. s \in Seq(Tokens)
    BY <1>9, <2>1, SequenceOf
  <2>3. QED
    BY <1>2, <1>3, <1>5, <2>2
<1>27. context'[r] = s /\ Len(s) = n /\ \A q \in Requests : q # r => context'[q] = context[q]
  BY <1>2, <1>3, <1>5, <1>9, SequenceFacts
<1>28. ASSUME NEW q \in Requests, NEW z \in Layers
       PROVE  Holds(d, q, z, context'[q], Len(context'[q]))
  <2>1. \A l \in Layers : n <= Count(c, r, l)
    BY <1>11
  <2>2. CASE q = r
    <3>1. Holds(c, r, z, a, Count(c, r, z))
      BY <1>3, <1>4, <1>11 DEF IsCacheOf
    <3>2. Holds(d, r, z, a, n)
      BY <1>4, <1>7, <1>15, <2>1, <3>1, ShortenedHolds
    <3>3. Holds(d, r, z, s, n)
      BY <1>6, <1>7, <1>9, <3>2, HoldsOfAgreeing
    <3>4. QED
      BY <1>27, <2>2, <3>3
  <2>3. CASE q # r
    <3>1. Holds(c, q, z, context[q], Len(context[q]))
      BY <1>4 DEF IsCacheOf
    <3>2. Holds(d, q, z, context[q], Len(context[q]))
      BY <1>4, <1>7, <1>15, <2>1, <2>3, <3>1, ShortenedHolds
    <3>3. QED
      BY <1>27, <2>3, <3>2
  <2>4. QED
    BY <2>2, <2>3
<1>29. IsCacheOf(d, context')
  BY <1>28 DEF IsCacheOf
<1>30. CacheOK(cache)' /\ IsCacheOf(cache, context)'
  BY <1>12, <1>25, <1>29, NextCache
<1>31. AreOutputs(outputs, context)'
  BY <1>2 DEF AreOutputs
<1>32. QED
  BY <1>4, <1>26, <1>30, <1>31 DEF AttentionInv, ContextTypeOK

\* A call of the model, and any computation of another kind.
THEOREM AttentionInvIsInductive ==
  AttentionInv /\ [Next]_<<attentionVars, input>> => AttentionInv'
<1> SUFFICES ASSUME AttentionInv, [Next]_<<attentionVars, input>> PROVE AttentionInv'
  OBVIOUS
<1>1. CASE AttentionNext
  <2>1. mode' = mode /\ (Forward \/ Truncate)
    BY <1>1 DEF AttentionNext
  <2>2. QED
    BY <2>1, ForwardPreserves, TruncatePreserves
<1>2. CASE UNCHANGED attentionVars
  <2>1. /\ mode' = mode /\ context' = context /\ pools' = pools /\ free' = free
        /\ tables' = tables /\ outputs' = outputs
    BY <1>2 DEF attentionVars
  <2>2. PICK c : c = cache
    OBVIOUS
  <2>3. /\ c.pools = pools' /\ c.free = free' /\ c.tables = tables' /\ CacheOK(c)
        /\ IsCacheOf(c, context')
    BY <2>1, <2>2 DEF AttentionInv, cache
  <2>4. CacheOK(cache)' /\ IsCacheOf(cache, context)'
    BY <2>1, <2>3, NextCache
  <2>5. QED
    BY <2>1, <2>4 DEF AttentionInv, ContextTypeOK, AreOutputs, State
<1>3. QED
  BY <1>1, <1>2 DEF Next, Compute

\* Every row of logits that a pass returns is the one of its request and position, computed from
\* that request's tokens up to there: whatever the batches, the prefill chunks, the truncations,
\* the pages and the kernels were.
THEOREM AttentionIsAlwaysCausal == Spec => []AttentionIsCausal
<1>1. Init => AttentionInv
  BY AttentionInitially DEF Init
<1>2. AttentionInv /\ [Next]_<<attentionVars, input>> => AttentionInv'
  BY AttentionInvIsInductive
<1>3. AttentionInv => AttentionIsCausal
  BY DEF AttentionInv, AreOutputs, AttentionIsCausal, State
<1>4. QED
  BY <1>1, <1>2, <1>3, PTL DEF Spec
=============================================================================
