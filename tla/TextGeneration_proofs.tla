---------------------- MODULE TextGeneration_proofs ----------------------
(***************************************************************************)
(* The invariants of text generation for every number of requests, every   *)
(* prompt and output limit, every vocabulary and every draft model.        *)
(*                                                                         *)
(* Everything a request's caches may hold is a cut, a beginning, of the    *)
(* tokens committed so far followed by the draft model's proposals; where  *)
(* the cut is follows from the phase and from the step under way. A cut    *)
(* does not see the tokens behind it, so cutting a cache back to the       *)
(* verified tokens leaves a cut of what is then committed (CutExchanged).  *)
(* That is the inductive part for the caches and for the reservation.      *)
(*                                                                         *)
(* For the output, a greedy request has committed the beginning of the     *)
(* target model's own answer, its reference. That the proposals accepted   *)
(* by the verification are the reference's is shown without induction: of  *)
(* the accepted tokens that differ from it there would be a first          *)
(* (LeastElement), before which everything agrees, and that one the target *)
(* would have chosen itself.                                               *)
(***************************************************************************)
EXTENDS TextGeneration, SequenceTheorems, FiniteSetTheorems, WellFoundedInduction, TLAPS

\* c is what remains of s when everything after its first n elements is cut off.
IsCut(c, s, n) == n \in 0 .. Len(s) /\ c = SubSeq(s, 1, n)

LEMMA CutShape ==
  ASSUME NEW S, NEW s \in Seq(S), NEW c, NEW n, IsCut(c, s, n)
  PROVE  /\ n \in Nat /\ n <= Len(s) /\ c \in Seq(S) /\ Len(c) = n
         /\ \A i \in 1 .. n : c[i] = s[i]
<1>1. n \in Int /\ n \in Nat /\ n <= Len(s) /\ c = SubSeq(s, 1, n) /\ Len(s) \in Nat
  BY DEF IsCut
<1>2. \A i \in 1 .. n : s[i] \in S
  BY <1>1, ElementOfSeq
<1>3. QED
  BY <1>1, <1>2, SubSeqProperties

\* The elements tell a cut.
LEMMA CutByElements ==
  ASSUME NEW S, NEW s \in Seq(S), NEW c \in Seq(S), Len(c) <= Len(s),
         \A i \in 1 .. Len(c) : c[i] = s[i]
  PROVE  IsCut(c, s, Len(c))
<1>1. Len(c) \in 0 .. Len(s)
  OBVIOUS
<1>2. IsCut(SubSeq(s, 1, Len(c)), s, Len(c))
  BY <1>1 DEF IsCut
<1>3. c = SubSeq(s, 1, Len(c))
  BY <1>2, CutShape, SeqEqual
<1>4. QED
  BY <1>1, <1>3 DEF IsCut

\* A cut that is continued where it ends.
LEMMA CutExtended ==
  ASSUME NEW S, NEW s \in Seq(S), NEW c, NEW a, IsCut(c, s, a), NEW b \in 0 .. Len(s)
  PROVE  IsCut(c \o SubSeq(s, a + 1, b), s, Larger(a, b))
<1>1. a \in Nat /\ a <= Len(s) /\ c \in Seq(S) /\ Len(c) = a /\ \A i \in 1 .. a : c[i] = s[i]
  BY CutShape
<1>2. Len(s) \in Nat /\ \A i \in 1 .. Len(s) : s[i] \in S
  BY ElementOfSeq
<1> DEFINE d == SubSeq(s, a + 1, b)
<1>3. /\ d \in Seq(S)
      /\ Len(d) = IF a + 1 <= b THEN b - a ELSE 0
      /\ \A i \in 1 .. b - a : d[i] = s[a + i]
  <2>1. \A i \in a + 1 .. b : s[i] \in S
    BY <1>1, <1>2
  <2>2. /\ d \in Seq(S)
        /\ Len(d) = IF a + 1 <= b THEN b - (a + 1) + 1 ELSE 0
        /\ \A i \in 1 .. b - (a + 1) + 1 : d[i] = s[(a + 1) + i - 1]
    BY <1>1, <2>1, SubSeqProperties
  <2> HIDE DEF d
  <2>3. QED
    BY <1>1, <2>2
<1> HIDE DEF d
<1>4. /\ c \o d \in Seq(S) /\ Len(c \o d) = Len(c) + Len(d)
      /\ \A i \in 1 .. Len(c) + Len(d) : (c \o d)[i] = IF i <= Len(c) THEN c[i] ELSE d[i - Len(c)]
  BY <1>1, <1>3, ConcatProperties
<1>5. Len(c \o d) = Larger(a, b) /\ Larger(a, b) <= Len(s)
  BY <1>1, <1>2, <1>3, <1>4 DEF Larger
<1>6. \A i \in 1 .. Len(c \o d) : (c \o d)[i] = s[i]
  <2> TAKE i \in 1 .. Len(c \o d)
  <2>1. CASE i <= a
    BY <2>1, <1>1, <1>3, <1>4
  <2>2. CASE ~ (i <= a)
    <3>1. (c \o d)[i] = d[i - a] /\ i - a \in 1 .. b - a
      BY <2>2, <1>1, <1>3, <1>4
    <3>2. QED
      BY <3>1, <1>1, <1>3
  <2>3. QED
    BY <2>1, <2>2
<1>7. QED
  BY <1>4, <1>5, <1>6, CutByElements DEF d

\* A cut of s is a cut of whatever s is continued to.
LEMMA CutOfConcat ==
  ASSUME NEW S, NEW s \in Seq(S), NEW t \in Seq(S), NEW c, NEW n
  PROVE  /\ IsCut(c, s, n) => IsCut(c, s \o t, n)
         /\ IsCut(c, s \o t, n) /\ n <= Len(s) => IsCut(c, s, n)
<1>1. /\ s \o t \in Seq(S) /\ Len(s \o t) = Len(s) + Len(t) /\ Len(s) \in Nat /\ Len(t) \in Nat
      /\ \A i \in 1 .. Len(s) : (s \o t)[i] = s[i]
  BY ConcatProperties
<1>2. ASSUME IsCut(c, s, n) PROVE IsCut(c, s \o t, n)
  <2>1. n \in Nat /\ n <= Len(s) /\ c \in Seq(S) /\ Len(c) = n /\ \A i \in 1 .. n : c[i] = s[i]
    BY <1>2, CutShape
  <2>2. Len(c) <= Len(s \o t) /\ \A i \in 1 .. Len(c) : c[i] = (s \o t)[i]
    BY <1>1, <2>1
  <2>3. IsCut(c, s \o t, Len(c))
    BY <1>1, <2>1, <2>2, CutByElements
  <2>4. QED
    BY <2>1, <2>3
<1>3. ASSUME IsCut(c, s \o t, n), n <= Len(s) PROVE IsCut(c, s, n)
  <2> DEFINE u == s \o t
  <2>0. u \in Seq(S) /\ IsCut(c, u, n)
    BY <1>1, <1>3
  <2> HIDE DEF u
  <2>1. n \in Nat /\ c \in Seq(S) /\ Len(c) = n /\ \A i \in 1 .. n : c[i] = u[i]
    BY <2>0, CutShape
  <2>2. Len(c) <= Len(s) /\ \A i \in 1 .. Len(c) : c[i] = s[i]
    BY <1>1, <1>3, <2>1 DEF u
  <2>3. IsCut(c, s, Len(c))
    BY <2>1, <2>2, CutByElements
  <2>4. QED
    BY <2>1, <2>3
<1>4. QED
  BY <1>2, <1>3

LEMMA CutOfCut ==
  ASSUME NEW S, NEW s \in Seq(S), NEW c, NEW a, IsCut(c, s, a), NEW b \in 0 .. a
  PROVE  IsCut(SubSeq(c, 1, b), s, b)
<1>1. a \in Nat /\ a <= Len(s) /\ c \in Seq(S) /\ Len(c) = a /\ \A i \in 1 .. a : c[i] = s[i]
  BY CutShape
<1>2. IsCut(SubSeq(c, 1, b), c, b)
  BY <1>1 DEF IsCut
<1>3. /\ b \in Nat /\ SubSeq(c, 1, b) \in Seq(S) /\ Len(SubSeq(c, 1, b)) = b
      /\ \A i \in 1 .. b : SubSeq(c, 1, b)[i] = c[i]
  BY <1>1, <1>2, CutShape
<1>4. /\ Len(SubSeq(c, 1, b)) <= Len(s)
      /\ \A i \in 1 .. Len(SubSeq(c, 1, b)) : SubSeq(c, 1, b)[i] = s[i]
  BY <1>1, <1>3
<1>5. IsCut(SubSeq(c, 1, b), s, Len(SubSeq(c, 1, b)))
  BY <1>3, <1>4, CutByElements
<1>6. QED
  BY <1>3, <1>5

LEMMA CutIsBeginning ==
  ASSUME NEW S, NEW s \in Seq(S), NEW c, NEW n, IsCut(c, s, n)
  PROVE  BeginsWith(s, c)
BY CutShape DEF IsCut, BeginsWith

\* Two cuts of one sequence at the same place.
LEMMA CutsAgree ==
  ASSUME NEW s, NEW c, NEW d, NEW n, IsCut(c, s, n), IsCut(d, s, n)
  PROVE  c = d
BY DEF IsCut

\* A cut sees nothing of what two continuations differ in.
LEMMA CutExchanged ==
  ASSUME NEW S, NEW s \in Seq(S), NEW p \in Seq(S), NEW q \in Seq(S), NEW c, NEW n,
         NEW k \in Nat, k <= Len(p), k <= Len(q), \A i \in 1 .. k : p[i] = q[i],
         IsCut(c, s \o p, n), n <= Len(s) + k
  PROVE  IsCut(c, s \o q, n)
<1> DEFINE u == s \o p
           v == s \o q
<1>1. /\ u \in Seq(S) /\ Len(u) = Len(s) + Len(p) /\ Len(s) \in Nat /\ Len(p) \in Nat
      /\ \A i \in 1 .. Len(s) + Len(p) : u[i] = IF i <= Len(s) THEN s[i] ELSE p[i - Len(s)]
  BY ConcatProperties
<1>2. /\ v \in Seq(S) /\ Len(v) = Len(s) + Len(q) /\ Len(q) \in Nat
      /\ \A i \in 1 .. Len(s) + Len(q) : v[i] = IF i <= Len(s) THEN s[i] ELSE q[i - Len(s)]
  BY ConcatProperties
<1>3. IsCut(c, u, n)
  OBVIOUS
<1> HIDE DEF u, v
<1>4. n \in Nat /\ c \in Seq(S) /\ Len(c) = n /\ \A i \in 1 .. n : c[i] = u[i]
  BY <1>1, <1>3, CutShape
<1>5. \A i \in 1 .. Len(c) : c[i] = v[i]
  <2> TAKE i \in 1 .. Len(c)
  <2>1. CASE i <= Len(s)
    <3>1. i \in 1 .. Len(s) + Len(p) /\ i \in 1 .. Len(s) + Len(q) /\ i \in 1 .. n
      BY <2>1, <1>1, <1>2, <1>4
    <3>2. u[i] = s[i] /\ v[i] = s[i] /\ c[i] = u[i]
      BY <2>1, <3>1, <1>1, <1>2, <1>4
    <3>3. QED
      BY <3>2
  <2>2. CASE ~ (i <= Len(s))
    <3>1. i - Len(s) \in 1 .. k /\ i \in 1 .. Len(s) + Len(p) /\ i \in 1 .. Len(s) + Len(q)
      BY <2>2, <1>1, <1>2, <1>4
    <3>2. p[i - Len(s)] = q[i - Len(s)]
      BY <3>1
    <3>3. QED
      BY <2>2, <3>1, <3>2, <1>1, <1>2, <1>4
  <2>3. QED
    BY <2>1, <2>2
<1>6. IsCut(c, v, Len(c))
  <2>1. Len(c) <= Len(v)
    BY <1>1, <1>2, <1>4
  <2>2. QED
    BY <2>1, <1>2, <1>4, <1>5, CutByElements
<1>7. QED
  BY <1>4, <1>6 DEF v

\* All but the last element, and then the last.
LEMMA CutCompleted ==
  ASSUME NEW S, NEW s \in Seq(S), s # <<>>, NEW c, IsCut(c, s, Len(s) - 1)
  PROVE  /\ c \o <<LastToken(s)>> = s
         /\ IsCut(s, s, Len(s))
<1> DEFINE n == Len(s)
<1>1. n \in Nat /\ n \in 1 .. Len(s) /\ 1 \in 1 .. Len(s) /\ n \in 1 .. Len(s)
  BY EmptySeq
<1> HIDE DEF n
<1>2. SubSeq(s, 1, n) = SubSeq(s, 1, n - 1) \o <<s[n]>>
  BY <1>1, SubSeqRecursiveSecond
<1>3. SubSeq(s, 1, n) = s
  BY SubSeqFull DEF n
<1>4. c = SubSeq(s, 1, n - 1) /\ LastToken(s) = s[n]
  BY DEF IsCut, LastToken, n
<1>5. IsCut(s, s, n)
  BY <1>1, <1>3 DEF IsCut
<1>6. QED
  BY <1>2, <1>3, <1>4, <1>5 DEF n

\* A cut of what follows s, with s before it.
LEMMA CutOfSecond ==
  ASSUME NEW S, NEW s \in Seq(S), NEW p \in Seq(S), NEW q, NEW k, IsCut(q, p, k)
  PROVE  IsCut(s \o q, s \o p, Len(s) + k)
<1>1. /\ k \in Nat /\ k <= Len(p) /\ q \in Seq(S) /\ Len(q) = k
      /\ \A i \in 1 .. k : q[i] = p[i]
  BY CutShape
<1>2. IsCut(s \o q, s \o q, Len(s) + Len(q))
  <2> DEFINE u == s \o q
  <2>1. u \in Seq(S) /\ Len(u) = Len(s) + Len(q)
    BY <1>1, ConcatProperties
  <2> HIDE DEF u
  <2>2. SubSeq(u, 1, Len(u)) = u /\ Len(u) \in Nat
    BY <2>1, SubSeqFull, LenProperties
  <2>3. IsCut(u, u, Len(u))
    BY <2>2 DEF IsCut
  <2>4. QED
    BY <2>1, <2>3 DEF u
<1>3. Len(s) + Len(q) <= Len(s) + k /\ k <= Len(q)
  BY <1>1, LenProperties
<1>4. \A i \in 1 .. k : q[i] = p[i]
  BY <1>1
<1>5. IsCut(s \o q, s \o p, Len(s) + Len(q))
  BY <1>1, <1>2, <1>3, CutExchanged
<1>6. QED
  BY <1>1, <1>5

\* What the target model is fed in a decode leaves it one token behind the proposal.
LEMMA CutVerified ==
  ASSUME NEW S, NEW s \in Seq(S), s # <<>>, NEW p \in Seq(S), NEW c, IsCut(c, s, Len(s) - 1)
  PROVE  IsCut(c \o (<<LastToken(s)>> \o SubSeq(p, 1, Len(p) - 1)), s \o p,
               IF p = <<>> THEN Len(s) ELSE Len(s) + Len(p) - 1)
<1> DEFINE q == SubSeq(p, 1, Len(p) - 1)
           last == <<LastToken(s)>>
<1>1. c \in Seq(S) /\ last \in Seq(S) /\ Len(s) \in Nat /\ Len(p) \in Nat
  <2>1. Len(s) \in 1 .. Len(s)
    BY EmptySeq
  <2>2. s[Len(s)] \in S
    BY <2>1, ElementOfSeq
  <2>3. QED
    BY <2>2, CutShape DEF LastToken
<1>2. q \in Seq(S) /\ Len(q) = (IF p = <<>> THEN 0 ELSE Len(p) - 1)
      /\ \A i \in 1 .. Len(q) : q[i] = p[i]
  <2>1. CASE p = <<>>
    <3>1. q = <<>>
      BY <2>1, EmptySeq, SubSeqEmpty
    <3>2. QED
      BY <2>1, <3>1, EmptySeq
  <2>2. CASE p # <<>>
    <3> DEFINE n == Len(p) - 1
    <3>1. IsCut(q, p, n) /\ n = Len(p) - 1
      BY <2>2, EmptySeq DEF IsCut
    <3> HIDE DEF n, q
    <3>2. q \in Seq(S) /\ Len(q) = n /\ \A i \in 1 .. n : q[i] = p[i]
      BY <3>1, CutShape
    <3>3. QED
      BY <2>2, <3>1, <3>2
  <2>3. QED
    BY <2>1, <2>2
<1> HIDE DEF q
<1>3. c \o (last \o q) = s \o q
  <2>1. c \o (last \o q) = (c \o last) \o q
    <3>1. \A t, u, v \in Seq(S) : (t \o u) \o v = t \o (u \o v)
      BY ConcatAssociative, SMTT(60)
    <3> HIDE DEF last
    <3>2. QED
      BY <1>1, <1>2, <3>1, SMTT(60)
  <2>2. c \o last = s
    BY CutCompleted
  <2>3. QED
    BY <2>1, <2>2
<1>4. IsCut(q, p, Len(q))
  BY <1>1, <1>2, EmptySeq, CutByElements
<1>5. IsCut(s \o q, s \o p, Len(s) + Len(q))
  BY <1>4, CutOfSecond
<1>6. Len(s) + Len(q) = IF p = <<>> THEN Len(s) ELSE Len(s) + Len(p) - 1
  BY <1>1, <1>2
<1>7. QED
  BY <1>3, <1>5, <1>6 DEF q

\* The draft model is fed the last token of the context, then proposes the next.
LEMMA CutProposed ==
  ASSUME NEW S, NEW s \in Seq(S), s # <<>>, NEW p \in Seq(S), NEW e \in S, NEW c,
         IsCut(c, s \o p, Len(s) + Len(p) - 1)
  PROVE  IsCut(c \o <<LastToken(s \o p)>>, s \o Append(p, e), Len(s) + Len(p))
<1> DEFINE u == s \o p
<1>1. u \in Seq(S) /\ Len(u) = Len(s) + Len(p) /\ u # <<>>
  BY ConcatProperties, EmptySeq
<1>2. IsCut(c, u, Len(u) - 1)
  BY <1>1
<1>3. s \o Append(p, e) = u \o <<e>>
  <2>1. Append(p, e) = p \o <<e>> /\ <<e>> \in Seq(S)
    BY AppendIsConcat
  <2>2. QED
    BY <2>1, ConcatAssociative
<1>4. LastToken(s \o p) = LastToken(u)
  OBVIOUS
<1> HIDE DEF u
<1>5. c \o <<LastToken(u)>> = u /\ IsCut(u, u, Len(u))
  BY <1>1, <1>2, CutCompleted
<1>6. <<e>> \in Seq(S)
  OBVIOUS
<1>7. IsCut(u, u \o <<e>>, Len(u))
  BY <1>1, <1>5, <1>6, CutOfConcat
<1>8. QED
  BY <1>1, <1>3, <1>4, <1>5, <1>7

-----------------------------------------------------------------------------
(* What is committed *)

\* A selection whose tokens, but perhaps the last, do not end the sequence.
IsSelection(s) ==
  /\ s \in Seq(Tokens) /\ s # <<>>
  /\ \A i \in 1 .. Len(s) - 1 : s[i] \notin EndOfSequenceTokens

LEMMA CommittedOfSelection ==
  ASSUME NEW s, IsSelection(s)
  PROVE  /\ BeforeEndOfSequence(s) \in Seq(Tokens)
         /\ s[Len(s)] \in EndOfSequenceTokens <=> BeforeEndOfSequence(s) # s
         /\ Len(BeforeEndOfSequence(s)) =
              IF s[Len(s)] \in EndOfSequenceTokens THEN Len(s) - 1 ELSE Len(s)
         /\ \A i \in 1 .. Len(BeforeEndOfSequence(s)) :
              /\ BeforeEndOfSequence(s)[i] = s[i]
              /\ s[i] \notin EndOfSequenceTokens
<1> DEFINE n == IF s[Len(s)] \in EndOfSequenceTokens THEN Len(s) - 1 ELSE Len(s)
           before == {i \in DOMAIN s : \A j \in 1 .. i : s[j] \notin EndOfSequenceTokens}
<1>1. s \in Seq(Tokens) /\ Len(s) \in Nat \ {0} /\ DOMAIN s = 1 .. Len(s)
  BY EmptySeq, LenProperties DEF IsSelection
<1>2. n \in 0 .. Len(s) /\ \A i \in 1 .. n : s[i] \notin EndOfSequenceTokens
  BY <1>1 DEF IsSelection
<1>3. before = 1 .. n
  <2>1. ASSUME NEW i \in 1 .. n PROVE i \in before
    BY <1>1, <1>2, <2>1
  <2>2. ASSUME NEW i \in before PROVE i \in 1 .. n
    <3>1. i \in 1 .. Len(s) /\ \A j \in 1 .. i : s[j] \notin EndOfSequenceTokens
      BY <1>1
    <3>2. i = Len(s) => s[Len(s)] \notin EndOfSequenceTokens
      BY <3>1
    <3>3. QED
      BY <1>1, <3>1, <3>2
  <2>3. QED
    BY <2>1, <2>2
<1>4. Cardinality(before) = n
  <2> HIDE DEF n, before
  <2>1. n \in Int /\ n >= 0
    BY <1>1, <1>2
  <2>2. Cardinality(1 .. n) = n
    BY <2>1, FS_Interval
  <2>3. QED
    BY <2>2, <1>3
<1>5. BeforeEndOfSequence(s) = SubSeq(s, 1, n)
  BY <1>4 DEF BeforeEndOfSequence
<1> HIDE DEF before, n
<1>6. IsCut(BeforeEndOfSequence(s), s, n)
  BY <1>2, <1>5 DEF IsCut
<1>7. /\ BeforeEndOfSequence(s) \in Seq(Tokens) /\ Len(BeforeEndOfSequence(s)) = n
      /\ \A i \in 1 .. n : BeforeEndOfSequence(s)[i] = s[i]
  BY <1>1, <1>6, CutShape
<1>8. ASSUME n = Len(s) PROVE BeforeEndOfSequence(s) = s
  BY <1>1, <1>5, <1>8, SubSeqFull
<1>9. CASE s[Len(s)] \in EndOfSequenceTokens
  <2>1. n = Len(s) - 1
    BY <1>9 DEF n
  <2>2. BeforeEndOfSequence(s) # s
    BY <2>1, <1>1, <1>7
  <2>3. QED
    BY <2>1, <2>2, <1>2, <1>7, <1>9
<1>10. CASE s[Len(s)] \notin EndOfSequenceTokens
  <2>1. n = Len(s)
    BY <1>10 DEF n
  <2>2. QED
    BY <2>1, <1>2, <1>7, <1>8, <1>10
<1>11. QED
  BY <1>9, <1>10

-----------------------------------------------------------------------------
(* The inductive invariant *)

\* The target model alone has an answer of full length for every greedy request.
ReferenceOK ==
  \A r \in GreedyRequests :
    reference[r] \in Seq(Tokens) /\ Len(reference[r]) = MaxNewTokenCount[r]

\* The batch is complete until its target forward, and gone between steps.
StepInv ==
  /\ step = "Idle" => batch = {}
  /\ step \in {"DraftPrefill", "Drafting"} => pending = batch
  /\ step = "DraftPrefill" => speculative

\* The phase agrees with the committed tokens, whatever became of the request.
ProgressInv(r) ==
  /\ Len(tokens[r]) >= InputTokenCount(r)
  /\ stage[r] = "New" => Phase(r) = "Prefill"
  /\ Phase(r) = "Prefill" => tokens[r] = InputTokens[r]
  /\ Phase(r) = "Decode" => /\ Len(tokens[r]) = InputTokenCount(r) + generation_phase[r][2]
                            /\ generation_phase[r][2] < MaxNewTokenCount[r]
  /\ Phase(r) = "EndOfSequenceToken" =>
       Len(tokens[r]) < InputTokenCount(r) + MaxNewTokenCount[r]
  /\ Phase(r) = "MaxNewTokensReached" =>
       Len(tokens[r]) = InputTokenCount(r) + MaxNewTokenCount[r]

\* The remaining tokens of a prefill are those of the model that is behind.
PrefillInv(r) ==
  stage[r] = "Executing" /\ Phase(r) = "Prefill" =>
    /\ target_position[r] <= PrefillEnd(r)
    /\ draft_position[r] <= PrefillEnd(r)
    /\ ~speculative => draft_position[r] = 0
    /\ generation_phase[r][2] > 0
    /\ generation_phase[r][2] = PrefillEnd(r) - PrefillPosition(r)

\* Only a verification that is under way has a proposal, and it fits the output limit.
ProposalInv(r) ==
  /\ r \in pending => token_budget[r] > 0
  /\ proposals[r] # <<>> =>
       r \in pending /\ Verifies(r) /\ step \in {"Drafting", "Completing"}
  /\ step = "Completing" /\ r \in pending /\ Verifies(r) => proposals[r] # <<>>
  /\ Phase(r) = "Decode" => generation_phase[r][2] + Len(proposals[r]) <= MaxNewTokenCount[r]

\* How much of its committed and proposed tokens each model of a request has cached.
Context(r) == tokens[r] \o proposals[r]

TargetLength(r) ==
  IF step = "Completing" /\ r \in pending
  THEN IF Phase(r) = "Prefill" THEN Larger(target_position[r], ChunkEnd(r))
       ELSE IF speculative THEN Len(tokens[r]) + Len(proposals[r]) - 1 ELSE Len(tokens[r])
  ELSE IF Phase(r) = "Prefill" THEN target_position[r] ELSE Len(tokens[r]) - 1

DraftLength(r) ==
  IF ~speculative THEN 0
  ELSE IF Phase(r) = "Prefill"
  THEN IF step \in {"Drafting", "Completing"} /\ r \in pending
       THEN Larger(draft_position[r], ChunkEnd(r)) ELSE draft_position[r]
  ELSE Len(tokens[r]) + Len(proposals[r]) - 1

CacheBound(r) == InputTokenCount(r) + MaxNewTokenCount[r] - 1

\* A cache holds the beginning of what was committed and proposed, to that very place.
CachesInv(r) ==
  /\ stage[r] # "Executing" => target_cache[r] = <<>> /\ draft_cache[r] = <<>>
  /\ stage[r] = "Executing" /\ Phase(r) \notin Finished =>
       /\ IsCut(target_cache[r], Context(r), TargetLength(r))
       /\ IsCut(draft_cache[r], Context(r), DraftLength(r))
  /\ stage[r] = "Executing" /\ Phase(r) \in Finished =>
       /\ BeginsWith(tokens[r], target_cache[r]) /\ Len(target_cache[r]) <= CacheBound(r)
       /\ BeginsWith(tokens[r], draft_cache[r]) /\ Len(draft_cache[r]) <= CacheBound(r)

\* A greedy request has committed the beginning of its reference, none of which ends the output.
ReferenceInv(r) ==
  LET count == Len(tokens[r]) - InputTokenCount(r)
  IN  r \in GreedyRequests =>
        /\ tokens[r] = InputTokens[r] \o SubSeq(reference[r], 1, count)
        /\ \A i \in 1 .. count : reference[r][i] \notin EndOfSequenceTokens
        /\ Phase(r) = "EndOfSequenceToken" => reference[r][count + 1] \in EndOfSequenceTokens

RequestInv(r) ==
  /\ ProgressInv(r) /\ PrefillInv(r) /\ ProposalInv(r) /\ CachesInv(r) /\ ReferenceInv(r)

GenerationInv ==
  GenerationTypeOK /\ ReferenceOK /\ StepInv /\ \A r \in Requests : RequestInv(r)

-----------------------------------------------------------------------------
(* What the types of the constants and the variables give for one request *)

LEMMA ConstantFacts ==
  ASSUME NEW r \in Requests
  PROVE  /\ InputTokens[r] \in Seq(Tokens) /\ InputTokens[r] # <<>>
         /\ InputTokenCount(r) \in Nat \ {0}
         /\ MaxNewTokenCount[r] \in Nat \ {0}
<1>1. InputTokens[r] \in Seq(Tokens) \ {<<>>} /\ MaxNewTokenCount[r] \in Nat \ {0}
  BY TextGenerationAssumption
<1>2. QED
  BY <1>1, EmptySeq DEF InputTokenCount

LEMMA RequestFacts ==
  ASSUME GenerationTypeOK, NEW r \in Requests
  PROVE  /\ stage[r] \in Stages
         /\ tokens[r] \in Seq(Tokens) /\ Len(tokens[r]) \in Nat
         /\ Phase(r) \in Phases /\ generation_phase[r][2] \in Nat
         /\ generation_phase[r] = <<Phase(r), generation_phase[r][2]>>
         /\ target_position[r] \in Nat /\ draft_position[r] \in Nat
         /\ target_cache[r] \in Seq(Tokens) /\ draft_cache[r] \in Seq(Tokens)
         /\ token_budget[r] \in Nat
         /\ proposals[r] \in Seq(Tokens) /\ Len(proposals[r]) \in Nat
         /\ smoothed_accepted_length[r] \in Nat
<1>1. /\ tokens[r] \in Seq(Tokens) /\ proposals[r] \in Seq(Tokens)
      /\ generation_phase[r] \in Phases \X Nat /\ stage[r] \in Stages
      /\ target_position[r] \in Nat /\ draft_position[r] \in Nat
      /\ target_cache[r] \in Seq(Tokens) /\ draft_cache[r] \in Seq(Tokens)
      /\ token_budget[r] \in 0 .. MaxTokenBudget /\ smoothed_accepted_length[r] \in Nat
  BY DEF GenerationTypeOK
<1>2. Len(tokens[r]) \in Nat /\ Len(proposals[r]) \in Nat
  BY <1>1, LenProperties
<1>3. QED
  BY <1>1, <1>2 DEF Phase

LEMMA PolicyFacts ==
  ASSUME GenerationTypeOK, NEW r \in Requests
  PROVE  /\ policy.minimum \in Nat \ {0} /\ policy.maximum \in Nat /\ policy.initial \in Nat
         /\ policy.minimum <= policy.initial /\ policy.initial <= policy.maximum
         /\ policy.name \in {"Fixed", "AcceptanceRate", "AcceptedLength"}
         /\ draft_token_count[r] \in Nat \ {0}
         /\ draft_token_count[r] >= policy.minimum /\ draft_token_count[r] <= policy.maximum
<1>1. policy \in Policies /\ draft_token_count[r] \in policy.minimum .. policy.maximum
  BY DEF GenerationTypeOK
<1>2. /\ policy \in [name: {"Fixed", "AcceptanceRate", "AcceptedLength"},
                     initial: Nat, minimum: Nat, maximum: Nat,
                     decrease_threshold: Nat, increase_threshold: Nat]
      /\ 0 < policy.minimum /\ policy.minimum <= policy.initial /\ policy.initial <= policy.maximum
  BY <1>1, TextGenerationAssumption
<1>3. QED
  BY <1>1, <1>2

\* A prefill under way always has something to do, and never goes past its end.
LEMMA ChunkFacts ==
  ASSUME GenerationInv, NEW r \in pending, Phase(r) = "Prefill"
  PROVE  /\ PrefillPosition(r) \in Nat /\ ChunkEnd(r) \in Nat /\ PrefillEnd(r) \in Nat
         /\ PrefillPosition(r) < ChunkEnd(r)
         /\ ChunkEnd(r) = Smaller(PrefillPosition(r) + token_budget[r], PrefillEnd(r))
         /\ ChunkEnd(r) <= PrefillEnd(r)
         /\ PrefillEnd(r) <= Len(tokens[r])
         /\ Len(tokens[r]) = InputTokenCount(r)
<1>1. r \in Requests /\ r \in Runnable /\ stage[r] = "Executing"
  BY DEF GenerationInv, GenerationTypeOK, Runnable
<1>2. /\ target_position[r] \in Nat /\ draft_position[r] \in Nat /\ token_budget[r] \in Nat
      /\ generation_phase[r][2] \in Nat
  BY <1>1, RequestFacts DEF GenerationInv
<1>3. RequestInv(r)
  BY <1>1 DEF GenerationInv
<1>4. tokens[r] = InputTokens[r] /\ InputTokenCount(r) \in Nat \ {0}
  BY <1>1, <1>3, ConstantFacts DEF RequestInv, ProgressInv
<1>5. Len(tokens[r]) = InputTokenCount(r)
  BY <1>4 DEF InputTokenCount
<1>6. /\ token_budget[r] > 0
      /\ target_position[r] <= PrefillEnd(r) /\ draft_position[r] <= PrefillEnd(r)
      /\ generation_phase[r][2] > 0 /\ generation_phase[r][2] = PrefillEnd(r) - PrefillPosition(r)
  BY <1>1, <1>3 DEF RequestInv, PrefillInv, ProposalInv
<1>7. PrefillEnd(r) \in Nat /\ PrefillEnd(r) <= InputTokenCount(r)
  BY <1>4 DEF PrefillEnd
<1>8. PrefillPosition(r) \in Nat
  BY <1>2 DEF PrefillPosition, Smaller
<1>9. ChunkEnd(r) = Smaller(PrefillPosition(r) + token_budget[r], PrefillEnd(r))
  BY DEF ChunkEnd
<1>10. QED
  BY <1>2, <1>5, <1>6, <1>7, <1>8, <1>9 DEF Smaller

-----------------------------------------------------------------------------
(* Steps that leave a request alone *)

LEMMA SameRequest ==
  ASSUME NEW r \in Requests, RequestInv(r), UNCHANGED <<speculative, reference>>,
         stage'[r] = stage[r], tokens'[r] = tokens[r],
         generation_phase'[r] = generation_phase[r],
         target_position'[r] = target_position[r], draft_position'[r] = draft_position[r],
         target_cache'[r] = target_cache[r], draft_cache'[r] = draft_cache[r],
         proposals'[r] = proposals[r],
         r \in pending' <=> r \in pending,
         r \in pending => step' = step /\ token_budget'[r] = token_budget[r]
  PROVE  RequestInv(r)'
<1>1. Phase(r)' = Phase(r) /\ Verifies(r)' = Verifies(r) /\ Context(r)' = Context(r)
  BY DEF Phase, Verifies, Context
<1>2. PrefillEnd(r)' = PrefillEnd(r) /\ PrefillPosition(r)' = PrefillPosition(r)
  BY DEF PrefillEnd, PrefillPosition
<1>3. r \in pending => ChunkEnd(r)' = ChunkEnd(r)
  BY <1>2 DEF ChunkEnd
<1>4. TargetLength(r)' = TargetLength(r) /\ DraftLength(r)' = DraftLength(r)
  BY <1>1, <1>3 DEF TargetLength, DraftLength
<1>5. ProgressInv(r)' /\ PrefillInv(r)'
  BY <1>1, <1>2 DEF RequestInv, ProgressInv, PrefillInv
<1>6. ProposalInv(r)'
  BY <1>1 DEF RequestInv, ProposalInv
<1>7. CachesInv(r)'
  BY <1>1, <1>4 DEF RequestInv, CachesInv
<1>8. ReferenceInv(r)'
  BY <1>1 DEF RequestInv, ReferenceInv
<1>9. QED
  BY <1>5, <1>6, <1>7, <1>8 DEF RequestInv

\* A request without KV state, of which nothing but the stage changed.
LEMMA StoppedRequest ==
  ASSUME NEW r \in Requests, RequestInv(r), UNCHANGED <<speculative, reference>>,
         UNCHANGED stateVars,
         stage'[r] \in {"Completed", "Aborted"}, target_cache'[r] = <<>>, draft_cache'[r] = <<>>,
         proposals'[r] = <<>>, r \notin pending', GenerationTypeOK
  PROVE  RequestInv(r)'
<1>1. Phase(r)' = Phase(r) /\ tokens'[r] = tokens[r] /\ generation_phase'[r] = generation_phase[r]
  BY DEF Phase, stateVars
<1>2. ProgressInv(r)' /\ PrefillInv(r)'
  BY <1>1 DEF RequestInv, ProgressInv, PrefillInv
<1>3. ProposalInv(r)'
  <2>1. Len(proposals'[r]) = 0 /\ generation_phase[r][2] \in Nat /\ MaxNewTokenCount[r] \in Nat
    BY EmptySeq, RequestFacts, ConstantFacts
  <2>2. Phase(r) = "Decode" => generation_phase[r][2] < MaxNewTokenCount[r]
    BY DEF RequestInv, ProgressInv
  <2>3. QED
    BY <1>1, <2>1, <2>2 DEF ProposalInv
<1>4. CachesInv(r)'
  BY DEF CachesInv
<1>5. ReferenceInv(r)'
  BY <1>1 DEF RequestInv, ReferenceInv
<1>6. QED
  BY <1>2, <1>3, <1>4, <1>5 DEF RequestInv

-----------------------------------------------------------------------------
(* The initial state *)

LEMMA InitInv == TextGenerationInit => GenerationInv
<1> SUFFICES ASSUME TextGenerationInit PROVE GenerationInv
  OBVIOUS
<1> USE DEF TextGenerationInit
<1>1. \A r \in Requests : /\ stage[r] = "New" /\ tokens[r] = InputTokens[r]
                          /\ generation_phase[r] = <<"Prefill", InputTokenCount(r)>>
                          /\ target_cache[r] = <<>> /\ draft_cache[r] = <<>>
                          /\ proposals[r] = <<>>
  BY DEF InputTokenCount
<1>2. GenerationTypeOK
  <2>1. /\ policy.minimum <= policy.initial /\ policy.initial <= policy.maximum
        /\ policy.initial \in Nat \ {0} /\ policy.minimum \in Nat /\ policy.maximum \in Nat
    BY TextGenerationAssumption
  <2>2. policy.initial \in policy.minimum .. policy.maximum /\ policy.initial - 1 \in Nat
    BY <2>1
  <2>3. \A r \in Requests : Len(InputTokens[r]) \in Nat
    BY ConstantFacts DEF InputTokenCount
  <2>4. tokens \in [Requests -> Seq(Tokens)]
    BY TextGenerationAssumption
  <2>5. generation_phase \in [Requests -> Phases \X Nat]
    BY <2>3 DEF Phases
  <2>6. draft_token_count \in [Requests -> policy.minimum .. policy.maximum]
    BY <2>2
  <2>7. smoothed_accepted_length \in [Requests -> Nat]
    BY <2>2
  <2>8. target_cache \in [Requests -> Seq(Tokens)] /\ draft_cache \in [Requests -> Seq(Tokens)]
        /\ proposals \in [Requests -> Seq(Tokens)]
    BY EmptySeq
  <2>9. token_budget \in [Requests -> 0 .. MaxTokenBudget]
    BY TextGenerationAssumption
  <2>10. QED
    BY <2>4, <2>5, <2>6, <2>7, <2>8, <2>9 DEF GenerationTypeOK, Stages
<1>3. ReferenceOK
  <2>1. ASSUME NEW r \in GreedyRequests
        PROVE  reference[r] \in Seq(Tokens) /\ Len(reference[r]) = MaxNewTokenCount[r]
    <3>1. MaxNewTokenCount[r] \in Nat
      BY TextGenerationAssumption
    <3>2. PICK k \in {MaxNewTokenCount[q] : q \in GreedyRequests} :
            reference[r] \in [1 .. k -> Tokens]
      OBVIOUS
    <3>3. DOMAIN reference[r] = 1 .. MaxNewTokenCount[r]
      OBVIOUS
    <3>4. reference[r] \in [1 .. MaxNewTokenCount[r] -> Tokens]
      BY <3>2, <3>3
    <3>5. reference[r] \in Seq(Tokens)
      BY <3>1, <3>4, SeqDef
    <3>6. Len(reference[r]) \in Nat /\ DOMAIN reference[r] = 1 .. Len(reference[r])
      BY <3>5, LenProperties
    <3>7. 1 .. Len(reference[r]) = 1 .. MaxNewTokenCount[r]
      BY <3>3, <3>6
    <3>8. Len(reference[r]) = MaxNewTokenCount[r]
      <4>1. \A m, n \in Nat : 1 .. m = 1 .. n => m = n
        <5> TAKE m, n \in Nat
        <5> HAVE 1 .. m = 1 .. n
        <5>1. m > 0 => m \in 1 .. n
          BY m > 0 => m \in 1 .. m
        <5>2. n > 0 => n \in 1 .. m
          BY n > 0 => n \in 1 .. n
        <5>3. QED
          BY <5>1, <5>2
      <4>2. QED
        BY <4>1, <3>1, <3>6, <3>7
    <3>9. QED
      BY <3>5, <3>8
  <2>2. QED
    BY <2>1 DEF ReferenceOK
<1>4. StepInv
  BY DEF StepInv
<1>5. ASSUME NEW r \in Requests PROVE RequestInv(r)
  <2>1. Phase(r) = "Prefill" /\ generation_phase[r][2] = InputTokenCount(r)
        /\ Len(tokens[r]) = InputTokenCount(r) /\ InputTokenCount(r) \in Nat \ {0}
    BY <1>1, ConstantFacts DEF Phase, InputTokenCount
  <2>2. ProgressInv(r) /\ PrefillInv(r) /\ ProposalInv(r) /\ CachesInv(r)
    BY <1>1, <2>1 DEF ProgressInv, PrefillInv, ProposalInv, CachesInv, Finished
  <2>3. ReferenceInv(r)
    <3>1. Len(tokens[r]) - InputTokenCount(r) = 0
      BY <2>1
    <3>2. InputTokens[r] \o SubSeq(reference[r], 1, 0) = InputTokens[r]
      BY SubSeqEmpty, ConcatEmptySeq, ConstantFacts
    <3>3. QED
      BY <1>1, <2>1, <3>1, <3>2 DEF ReferenceInv
  <2>4. QED
    BY <2>2, <2>3 DEF RequestInv
<1>6. QED
  BY <1>2, <1>3, <1>4, <1>5 DEF GenerationInv

-----------------------------------------------------------------------------
(* Starting and ending a request *)

LEMMA SameReference ==
  ASSUME ReferenceOK, UNCHANGED modelVars PROVE ReferenceOK'
BY DEF ReferenceOK, modelVars

LEMMA IdleFacts ==
  ASSUME GenerationInv, step = "Idle"
  PROVE  batch = {} /\ pending = {} /\ \A r \in Requests : proposals[r] = <<>>
<1>1. batch = {} /\ pending = {}
  BY DEF GenerationInv, GenerationTypeOK, StepInv
<1>2. QED
  BY <1>1 DEF GenerationInv, RequestInv, ProposalInv

LEMMA StartedRequest ==
  ASSUME GenerationInv, NEW r \in Requests, StartRequest(r)
  PROVE  /\ RequestInv(r)'
         /\ target_position'[r] \in Nat /\ draft_position'[r] \in Nat
         /\ target_cache'[r] \in Seq(Tokens) /\ draft_cache'[r] \in Seq(Tokens)
         /\ generation_phase'[r] \in Phases \X Nat
<1>1. /\ GenerationTypeOK /\ RequestInv(r)
      /\ step = "Idle" /\ stage[r] = "New" /\ pending = {} /\ proposals[r] = <<>>
  BY IdleFacts DEF GenerationInv, StartRequest
<1>2. /\ Phase(r) = "Prefill" /\ tokens[r] = InputTokens[r]
      /\ tokens[r] \in Seq(Tokens) /\ Len(tokens[r]) = InputTokenCount(r)
      /\ InputTokenCount(r) \in Nat \ {0} /\ MaxNewTokenCount[r] \in Nat \ {0}
  BY <1>1, ConstantFacts DEF RequestInv, ProgressInv, InputTokenCount
<1>3. PICK target \in 0 .. InputTokenCount(r) - 1,
           draft \in IF speculative THEN 0 .. InputTokenCount(r) - 1 ELSE {0} :
        /\ target_position' = [target_position EXCEPT ![r] = target]
        /\ draft_position' = [draft_position EXCEPT ![r] = draft]
        /\ target_cache' = [target_cache EXCEPT ![r] = SubSeq(InputTokens[r], 1, target)]
        /\ draft_cache' = [draft_cache EXCEPT ![r] = SubSeq(InputTokens[r], 1, draft)]
        /\ generation_phase' = [generation_phase EXCEPT ![r] = DeterminePrefillPhase(
             IF speculative THEN InputTokenCount(r) - 1 - Smaller(target, draft)
             ELSE InputTokenCount(r) - target)]
  BY DEF StartRequest
<1> DEFINE left == IF speculative THEN InputTokenCount(r) - 1 - Smaller(target, draft)
                   ELSE InputTokenCount(r) - target
<1>4. /\ target \in Nat /\ draft \in Nat
      /\ target <= InputTokenCount(r) - 1 /\ draft <= InputTokenCount(r) - 1
      /\ ~speculative => draft = 0
  BY <1>2, <1>3
<1>5. /\ target_position'[r] = target /\ draft_position'[r] = draft
      /\ target_cache'[r] = SubSeq(tokens[r], 1, target)
      /\ draft_cache'[r] = SubSeq(tokens[r], 1, draft)
      /\ generation_phase'[r] = DeterminePrefillPhase(left)
  BY <1>1, <1>2, <1>3 DEF GenerationTypeOK
<1>6. /\ stage'[r] = "Executing" /\ tokens' = tokens /\ proposals' = proposals
      /\ pending' = pending /\ step' = step /\ UNCHANGED <<speculative, reference>>
  BY <1>1 DEF StartRequest, stepVars, modelVars, GenerationTypeOK
<1>7. left \in Nat
  BY <1>2, <1>4 DEF Smaller
<1> HIDE DEF left
<1>8. /\ Phase(r)' = IF left = 0 THEN "Decode" ELSE "Prefill"
      /\ generation_phase'[r][2] = left
      /\ generation_phase'[r] \in Phases \X Nat
  BY <1>5, <1>7 DEF Phase, DeterminePrefillPhase, Phases
<1>9. /\ left = 0 => speculative /\ target = InputTokenCount(r) - 1 /\ draft = InputTokenCount(r) - 1
      /\ left = PrefillEnd(r)' - PrefillPosition(r)'
      /\ target <= PrefillEnd(r)' /\ draft <= PrefillEnd(r)'
  BY <1>2, <1>4, <1>5, <1>6 DEF left, Smaller, PrefillEnd, PrefillPosition
<1>10. ProgressInv(r)' /\ PrefillInv(r)'
  BY <1>2, <1>4, <1>5, <1>6, <1>7, <1>8, <1>9 DEF ProgressInv, PrefillInv
<1>11. ProposalInv(r)'
  BY <1>1, <1>2, <1>6, <1>8, EmptySeq DEF ProposalInv
<1>12. /\ IsCut(target_cache'[r], tokens[r], target)
       /\ IsCut(draft_cache'[r], tokens[r], draft)
  BY <1>2, <1>4, <1>5 DEF IsCut
<1>13. CachesInv(r)'
  <2>1. Context(r)' = tokens[r]
    BY <1>1, <1>2, <1>6, ConcatEmptySeq DEF Context
  <2>2. Len(proposals'[r]) = 0
    BY <1>1, <1>6, EmptySeq
  <2>3. TargetLength(r)' = target /\ DraftLength(r)' = draft
    <3>1. /\ step' = "Idle" /\ Len(tokens'[r]) = InputTokenCount(r) /\ speculative' = speculative
          /\ Phase(r)' = "Prefill" \/ (left = 0 /\ Phase(r)' = "Decode")
      BY <1>1, <1>2, <1>6, <1>8
    <3>2. TargetLength(r)' = target
      BY <3>1, <1>5, <1>9 DEF TargetLength
    <3>3. DraftLength(r)' = draft
      BY <3>1, <2>2, <1>2, <1>4, <1>5, <1>9 DEF DraftLength
    <3>4. QED
      BY <3>2, <3>3
  <2>4. IsCut(target_cache'[r], Context(r)', TargetLength(r)')
        /\ IsCut(draft_cache'[r], Context(r)', DraftLength(r)')
    BY <1>12, <2>1, <2>3
  <2>5. Phase(r)' \notin Finished
    BY <1>8 DEF Finished
  <2>6. QED
    BY <1>6, <2>4, <2>5 DEF CachesInv
<1>14. ReferenceInv(r)'
  BY <1>1, <1>2, <1>6, <1>8 DEF RequestInv, ReferenceInv
<1>15. QED
  BY <1>2, <1>4, <1>5, <1>8, <1>10, <1>11, <1>12, <1>13, <1>14, CutShape DEF RequestInv

LEMMA StartInv ==
  ASSUME GenerationInv, NEW r \in Requests, StartRequest(r)
  PROVE  GenerationInv'
<1>1. /\ GenerationTypeOK /\ step = "Idle" /\ pending = {} /\ batch = {}
  BY IdleFacts DEF GenerationInv, StartRequest
<1>2. /\ stage' = [stage EXCEPT ![r] = "Executing"]
      /\ UNCHANGED <<modelVars, tokens, draft_token_count, smoothed_accepted_length, stepVars>>
  BY DEF StartRequest
<1> DEFINE Started(target, draft, c, d, phase) ==
             /\ target_position' = [target_position EXCEPT ![r] = target]
             /\ draft_position' = [draft_position EXCEPT ![r] = draft]
             /\ target_cache' = [target_cache EXCEPT ![r] = c]
             /\ draft_cache' = [draft_cache EXCEPT ![r] = d]
             /\ generation_phase' = [generation_phase EXCEPT ![r] = phase]
<1>0. \E target, draft, c, d, phase : Started(target, draft, c, d, phase)
  <2>1. PICK target \in 0 .. InputTokenCount(r) - 1,
             draft \in IF speculative THEN 0 .. InputTokenCount(r) - 1 ELSE {0} :
          Started(target, draft, SubSeq(InputTokens[r], 1, target),
                  SubSeq(InputTokens[r], 1, draft), DeterminePrefillPhase(
                    IF speculative THEN InputTokenCount(r) - 1 - Smaller(target, draft)
                    ELSE InputTokenCount(r) - target))
    BY DEF StartRequest
  <2> HIDE DEF Started
  <2>2. QED
    BY <2>1
<1>3. PICK target, draft, c, d, phase : Started(target, draft, c, d, phase)
  BY <1>0
<1>4. target \in Nat /\ draft \in Nat /\ c \in Seq(Tokens) /\ d \in Seq(Tokens)
      /\ phase \in Phases \X Nat /\ RequestInv(r)'
  BY <1>1, <1>3, StartedRequest DEF GenerationTypeOK
<1>5. GenerationTypeOK'
  BY <1>1, <1>2, <1>3, <1>4 DEF GenerationTypeOK, Stages, modelVars, stepVars
<1>6. ASSUME NEW q \in Requests, q # r PROVE RequestInv(q)'
  <2>1. RequestInv(q)
    BY DEF GenerationInv
  <2>2. QED
    BY <1>1, <1>2, <1>3, <1>6, <2>1, SameRequest DEF GenerationTypeOK, modelVars, stepVars
<1>7. StepInv'
  BY <1>1, <1>2 DEF StepInv, stepVars, modelVars
<1>8. QED
  BY <1>2, <1>4, <1>5, <1>6, <1>7, SameReference DEF GenerationInv

\* A request that is stopped between two steps.
LEMMA StopInv ==
  ASSUME GenerationInv, NEW r \in Requests, step = "Idle",
         NEW outcome \in {"Completed", "Aborted"}, stage' = [stage EXCEPT ![r] = outcome],
         target_cache' = [target_cache EXCEPT ![r] = <<>>],
         draft_cache' = [draft_cache EXCEPT ![r] = <<>>],
         UNCHANGED <<modelVars, stateVars, stepVars>>
  PROVE  GenerationInv'
<1>1. /\ GenerationTypeOK /\ batch = {} /\ pending = {}
      /\ \A q \in Requests : proposals[q] = <<>> /\ RequestInv(q)
  BY IdleFacts DEF GenerationInv
<1>2. GenerationTypeOK'
  BY <1>1, EmptySeq DEF GenerationTypeOK, Stages, modelVars, stepVars, stateVars
<1>3. RequestInv(r)'
  BY <1>1, StoppedRequest DEF GenerationTypeOK, modelVars, stepVars
<1>4. ASSUME NEW q \in Requests, q # r PROVE RequestInv(q)'
  BY <1>1, <1>4, SameRequest DEF GenerationTypeOK, modelVars, stepVars, stateVars
<1>5. StepInv'
  BY <1>1 DEF StepInv, stepVars, modelVars
<1>6. ReferenceOK'
  BY SameReference DEF GenerationInv
<1>7. QED
  BY <1>2, <1>3, <1>4, <1>5, <1>6 DEF GenerationInv

LEMMA FailToStartInv ==
  ASSUME GenerationInv, NEW r \in Requests, FailToStartRequest(r)
  PROVE  GenerationInv'
<1>1. target_cache[r] = <<>> /\ draft_cache[r] = <<>> /\ GenerationTypeOK
  BY DEF FailToStartRequest, GenerationInv, RequestInv, CachesInv
<1>2. target_cache' = [target_cache EXCEPT ![r] = <<>>]
      /\ draft_cache' = [draft_cache EXCEPT ![r] = <<>>]
  BY <1>1 DEF FailToStartRequest, GenerationTypeOK
<1>3. QED
  BY <1>2, StopInv DEF FailToStartRequest

LEMMA ReleaseInv ==
  ASSUME GenerationInv, NEW r \in Requests, AbortRequest(r) \/ FinishRequest(r)
  PROVE  GenerationInv'
<1>1. PICK outcome \in {"Completed", "Aborted"} : ReleaseCaches(r, outcome)
  BY DEF AbortRequest, FinishRequest
<1>2. QED
  BY <1>1, StopInv DEF ReleaseCaches

-----------------------------------------------------------------------------
(* The steps of a batch up to its target forward *)

LEMMA PrepareInv ==
  ASSUME GenerationInv, PrepareStep
  PROVE  GenerationInv'
<1>1. /\ GenerationTypeOK /\ batch = {} /\ pending = {} /\ step = "Idle"
      /\ \A q \in Requests : proposals[q] = <<>> /\ RequestInv(q)
  BY IdleFacts DEF GenerationInv, PrepareStep
<1>0. PICK selected \in SUBSET Runnable :
        /\ batch' = selected /\ pending' = selected
        /\ \E budget \in [selected -> 1 .. MaxTokenBudget] :
             token_budget' = [r \in Requests |-> IF r \in selected THEN budget[r] ELSE 0]
  BY DEF PrepareStep
<1>2. PICK budget \in [selected -> 1 .. MaxTokenBudget] :
        /\ batch' = selected /\ pending' = selected
        /\ token_budget' = [r \in Requests |-> IF r \in selected THEN budget[r] ELSE 0]
  BY <1>0
<1>3. /\ step' = (IF speculative THEN "DraftPrefill" ELSE "Drafting")
      /\ UNCHANGED <<modelVars, stage, stateVars, target_cache, draft_cache, proposals>>
  BY DEF PrepareStep
<1>4. Runnable' = Runnable /\ selected \subseteq Requests
  BY <1>3 DEF Runnable, Phase, stateVars
<1>5. \A r \in selected : token_budget'[r] \in 1 .. MaxTokenBudget
  BY <1>2, <1>4
<1>6. GenerationTypeOK'
  <2>1. token_budget' \in [Requests -> 0 .. MaxTokenBudget]
    BY <1>2, TextGenerationAssumption
  <2>2. batch' \subseteq Requests /\ pending' \subseteq batch' \cap Runnable'
    BY <1>2, <1>4
  <2>3. QED
    BY <1>1, <1>3, <2>1, <2>2 DEF GenerationTypeOK, modelVars, stateVars
<1>7. ASSUME NEW r \in Requests PROVE RequestInv(r)'
  <2>1. /\ Phase(r)' = Phase(r) /\ Context(r)' = Context(r)
        /\ PrefillEnd(r)' = PrefillEnd(r) /\ PrefillPosition(r)' = PrefillPosition(r)
    BY <1>3 DEF Phase, Context, PrefillEnd, PrefillPosition, modelVars, stateVars
  <2>2. ProgressInv(r)' /\ PrefillInv(r)' /\ ReferenceInv(r)'
    <3>1. ProgressInv(r)'
      BY <1>1, <1>3, <2>1 DEF RequestInv, ProgressInv, stateVars
    <3>2. PrefillInv(r)'
      BY <1>1, <1>3, <2>1 DEF RequestInv, PrefillInv, modelVars, stateVars
    <3>3. ReferenceInv(r)'
      BY <1>1, <1>3, <2>1 DEF RequestInv, ReferenceInv, modelVars, stateVars
    <3>4. QED
      BY <3>1, <3>2, <3>3
  <2>3. ProposalInv(r)'
    BY <1>1, <1>2, <1>3, <1>5, <2>1 DEF RequestInv, ProposalInv, stateVars
  <2>4. TargetLength(r)' = TargetLength(r) /\ DraftLength(r)' = DraftLength(r)
    BY <1>1, <1>3, <2>1 DEF TargetLength, DraftLength, modelVars, stateVars
  <2>5. CachesInv(r)'
    BY <1>1, <1>3, <2>1, <2>4 DEF RequestInv, CachesInv, stateVars, CacheBound
  <2>6. QED
    BY <2>2, <2>3, <2>5 DEF RequestInv
<1>8. StepInv'
  BY <1>2, <1>3 DEF StepInv, modelVars
<1>9. ReferenceOK'
  BY <1>3, SameReference DEF GenerationInv
<1>10. QED
  BY <1>6, <1>7, <1>8, <1>9 DEF GenerationInv

\* A forward leaves everything but caches and proposals alone.
LEMMA ForwardFacts ==
  ASSUME NEW r \in Requests, RequestInv(r), UNCHANGED modelVars, UNCHANGED stateVars,
         UNCHANGED <<stage, batch, pending, token_budget>>
  PROVE  /\ ProgressInv(r)' /\ PrefillInv(r)' /\ ReferenceInv(r)'
         /\ Phase(r)' = Phase(r) /\ Verifies(r)' = Verifies(r) /\ ChunkEnd(r)' = ChunkEnd(r)
<1>1. Phase(r)' = Phase(r) /\ Verifies(r)' = Verifies(r)
  BY DEF Phase, Verifies, modelVars, stateVars
<1>2. PrefillEnd(r)' = PrefillEnd(r) /\ PrefillPosition(r)' = PrefillPosition(r)
  BY DEF PrefillEnd, PrefillPosition, modelVars, stateVars
<1>3. ChunkEnd(r)' = ChunkEnd(r)
  BY <1>2 DEF ChunkEnd
<1>4. ProgressInv(r)'
  BY <1>1 DEF RequestInv, ProgressInv, stateVars
<1>5. PrefillInv(r)'
  BY <1>1, <1>2 DEF RequestInv, PrefillInv, modelVars, stateVars
<1>6. ReferenceInv(r)'
  BY <1>1 DEF RequestInv, ReferenceInv, modelVars, stateVars
<1>7. QED
  BY <1>1, <1>3, <1>4, <1>5, <1>6

\* What a request of the running batch is, by its phase.
LEMMA BatchFacts ==
  ASSUME GenerationInv, NEW r \in pending
  PROVE  /\ r \in Requests /\ r \in batch /\ stage[r] = "Executing"
         /\ Phase(r) \in {"Prefill", "Decode"} /\ Phase(r) \notin Finished
         /\ RequestInv(r)
         /\ tokens[r] \in Seq(Tokens) /\ tokens[r] # <<>> /\ Len(tokens[r]) \in Nat \ {0}
         /\ Phase(r) = "Prefill" => proposals[r] = <<>> /\ Context(r) = tokens[r]
         /\ ~speculative => proposals[r] = <<>> /\ Context(r) = tokens[r]
         /\ IsCut(target_cache[r], Context(r), TargetLength(r))
         /\ IsCut(draft_cache[r], Context(r), DraftLength(r))
<1>1. /\ r \in Requests /\ r \in batch /\ stage[r] = "Executing" /\ Phase(r) \notin Finished
      /\ GenerationTypeOK
  BY DEF GenerationInv, GenerationTypeOK, Runnable
<1>2. RequestInv(r) /\ Phase(r) \in {"Prefill", "Decode"} /\ tokens[r] \in Seq(Tokens)
  BY <1>1, RequestFacts DEF GenerationInv, Phases
<1>3. tokens[r] # <<>> /\ Len(tokens[r]) \in Nat \ {0}
  <2>1. Len(tokens[r]) >= InputTokenCount(r) /\ InputTokenCount(r) \in Nat \ {0}
    BY <1>1, <1>2, ConstantFacts DEF RequestInv, ProgressInv
  <2>2. QED
    BY <1>2, <2>1, EmptySeq, LenProperties
<1>4. Phase(r) = "Prefill" \/ ~speculative => proposals[r] = <<>>
  BY <1>2 DEF RequestInv, ProposalInv, Verifies
<1>5. proposals[r] = <<>> => Context(r) = tokens[r]
  BY <1>2, ConcatEmptySeq DEF Context
<1>6. /\ IsCut(target_cache[r], Context(r), TargetLength(r))
      /\ IsCut(draft_cache[r], Context(r), DraftLength(r))
  BY <1>1, <1>2 DEF RequestInv, CachesInv
<1>7. QED
  BY <1>1, <1>2, <1>3, <1>4, <1>5, <1>6

LEMMA DraftPrefillInv ==
  ASSUME GenerationInv, RunDraftPrefill
  PROVE  GenerationInv'
<1> DEFINE prefills == {r \in batch : Phase(r) = "Prefill"}
<1>1. /\ GenerationTypeOK /\ step = "DraftPrefill" /\ step' = "Drafting" /\ speculative
      /\ pending = batch /\ batch \subseteq Requests
      /\ UNCHANGED modelVars /\ UNCHANGED stateVars
      /\ UNCHANGED <<stage, target_cache, batch, pending, token_budget, proposals>>
      /\ draft_cache' = [r \in Requests |->
           IF r \in prefills THEN Fed(draft_cache[r], DraftPrefillInput(r)) ELSE draft_cache[r]]
  BY DEF RunDraftPrefill, GenerationInv, StepInv, GenerationTypeOK
<1>2. ASSUME NEW r \in prefills
      PROVE  /\ r \in Requests /\ draft_cache'[r] \in Seq(Tokens)
             /\ IsCut(draft_cache'[r], tokens[r], Larger(draft_position[r], ChunkEnd(r)))
  <2>1. /\ r \in Requests /\ tokens[r] \in Seq(Tokens)
        /\ IsCut(draft_cache[r], tokens[r], draft_position[r])
    BY <1>1, BatchFacts DEF DraftLength
  <2>2. ChunkEnd(r) \in 0 .. Len(tokens[r])
    BY <1>1, <2>1, ChunkFacts, LenProperties
  <2>3. draft_cache'[r] = draft_cache[r] \o SubSeq(tokens[r], draft_position[r] + 1, ChunkEnd(r))
    BY <1>1, <2>1 DEF Fed, DraftPrefillInput, PrefillInput
  <2>4. IsCut(draft_cache'[r], tokens[r], Larger(draft_position[r], ChunkEnd(r)))
    BY <2>1, <2>2, <2>3, CutExtended
  <2>5. QED
    BY <2>1, <2>4, CutShape
<1>3. ASSUME NEW r \in Requests, r \notin prefills PROVE draft_cache'[r] = draft_cache[r]
  BY <1>1, <1>3
<1>4. GenerationTypeOK'
  <2>1. draft_cache' \in [Requests -> Seq(Tokens)]
    <3>1. \A r \in Requests : draft_cache'[r] \in Seq(Tokens)
      BY <1>1, <1>2, <1>3, RequestFacts
    <3>2. draft_cache' = [r \in Requests |-> draft_cache'[r]]
      BY <1>1
    <3>3. QED
      BY <3>1, <3>2
  <2>2. Runnable' = Runnable
    BY <1>1 DEF Runnable, Phase, stateVars
  <2>3. QED
    BY <1>1, <2>1, <2>2 DEF GenerationTypeOK, modelVars, stateVars
<1>5. ASSUME NEW r \in Requests PROVE RequestInv(r)'
  <2>1. RequestInv(r)
    BY DEF GenerationInv
  <2>2. /\ ProgressInv(r)' /\ PrefillInv(r)' /\ ReferenceInv(r)'
        /\ Phase(r)' = Phase(r) /\ Verifies(r)' = Verifies(r) /\ ChunkEnd(r)' = ChunkEnd(r)
    BY <1>1, <2>1, ForwardFacts
  <2>3. ProposalInv(r)'
    BY <1>1, <2>1, <2>2 DEF RequestInv, ProposalInv, stateVars
  <2>4. Context(r)' = Context(r) /\ TargetLength(r)' = TargetLength(r)
    BY <1>1, <2>2 DEF Context, TargetLength, modelVars, stateVars
  <2>5. IsCut(draft_cache[r], Context(r), DraftLength(r)) =>
          IsCut(draft_cache'[r], Context(r)', DraftLength(r)')
    <3>1. CASE r \in prefills
      <4>1. DraftLength(r)' = Larger(draft_position[r], ChunkEnd(r))
        BY <1>1, <2>2, <3>1 DEF DraftLength, modelVars, stateVars
      <4>2. Context(r)' = tokens[r]
        BY <1>1, <2>4, <3>1, BatchFacts
      <4>3. QED
        BY <1>2, <3>1, <4>1, <4>2
    <3>2. CASE r \notin prefills
      <4>1. DraftLength(r)' = DraftLength(r)
        BY <1>1, <2>2, <3>2 DEF DraftLength, modelVars, stateVars
      <4>2. QED
        BY <1>3, <2>4, <3>2, <4>1
    <3>3. QED
      BY <3>1, <3>2
  <2>6. r \in prefills => stage[r] = "Executing" /\ Phase(r) \notin Finished
    BY <1>1, BatchFacts
  <2>7. CachesInv(r)'
    BY <1>1, <1>3, <2>1, <2>2, <2>4, <2>5, <2>6 DEF RequestInv, CachesInv, CacheBound, stateVars
  <2>8. QED
    BY <2>2, <2>3, <2>7 DEF RequestInv
<1>6. StepInv'
  BY <1>1 DEF StepInv, modelVars
<1>7. QED
  BY <1>1, <1>4, <1>5, <1>6, SameReference DEF GenerationInv

LEMMA FailInv ==
  ASSUME GenerationInv, FailStep
  PROVE  GenerationInv'
<1>1. GenerationTypeOK /\ pending \subseteq batch /\ \A q \in Requests : RequestInv(q)
  BY DEF GenerationInv, GenerationTypeOK
<1>2. GenerationTypeOK'
  <2>1. \A r \in Requests : stage[r] \in Stages /\ target_cache[r] \in Seq(Tokens)
                            /\ draft_cache[r] \in Seq(Tokens)
    BY <1>1, RequestFacts
  <2>2. stage' \in [Requests -> Stages]
    BY <2>1 DEF FailStep, Stages
  <2>3. /\ target_cache' \in [Requests -> Seq(Tokens)]
        /\ draft_cache' \in [Requests -> Seq(Tokens)]
        /\ proposals' \in [Requests -> Seq(Tokens)]
    BY <2>1, EmptySeq DEF FailStep
  <2>4. token_budget' \in [Requests -> 0 .. MaxTokenBudget]
    BY TextGenerationAssumption DEF FailStep
  <2>5. QED
    BY <1>1, <2>2, <2>3, <2>4 DEF GenerationTypeOK, FailStep, modelVars, stateVars
<1>3. ASSUME NEW r \in Requests PROVE RequestInv(r)'
  <2>1. CASE r \in batch
    <3>1. /\ stage'[r] = "Aborted" /\ target_cache'[r] = <<>> /\ draft_cache'[r] = <<>>
          /\ proposals'[r] = <<>> /\ r \notin pending'
      BY <2>1 DEF FailStep
    <3>2. QED
      BY <1>1, <3>1, StoppedRequest DEF FailStep, modelVars
  <2>2. CASE r \notin batch
    <3>1. proposals[r] = <<>> /\ r \notin pending
      BY <1>1, <2>2 DEF RequestInv, ProposalInv
    <3>2. /\ stage'[r] = stage[r] /\ target_cache'[r] = target_cache[r]
          /\ draft_cache'[r] = draft_cache[r] /\ proposals'[r] = proposals[r]
          /\ r \notin pending'
      BY <2>2, <3>1 DEF FailStep
    <3>3. QED
      BY <1>1, <3>1, <3>2, SameRequest DEF FailStep, modelVars, stateVars
  <2>3. QED
    BY <2>1, <2>2
<1>4. StepInv'
  BY DEF StepInv, FailStep
<1>5. QED
  BY <1>2, <1>3, <1>4, SameReference DEF GenerationInv, FailStep

LEMMA ProposeInv ==
  ASSUME GenerationInv, ProposeDraftTokens
  PROVE  GenerationInv'
<1>1. /\ GenerationTypeOK /\ step = "Drafting" /\ step' = step
      /\ pending = batch /\ batch \subseteq Requests
      /\ UNCHANGED modelVars /\ UNCHANGED stateVars
      /\ UNCHANGED <<stage, target_cache, batch, pending, token_budget>>
      /\ draft_cache' = [r \in Requests |->
           IF r \in ActiveProposals THEN Fed(draft_cache[r], DraftProposalInput(r))
           ELSE draft_cache[r]]
  BY DEF ProposeDraftTokens, GenerationInv, StepInv, GenerationTypeOK
<1>2. PICK sampled \in [ActiveProposals -> Tokens] :
        proposals' = [r \in Requests |->
          IF r \in ActiveProposals THEN Append(proposals[r], sampled[r]) ELSE proposals[r]]
  BY DEF ProposeDraftTokens
<1>3. ASSUME NEW r \in ActiveProposals
      PROVE  /\ r \in pending /\ r \in Requests /\ Verifies(r) /\ Phase(r) = "Decode" /\ speculative
             /\ proposals'[r] \in Seq(Tokens) /\ Len(proposals'[r]) = Len(proposals[r]) + 1
             /\ generation_phase[r][2] + Len(proposals'[r]) <= MaxNewTokenCount[r]
             /\ draft_cache'[r] \in Seq(Tokens)
             /\ IsCut(draft_cache'[r], Context(r)', DraftLength(r)')
             /\ IsCut(target_cache'[r], Context(r)', TargetLength(r)')
  <2>1. /\ r \in pending /\ Verifies(r) /\ Len(proposals[r]) < MaximumDraftTokenCount(r)
        /\ Phase(r) = "Decode" /\ speculative
    BY <1>1 DEF ActiveProposals, Verifies
  <2>2. /\ r \in Requests /\ tokens[r] \in Seq(Tokens) /\ tokens[r] # <<>>
        /\ Len(tokens[r]) \in Nat \ {0}
        /\ proposals[r] \in Seq(Tokens) /\ Len(proposals[r]) \in Nat
        /\ IsCut(target_cache[r], tokens[r] \o proposals[r], Len(tokens[r]) - 1)
        /\ IsCut(draft_cache[r], tokens[r] \o proposals[r], Len(tokens[r]) + Len(proposals[r]) - 1)
    BY <1>1, <2>1, BatchFacts, RequestFacts DEF TargetLength, DraftLength, Context
  <2>3. sampled[r] \in Tokens /\ proposals'[r] = Append(proposals[r], sampled[r])
    BY <1>2, <2>2
  <2>4. draft_cache'[r] = draft_cache[r] \o <<LastToken(tokens[r] \o proposals[r])>>
    BY <1>1, <2>2 DEF Fed, DraftProposalInput
  <2>5. IsCut(draft_cache'[r], tokens[r] \o proposals'[r], Len(tokens[r]) + Len(proposals[r]))
    BY <2>2, <2>3, <2>4, CutProposed
  <2>6. proposals'[r] \in Seq(Tokens) /\ Len(proposals'[r]) = Len(proposals[r]) + 1
    BY <2>2, <2>3, AppendProperties
  <2>7. tokens[r] \o proposals'[r] \in Seq(Tokens)
    BY <2>2, <2>6, ConcatProperties
  <2>8. draft_cache'[r] \in Seq(Tokens)
    BY <2>5, <2>7, CutShape
  <2>9. generation_phase[r][2] + Len(proposals'[r]) <= MaxNewTokenCount[r]
    <3>1. /\ generation_phase[r][2] \in Nat /\ MaxNewTokenCount[r] \in Nat
          /\ draft_token_count[r] \in Nat
      BY <1>1, <2>2, RequestFacts, ConstantFacts, PolicyFacts
    <3>2. QED
      BY <2>1, <2>2, <2>6, <3>1 DEF MaximumDraftTokenCount, Smaller
  <2>10. /\ Phase(r)' = Phase(r) /\ Context(r)' = tokens[r] \o proposals'[r]
         /\ tokens'[r] = tokens[r] /\ speculative' = speculative
    BY <1>1 DEF Phase, Context, modelVars, stateVars
  <2>11. DraftLength(r)' = Len(tokens[r]) + Len(proposals[r])
    BY <1>1, <2>1, <2>2, <2>6, <2>10 DEF DraftLength
  <2>12. TargetLength(r)' = Len(tokens[r]) - 1
    BY <1>1, <2>1, <2>10 DEF TargetLength
  <2>13. IsCut(target_cache[r], tokens[r], Len(tokens[r]) - 1)
    BY <2>2, CutOfConcat
  <2>14. IsCut(target_cache'[r], tokens[r] \o proposals'[r], Len(tokens[r]) - 1)
    BY <1>1, <2>2, <2>6, <2>13, CutOfConcat
  <2>15. QED
    BY <2>1, <2>2, <2>5, <2>6, <2>8, <2>9, <2>10, <2>11, <2>12, <2>14
<1>4. ASSUME NEW r \in Requests, r \notin ActiveProposals
      PROVE draft_cache'[r] = draft_cache[r] /\ proposals'[r] = proposals[r]
  BY <1>1, <1>2, <1>4
<1>5. GenerationTypeOK'
  <2>1. \A r \in Requests : draft_cache'[r] \in Seq(Tokens) /\ proposals'[r] \in Seq(Tokens)
    BY <1>1, <1>3, <1>4, RequestFacts
  <2>2. /\ draft_cache' = [r \in Requests |-> draft_cache'[r]]
        /\ proposals' = [r \in Requests |-> proposals'[r]]
    BY <1>1, <1>2
  <2>3. draft_cache' \in [Requests -> Seq(Tokens)] /\ proposals' \in [Requests -> Seq(Tokens)]
    BY <2>1, <2>2
  <2>4. Runnable' = Runnable
    BY <1>1 DEF Runnable, Phase, stateVars
  <2>5. QED
    BY <1>1, <2>3, <2>4 DEF GenerationTypeOK, modelVars, stateVars
<1>6. ASSUME NEW r \in Requests PROVE RequestInv(r)'
  <2>1. RequestInv(r)
    BY DEF GenerationInv
  <2>2. CASE r \notin ActiveProposals
    BY <1>1, <1>4, <2>1, <2>2, SameRequest DEF modelVars, stateVars
  <2>3. CASE r \in ActiveProposals
    <3>1. /\ ProgressInv(r)' /\ PrefillInv(r)' /\ ReferenceInv(r)'
          /\ Phase(r)' = Phase(r) /\ Verifies(r)' = Verifies(r)
      BY <1>1, <2>1, ForwardFacts
    <3>2. stage[r] = "Executing" /\ Phase(r) \notin Finished
      BY <1>3, <2>3, BatchFacts
    <3>3. ProposalInv(r)'
      BY <1>1, <1>3, <2>1, <2>3, <3>1 DEF RequestInv, ProposalInv, stateVars
    <3>4. CachesInv(r)'
      BY <1>1, <1>3, <2>3, <3>1, <3>2 DEF CachesInv
    <3>5. QED
      BY <3>1, <3>3, <3>4 DEF RequestInv
  <2>4. QED
    BY <2>2, <2>3
<1>7. StepInv'
  BY <1>1 DEF StepInv, modelVars
<1>8. QED
  BY <1>1, <1>5, <1>6, <1>7, SameReference DEF GenerationInv

LEMMA TargetForwardInv ==
  ASSUME GenerationInv, RunTargetForward
  PROVE  GenerationInv'
<1>1. /\ GenerationTypeOK /\ step = "Drafting" /\ step' = "Completing"
      /\ pending = batch /\ batch \subseteq Requests
      /\ UNCHANGED modelVars /\ UNCHANGED stateVars
      /\ UNCHANGED <<stage, draft_cache, batch, pending, token_budget, proposals>>
      /\ target_cache' = [r \in Requests |->
           IF r \in batch THEN Fed(target_cache[r], TargetInput(r)) ELSE target_cache[r]]
      /\ \A r \in batch : Verifies(r) => proposals[r] # <<>>
  BY DEF RunTargetForward, GenerationInv, StepInv, GenerationTypeOK
<1>2. ASSUME NEW r \in batch
      PROVE  /\ target_cache'[r] \in Seq(Tokens)
             /\ IsCut(target_cache'[r], Context(r), TargetLength(r)')
  <2>1. /\ r \in pending /\ r \in Requests /\ tokens[r] \in Seq(Tokens) /\ tokens[r] # <<>>
        /\ Len(tokens[r]) \in Nat \ {0}
        /\ proposals[r] \in Seq(Tokens) /\ Len(proposals[r]) \in Nat
        /\ Phase(r) \in {"Prefill", "Decode"}
    BY <1>1, BatchFacts, RequestFacts
  <2>2. /\ Phase(r)' = Phase(r) /\ ChunkEnd(r)' = ChunkEnd(r) /\ RequestInv(r)
        /\ tokens'[r] = tokens[r] /\ speculative' = speculative /\ proposals'[r] = proposals[r]
        /\ target_position'[r] = target_position[r]
    BY <1>1, <2>1, ForwardFacts, BatchFacts DEF modelVars, stateVars
  <2>3. target_cache'[r] = target_cache[r] \o TargetInput(r).tokens
    BY <1>1, <2>1 DEF Fed
  <2>4. CASE Phase(r) = "Prefill"
    <3>1. Context(r) = tokens[r] /\ IsCut(target_cache[r], tokens[r], target_position[r])
      BY <1>1, <2>1, <2>4, BatchFacts DEF TargetLength
    <3>2. ChunkEnd(r) \in 0 .. Len(tokens[r])
      BY <2>1, <2>4, ChunkFacts
    <3>3. target_cache'[r] = target_cache[r] \o SubSeq(tokens[r], target_position[r] + 1, ChunkEnd(r))
      BY <2>3, <2>4 DEF TargetInput, PrefillInput
    <3>4. IsCut(target_cache'[r], tokens[r], Larger(target_position[r], ChunkEnd(r)))
      BY <2>1, <3>1, <3>2, <3>3, CutExtended
    <3>5. TargetLength(r)' = Larger(target_position[r], ChunkEnd(r))
      BY <1>1, <2>1, <2>2, <2>4 DEF TargetLength
    <3>6. QED
      BY <2>1, <3>1, <3>4, <3>5, CutShape
  <2>5. CASE Phase(r) = "Decode"
    <3>1. IsCut(target_cache[r], tokens[r] \o proposals[r], Len(tokens[r]) - 1)
      BY <1>1, <2>1, <2>5, BatchFacts DEF TargetLength, Context
    <3>2. IsCut(target_cache[r], tokens[r], Len(tokens[r]) - 1)
      BY <2>1, <3>1, CutOfConcat
    <3>3. target_cache'[r] = target_cache[r] \o
            (<<LastToken(tokens[r])>> \o SubSeq(proposals[r], 1, Len(proposals[r]) - 1))
      BY <2>3, <2>5 DEF TargetInput
    <3>4. IsCut(target_cache'[r], tokens[r] \o proposals[r],
                IF proposals[r] = <<>> THEN Len(tokens[r]) ELSE Len(tokens[r]) + Len(proposals[r]) - 1)
      BY <2>1, <3>2, <3>3, CutVerified
    <3>5. proposals[r] = <<>> <=> ~speculative
      BY <1>1, <2>1, <2>5, BatchFacts DEF Verifies
    <3>6. TargetLength(r)' =
            IF proposals[r] = <<>> THEN Len(tokens[r]) ELSE Len(tokens[r]) + Len(proposals[r]) - 1
      BY <1>1, <2>1, <2>2, <2>5, <3>5 DEF TargetLength
    <3>7. tokens[r] \o proposals[r] \in Seq(Tokens)
      BY <2>1, ConcatProperties
    <3>8. QED
      BY <3>4, <3>6, <3>7, CutShape DEF Context
  <2>6. QED
    BY <2>1, <2>4, <2>5
<1>3. GenerationTypeOK'
  <2>1. \A r \in Requests : target_cache'[r] \in Seq(Tokens)
    BY <1>1, <1>2, RequestFacts
  <2>2. target_cache' = [r \in Requests |-> target_cache'[r]]
    BY <1>1
  <2>3. target_cache' \in [Requests -> Seq(Tokens)]
    BY <2>1, <2>2
  <2>4. Runnable' = Runnable
    BY <1>1 DEF Runnable, Phase, stateVars
  <2>5. QED
    BY <1>1, <2>3, <2>4 DEF GenerationTypeOK, modelVars, stateVars
<1>4. ASSUME NEW r \in Requests PROVE RequestInv(r)'
  <2>1. RequestInv(r)
    BY DEF GenerationInv
  <2>2. CASE r \notin batch
    <3>1. target_cache'[r] = target_cache[r] /\ r \notin pending /\ r \notin pending'
      BY <1>1, <2>2
    <3>2. QED
      BY <1>1, <2>1, <3>1, SameRequest DEF modelVars, stateVars
  <2>3. CASE r \in batch
    <3>1. /\ ProgressInv(r)' /\ PrefillInv(r)' /\ ReferenceInv(r)'
          /\ Phase(r)' = Phase(r) /\ Verifies(r)' = Verifies(r) /\ ChunkEnd(r)' = ChunkEnd(r)
      BY <1>1, <2>1, ForwardFacts
    <3>2. /\ stage[r] = "Executing" /\ Phase(r) \notin Finished /\ r \in pending
          /\ IsCut(draft_cache[r], Context(r), DraftLength(r))
      BY <1>1, <2>3, BatchFacts
    <3>3. ProposalInv(r)'
      BY <1>1, <2>1, <2>3, <3>1 DEF RequestInv, ProposalInv, stateVars
    <3>4. Context(r)' = Context(r) /\ DraftLength(r)' = DraftLength(r)
      BY <1>1, <3>1 DEF Context, DraftLength, modelVars, stateVars
    <3>5. CachesInv(r)'
      BY <1>1, <1>2, <2>3, <3>1, <3>2, <3>4 DEF CachesInv
    <3>6. QED
      BY <3>1, <3>3, <3>5 DEF RequestInv
  <2>4. QED
    BY <2>2, <2>3
<1>5. StepInv'
  BY <1>1 DEF StepInv
<1>6. QED
  BY <1>1, <1>3, <1>4, <1>5, SameReference DEF GenerationInv

-----------------------------------------------------------------------------
(* Completing the step of one request *)

LEMMA EndFacts ==
  ASSUME GenerationInv, NEW r \in Requests, EndStepOf(r)
  PROVE  /\ r \in pending /\ step = "Completing" /\ stage[r] = "Executing"
         /\ stage' = stage /\ UNCHANGED modelVars
         /\ proposals'[r] = <<>> /\ token_budget'[r] = 0
         /\ r \notin pending' /\ pending' \subseteq pending
         /\ \A q \in Requests : q # r =>
              /\ proposals'[q] = proposals[q] /\ token_budget'[q] = token_budget[q]
              /\ q \in pending' <=> q \in pending
              /\ q \in pending => step' = step
         /\ proposals' \in [Requests -> Seq(Tokens)]
         /\ token_budget' \in [Requests -> 0 .. MaxTokenBudget]
         /\ pending' \subseteq batch' /\ batch' \subseteq Requests
         /\ step' \in {"Idle", "Completing"} /\ StepInv'
<1>1. GenerationTypeOK /\ pending \subseteq batch \cap Runnable /\ batch \subseteq Requests
  BY DEF GenerationInv, GenerationTypeOK
<1>2. /\ r \in pending /\ step = "Completing" /\ stage[r] = "Executing"
      /\ stage' = stage /\ UNCHANGED modelVars /\ pending' = pending \ {r}
  BY <1>1 DEF EndStepOf, Runnable
<1>3. /\ token_budget' = [token_budget EXCEPT ![r] = 0]
      /\ proposals' = [proposals EXCEPT ![r] = <<>>]
      /\ proposals \in [Requests -> Seq(Tokens)]
      /\ token_budget \in [Requests -> 0 .. MaxTokenBudget]
  BY <1>1 DEF EndStepOf, GenerationTypeOK
<1>4. /\ proposals' \in [Requests -> Seq(Tokens)] /\ proposals'[r] = <<>> /\ token_budget'[r] = 0
      /\ token_budget' \in [Requests -> 0 .. MaxTokenBudget]
      /\ \A q \in Requests : q # r =>
           proposals'[q] = proposals[q] /\ token_budget'[q] = token_budget[q]
  BY <1>3, EmptySeq, TextGenerationAssumption
<1>5. CASE pending = {r}
  BY <1>2, <1>4, <1>5 DEF EndStepOf, StepInv
<1>6. CASE pending # {r}
  BY <1>1, <1>2, <1>4, <1>6 DEF EndStepOf, StepInv
<1>7. QED
  BY <1>5, <1>6

\* The other requests of the batch keep what they have.
LEMMA CompletionInv ==
  ASSUME GenerationInv, NEW r \in Requests, EndStepOf(r), RequestInv(r)',
         tokens' \in [Requests -> Seq(Tokens)],
         generation_phase' \in [Requests -> Phases \X Nat],
         target_position' \in [Requests -> Nat], draft_position' \in [Requests -> Nat],
         target_cache' \in [Requests -> Seq(Tokens)], draft_cache' \in [Requests -> Seq(Tokens)],
         draft_token_count' \in [Requests -> policy.minimum .. policy.maximum],
         smoothed_accepted_length' \in [Requests -> Nat],
         \A q \in Requests : q # r =>
           /\ tokens'[q] = tokens[q] /\ generation_phase'[q] = generation_phase[q]
           /\ target_position'[q] = target_position[q] /\ draft_position'[q] = draft_position[q]
           /\ target_cache'[q] = target_cache[q] /\ draft_cache'[q] = draft_cache[q]
  PROVE  GenerationInv'
<1>1. GenerationTypeOK /\ UNCHANGED modelVars /\ StepInv'
  BY EndFacts DEF GenerationInv
<1>2. ASSUME NEW q \in Requests, q # r PROVE RequestInv(q)'
  <2>1. RequestInv(q)
    BY DEF GenerationInv
  <2>2. /\ stage'[q] = stage[q] /\ UNCHANGED <<speculative, reference>>
        /\ proposals'[q] = proposals[q]
        /\ q \in pending' <=> q \in pending
        /\ q \in pending => step' = step /\ token_budget'[q] = token_budget[q]
    BY <1>2, EndFacts DEF modelVars
  <2>3. QED
    BY <1>2, <2>1, <2>2, SameRequest
<1>3. pending' \subseteq batch' \cap Runnable'
  <2>1. ASSUME NEW q \in pending' PROVE q \in Runnable'
    <3>1. q \in pending /\ q # r /\ q \in Requests /\ stage' = stage
      BY <1>1, EndFacts DEF GenerationTypeOK
    <3>2. stage[q] = "Executing" /\ Phase(q) \notin Finished
      BY <1>1, <3>1 DEF GenerationTypeOK, Runnable
    <3>3. Phase(q)' = Phase(q)
      BY <3>1 DEF Phase
    <3>4. QED
      BY <3>1, <3>2, <3>3 DEF Runnable
  <2>2. QED
    BY <2>1, EndFacts
<1>4. GenerationTypeOK'
  <2>1. /\ stage' \in [Requests -> Stages] /\ speculative' \in BOOLEAN /\ policy' \in Policies
        /\ policy' = policy
    BY <1>1, EndFacts DEF GenerationTypeOK, modelVars
  <2>2. /\ proposals' \in [Requests -> Seq(Tokens)]
        /\ token_budget' \in [Requests -> 0 .. MaxTokenBudget]
        /\ batch' \subseteq Requests /\ step' \in {"Idle", "Completing"}
    BY EndFacts
  <2>3. QED
    BY <1>3, <2>1, <2>2 DEF GenerationTypeOK
<1>5. QED
  BY <1>1, <1>2, <1>4, SameReference DEF GenerationInv

-----------------------------------------------------------------------------
(* The reference *)

\* What follows the reference when it is appended to the committed tokens.
LEMMA ReferenceContinued ==
  ASSUME GenerationInv, NEW r \in GreedyRequests, NEW g \in Nat,
         Len(tokens[r]) = InputTokenCount(r) + g,
         NEW b \in Seq(Tokens), g + Len(b) <= MaxNewTokenCount[r],
         \A i \in 1 .. Len(b) : b[i] = reference[r][g + i]
  PROVE  /\ tokens[r] \o b = InputTokens[r] \o SubSeq(reference[r], 1, g + Len(b))
         /\ Len(tokens[r] \o b) - InputTokenCount(r) = g + Len(b)
<1> DEFINE own == reference[r]
           begun == SubSeq(own, 1, g)
<1>1. r \in Requests
  BY TextGenerationAssumption
<1>2. /\ own \in Seq(Tokens) /\ Len(own) = MaxNewTokenCount[r] /\ Len(own) \in Nat
      /\ InputTokenCount(r) \in Nat /\ InputTokens[r] \in Seq(Tokens)
      /\ tokens[r] \in Seq(Tokens) /\ Len(b) \in Nat
  BY <1>1, ConstantFacts, RequestFacts, LenProperties DEF GenerationInv, ReferenceOK
<1>3. tokens[r] = InputTokens[r] \o begun
  <2>1. Len(tokens[r]) - InputTokenCount(r) = g
    BY <1>2
  <2>2. QED
    BY <1>1, <2>1 DEF GenerationInv, RequestInv, ReferenceInv
<1> HIDE DEF own
<1>4. g \in 0 .. Len(own) /\ \A i \in 1 .. Len(b) : b[i] = own[g + i]
  BY <1>2 DEF own
<1>5. IsCut(begun, own, g)
  BY <1>4 DEF IsCut
<1> HIDE DEF begun
<1>6. begun \in Seq(Tokens) /\ Len(begun) = g /\ \A i \in 1 .. g : begun[i] = own[i]
  BY <1>2, <1>5, CutShape
<1> DEFINE c == begun \o b
<1>7. /\ c \in Seq(Tokens) /\ Len(c) = g + Len(b)
      /\ \A i \in 1 .. g + Len(b) : c[i] = IF i <= g THEN begun[i] ELSE b[i - g]
  BY <1>6, ConcatProperties
<1> HIDE DEF c
<1>8. \A i \in 1 .. Len(c) : c[i] = own[i]
  <2> TAKE i \in 1 .. Len(c)
  <2>1. CASE i <= g
    BY <2>1, <1>2, <1>6, <1>7
  <2>2. CASE ~ (i <= g)
    <3>1. i - g \in 1 .. Len(b) /\ c[i] = b[i - g]
      BY <2>2, <1>2, <1>7
    <3>2. b[i - g] = own[g + (i - g)]
      BY <1>4, <3>1
    <3>3. QED
      BY <3>1, <3>2
  <2>3. QED
    BY <2>1, <2>2
<1>9. IsCut(c, own, Len(c))
  <2>1. Len(c) <= Len(own)
    BY <1>2, <1>7
  <2>2. QED
    BY <2>1, <1>2, <1>7, <1>8, CutByElements
<1>10. c = SubSeq(own, 1, g + Len(b))
  BY <1>7, <1>9 DEF IsCut
<1>11. tokens[r] \o b = InputTokens[r] \o c
  <2>1. (InputTokens[r] \o begun) \o b = InputTokens[r] \o (begun \o b)
    <3>1. \A s, t, u \in Seq(Tokens) : (s \o t) \o u = s \o (t \o u)
      BY ConcatAssociative, SMTT(60)
    <3>2. InputTokens[r] \in Seq(Tokens) /\ begun \in Seq(Tokens) /\ b \in Seq(Tokens)
      BY <1>2, <1>6
    <3> DEFINE input == InputTokens[r]
    <3> HIDE DEF input
    <3>3. input \in Seq(Tokens) => (input \o begun) \o b = input \o (begun \o b)
      BY <3>1, <3>2, SMTT(60)
    <3>4. QED
      BY <3>2, <3>3 DEF input
  <2>2. QED
    BY <2>1, <1>3 DEF c
<1>12. Len(tokens[r] \o b) = Len(tokens[r]) + Len(b)
  BY <1>2, ConcatProperties
<1>13. QED
  BY <1>2, <1>10, <1>11, <1>12 DEF own

\* A greedy target selects what the reference goes on with.
LEMMA SelectsReference ==
  ASSUME GenerationInv, NEW r \in GreedyRequests, NEW g \in Nat,
         Len(tokens[r]) = InputTokenCount(r) + g,
         NEW b \in Seq(Tokens), g + Len(b) < MaxNewTokenCount[r],
         \A i \in 1 .. Len(b) : b[i] = reference[r][g + i],
         NEW token \in TargetSelections(r, tokens[r] \o b, tokens[r] \o b)
  PROVE  token = reference[r][g + Len(b) + 1]
<1> DEFINE context == tokens[r] \o b
           n == g + Len(b)
<1>1. MaxNewTokenCount[r] \in Nat /\ Len(b) \in Nat
  BY TextGenerationAssumption, LenProperties
<1>2. context = InputTokens[r] \o SubSeq(reference[r], 1, n) /\ Len(context) - InputTokenCount(r) = n
  <2>1. g + Len(b) <= MaxNewTokenCount[r]
    BY <1>1
  <2>2. QED
    BY <2>1, ReferenceContinued
<1>3. n \in 0 .. MaxNewTokenCount[r] - 1
  BY <1>1
<1>4. token \in TargetSelections(r, context, context)
  OBVIOUS
<1> HIDE DEF context, n
<1>5. IsOnReference(r, context)
  BY <1>2, <1>3 DEF IsOnReference
<1>6. token = reference[r][n + 1]
  BY <1>2, <1>4, <1>5 DEF TargetSelections
<1>7. QED
  BY <1>6 DEF n

LEMMA SelectionsAreTokens ==
  ASSUME GenerationInv, NEW r \in Requests, NEW seen, NEW penalized
  PROVE  TargetSelections(r, seen, penalized) \subseteq Tokens
<1>1. CASE r \in GreedyRequests /\ IsOnReference(r, seen)
  <2> DEFINE n == Len(seen) - InputTokenCount(r)
  <2>1. reference[r] \in Seq(Tokens) /\ Len(reference[r]) = MaxNewTokenCount[r]
        /\ n \in 0 .. MaxNewTokenCount[r] - 1 /\ MaxNewTokenCount[r] \in Nat
    BY <1>1, ConstantFacts DEF GenerationInv, ReferenceOK, IsOnReference
  <2> HIDE DEF n
  <2>2. n + 1 \in 1 .. Len(reference[r])
    BY <2>1
  <2>3. reference[r][n + 1] \in Tokens
    BY <2>1, <2>2, ElementOfSeq
  <2>4. QED
    BY <2>3 DEF TargetSelections, n
<1>2. CASE ~ (r \in GreedyRequests /\ IsOnReference(r, seen))
  BY <1>2 DEF TargetSelections
<1>3. QED
  BY <1>1, <1>2

-----------------------------------------------------------------------------
(* Committing tokens *)

LEMMA CommitFacts ==
  ASSUME GenerationInv, NEW r \in Requests, NEW generated \in Nat, NEW selected,
         IsSelection(selected), Commit(r, generated, selected)
  PROVE  LET committed == BeforeEndOfSequence(selected)
         IN  /\ tokens' \in [Requests -> Seq(Tokens)]
             /\ generation_phase' \in [Requests -> Phases \X Nat]
             /\ tokens'[r] = tokens[r] \o committed
             /\ generation_phase'[r] =
                  DetermineDecodePhase(r, generated + Len(committed), committed = selected)
             /\ \A q \in Requests : q # r =>
                  tokens'[q] = tokens[q] /\ generation_phase'[q] = generation_phase[q]
<1> DEFINE committed == BeforeEndOfSequence(selected)
           phase == DetermineDecodePhase(r, generated + Len(committed), committed = selected)
<1>1. /\ tokens \in [Requests -> Seq(Tokens)] /\ generation_phase \in [Requests -> Phases \X Nat]
  BY DEF GenerationInv, GenerationTypeOK
<1>2. committed \in Seq(Tokens) /\ Len(committed) \in Nat
  BY CommittedOfSelection, LenProperties
<1>3. tokens' = [tokens EXCEPT ![r] = @ \o committed]
      /\ generation_phase' = [generation_phase EXCEPT ![r] = phase]
  BY DEF Commit
<1> HIDE DEF committed
<1>4. phase \in Phases \X Nat
  BY <1>2 DEF DetermineDecodePhase, Phases, Finished
<1>5. tokens[r] \o committed \in Seq(Tokens)
  BY <1>1, <1>2, ConcatProperties
<1> HIDE DEF phase
<1>6. /\ tokens' \in [Requests -> Seq(Tokens)]
      /\ generation_phase' \in [Requests -> Phases \X Nat]
      /\ tokens'[r] = tokens[r] \o committed /\ generation_phase'[r] = phase
      /\ \A q \in Requests : q # r =>
           tokens'[q] = tokens[q] /\ generation_phase'[q] = generation_phase[q]
  BY <1>1, <1>3, <1>4, <1>5
<1>7. QED
  BY <1>6 DEF committed, phase

\* A request whose caches hold all but the last of the committed and the selected tokens, which
\* are the reference's if it is greedy.
LEMMA CommittedRequest ==
  ASSUME GenerationInv, NEW r \in Requests, EndStepOf(r), NEW generated \in Nat, NEW selected,
         IsSelection(selected), Commit(r, generated, selected),
         Len(tokens[r]) = InputTokenCount(r) + generated,
         generated + Len(selected) <= MaxNewTokenCount[r],
         IsCut(target_cache'[r], tokens[r] \o selected, Len(tokens[r]) + Len(selected) - 1),
         IsCut(draft_cache'[r], tokens[r] \o selected,
               IF speculative THEN Len(tokens[r]) + Len(selected) - 1 ELSE 0),
         r \in GreedyRequests =>
           \A i \in 1 .. Len(selected) : selected[i] = reference[r][generated + i]
  PROVE  RequestInv(r)'
<1> DEFINE committed == BeforeEndOfSequence(selected)
           n == Len(committed)
           m == Len(selected)
           before == Len(tokens[r])
<1>1. /\ stage'[r] = "Executing" /\ proposals'[r] = <<>> /\ r \notin pending'
      /\ UNCHANGED <<speculative, reference>>
  BY EndFacts DEF modelVars
<1>2. /\ committed \in Seq(Tokens) /\ selected \in Seq(Tokens) /\ tokens[r] \in Seq(Tokens)
      /\ n \in Nat /\ m \in Nat \ {0} /\ before \in Nat
      /\ InputTokenCount(r) \in Nat \ {0} /\ MaxNewTokenCount[r] \in Nat \ {0}
      /\ before = InputTokenCount(r) + generated /\ generated + m <= MaxNewTokenCount[r]
  BY ConstantFacts, RequestFacts, CommittedOfSelection, LenProperties, EmptySeq
  DEF IsSelection, GenerationInv
<1>3. /\ selected[m] \in EndOfSequenceTokens <=> committed # selected
      /\ n = IF selected[m] \in EndOfSequenceTokens THEN m - 1 ELSE m
      /\ \A i \in 1 .. n : committed[i] = selected[i] /\ selected[i] \notin EndOfSequenceTokens
  BY CommittedOfSelection
<1>4. /\ tokens'[r] = tokens[r] \o committed
      /\ generation_phase'[r] = DetermineDecodePhase(r, generated + n, committed = selected)
  BY CommitFacts
<1>5. Len(tokens'[r]) = before + n /\ tokens'[r] \in Seq(Tokens)
  BY <1>2, <1>4, ConcatProperties
<1>6. /\ IsCut(target_cache'[r], tokens[r] \o selected, before + m - 1)
      /\ IsCut(draft_cache'[r], tokens[r] \o selected, IF speculative THEN before + m - 1 ELSE 0)
  OBVIOUS
<1>7. ASSUME NEW c, NEW l, IsCut(c, tokens[r] \o selected, l), l <= before + m - 1
      PROVE  IsCut(c, tokens'[r], l)
  <2> DEFINE k == m - 1
  <2>1. k \in Nat /\ k <= Len(selected) /\ k <= Len(committed)
        /\ (\A i \in 1 .. k : selected[i] = committed[i]) /\ l <= Len(tokens[r]) + k
    <3>1. m - 1 \in Nat /\ m - 1 <= m /\ m - 1 <= n /\ l <= before + (m - 1)
      <4>1. l \in Int
        BY <1>7, <1>2 DEF IsCut
      <4> HIDE DEF n, m, before
      <4>2. QED
        BY <4>1, <1>2, <1>3, <1>7
    <3>2. \A i \in 1 .. m - 1 : i \in 1 .. n
      <4> HIDE DEF n, m
      <4>1. QED
        BY <1>2, <3>1
    <3>3. QED
      BY <1>3, <3>1, <3>2
  <2> HIDE DEF k
  <2>2. IsCut(c, tokens[r] \o committed, l)
    BY <1>2, <1>7, <2>1, CutExchanged
  <2>3. QED
    BY <1>4, <2>2
<1> HIDE DEF n, m, before, committed
<1>8. /\ IsCut(target_cache'[r], tokens'[r], before + m - 1)
      /\ IsCut(draft_cache'[r], tokens'[r], IF speculative THEN before + m - 1 ELSE 0)
  <2> DEFINE place == IF speculative THEN before + m - 1 ELSE 0
  <2>1. before + m - 1 <= before + m - 1 /\ place <= before + m - 1
    BY <1>2
  <2> HIDE DEF place
  <2>2. IsCut(target_cache'[r], tokens'[r], before + m - 1)
    BY <1>6, <1>7, <2>1, Zenon
  <2>3. IsCut(draft_cache'[r], tokens[r] \o selected, place)
    BY <1>6 DEF place
  <2>4. IsCut(draft_cache'[r], tokens'[r], place)
    BY <1>7, <2>1, <2>3, Zenon
  <2>5. QED
    BY <2>2, <2>4 DEF place
<1>9. \/ /\ generation_phase'[r] = <<"EndOfSequenceToken", 0>>
         /\ n = m - 1 /\ selected[m] \in EndOfSequenceTokens
      \/ /\ generation_phase'[r] = <<"Decode", generated + n>>
         /\ n = m /\ generated + n < MaxNewTokenCount[r]
      \/ /\ generation_phase'[r] = <<"MaxNewTokensReached", 0>>
         /\ n = m /\ generated + n = MaxNewTokenCount[r]
  <2>1. CASE selected[m] \in EndOfSequenceTokens
    <3>1. committed # selected /\ n = m - 1
      BY <1>3, <2>1
    <3>2. generation_phase'[r] = <<"EndOfSequenceToken", 0>>
      BY <1>4, <3>1 DEF DetermineDecodePhase
    <3>3. QED
      BY <2>1, <3>1, <3>2
  <2>2. CASE selected[m] \notin EndOfSequenceTokens
    <3>1. committed = selected /\ n = m
      BY <1>3, <2>2
    <3>2. generation_phase'[r] = IF generated + n < MaxNewTokenCount[r]
                                 THEN <<"Decode", generated + n>>
                                 ELSE <<"MaxNewTokensReached", 0>>
      BY <1>4, <3>1 DEF DetermineDecodePhase
    <3>3. generated + n <= MaxNewTokenCount[r]
      BY <1>2, <3>1
    <3>4. CASE generated + n < MaxNewTokenCount[r]
      BY <3>1, <3>2, <3>4
    <3>5. CASE ~ (generated + n < MaxNewTokenCount[r])
      <4>1. generated + n = MaxNewTokenCount[r]
        <5>1. generated + n \in Int /\ MaxNewTokenCount[r] \in Int
          BY <1>2
        <5>2. \A a, b \in Int : a <= b /\ ~ (a < b) => a = b
          OBVIOUS
        <5>3. QED
          BY <5>1, <5>2, <3>3, <3>5
      <4>2. QED
        BY <3>1, <3>2, <3>5, <4>1
    <3>6. QED
      BY <3>4, <3>5
  <2>3. QED
    BY <2>1, <2>2
<1>10. ProgressInv(r)' /\ PrefillInv(r)'
  <2>1. Phase(r)' # "Prefill"
    BY <1>9 DEF Phase
  <2>2. Phase(r)' = "EndOfSequenceToken" => generated + n < MaxNewTokenCount[r]
    <3>1. Phase(r)' = "EndOfSequenceToken" => n = m - 1
      BY <1>9 DEF Phase
    <3>2. /\ m \in Nat /\ generated \in Nat /\ MaxNewTokenCount[r] \in Nat
          /\ generated + m <= MaxNewTokenCount[r]
      BY <1>2
    <3>3. QED
      BY <3>1, <3>2
  <2>3. Phase(r)' = "Decode" => /\ generation_phase'[r][2] = generated + n
                                /\ generated + n < MaxNewTokenCount[r]
    BY <1>9 DEF Phase
  <2>4. Phase(r)' = "MaxNewTokensReached" => generated + n = MaxNewTokenCount[r]
    BY <1>9 DEF Phase
  <2>5. /\ Len(tokens'[r]) = InputTokenCount(r) + (generated + n)
        /\ generated + n \in Nat
    BY <1>2, <1>5
  <2>6. ProgressInv(r)'
    <3>1. /\ InputTokenCount(r) \in Nat /\ MaxNewTokenCount[r] \in Nat
          /\ Len(tokens'[r]) >= InputTokenCount(r)
      <4>1. InputTokenCount(r) \in Nat /\ MaxNewTokenCount[r] \in Nat
        BY <1>2
      <4>2. \A a, b \in Nat : a + b >= a
        OBVIOUS
      <4> HIDE DEF n
      <4>3. QED
        BY <2>5, <4>1, <4>2
    <3>2. Phase(r)' = "EndOfSequenceToken" =>
            Len(tokens'[r]) < InputTokenCount(r) + MaxNewTokenCount[r]
      BY <2>2, <2>5, <3>1
    <3>3. Phase(r)' = "MaxNewTokensReached" =>
            Len(tokens'[r]) = InputTokenCount(r) + MaxNewTokenCount[r]
      BY <2>4, <2>5
    <3>4. QED
      BY <1>1, <2>1, <2>3, <2>5, <3>1, <3>2, <3>3 DEF ProgressInv
  <2>7. PrefillInv(r)'
    BY <2>1 DEF PrefillInv
  <2>8. QED
    BY <2>6, <2>7
<1>11. ProposalInv(r)'
  BY <1>1, <1>2, <1>9, EmptySeq DEF ProposalInv, Phase
<1>12. CachesInv(r)'
  <2>1. Context(r)' = tokens'[r]
    BY <1>1, <1>5, ConcatEmptySeq DEF Context
  <2>2. CASE Phase(r)' \notin Finished
    <3>1. Phase(r)' = "Decode" /\ n = m
      BY <1>9, <2>2 DEF Phase, Finished
    <3>2. TargetLength(r)' = before + m - 1
      BY <1>1, <1>2, <1>5, <3>1 DEF TargetLength
    <3>3. DraftLength(r)' = IF speculative THEN before + m - 1 ELSE 0
      <4>1. Len(proposals'[r]) = 0
        BY <1>1, EmptySeq
      <4>2. QED
        BY <1>1, <1>2, <1>5, <3>1, <4>1 DEF DraftLength
    <3>4. QED
      BY <1>1, <1>8, <2>1, <2>2, <3>2, <3>3 DEF CachesInv
  <2>3. CASE Phase(r)' \in Finished
    <3>1. /\ BeginsWith(tokens'[r], target_cache'[r]) /\ BeginsWith(tokens'[r], draft_cache'[r])
          /\ Len(target_cache'[r]) = before + m - 1
          /\ Len(draft_cache'[r]) = IF speculative THEN before + m - 1 ELSE 0
      BY <1>5, <1>8, CutIsBeginning, CutShape
    <3>2. CacheBound(r)' = InputTokenCount(r) + MaxNewTokenCount[r] - 1
      BY DEF CacheBound
    <3>3. before + m - 1 <= CacheBound(r)' /\ 0 <= CacheBound(r)'
      BY <1>2, <3>2
    <3>4. QED
      BY <1>1, <2>3, <3>1, <3>3 DEF CachesInv
  <2>4. QED
    BY <2>2, <2>3
<1>13. ReferenceInv(r)'
  <2> SUFFICES ASSUME r \in GreedyRequests
               PROVE  LET count == Len(tokens'[r]) - InputTokenCount(r)
                      IN  /\ tokens'[r] = InputTokens[r] \o SubSeq(reference[r], 1, count)
                          /\ \A i \in 1 .. count : reference[r][i] \notin EndOfSequenceTokens
                          /\ Phase(r)' = "EndOfSequenceToken" =>
                               reference[r][count + 1] \in EndOfSequenceTokens
    BY <1>1 DEF ReferenceInv
  <2>1. \A i \in 1 .. m : selected[i] = reference[r][generated + i]
    BY DEF m
  <2>2. \A i \in 1 .. n : committed[i] = reference[r][generated + i]
    BY <1>2, <1>3, <2>1
  <2>3. /\ tokens'[r] = InputTokens[r] \o SubSeq(reference[r], 1, generated + n)
        /\ Len(tokens'[r]) - InputTokenCount(r) = generated + n
    <3>1. /\ Len(tokens[r]) = InputTokenCount(r) + generated /\ Len(committed) = n
          /\ generated + Len(committed) <= MaxNewTokenCount[r] /\ committed \in Seq(Tokens)
      BY <1>2, <1>3 DEF n
    <3> HIDE DEF committed
    <3>2. /\ tokens[r] \o committed =
               InputTokens[r] \o SubSeq(reference[r], 1, generated + Len(committed))
          /\ Len(tokens[r] \o committed) - InputTokenCount(r) = generated + Len(committed)
      BY <2>2, <3>1, ReferenceContinued
    <3>3. QED
      BY <1>4, <3>1, <3>2
  <2>4. \A i \in 1 .. generated + n : reference[r][i] \notin EndOfSequenceTokens
    <3> TAKE i \in 1 .. generated + n
    <3>1. CASE i <= generated
      <4>1. Len(tokens[r]) - InputTokenCount(r) = generated
        BY <1>2 DEF before
      <4>2. QED
        BY <3>1, <4>1 DEF GenerationInv, RequestInv, ReferenceInv
    <3>2. CASE ~ (i <= generated)
      <4>1. i - generated \in 1 .. n /\ generated + (i - generated) = i
        BY <1>2, <3>2
      <4>2. committed[i - generated] = reference[r][generated + (i - generated)]
            /\ committed[i - generated] \notin EndOfSequenceTokens
        BY <1>3, <2>2, <4>1
      <4>3. QED
        BY <4>1, <4>2
    <3>3. QED
      BY <3>1, <3>2
  <2>5. Phase(r)' = "EndOfSequenceToken" =>
          reference[r][generated + n + 1] \in EndOfSequenceTokens
    <3> HAVE Phase(r)' = "EndOfSequenceToken"
    <3>1. n = m - 1 /\ selected[m] \in EndOfSequenceTokens
      BY <1>9 DEF Phase
    <3>2. m \in 1 .. m /\ generated + n + 1 = generated + m
      BY <1>2, <3>1
    <3>3. QED
      BY <2>1, <3>1, <3>2
  <2>6. QED
    BY <2>3, <2>4, <2>5
<1>14. QED
  BY <1>10, <1>11, <1>12, <1>13 DEF RequestInv

\* A step of the target model alone, whose cache holds all committed tokens, selects one token.
LEMMA SelectedAlone ==
  ASSUME GenerationInv, NEW r \in Requests, EndStepOf(r), ~speculative,
         NEW generated \in Nat, Len(tokens[r]) = InputTokenCount(r) + generated,
         generated < MaxNewTokenCount[r],
         IsCut(target_cache[r], tokens[r], Len(tokens[r])),
         NEW token \in NextSelections(r), Commit(r, generated, <<token>>),
         UNCHANGED <<target_cache, draft_cache>>
  PROVE  RequestInv(r)' /\ IsSelection(<<token>>)
<1> DEFINE selected == <<token>>
<1>1. /\ tokens[r] \in Seq(Tokens) /\ Len(tokens[r]) \in Nat /\ MaxNewTokenCount[r] \in Nat
      /\ token \in Tokens
  BY RequestFacts, ConstantFacts, SelectionsAreTokens DEF GenerationInv, NextSelections
<1>2. selected \in Seq(Tokens) /\ Len(selected) = 1 /\ selected[1] = token /\ selected # <<>>
  BY <1>1, EmptySeq
<1>3. IsSelection(selected)
  BY <1>2 DEF IsSelection
<1>4. Len(tokens[r]) + Len(selected) - 1 = Len(tokens[r])
      /\ generated + Len(selected) <= MaxNewTokenCount[r]
  BY <1>1, <1>2
<1>5. target_cache[r] = tokens[r]
  BY <1>1, SubSeqFull DEF IsCut
<1>6. IsCut(draft_cache[r], tokens[r], 0)
  BY EndFacts, BatchFacts DEF DraftLength
<1>7. r \in GreedyRequests => token = reference[r][generated + 1]
  <2> HAVE r \in GreedyRequests
  <2> DEFINE b == <<>>
  <2>1. /\ b \in Seq(Tokens) /\ Len(b) = 0 /\ tokens[r] \o b = tokens[r]
        /\ token \in TargetSelections(r, tokens[r], tokens[r])
    BY <1>1, <1>5, EmptySeq, ConcatEmptySeq DEF NextSelections
  <2> HIDE DEF b
  <2>2. token \in TargetSelections(r, tokens[r] \o b, tokens[r] \o b)
        /\ generated + Len(b) < MaxNewTokenCount[r]
        /\ \A i \in 1 .. Len(b) : b[i] = reference[r][generated + i]
    BY <2>1
  <2>3. token = reference[r][generated + Len(b) + 1]
    BY <2>1, <2>2, SelectsReference
  <2>4. QED
    BY <2>1, <2>3
<1> HIDE DEF selected
<1>8. IsCut(target_cache[r], tokens[r] \o selected, Len(tokens[r]))
      /\ IsCut(draft_cache[r], tokens[r] \o selected, 0)
  BY <1>1, <1>2, <1>6, CutOfConcat
<1>9. r \in GreedyRequests =>
        \A i \in 1 .. Len(selected) : selected[i] = reference[r][generated + i]
  BY <1>2, <1>7
<1>10. Commit(r, generated, selected)
  BY DEF selected
<1>11. /\ IsCut(target_cache'[r], tokens[r] \o selected, Len(tokens[r]) + Len(selected) - 1)
       /\ IsCut(draft_cache'[r], tokens[r] \o selected,
                IF speculative THEN Len(tokens[r]) + Len(selected) - 1 ELSE 0)
  BY <1>4, <1>8
<1>12. RequestInv(r)'
  BY <1>3, <1>4, <1>9, <1>10, <1>11, CommittedRequest
<1>13. QED
  BY <1>3, <1>12 DEF selected

LEMMA PrefillCompletionInv ==
  ASSUME GenerationInv, NEW r \in Requests, CompletePrefill(r)
  PROVE  GenerationInv'
<1>1. /\ EndStepOf(r) /\ ~speculative /\ Phase(r) = "Prefill"
      /\ target_position' = [target_position EXCEPT ![r] = ChunkEnd(r)]
      /\ UNCHANGED <<draft_position, draft_token_count, smoothed_accepted_length,
                     target_cache, draft_cache>>
  BY DEF CompletePrefill
<1>2. /\ r \in pending /\ step = "Completing" /\ stage[r] = "Executing" /\ stage' = stage
      /\ UNCHANGED modelVars /\ proposals'[r] = <<>> /\ r \notin pending'
  BY <1>1, EndFacts
<1>3. /\ GenerationTypeOK /\ RequestInv(r) /\ tokens[r] \in Seq(Tokens)
      /\ target_position[r] \in Nat /\ draft_position[r] = 0
      /\ tokens[r] = InputTokens[r] /\ MaxNewTokenCount[r] \in Nat \ {0}
      /\ InputTokenCount(r) \in Nat \ {0}
      /\ Context(r) = tokens[r]
      /\ IsCut(target_cache[r], tokens[r], Larger(target_position[r], ChunkEnd(r)))
      /\ IsCut(draft_cache[r], tokens[r], 0)
  <2>1. GenerationTypeOK /\ RequestInv(r) /\ Context(r) = tokens[r]
        /\ IsCut(target_cache[r], tokens[r], TargetLength(r))
        /\ IsCut(draft_cache[r], tokens[r], DraftLength(r))
    BY <1>1, <1>2, BatchFacts DEF GenerationInv
  <2>2. draft_position[r] = 0 /\ tokens[r] = InputTokens[r]
    BY <1>1, <1>2, <2>1 DEF RequestInv, PrefillInv, ProgressInv
  <2>3. QED
    BY <1>1, <1>2, <2>1, <2>2, RequestFacts, ConstantFacts DEF TargetLength, DraftLength
<1>4. /\ ChunkEnd(r) \in Nat /\ PrefillPosition(r) < ChunkEnd(r) /\ ChunkEnd(r) <= PrefillEnd(r)
      /\ PrefillPosition(r) = target_position[r] /\ PrefillEnd(r) = InputTokenCount(r)
      /\ Len(tokens[r]) = InputTokenCount(r)
  BY <1>1, <1>2, ChunkFacts DEF PrefillPosition, PrefillEnd
<1>5. Larger(target_position[r], ChunkEnd(r)) = ChunkEnd(r)
  BY <1>3, <1>4 DEF Larger
<1>6. /\ target_position' \in [Requests -> Nat] /\ target_position'[r] = ChunkEnd(r)
      /\ \A q \in Requests : q # r => target_position'[q] = target_position[q]
  BY <1>1, <1>3, <1>4 DEF GenerationTypeOK
<1>7. /\ draft_position' \in [Requests -> Nat]
      /\ target_cache' \in [Requests -> Seq(Tokens)] /\ draft_cache' \in [Requests -> Seq(Tokens)]
      /\ draft_token_count' \in [Requests -> policy.minimum .. policy.maximum]
      /\ smoothed_accepted_length' \in [Requests -> Nat]
  BY <1>1, <1>3 DEF GenerationTypeOK
<1>8. CASE ChunkEnd(r) < InputTokenCount(r)
  <2> DEFINE left == InputTokenCount(r) - ChunkEnd(r)
  <2>1. left \in Nat \ {0}
    BY <1>3, <1>4, <1>8
  <2>2. generation_phase' = [generation_phase EXCEPT ![r] = <<"Prefill", left>>]
        /\ tokens' = tokens
    BY <1>8, <2>1 DEF CompletePrefill, DeterminePrefillPhase
  <2>3. /\ generation_phase' \in [Requests -> Phases \X Nat]
        /\ generation_phase'[r] = <<"Prefill", left>>
        /\ \A q \in Requests : q # r => generation_phase'[q] = generation_phase[q]
    <3>1. <<"Prefill", left>> \in Phases \X Nat
      BY <2>1 DEF Phases
    <3> HIDE DEF left
    <3>2. QED
      BY <1>3, <2>2, <3>1 DEF GenerationTypeOK
  <2>4. Phase(r)' = "Prefill" /\ generation_phase'[r][2] = left
    BY <2>3 DEF Phase
  <2>5. speculative' = speculative /\ reference' = reference
    BY <1>2 DEF modelVars
  <2>6. ProgressInv(r)'
    BY <1>3, <1>4, <2>2, <2>4 DEF ProgressInv
  <2>7. PrefillInv(r)'
    BY <1>1, <1>3, <1>4, <1>6, <2>1, <2>4, <2>5 DEF PrefillInv, PrefillEnd, PrefillPosition
  <2>8. ProposalInv(r)'
    BY <1>2, <2>4 DEF ProposalInv
  <2>9. CachesInv(r)'
    <3>1. Context(r)' = tokens[r] /\ Phase(r)' \notin Finished
      BY <1>2, <1>3, <2>2, <2>4, ConcatEmptySeq DEF Context, Finished
    <3>2. TargetLength(r)' = ChunkEnd(r) /\ DraftLength(r)' = 0
      BY <1>1, <1>2, <1>6, <2>4, <2>5 DEF TargetLength, DraftLength
    <3>3. QED
      BY <1>1, <1>2, <1>3, <1>5, <3>1, <3>2 DEF CachesInv
  <2>10. ReferenceInv(r)'
    BY <1>1, <1>3, <2>2, <2>4, <2>5 DEF RequestInv, ReferenceInv
  <2>11. RequestInv(r)'
    BY <2>6, <2>7, <2>8, <2>9, <2>10 DEF RequestInv
  <2>12. tokens' \in [Requests -> Seq(Tokens)]
    BY <1>3, <2>2 DEF GenerationTypeOK
  <2> HIDE DEF left
  <2>13. QED
    BY <1>1, <1>6, <1>7, <2>2, <2>3, <2>11, <2>12, CompletionInv
<1>9. CASE ~ (ChunkEnd(r) < InputTokenCount(r))
  <2>1. ChunkEnd(r) = InputTokenCount(r)
    BY <1>3, <1>4, <1>9
  <2>2. PICK token \in NextSelections(r) : Commit(r, 0, <<token>>)
    BY <1>9 DEF CompletePrefill
  <2>3. /\ Len(tokens[r]) = InputTokenCount(r) + 0 /\ 0 < MaxNewTokenCount[r] /\ 0 \in Nat
        /\ IsCut(target_cache[r], tokens[r], Len(tokens[r]))
    BY <1>3, <1>4, <1>5, <2>1
  <2>4. RequestInv(r)' /\ IsSelection(<<token>>)
    BY <1>1, <2>2, <2>3, SelectedAlone
  <2>5. /\ tokens' \in [Requests -> Seq(Tokens)]
        /\ generation_phase' \in [Requests -> Phases \X Nat]
        /\ \A q \in Requests : q # r =>
             tokens'[q] = tokens[q] /\ generation_phase'[q] = generation_phase[q]
    BY <2>2, <2>3, <2>4, CommitFacts
  <2>6. QED
    BY <1>1, <1>6, <1>7, <2>4, <2>5, CompletionInv
<1>10. QED
  BY <1>8, <1>9

LEMMA DecodeCompletionInv ==
  ASSUME GenerationInv, NEW r \in Requests, CompleteDecode(r)
  PROVE  GenerationInv'
<1>1. /\ EndStepOf(r) /\ ~speculative /\ Phase(r) = "Decode"
      /\ UNCHANGED <<target_position, draft_position, draft_token_count,
                     smoothed_accepted_length, target_cache, draft_cache>>
  BY DEF CompleteDecode
<1>2. PICK token \in NextSelections(r) : Commit(r, generation_phase[r][2], <<token>>)
  BY DEF CompleteDecode
<1>3. /\ generation_phase[r][2] \in Nat
      /\ Len(tokens[r]) = InputTokenCount(r) + generation_phase[r][2]
      /\ generation_phase[r][2] < MaxNewTokenCount[r]
  BY <1>1, RequestFacts DEF GenerationInv, RequestInv, ProgressInv
<1>4. IsCut(target_cache[r], tokens[r], Len(tokens[r]))
  BY <1>1, EndFacts, BatchFacts DEF TargetLength
<1>5. RequestInv(r)' /\ IsSelection(<<token>>)
  BY <1>1, <1>2, <1>3, <1>4, SelectedAlone
<1>6. /\ tokens' \in [Requests -> Seq(Tokens)]
      /\ generation_phase' \in [Requests -> Phases \X Nat]
      /\ \A q \in Requests : q # r =>
           tokens'[q] = tokens[q] /\ generation_phase'[q] = generation_phase[q]
  BY <1>2, <1>3, <1>5, CommitFacts
<1>7. /\ target_position' \in [Requests -> Nat] /\ draft_position' \in [Requests -> Nat]
      /\ target_cache' \in [Requests -> Seq(Tokens)] /\ draft_cache' \in [Requests -> Seq(Tokens)]
      /\ draft_token_count' \in [Requests -> policy.minimum .. policy.maximum]
      /\ smoothed_accepted_length' \in [Requests -> Nat]
  BY <1>1 DEF GenerationInv, GenerationTypeOK
<1>8. QED
  BY <1>1, <1>5, <1>6, <1>7, CompletionInv

LEMMA SpeculativePrefillCompletionInv ==
  ASSUME GenerationInv, NEW r \in Requests, CompleteSpeculativePrefill(r)
  PROVE  GenerationInv'
<1> DEFINE target == Larger(target_position[r], ChunkEnd(r))
           draft == Larger(draft_position[r], ChunkEnd(r))
           left == PrefillEnd(r) - Smaller(target, draft)
<1>1. /\ EndStepOf(r) /\ speculative /\ Phase(r) = "Prefill"
      /\ target_position' = [target_position EXCEPT ![r] = target]
      /\ draft_position' = [draft_position EXCEPT ![r] = draft]
      /\ generation_phase' = [generation_phase EXCEPT ![r] = DeterminePrefillPhase(left)]
      /\ UNCHANGED <<tokens, draft_token_count, smoothed_accepted_length,
                     target_cache, draft_cache>>
  BY DEF CompleteSpeculativePrefill
<1>2. /\ r \in pending /\ step = "Completing" /\ stage[r] = "Executing" /\ stage' = stage
      /\ proposals'[r] = <<>> /\ r \notin pending'
      /\ speculative' = speculative /\ reference' = reference
  BY <1>1, EndFacts DEF modelVars
<1>3. /\ GenerationTypeOK /\ RequestInv(r) /\ tokens[r] \in Seq(Tokens)
      /\ target_position[r] \in Nat /\ draft_position[r] \in Nat
      /\ target_position[r] <= PrefillEnd(r) /\ draft_position[r] <= PrefillEnd(r)
      /\ tokens[r] = InputTokens[r] /\ MaxNewTokenCount[r] \in Nat \ {0}
      /\ InputTokenCount(r) \in Nat \ {0} /\ PrefillEnd(r) = InputTokenCount(r) - 1
      /\ Context(r) = tokens[r]
      /\ IsCut(target_cache[r], tokens[r], target) /\ IsCut(draft_cache[r], tokens[r], draft)
  <2>1. GenerationTypeOK /\ RequestInv(r) /\ Context(r) = tokens[r]
        /\ IsCut(target_cache[r], tokens[r], TargetLength(r))
        /\ IsCut(draft_cache[r], tokens[r], DraftLength(r))
    BY <1>1, <1>2, BatchFacts DEF GenerationInv
  <2>2. /\ tokens[r] = InputTokens[r]
        /\ target_position[r] <= PrefillEnd(r) /\ draft_position[r] <= PrefillEnd(r)
    BY <1>1, <1>2, <2>1 DEF RequestInv, PrefillInv, ProgressInv
  <2>3. TargetLength(r) = target /\ DraftLength(r) = draft
    BY <1>1, <1>2 DEF TargetLength, DraftLength
  <2>4. PrefillEnd(r) = InputTokenCount(r) - 1
    BY <1>1 DEF PrefillEnd
  <2> HIDE DEF target, draft
  <2>5. QED
    BY <1>2, <2>1, <2>2, <2>3, <2>4, RequestFacts, ConstantFacts
<1>4. /\ ChunkEnd(r) \in Nat /\ ChunkEnd(r) <= PrefillEnd(r)
      /\ Len(tokens[r]) = InputTokenCount(r)
  BY <1>1, <1>2, ChunkFacts
<1>5. /\ target \in Nat /\ draft \in Nat /\ target <= PrefillEnd(r) /\ draft <= PrefillEnd(r)
      /\ left \in Nat
      /\ left = 0 => target = InputTokenCount(r) - 1 /\ draft = InputTokenCount(r) - 1
  BY <1>3, <1>4 DEF Larger, Smaller
<1>6. left = PrefillEnd(r) - Smaller(target, draft)
  OBVIOUS
<1> HIDE DEF target, draft, left
<1>7. /\ generation_phase'[r] = DeterminePrefillPhase(left)
      /\ target_position'[r] = target /\ draft_position'[r] = draft
      /\ target_position' \in [Requests -> Nat] /\ draft_position' \in [Requests -> Nat]
      /\ \A q \in Requests : q # r =>
           /\ generation_phase'[q] = generation_phase[q]
           /\ target_position'[q] = target_position[q] /\ draft_position'[q] = draft_position[q]
  BY <1>1, <1>3, <1>5 DEF GenerationTypeOK
<1>8. DeterminePrefillPhase(left) \in Phases \X Nat
  BY <1>5 DEF DeterminePrefillPhase, Phases
<1>9. /\ generation_phase' \in [Requests -> Phases \X Nat]
      /\ tokens' \in [Requests -> Seq(Tokens)]
      /\ target_cache' \in [Requests -> Seq(Tokens)] /\ draft_cache' \in [Requests -> Seq(Tokens)]
      /\ draft_token_count' \in [Requests -> policy.minimum .. policy.maximum]
      /\ smoothed_accepted_length' \in [Requests -> Nat]
  BY <1>1, <1>3, <1>8 DEF GenerationTypeOK
<1>10. /\ generation_phase'[r][2] = left
       /\ Phase(r)' = IF left = 0 THEN "Decode" ELSE "Prefill"
  BY <1>7 DEF DeterminePrefillPhase, Phase
<1>11. /\ PrefillEnd(r)' = PrefillEnd(r)
       /\ PrefillPosition(r)' = Smaller(target, draft)
  BY <1>1, <1>2, <1>7 DEF PrefillEnd, PrefillPosition
<1>12. ProgressInv(r)'
  BY <1>1, <1>2, <1>3, <1>4, <1>10 DEF ProgressInv
<1>13. PrefillInv(r)'
  BY <1>1, <1>2, <1>5, <1>6, <1>7, <1>10, <1>11 DEF PrefillInv
<1>14. ProposalInv(r)'
  BY <1>2, <1>3, <1>10, EmptySeq DEF ProposalInv
<1>15. CachesInv(r)'
  <2>1. Context(r)' = tokens[r] /\ Phase(r)' \notin Finished
    BY <1>1, <1>2, <1>3, <1>10, ConcatEmptySeq DEF Context, Finished
  <2>2. Len(proposals'[r]) = 0 /\ Len(tokens'[r]) = InputTokenCount(r)
    BY <1>1, <1>2, <1>4, EmptySeq
  <2>3. TargetLength(r)' = target
    BY <1>2, <1>3, <1>5, <1>7, <1>10, <2>2 DEF TargetLength
  <2>4. DraftLength(r)' = draft
    BY <1>1, <1>2, <1>3, <1>5, <1>7, <1>10, <2>2 DEF DraftLength
  <2>5. QED
    BY <1>1, <1>2, <1>3, <2>1, <2>3, <2>4 DEF CachesInv
<1>16. ReferenceInv(r)'
  BY <1>1, <1>2, <1>3, <1>10 DEF RequestInv, ReferenceInv
<1>17. RequestInv(r)'
  BY <1>12, <1>13, <1>14, <1>15, <1>16 DEF RequestInv
<1>18. QED
  BY <1>1, <1>7, <1>9, <1>17, CompletionInv

-----------------------------------------------------------------------------
(* Verification *)

LEMMA LeastElement ==
  ASSUME NEW T \in SUBSET Nat, T # {}
  PROVE  \E x \in T : \A y \in T : x <= y
<1> DEFINE R == OpToRel(<, Nat)
<1>1. IsWellFoundedOn(R, Nat)
  BY NatLessThanWellFounded
<1>2. \A x, y \in Nat : x < y => <<x, y>> \in R
  BY DEF OpToRel
<1> HIDE DEF R
<1>3. PICK x \in T : \A y \in T : ~ (<<y, x>> \in R)
  BY <1>1, WFMin
<1>4. \A y \in T : x <= y
  <2> TAKE y \in T
  <2>1. x \in Nat /\ y \in Nat /\ ~ (y < x)
    BY <1>2, <1>3
  <2>2. QED
    BY <2>1
<1>5. QED
  BY <1>4

\* A draft token-count controller keeps to its bounds, whatever was accepted.
LEMMA ControllerBounds ==
  ASSUME GenerationInv, NEW r \in Requests, NEW accepted \in Nat, NEW proposed \in Nat,
         NEW update \in ControllerUpdates(r, accepted, proposed)
  PROVE  update[1] \in policy.minimum .. policy.maximum /\ update[2] \in Nat
<1> DEFINE count == draft_token_count[r]
           smoothed == smoothed_accepted_length[r]
           low == policy.minimum
           high == policy.maximum
<1>1. /\ count \in Nat /\ low \in Nat /\ high \in Nat /\ smoothed \in Nat
      /\ low <= high /\ low <= count /\ count <= high
      /\ policy.name \in {"Fixed", "AcceptanceRate", "AcceptedLength"}
  BY PolicyFacts, RequestFacts DEF GenerationInv
<1>2. CASE policy.name = "Fixed"
  <2>1. update = <<count, smoothed>>
    BY <1>2 DEF ControllerUpdates
  <2> HIDE DEF count, smoothed, low, high
  <2>2. update[1] \in low .. high /\ update[2] \in Nat
    BY <1>1, <2>1
  <2>3. QED
    BY <2>2 DEF low, high
<1>3. CASE policy.name = "AcceptanceRate"
  <2>1. update[1] \in {count, Larger(count - 1, low), Smaller(count + 1, high)}
        /\ update[2] = smoothed
    BY <1>3 DEF ControllerUpdates
  <2> HIDE DEF count, smoothed, low, high
  <2>2. update[1] \in low .. high /\ update[2] \in Nat
    BY <1>1, <2>1 DEF Larger, Smaller
  <2>3. QED
    BY <2>2 DEF low, high
<1>4. CASE policy.name = "AcceptedLength"
  <2>1. PICK average \in Smaller(accepted, smoothed) .. Larger(accepted, smoothed) :
          update = <<Clamp(average + 1, low, high), average>>
    BY <1>4 DEF ControllerUpdates
  <2> HIDE DEF count, smoothed, low, high
  <2>2. average \in Nat
    BY <1>1, <2>1 DEF Larger, Smaller
  <2>3. Clamp(average + 1, low, high) \in low .. high
    BY <1>1, <2>2 DEF Clamp, Larger, Smaller
  <2>4. update[1] \in low .. high /\ update[2] \in Nat
    BY <2>1, <2>2, <2>3
  <2>5. QED
    BY <2>4 DEF low, high
<1>5. QED
  BY <1>1, <1>2, <1>3, <1>4

\* A request whose proposal is being verified.
LEMMA VerifyingFacts ==
  ASSUME GenerationInv, NEW r \in pending, step = "Completing", Verifies(r)
  PROVE  /\ r \in Requests /\ Phase(r) = "Decode" /\ speculative
         /\ tokens[r] \in Seq(Tokens) /\ Len(tokens[r]) \in Nat \ {0}
         /\ proposals[r] \in Seq(Tokens) /\ Len(proposals[r]) \in Nat \ {0}
         /\ tokens[r] \o proposals[r] \in Seq(Tokens)
         /\ Len(tokens[r] \o proposals[r]) = Len(tokens[r]) + Len(proposals[r])
         /\ generation_phase[r][2] \in Nat /\ MaxNewTokenCount[r] \in Nat
         /\ Len(tokens[r]) = InputTokenCount(r) + generation_phase[r][2]
         /\ generation_phase[r][2] + Len(proposals[r]) <= MaxNewTokenCount[r]
         /\ IsCut(target_cache[r], tokens[r] \o proposals[r],
                  Len(tokens[r]) + Len(proposals[r]) - 1)
         /\ IsCut(draft_cache[r], tokens[r] \o proposals[r],
                  Len(tokens[r]) + Len(proposals[r]) - 1)
<1>1. /\ r \in Requests /\ Phase(r) = "Decode" /\ speculative /\ RequestInv(r)
      /\ tokens[r] \in Seq(Tokens) /\ Len(tokens[r]) \in Nat \ {0}
      /\ IsCut(target_cache[r], tokens[r] \o proposals[r],
               Len(tokens[r]) + Len(proposals[r]) - 1)
      /\ IsCut(draft_cache[r], tokens[r] \o proposals[r],
               Len(tokens[r]) + Len(proposals[r]) - 1)
  BY BatchFacts DEF Verifies, TargetLength, DraftLength, Context
<1>2. /\ proposals[r] \in Seq(Tokens) /\ generation_phase[r][2] \in Nat
      /\ MaxNewTokenCount[r] \in Nat
  BY <1>1, RequestFacts, ConstantFacts DEF GenerationInv
<1>3. proposals[r] # <<>> /\ Len(tokens[r]) = InputTokenCount(r) + generation_phase[r][2]
      /\ generation_phase[r][2] + Len(proposals[r]) <= MaxNewTokenCount[r]
  BY <1>1 DEF RequestInv, ProposalInv, ProgressInv
<1>4. Len(proposals[r]) \in Nat \ {0}
  BY <1>2, <1>3, EmptySeq, LenProperties
<1>5. /\ tokens[r] \o proposals[r] \in Seq(Tokens)
      /\ Len(tokens[r] \o proposals[r]) = Len(tokens[r]) + Len(proposals[r])
  BY <1>1, <1>2, ConcatProperties
<1>6. QED
  BY <1>1, <1>2, <1>3, <1>4, <1>5

\* After proposals that follow the reference, the target selects the next of the reference.
LEMMA VerifiesReference ==
  ASSUME GenerationInv, NEW r \in pending, step = "Completing", Verifies(r), r \in GreedyRequests,
         NEW i \in 1 .. Len(proposals[r]),
         \A j \in 1 .. i - 1 : proposals[r][j] = reference[r][generation_phase[r][2] + j],
         NEW token \in VerifiedSelections(r, i)
  PROVE  token = reference[r][generation_phase[r][2] + i]
<1> DEFINE proposed == proposals[r]
           g == generation_phase[r][2]
           b == SubSeq(proposed, 1, i - 1)
           both == tokens[r] \o proposed
           seen == SubSeq(target_cache[r], 1, OriginalCachedTokenCount(r) + i)
           place == Len(tokens[r]) + (i - 1)
<1>1. /\ tokens[r] \in Seq(Tokens) /\ Len(tokens[r]) \in Nat \ {0}
      /\ proposed \in Seq(Tokens) /\ Len(proposed) \in Nat
      /\ both \in Seq(Tokens) /\ Len(both) = Len(tokens[r]) + Len(proposed)
      /\ g \in Nat /\ MaxNewTokenCount[r] \in Nat
      /\ Len(tokens[r]) = InputTokenCount(r) + g /\ g + Len(proposed) <= MaxNewTokenCount[r]
      /\ IsCut(target_cache[r], both, Len(tokens[r]) + Len(proposed) - 1)
  BY VerifyingFacts
<1>2. i \in Nat /\ i >= 1 /\ i <= Len(proposed)
  BY <1>1
<1>3. \A j \in 1 .. i - 1 : proposed[j] = reference[r][g + j]
  OBVIOUS
<1>4. IsCut(b, proposed, i - 1)
  BY <1>1, <1>2 DEF IsCut
<1>5. token \in TargetSelections(r, seen, tokens[r] \o b)
  BY DEF VerifiedSelections
<1>6. OriginalCachedTokenCount(r) + i = place
  BY <1>1, <1>2 DEF OriginalCachedTokenCount
<1> HIDE DEF proposed, g, b, both
<1>7. place \in 0 .. Len(tokens[r]) + Len(proposed) - 1
  BY <1>1, <1>2
<1>8. IsCut(seen, both, place)
  BY <1>1, <1>6, <1>7, CutOfCut
<1>9. IsCut(tokens[r] \o b, both, place)
  BY <1>1, <1>4, CutOfSecond DEF both
<1>10. seen = tokens[r] \o b
  BY <1>8, <1>9, CutsAgree
<1> HIDE DEF seen, place
<1>11. b \in Seq(Tokens) /\ Len(b) = i - 1 /\ \A j \in 1 .. i - 1 : b[j] = proposed[j]
  BY <1>1, <1>4, CutShape
<1>12. \A j \in 1 .. Len(b) : b[j] = reference[r][g + j]
  BY <1>3, <1>11
<1>13. g + Len(b) < MaxNewTokenCount[r]
  BY <1>1, <1>2, <1>11
<1>14. token \in TargetSelections(r, tokens[r] \o b, tokens[r] \o b)
  BY <1>5, <1>10
<1>15. token = reference[r][g + Len(b) + 1]
  BY <1>1, <1>11, <1>12, <1>13, <1>14, SelectsReference
<1>16. g + Len(b) + 1 = g + i
  BY <1>1, <1>2, <1>11
<1>17. QED
  BY <1>15, <1>16 DEF g

\* Every accepted token is the reference's: consider the first that is not.
LEMMA AcceptedIsReference ==
  ASSUME GenerationInv, NEW r \in pending, step = "Completing", Verifies(r), r \in GreedyRequests,
         NEW accepted \in 0 .. Len(proposals[r]),
         \A i \in 1 .. accepted : proposals[r][i] \in VerifiedSelections(r, i)
  PROVE  \A i \in 1 .. accepted : proposals[r][i] = reference[r][generation_phase[r][2] + i]
<1> DEFINE g == generation_phase[r][2]
           others == {i \in 1 .. accepted : proposals[r][i] # reference[r][g + i]}
<1>1. Len(proposals[r]) \in Nat
  BY VerifyingFacts
<1>2. accepted \in Nat /\ accepted <= Len(proposals[r])
  BY <1>1
<1>3. others \in SUBSET Nat
  BY <1>2
<1>4. others = {}
  <2> SUFFICES ASSUME others # {} PROVE FALSE
    OBVIOUS
  <2>1. PICK i \in others : \A j \in others : i <= j
    BY <1>3, LeastElement
  <2>2. i \in 1 .. accepted /\ i \in 1 .. Len(proposals[r])
    BY <1>1, <1>2
  <2>3. \A j \in 1 .. i - 1 : proposals[r][j] = reference[r][g + j]
    <3> TAKE j \in 1 .. i - 1
    <3>1. j \in 1 .. accepted /\ ~ (i <= j)
      BY <1>2, <2>2
    <3>2. j \notin others
      BY <2>1, <3>1
    <3>3. QED
      BY <3>1, <3>2
  <2>4. proposals[r][i] \in VerifiedSelections(r, i)
    BY <2>2
  <2>5. proposals[r][i] = reference[r][g + i]
    BY <2>2, <2>3, <2>4, VerifiesReference
  <2>6. QED
    BY <2>5
<1>5. QED
  BY <1>4

\* What a verification commits is a selection: accepted tokens, of which only the last may end the
\* sequence, and the token that replaces the next one.
LEMMA VerifiedSelection ==
  ASSUME GenerationInv, NEW r \in pending, step = "Completing", Verifies(r),
         NEW v \in Verifications(r)
  PROVE  LET selected == SubSeq(proposals[r], 1, v.accepted) \o ReplacementOf(v)
             retained == RetainedCachedTokenCount(r, v)
         IN  /\ v.accepted \in Nat /\ IsSelection(selected)
             /\ Len(selected) \in Nat \ {0} /\ Len(selected) <= Len(proposals[r])
             /\ \A i \in 1 .. Len(selected) - 1 : selected[i] = proposals[r][i]
             /\ retained = Len(tokens[r]) + Len(selected) - 1
             /\ r \in GreedyRequests =>
                  \A i \in 1 .. Len(selected) :
                    selected[i] = reference[r][generation_phase[r][2] + i]
<1> DEFINE a == v.accepted
           p == proposals[r]
           kept == SubSeq(p, 1, a)
           instead == ReplacementOf(v)
           selected == kept \o instead
           g == generation_phase[r][2]
<1>1. /\ r \in Requests /\ p \in Seq(Tokens) /\ Len(p) \in Nat \ {0}
      /\ Len(tokens[r]) \in Nat \ {0} /\ g \in Nat
  BY VerifyingFacts
<1>2. /\ a \in 0 .. Len(p) /\ v.replacement \in Tokens \cup {NoToken}
      /\ \A i \in 1 .. a : p[i] \in VerifiedSelections(r, i)
      /\ \A i \in 1 .. a - 1 : p[i] \notin EndOfSequenceTokens
      /\ IF a = Len(p) \/ (a > 0 /\ p[a] \in EndOfSequenceTokens)
         THEN v.replacement = NoToken
         ELSE v.replacement \in VerifiedSelections(r, a + 1)
  BY DEF Verifications
<1>3. a \in Nat /\ a <= Len(p)
  BY <1>1, <1>2
<1>4. kept \in Seq(Tokens) /\ Len(kept) = a /\ \A i \in 1 .. a : kept[i] = p[i]
  <2>1. IsCut(kept, p, a)
    BY <1>2 DEF IsCut
  <2> HIDE DEF kept, a, p
  <2>2. QED
    BY <1>1, <2>1, CutShape
<1>5. r \in GreedyRequests => \A i \in 1 .. a : p[i] = reference[r][g + i]
  BY <1>2, AcceptedIsReference
<1>6. RetainedCachedTokenCount(r, v) = Len(tokens[r]) - 1 + a + Len(instead)
  BY DEF RetainedCachedTokenCount, OriginalCachedTokenCount
<1>7. CASE a = Len(p) \/ (a > 0 /\ p[a] \in EndOfSequenceTokens)
  <2>1. a > 0
    BY <1>1, <1>7
  <2>2. instead = <<>> /\ Len(instead) = 0
    BY <1>2, <1>7, EmptySeq DEF ReplacementOf
  <2> HIDE DEF kept, instead, a, p, g
  <2>3. selected = kept
    BY <1>4, <2>2, ConcatEmptySeq
  <2> HIDE DEF selected
  <2>4. selected \in Seq(Tokens) /\ Len(selected) = a /\ \A i \in 1 .. a : selected[i] = p[i]
    BY <1>4, <2>3
  <2>5. selected # <<>>
    BY <2>1, <2>4, EmptySeq
  <2>6. \A i \in 1 .. Len(selected) - 1 : selected[i] \notin EndOfSequenceTokens
                                         /\ selected[i] = p[i]
    BY <1>2, <1>3, <2>4
  <2>7. IsSelection(selected)
    BY <2>4, <2>5, <2>6 DEF IsSelection
  <2>8. r \in GreedyRequests => \A i \in 1 .. Len(selected) : selected[i] = reference[r][g + i]
    BY <1>5, <2>4
  <2>9. RetainedCachedTokenCount(r, v) = Len(tokens[r]) + Len(selected) - 1
    BY <1>1, <1>3, <1>6, <2>2, <2>4
  <2>10. Len(selected) \in Nat \ {0} /\ Len(selected) <= Len(p)
    BY <1>3, <2>1, <2>4
  <2>11. QED
    BY <1>3, <2>6, <2>7, <2>8, <2>9, <2>10 DEF selected, kept, instead, a, p, g
<1>8. CASE ~ (a = Len(p) \/ (a > 0 /\ p[a] \in EndOfSequenceTokens))
  <2> DEFINE token == v.replacement
  <2>1. /\ token \in VerifiedSelections(r, a + 1)
        /\ a + 1 \in 1 .. Len(p)
        /\ a > 0 => p[a] \notin EndOfSequenceTokens
    BY <1>1, <1>2, <1>3, <1>8
  <2>2. token \in Tokens
    BY <1>1, <2>1, SelectionsAreTokens DEF VerifiedSelections
  <2>3. instead = <<token>>
    BY <2>2, TextGenerationAssumption DEF ReplacementOf
  <2>4. instead \in Seq(Tokens) /\ Len(instead) = 1 /\ instead[1] = token
    BY <2>2, <2>3
  <2>5. r \in GreedyRequests => token = reference[r][g + (a + 1)]
    <3> HAVE r \in GreedyRequests
    <3> DEFINE i == a + 1
    <3>1. /\ i \in 1 .. Len(p) /\ token \in VerifiedSelections(r, i)
          /\ \A j \in 1 .. i - 1 : p[j] = reference[r][g + j]
      BY <1>3, <1>5, <2>1
    <3> HIDE DEF i
    <3>2. token = reference[r][g + i]
      BY <3>1, VerifiesReference
    <3>3. QED
      BY <3>2 DEF i
  <2>6. \A i \in 1 .. a : p[i] \notin EndOfSequenceTokens
    <3> TAKE i \in 1 .. a
    <3>1. i \in 1 .. a - 1 \/ (i = a /\ a > 0)
      BY <1>3
    <3>2. QED
      BY <1>2, <2>1, <3>1
  <2> HIDE DEF kept, instead, a, p, g, token
  <2>7. /\ selected \in Seq(Tokens) /\ Len(selected) = a + 1
        /\ \A i \in 1 .. a + 1 : selected[i] = IF i <= a THEN kept[i] ELSE instead[i - a]
    <3>1. /\ selected \in Seq(Tokens) /\ Len(selected) = Len(kept) + Len(instead)
          /\ \A i \in 1 .. Len(kept) + Len(instead) :
               selected[i] = IF i <= Len(kept) THEN kept[i] ELSE instead[i - Len(kept)]
      BY <1>4, <2>4, ConcatProperties
    <3>2. Len(kept) = a /\ Len(instead) = 1
      BY <1>4, <2>4
    <3>3. QED
      BY <3>1, <3>2
  <2> HIDE DEF selected
  <2>8. selected # <<>>
    BY <1>3, <2>7, EmptySeq
  <2>9. (\A i \in 1 .. a : selected[i] = p[i]) /\ selected[a + 1] = token
    <3>1. \A i \in 1 .. a : selected[i] = p[i]
      BY <1>3, <1>4, <2>7
    <3>2. a + 1 \in 1 .. a + 1 /\ ~ (a + 1 <= a) /\ (a + 1) - a = 1
      BY <1>3
    <3>3. selected[a + 1] = token
      BY <2>4, <2>7, <3>2
    <3>4. QED
      BY <3>1, <3>3
  <2>10. \A i \in 1 .. Len(selected) - 1 : selected[i] \notin EndOfSequenceTokens
                                          /\ selected[i] = p[i]
    BY <1>3, <2>6, <2>7, <2>9
  <2>11. IsSelection(selected)
    BY <2>7, <2>8, <2>10 DEF IsSelection
  <2>12. r \in GreedyRequests => \A i \in 1 .. Len(selected) : selected[i] = reference[r][g + i]
    <3> HAVE r \in GreedyRequests
    <3> TAKE i \in 1 .. Len(selected)
    <3>1. i \in 1 .. a \/ i = a + 1
      BY <1>3, <2>7
    <3>2. QED
      BY <1>5, <2>5, <2>9, <3>1
  <2>13. RetainedCachedTokenCount(r, v) = Len(tokens[r]) + Len(selected) - 1
    <3>1. /\ Len(tokens[r]) \in Nat /\ a \in Nat /\ Len(instead) = 1 /\ Len(selected) = a + 1
          /\ RetainedCachedTokenCount(r, v) = Len(tokens[r]) - 1 + a + Len(instead)
      BY <1>1, <1>3, <1>6, <2>4, <2>7
    <3>2. QED
      BY <3>1
  <2>14. Len(selected) \in Nat \ {0} /\ Len(selected) <= Len(p)
    BY <1>1, <1>3, <2>1, <2>7
  <2>15. QED
    BY <1>3, <2>10, <2>11, <2>12, <2>13, <2>14 DEF selected, kept, instead, a, p, g
<1>9. QED
  BY <1>7, <1>8

LEMMA SpeculativeDecodeCompletionInv ==
  ASSUME GenerationInv, NEW r \in Requests, CompleteSpeculativeDecode(r)
  PROVE  GenerationInv'
<1>1. /\ EndStepOf(r) /\ Verifies(r) /\ UNCHANGED <<target_position, draft_position>>
      /\ r \in pending /\ step = "Completing" /\ GenerationTypeOK
  BY EndFacts DEF CompleteSpeculativeDecode, GenerationInv
<1>2. PICK v \in Verifications(r) :
      \E update \in ControllerUpdates(r, v.accepted, Len(proposals[r])) :
       LET retained == RetainedCachedTokenCount(r, v)
       IN  /\ draft_token_count' = [draft_token_count EXCEPT ![r] = update[1]]
           /\ smoothed_accepted_length' = [smoothed_accepted_length EXCEPT ![r] = update[2]]
           /\ target_cache' = [target_cache EXCEPT ![r] = SubSeq(@, 1, retained)]
           /\ draft_cache' = [draft_cache EXCEPT ![r] = SubSeq(@, 1, retained)]
           /\ Commit(r, generation_phase[r][2],
                     SubSeq(proposals[r], 1, v.accepted) \o ReplacementOf(v))
  BY DEF CompleteSpeculativeDecode
<1> DEFINE p == proposals[r]
           selected == SubSeq(p, 1, v.accepted) \o ReplacementOf(v)
           retained == RetainedCachedTokenCount(r, v)
           g == generation_phase[r][2]
<1>3. PICK update \in ControllerUpdates(r, v.accepted, Len(p)) :
        /\ draft_token_count' = [draft_token_count EXCEPT ![r] = update[1]]
        /\ smoothed_accepted_length' = [smoothed_accepted_length EXCEPT ![r] = update[2]]
        /\ target_cache' = [target_cache EXCEPT ![r] = SubSeq(@, 1, retained)]
        /\ draft_cache' = [draft_cache EXCEPT ![r] = SubSeq(@, 1, retained)]
        /\ Commit(r, g, selected)
  BY <1>2
<1>4. /\ v.accepted \in Nat /\ IsSelection(selected)
      /\ Len(selected) \in Nat \ {0} /\ Len(selected) <= Len(p)
      /\ \A i \in 1 .. Len(selected) - 1 : selected[i] = p[i]
      /\ retained = Len(tokens[r]) + Len(selected) - 1
      /\ r \in GreedyRequests => \A i \in 1 .. Len(selected) : selected[i] = reference[r][g + i]
  BY <1>1, VerifiedSelection
<1>5. /\ tokens[r] \in Seq(Tokens) /\ Len(tokens[r]) \in Nat \ {0} /\ speculative
      /\ p \in Seq(Tokens) /\ Len(p) \in Nat \ {0} /\ tokens[r] \o p \in Seq(Tokens)
      /\ g \in Nat /\ MaxNewTokenCount[r] \in Nat
      /\ Len(tokens[r]) = InputTokenCount(r) + g /\ g + Len(p) <= MaxNewTokenCount[r]
      /\ IsCut(target_cache[r], tokens[r] \o p, Len(tokens[r]) + Len(p) - 1)
      /\ IsCut(draft_cache[r], tokens[r] \o p, Len(tokens[r]) + Len(p) - 1)
  BY <1>1, VerifyingFacts
<1>6. update[1] \in policy.minimum .. policy.maximum /\ update[2] \in Nat
  BY <1>3, <1>4, <1>5, ControllerBounds
<1> HIDE DEF selected, p, retained, g
<1>7. retained \in 0 .. Len(tokens[r]) + Len(p) - 1
  BY <1>4, <1>5
<1>8. /\ target_cache'[r] = SubSeq(target_cache[r], 1, retained)
      /\ draft_cache'[r] = SubSeq(draft_cache[r], 1, retained)
  BY <1>1, <1>3 DEF GenerationTypeOK
<1>9. /\ IsCut(target_cache'[r], tokens[r] \o p, retained)
      /\ IsCut(draft_cache'[r], tokens[r] \o p, retained)
  BY <1>5, <1>7, <1>8, CutOfCut
<1>10. /\ IsCut(target_cache'[r], tokens[r] \o selected, retained)
       /\ IsCut(draft_cache'[r], tokens[r] \o selected, retained)
  <2> DEFINE k == Len(selected) - 1
  <2>1. /\ k \in Nat /\ k <= Len(p) /\ k <= Len(selected)
        /\ \A i \in 1 .. k : p[i] = selected[i]
        /\ retained <= Len(tokens[r]) + k
    BY <1>4, <1>5
  <2>2. selected \in Seq(Tokens)
    BY <1>4 DEF IsSelection
  <2> HIDE DEF k
  <2>3. QED
    BY <1>5, <1>9, <2>1, <2>2, CutExchanged
<1>11. RequestInv(r)'
  <2>1. g + Len(selected) <= MaxNewTokenCount[r]
    BY <1>4, <1>5
  <2>2. /\ IsCut(target_cache'[r], tokens[r] \o selected, Len(tokens[r]) + Len(selected) - 1)
        /\ IsCut(draft_cache'[r], tokens[r] \o selected,
                 IF speculative THEN Len(tokens[r]) + Len(selected) - 1 ELSE 0)
    BY <1>4, <1>5, <1>10
  <2>3. QED
    BY <1>1, <1>3, <1>4, <1>5, <2>1, <2>2, CommittedRequest
<1>12. /\ tokens' \in [Requests -> Seq(Tokens)]
       /\ generation_phase' \in [Requests -> Phases \X Nat]
       /\ \A q \in Requests : q # r =>
            tokens'[q] = tokens[q] /\ generation_phase'[q] = generation_phase[q]
  BY <1>3, <1>4, <1>5, CommitFacts
<1>13. /\ target_cache'[r] \in Seq(Tokens) /\ draft_cache'[r] \in Seq(Tokens)
  BY <1>5, <1>9, CutShape
<1>14. /\ target_cache' \in [Requests -> Seq(Tokens)] /\ draft_cache' \in [Requests -> Seq(Tokens)]
       /\ \A q \in Requests : q # r =>
            target_cache'[q] = target_cache[q] /\ draft_cache'[q] = draft_cache[q]
  <2>1. SubSeq(target_cache[r], 1, retained) \in Seq(Tokens)
        /\ SubSeq(draft_cache[r], 1, retained) \in Seq(Tokens)
    BY <1>8, <1>13
  <2>2. QED
    BY <1>1, <1>3, <2>1 DEF GenerationTypeOK
<1>15. /\ draft_token_count' \in [Requests -> policy.minimum .. policy.maximum]
       /\ smoothed_accepted_length' \in [Requests -> Nat]
  BY <1>1, <1>3, <1>6 DEF GenerationTypeOK
<1>16. /\ target_position' \in [Requests -> Nat] /\ draft_position' \in [Requests -> Nat]
       /\ \A q \in Requests : q # r =>
            target_position'[q] = target_position[q] /\ draft_position'[q] = draft_position[q]
  BY <1>1 DEF GenerationTypeOK
<1>17. QED
  BY <1>1, <1>11, <1>12, <1>14, <1>15, <1>16, CompletionInv

-----------------------------------------------------------------------------
(* The invariant *)

LEMMA NextInv == GenerationInv /\ [TextGenerationNext]_vars => GenerationInv'
<1> SUFFICES ASSUME GenerationInv, [TextGenerationNext]_vars PROVE GenerationInv'
  OBVIOUS
<1>1. CASE UNCHANGED vars
  <2>1. UNCHANGED <<modelVars, stage, stateVars, target_cache, draft_cache, stepVars>>
    BY <1>1 DEF vars
  <2>2. UNCHANGED <<speculative, policy, reference, stage, tokens, generation_phase,
                    target_position, draft_position, draft_token_count,
                    smoothed_accepted_length, target_cache, draft_cache,
                    step, batch, pending, token_budget, proposals>>
    BY <2>1 DEF modelVars, stateVars, stepVars
  <2>3. Runnable' = Runnable
    BY <2>2 DEF Runnable, Phase
  <2>4. GenerationTypeOK'
    BY <2>2, <2>3 DEF GenerationInv, GenerationTypeOK
  <2>5. \A r \in Requests : RequestInv(r)'
    BY <2>2, SameRequest DEF GenerationInv
  <2>6. StepInv' /\ ReferenceOK'
    BY <2>1, <2>2, SameReference DEF GenerationInv, StepInv
  <2>7. QED
    BY <2>4, <2>5, <2>6 DEF GenerationInv
<1>2. CASE PrepareStep
  BY <1>2, PrepareInv
<1>3. CASE RunDraftPrefill
  BY <1>3, DraftPrefillInv
<1>4. CASE ProposeDraftTokens
  BY <1>4, ProposeInv
<1>5. CASE RunTargetForward
  BY <1>5, TargetForwardInv
<1>6. CASE FailStep
  BY <1>6, FailInv
<1>7. ASSUME NEW r \in Requests, StartRequest(r) \/ FailToStartRequest(r)
      PROVE  GenerationInv'
  BY <1>7, StartInv, FailToStartInv
<1>8. ASSUME NEW r \in Requests, CompleteRequest(r) PROVE GenerationInv'
  BY <1>8, PrefillCompletionInv, DecodeCompletionInv, SpeculativePrefillCompletionInv,
     SpeculativeDecodeCompletionInv DEF CompleteRequest
<1>9. ASSUME NEW r \in Requests, AbortRequest(r) \/ FinishRequest(r) PROVE GenerationInv'
  BY <1>9, ReleaseInv
<1>10. QED
  BY <1>1, <1>2, <1>3, <1>4, <1>5, <1>6, <1>7, <1>8, <1>9 DEF TextGenerationNext

LEMMA InvariantHolds == TextGenerationSpec => []GenerationInv
<1>1. TextGenerationInit => GenerationInv
  BY InitInv
<1>2. GenerationInv /\ [TextGenerationNext]_vars => GenerationInv'
  BY NextInv
<1>3. QED
  BY <1>1, <1>2, PTL DEF TextGenerationSpec

-----------------------------------------------------------------------------
(* What follows from it *)

LEMMA CachesFollow == GenerationInv => CachesHoldCommittedTokens
<1> SUFFICES ASSUME GenerationInv, NEW r \in Requests, stage[r] = "Executing", r \notin pending
             PROVE  /\ BeginsWith(tokens[r], target_cache[r])
                    /\ BeginsWith(tokens[r], draft_cache[r])
                    /\ Phase(r) = "Prefill" => /\ Len(target_cache[r]) = target_position[r]
                                               /\ Len(draft_cache[r]) = draft_position[r]
                    /\ Phase(r) = "Decode" =>
                         /\ Len(target_cache[r]) = Len(tokens[r]) - 1
                         /\ speculative => Len(draft_cache[r]) = Len(tokens[r]) - 1
  BY DEF CachesHoldCommittedTokens
<1>1. /\ RequestInv(r) /\ tokens[r] \in Seq(Tokens) /\ Len(tokens[r]) \in Nat
  BY RequestFacts DEF GenerationInv
<1>2. proposals[r] = <<>> /\ Len(proposals[r]) = 0
  BY <1>1, EmptySeq DEF RequestInv, ProposalInv
<1>3. CASE Phase(r) \in Finished
  BY <1>1, <1>3 DEF RequestInv, CachesInv, Finished
<1>4. CASE Phase(r) \notin Finished
  <2>1. Context(r) = tokens[r]
    BY <1>1, <1>2, ConcatEmptySeq DEF Context
  <2>2. /\ IsCut(target_cache[r], tokens[r], TargetLength(r))
        /\ IsCut(draft_cache[r], tokens[r], DraftLength(r))
    BY <1>1, <1>4, <2>1 DEF RequestInv, CachesInv
  <2>3. /\ BeginsWith(tokens[r], target_cache[r]) /\ Len(target_cache[r]) = TargetLength(r)
        /\ BeginsWith(tokens[r], draft_cache[r]) /\ Len(draft_cache[r]) = DraftLength(r)
    BY <1>1, <2>2, CutIsBeginning, CutShape
  <2>4. Phase(r) = "Prefill" =>
          TargetLength(r) = target_position[r] /\ DraftLength(r) = draft_position[r]
    BY <1>1 DEF TargetLength, DraftLength, RequestInv, PrefillInv
  <2>5. Phase(r) = "Decode" => /\ TargetLength(r) = Len(tokens[r]) - 1
                               /\ speculative => DraftLength(r) = Len(tokens[r]) - 1
    BY <1>1, <1>2 DEF TargetLength, DraftLength
  <2>6. QED
    BY <2>3, <2>4, <2>5
<1>5. QED
  BY <1>3, <1>4

LEMMA ReservationFollows == GenerationInv => ReservationCoversThePeak
<1> SUFFICES ASSUME GenerationInv, NEW r \in Requests
             PROVE  /\ Len(target_cache[r]) <= CacheBound(r)
                    /\ Len(draft_cache[r]) <= CacheBound(r)
  BY DEF ReservationCoversThePeak, CacheBound
<1>1. /\ RequestInv(r) /\ tokens[r] \in Seq(Tokens) /\ Len(tokens[r]) \in Nat
      /\ proposals[r] \in Seq(Tokens) /\ Len(proposals[r]) \in Nat
      /\ InputTokenCount(r) \in Nat \ {0} /\ MaxNewTokenCount[r] \in Nat \ {0}
      /\ generation_phase[r][2] \in Nat /\ Phase(r) \in Phases
      /\ target_position[r] \in Nat /\ draft_position[r] \in Nat
  BY RequestFacts, ConstantFacts DEF GenerationInv
<1>2. CASE stage[r] # "Executing"
  <2>1. Len(target_cache[r]) = 0 /\ Len(draft_cache[r]) = 0
    BY <1>1, <1>2, EmptySeq DEF RequestInv, CachesInv
  <2>2. QED
    BY <1>1, <2>1 DEF CacheBound
<1>3. CASE stage[r] = "Executing" /\ Phase(r) \in Finished
  BY <1>1, <1>3 DEF RequestInv, CachesInv
<1>4. CASE stage[r] = "Executing" /\ Phase(r) \notin Finished
  <2>1. /\ IsCut(target_cache[r], Context(r), TargetLength(r))
        /\ IsCut(draft_cache[r], Context(r), DraftLength(r))
        /\ Context(r) \in Seq(Tokens)
    BY <1>1, <1>4, ConcatProperties DEF RequestInv, CachesInv, Context
  <2>2. Len(target_cache[r]) = TargetLength(r) /\ Len(draft_cache[r]) = DraftLength(r)
    BY <2>1, CutShape
  <2>3. CASE Phase(r) = "Prefill"
    <3>1. /\ target_position[r] <= PrefillEnd(r) /\ draft_position[r] <= PrefillEnd(r)
          /\ PrefillEnd(r) \in Nat /\ PrefillEnd(r) <= InputTokenCount(r)
      BY <1>1, <1>4, <2>3 DEF RequestInv, PrefillInv, PrefillEnd
    <3>2. r \in pending => ChunkEnd(r) \in Nat /\ ChunkEnd(r) <= PrefillEnd(r)
      BY <2>3, ChunkFacts
    <3>3. TargetLength(r) <= InputTokenCount(r) /\ DraftLength(r) <= InputTokenCount(r)
      BY <1>1, <2>3, <3>1, <3>2 DEF TargetLength, DraftLength, Larger
    <3>4. TargetLength(r) \in Int /\ DraftLength(r) \in Int
      BY <2>1 DEF IsCut
    <3>5. QED
      BY <1>1, <2>2, <3>3, <3>4 DEF CacheBound
  <2>4. CASE Phase(r) = "Decode"
    <3>1. /\ Len(tokens[r]) = InputTokenCount(r) + generation_phase[r][2]
          /\ generation_phase[r][2] < MaxNewTokenCount[r]
          /\ generation_phase[r][2] + Len(proposals[r]) <= MaxNewTokenCount[r]
      BY <1>1, <2>4 DEF RequestInv, ProgressInv, ProposalInv
    <3>2. /\ TargetLength(r) \in {Len(tokens[r]) + Len(proposals[r]) - 1, Len(tokens[r]),
                                 Len(tokens[r]) - 1}
          /\ DraftLength(r) \in {0, Len(tokens[r]) + Len(proposals[r]) - 1}
      BY <2>4 DEF TargetLength, DraftLength
    <3>3. /\ Len(tokens[r]) + Len(proposals[r]) - 1 <= CacheBound(r)
          /\ Len(tokens[r]) <= CacheBound(r) /\ Len(tokens[r]) - 1 <= CacheBound(r)
          /\ 0 <= CacheBound(r)
      <4> DEFINE l == Len(tokens[r])
                 k == Len(proposals[r])
                 g == generation_phase[r][2]
                 input == InputTokenCount(r)
                 limit == MaxNewTokenCount[r]
      <4>1. /\ l \in Nat /\ k \in Nat /\ g \in Nat /\ input \in Nat \ {0} /\ limit \in Nat \ {0}
            /\ l = input + g /\ g < limit /\ g + k <= limit
            /\ CacheBound(r) = input + limit - 1
        BY <1>1, <3>1 DEF CacheBound
      <4> HIDE DEF l, k, g, input, limit
      <4>2. l + k - 1 <= CacheBound(r) /\ l <= CacheBound(r) /\ l - 1 <= CacheBound(r)
            /\ 0 <= CacheBound(r)
        BY <4>1
      <4>3. QED
        BY <4>2 DEF l, k
    <3>4. QED
      BY <2>2, <3>2, <3>3
  <2>5. QED
    BY <1>1, <1>4, <2>3, <2>4 DEF Phases
<1>5. QED
  BY <1>2, <1>3, <1>4

\* What precedes the first end-of-sequence token, if none is among the first `count` tokens.
LEMMA BeforeEndFacts ==
  ASSUME NEW s \in Seq(Tokens), NEW count \in 0 .. Len(s),
         \A i \in 1 .. count : s[i] \notin EndOfSequenceTokens
  PROVE  LET own == BeforeEndOfSequence(s)
         IN  /\ own \in Seq(Tokens) /\ Len(own) \in Nat
             /\ count <= Len(own) /\ \A i \in 1 .. Len(own) : own[i] = s[i]
             /\ count < Len(s) /\ s[count + 1] \in EndOfSequenceTokens => Len(own) = count
<1> DEFINE before == {i \in DOMAIN s : \A j \in 1 .. i : s[j] \notin EndOfSequenceTokens}
           n == Cardinality(before)
           own == BeforeEndOfSequence(s)
<1>1. Len(s) \in Nat /\ DOMAIN s = 1 .. Len(s) /\ count \in Nat /\ count <= Len(s)
  BY LenProperties
<1>2. /\ IsFiniteSet(1 .. Len(s)) /\ Cardinality(1 .. Len(s)) = Len(s)
      /\ Cardinality(1 .. count) = count
  <2>1. \A k \in Nat : IsFiniteSet(1 .. k) /\ Cardinality(1 .. k) = k
    <3> TAKE k \in Nat
    <3>1. k \in Int /\ k >= 0
      OBVIOUS
    <3>2. IsFiniteSet(1 .. k) /\ Cardinality(1 .. k) = IF 1 > k THEN 0 ELSE k - 1 + 1
      BY <3>1, FS_Interval
    <3>3. QED
      BY <3>1, <3>2
  <2>2. QED
    BY <1>1, <2>1
<1>3. before \subseteq 1 .. Len(s) /\ 1 .. count \subseteq before
  BY <1>1
<1>4. ASSUME count < Len(s), s[count + 1] \in EndOfSequenceTokens PROVE before \subseteq 1 .. count
  <2> SUFFICES ASSUME NEW i \in before PROVE i \in 1 .. count
    OBVIOUS
  <2>1. i \in 1 .. Len(s) /\ \A j \in 1 .. i : s[j] \notin EndOfSequenceTokens
    BY <1>1
  <2>2. count + 1 \notin 1 .. i
    BY <1>4, <2>1
  <2>3. QED
    BY <1>1, <2>1, <2>2
<1> HIDE DEF before
<1>5. /\ IsFiniteSet(before) /\ n <= Len(s) /\ count <= n /\ n \in Nat
  <2>1. IsFiniteSet(before) /\ Cardinality(before) <= Cardinality(1 .. Len(s))
    BY <1>2, <1>3, FS_Subset
  <2>2. Cardinality(1 .. count) <= Cardinality(before)
    BY <1>3, <2>1, FS_Subset
  <2>3. Cardinality(before) \in Nat
    BY <2>1, FS_CardinalityType
  <2>4. QED
    BY <1>2, <2>1, <2>2, <2>3
<1>6. own = SubSeq(s, 1, n)
  BY DEF BeforeEndOfSequence, before
<1>7. ASSUME count < Len(s), s[count + 1] \in EndOfSequenceTokens PROVE n = count
  <2>1. before = 1 .. count
    BY <1>3, <1>4, <1>7
  <2>2. QED
    BY <1>2, <2>1
<1> HIDE DEF n, own
<1>8. IsCut(own, s, n)
  BY <1>1, <1>5, <1>6 DEF IsCut
<1>9. own \in Seq(Tokens) /\ Len(own) = n /\ \A i \in 1 .. n : own[i] = s[i]
  BY <1>8, CutShape
<1>10. QED
  BY <1>5, <1>7, <1>9 DEF own

LEMMA SuffixFacts ==
  ASSUME NEW s \in Seq(Tokens), NEW k \in 0 .. Len(s)
  PROVE  LET rest == SubSeq(s, k + 1, Len(s))
         IN  /\ rest \in Seq(Tokens) /\ Len(rest) = Len(s) - k
             /\ \A i \in 1 .. Len(s) - k : rest[i] = s[k + i]
<1> DEFINE rest == SubSeq(s, k + 1, Len(s))
<1>1. Len(s) \in Nat /\ k \in Nat /\ k <= Len(s)
  BY LenProperties
<1>2. \A i \in k + 1 .. Len(s) : s[i] \in Tokens
  <2>1. \A i \in 1 .. Len(s) : s[i] \in Tokens
    BY ElementOfSeq
  <2>2. QED
    BY <1>1, <2>1
<1>3. /\ rest \in Seq(Tokens)
      /\ Len(rest) = IF k + 1 <= Len(s) THEN Len(s) - (k + 1) + 1 ELSE 0
      /\ \A i \in 1 .. Len(s) - (k + 1) + 1 : rest[i] = s[(k + 1) + i - 1]
  BY <1>1, <1>2, SubSeqProperties
<1> HIDE DEF rest
<1>4. /\ rest \in Seq(Tokens) /\ Len(rest) = Len(s) - k
      /\ \A i \in 1 .. Len(s) - k : rest[i] = s[k + i]
  BY <1>1, <1>3
<1>5. QED
  BY <1>4 DEF rest

LEMMA OutputFollows == GenerationInv => OutputIsTheTargetsOwn
<1> SUFFICES ASSUME GenerationInv, NEW r \in Requests
             PROVE  /\ Phase(r) = "MaxNewTokensReached" => Len(Output(r)) = MaxNewTokenCount[r]
                    /\ Phase(r) \in {"Decode", "EndOfSequenceToken"} =>
                         Len(Output(r)) < MaxNewTokenCount[r]
                    /\ r \in GreedyRequests =>
                         LET own == BeforeEndOfSequence(reference[r])
                         IN  /\ BeginsWith(own, Output(r))
                             /\ Phase(r) = "EndOfSequenceToken" => Output(r) = own
  BY DEF OutputIsTheTargetsOwn
<1> DEFINE all == tokens[r]
           input == InputTokenCount(r)
           limit == MaxNewTokenCount[r]
           count == Len(all) - input
           out == Output(r)
<1>1. /\ RequestInv(r) /\ all \in Seq(Tokens) /\ Len(all) \in Nat
      /\ InputTokens[r] \in Seq(Tokens) /\ input \in Nat \ {0} /\ limit \in Nat \ {0}
      /\ generation_phase[r][2] \in Nat /\ Phase(r) \in Phases /\ Len(InputTokens[r]) = input
  BY RequestFacts, ConstantFacts DEF GenerationInv, InputTokenCount
<1>2. /\ Len(all) >= input
      /\ Phase(r) = "Prefill" => Len(all) = input
      /\ Phase(r) = "Decode" => Len(all) = input + generation_phase[r][2]
                                /\ generation_phase[r][2] < limit
      /\ Phase(r) = "EndOfSequenceToken" => Len(all) < input + limit
      /\ Phase(r) = "MaxNewTokensReached" => Len(all) = input + limit
  BY <1>1 DEF RequestInv, ProgressInv
<1>3. /\ count \in 0 .. limit
      /\ Phase(r) = "MaxNewTokensReached" => count = limit
      /\ Phase(r) \in {"Decode", "EndOfSequenceToken"} => count < limit
  <2> HIDE DEF all, input, limit
  <2>1. QED
    BY <1>1, <1>2 DEF Phases, Finished
<1>4. /\ out \in Seq(Tokens) /\ Len(out) = count
      /\ \A i \in 1 .. count : out[i] = all[input + i]
  <2>1. input \in 0 .. Len(all)
    BY <1>1, <1>2
  <2>2. out = SubSeq(all, input + 1, Len(all))
    BY DEF Output
  <2> HIDE DEF all, input, out
  <2>3. QED
    BY <1>1, <2>1, <2>2, SuffixFacts
<1>5. ASSUME r \in GreedyRequests
      PROVE  LET own == BeforeEndOfSequence(reference[r])
             IN  /\ BeginsWith(own, out)
                 /\ Phase(r) = "EndOfSequenceToken" => out = own
  <2> DEFINE ref == reference[r]
             own == BeforeEndOfSequence(ref)
             c == SubSeq(ref, 1, count)
  <2>1. ref \in Seq(Tokens) /\ Len(ref) = limit
    BY <1>5 DEF GenerationInv, ReferenceOK
  <2>2. /\ all = InputTokens[r] \o c
        /\ \A i \in 1 .. count : ref[i] \notin EndOfSequenceTokens
        /\ Phase(r) = "EndOfSequenceToken" => ref[count + 1] \in EndOfSequenceTokens
    BY <1>1, <1>5 DEF RequestInv, ReferenceInv
  <2>3. IsCut(c, ref, count)
    BY <1>3, <2>1 DEF IsCut
  <2> HIDE DEF ref, c, count, all, input, limit, out
  <2>4. c \in Seq(Tokens) /\ Len(c) = count /\ \A i \in 1 .. count : c[i] = ref[i]
    BY <2>1, <2>3, CutShape
  <2>5. \A i \in 1 .. count : out[i] = ref[i]
    <3> TAKE i \in 1 .. count
    <3>1. count \in Nat /\ i \in Nat /\ i >= 1 /\ i <= count
      BY <1>3
    <3>2. /\ Len(InputTokens[r] \o c) = Len(InputTokens[r]) + Len(c)
          /\ \A j \in 1 .. Len(InputTokens[r]) + Len(c) :
               (InputTokens[r] \o c)[j] = IF j <= Len(InputTokens[r]) THEN InputTokens[r][j]
                                          ELSE c[j - Len(InputTokens[r])]
      BY <1>1, <2>4, ConcatProperties
    <3>3. \A j \in 1 .. input + count :
            all[j] = IF j <= input THEN InputTokens[r][j] ELSE c[j - input]
      BY <1>1, <2>2, <2>4, <3>2
    <3>4. input + i \in 1 .. input + count /\ ~ (input + i <= input) /\ (input + i) - input = i
      BY <1>1, <3>1
    <3>5. all[input + i] = c[i]
      BY <3>3, <3>4
    <3>6. QED
      BY <1>4, <2>4, <3>5
  <2>6. count \in 0 .. Len(ref)
    BY <1>3, <2>1
  <2>7. /\ own \in Seq(Tokens) /\ Len(own) \in Nat /\ count <= Len(own)
        /\ \A i \in 1 .. Len(own) : own[i] = ref[i]
        /\ count < Len(ref) /\ ref[count + 1] \in EndOfSequenceTokens => Len(own) = count
    BY <2>1, <2>2, <2>6, BeforeEndFacts
  <2> HIDE DEF own
  <2>8. \A i \in 1 .. Len(out) : out[i] = own[i]
    <3> TAKE i \in 1 .. Len(out)
    <3>1. i \in 1 .. count /\ i \in 1 .. Len(own)
      BY <1>3, <1>4, <2>7
    <3>2. QED
      BY <2>5, <2>7, <3>1
  <2>9. Len(out) <= Len(own)
    BY <1>4, <2>7
  <2>10. IsCut(out, own, Len(out))
    BY <1>4, <2>7, <2>8, <2>9, CutByElements
  <2>11. BeginsWith(own, out)
    BY <2>7, <2>10, CutIsBeginning
  <2>12. ASSUME Phase(r) = "EndOfSequenceToken" PROVE out = own
    <3>1. Len(own) = count
      BY <1>3, <2>1, <2>2, <2>7, <2>12
    <3>2. QED
      BY <1>4, <2>7, <2>8, <3>1, SeqEqual
  <2>13. QED
    BY <2>11, <2>12 DEF own, ref
<1>6. QED
  BY <1>3, <1>4, <1>5

LEMMA SelfChecksFollow == GenerationInv => SelfChecksNeverFail
<1> SUFFICES ASSUME GenerationInv PROVE SelfChecksNeverFail
  OBVIOUS
<1>1. GenerationTypeOK /\ \A r \in Requests : RequestInv(r)
  BY DEF GenerationInv
<1>2. step \in {"DraftPrefill", "Drafting"} => pending = batch
  BY DEF GenerationInv, StepInv
<1>3. \A r \in pending : Phase(r) = "Prefill" => PrefillPosition(r) < ChunkEnd(r)
  BY ChunkFacts
<1>4. ASSUME NEW r \in pending
      PROVE  /\ Len(target_cache[r]) = TargetLength(r) /\ Len(draft_cache[r]) = DraftLength(r)
             /\ r \in Requests /\ proposals[r] \in Seq(Tokens) /\ Len(proposals[r]) \in Nat
             /\ Len(tokens[r]) \in Nat \ {0} /\ Phase(r) \in {"Prefill", "Decode"}
  <2>1. /\ r \in Requests /\ tokens[r] \in Seq(Tokens) /\ Len(tokens[r]) \in Nat \ {0}
        /\ Phase(r) \in {"Prefill", "Decode"}
        /\ IsCut(target_cache[r], Context(r), TargetLength(r))
        /\ IsCut(draft_cache[r], Context(r), DraftLength(r))
    BY BatchFacts
  <2>2. proposals[r] \in Seq(Tokens) /\ Len(proposals[r]) \in Nat
    BY <1>1, <2>1, RequestFacts
  <2>3. Context(r) \in Seq(Tokens)
    BY <2>1, <2>2, ConcatProperties DEF Context
  <2>4. QED
    BY <2>1, <2>2, <2>3, CutShape
<1>5. ASSUME step = "DraftPrefill", NEW r \in batch, Phase(r) = "Prefill"
      PROVE  Fits(draft_cache[r], DraftPrefillInput(r))
  <2>1. speculative /\ r \in pending
    BY <1>2, <1>5 DEF GenerationInv, StepInv
  <2>2. Len(draft_cache[r]) = draft_position[r]
    BY <1>4, <1>5, <2>1 DEF DraftLength
  <2>3. QED
    BY <2>2 DEF Fits, DraftPrefillInput, PrefillInput
<1>6. ASSUME step = "Drafting", NEW r \in ActiveProposals
      PROVE  Fits(draft_cache[r], DraftProposalInput(r))
  <2>1. r \in pending /\ speculative /\ Phase(r) = "Decode"
    BY <1>2, <1>6 DEF ActiveProposals, Verifies
  <2>2. Len(draft_cache[r]) = Len(tokens[r]) + Len(proposals[r]) - 1
    BY <1>4, <2>1 DEF DraftLength
  <2>3. Len(draft_cache[r]) = OriginalCachedTokenCount(r) + Len(proposals[r])
    BY <1>4, <2>1, <2>2 DEF OriginalCachedTokenCount
  <2>4. QED
    BY <2>3 DEF Fits, DraftProposalInput
<1>7. ASSUME step = "Drafting", NEW r \in batch
      PROVE  Fits(target_cache[r], TargetInput(r))
  <2>1. r \in pending
    BY <1>2, <1>7
  <2>2. CASE Phase(r) = "Prefill"
    BY <1>4, <1>7, <2>1, <2>2 DEF TargetLength, Fits, TargetInput, PrefillInput
  <2>3. CASE Phase(r) # "Prefill"
    BY <1>4, <1>7, <2>1, <2>3 DEF TargetLength, Fits, TargetInput, OriginalCachedTokenCount
  <2>4. QED
    BY <2>2, <2>3
<1>8. ASSUME step = "Drafting", ActiveProposals = {}, NEW r \in batch, Verifies(r)
      PROVE  proposals[r] # <<>>
  <2> SUFFICES ASSUME proposals[r] = <<>> PROVE r \in ActiveProposals
    BY <1>8
  <2>1. r \in pending /\ r \in Requests /\ Len(proposals[r]) = 0 /\ Phase(r) = "Decode"
    BY <1>2, <1>4, <1>8, EmptySeq DEF Verifies
  <2>2. /\ draft_token_count[r] \in Nat \ {0} /\ MaxNewTokenCount[r] \in Nat
        /\ generation_phase[r][2] \in Nat /\ generation_phase[r][2] < MaxNewTokenCount[r]
    BY <1>1, <2>1, PolicyFacts, RequestFacts, ConstantFacts DEF RequestInv, ProgressInv
  <2>3. 0 < MaximumDraftTokenCount(r)
    BY <2>2 DEF MaximumDraftTokenCount, Smaller
  <2>4. QED
    BY <1>8, <2>1, <2>3 DEF ActiveProposals
<1>9. ASSUME step = "Completing", NEW r \in pending, Verifies(r), NEW v \in Verifications(r)
      PROVE  /\ RetainedCachedTokenCount(r, v) <= Len(target_cache[r])
             /\ RetainedCachedTokenCount(r, v) <= Len(draft_cache[r])
  <2> DEFINE n == Len(SubSeq(proposals[r], 1, v.accepted) \o ReplacementOf(v))
  <2>1. n \in Nat /\ n <= Len(proposals[r])
        /\ RetainedCachedTokenCount(r, v) = Len(tokens[r]) + n - 1
    BY <1>9, VerifiedSelection
  <2> HIDE DEF n
  <2>2. /\ Len(target_cache[r]) = Len(tokens[r]) + Len(proposals[r]) - 1
        /\ Len(draft_cache[r]) = Len(tokens[r]) + Len(proposals[r]) - 1
    BY <1>4, <1>9 DEF TargetLength, DraftLength, Verifies
  <2>3. Len(tokens[r]) \in Nat /\ Len(proposals[r]) \in Nat
    BY <1>4
  <2>4. QED
    BY <2>1, <2>2, <2>3
<1>10. QED
  BY <1>1, <1>3, <1>5, <1>6, <1>7, <1>8, <1>9 DEF SelfChecksNeverFail

-----------------------------------------------------------------------------
(* What a completed step does to a request *)

LEMMA CommitAdvances ==
  ASSUME GenerationInv, NEW r \in Requests, NEW generated \in Nat, NEW selected,
         IsSelection(selected), Commit(r, generated, selected),
         Len(tokens[r]) = InputTokenCount(r) + generated
  PROVE  /\ Phase(r)' # "Prefill"
         /\ \/ Phase(r)' \in Finished
            \/ /\ generation_phase'[r] = <<"Decode", Len(Output(r)')>>
               /\ Len(Output(r)') > generated
<1> DEFINE committed == BeforeEndOfSequence(selected)
           n == Len(committed)
           input == InputTokenCount(r)
<1>1. /\ tokens[r] \in Seq(Tokens) /\ Len(tokens[r]) = input + generated
      /\ input \in Nat \ {0} /\ selected \in Seq(Tokens) /\ Len(selected) \in Nat \ {0}
      /\ committed \in Seq(Tokens) /\ n \in Nat
      /\ committed = selected => n = Len(selected)
  BY RequestFacts, ConstantFacts, CommittedOfSelection, EmptySeq, LenProperties
  DEF IsSelection, GenerationInv
<1>2. /\ tokens'[r] = tokens[r] \o committed /\ tokens' \in [Requests -> Seq(Tokens)]
      /\ generation_phase'[r] = DetermineDecodePhase(r, generated + n, committed = selected)
  BY CommitFacts
<1>3. Len(tokens'[r]) = Len(tokens[r]) + n /\ tokens'[r] \in Seq(Tokens)
  BY <1>1, <1>2, ConcatProperties
<1> HIDE DEF committed, n, input
<1>4. input \in 0 .. Len(tokens'[r]) /\ Len(tokens'[r]) - input = generated + n
  BY <1>1, <1>3
<1>5. Len(Output(r)') = generated + n
  <2>1. Output(r)' = SubSeq(tokens'[r], input + 1, Len(tokens'[r]))
    BY DEF Output, input
  <2>2. QED
    BY <1>3, <1>4, <2>1, SuffixFacts
<1>6. CASE committed # selected
  BY <1>2, <1>6 DEF DetermineDecodePhase, Phase, Finished
<1>7. CASE committed = selected
  <2>1. generated + n > generated
    BY <1>1, <1>7
  <2>2. generation_phase'[r] \in {<<"Decode", generated + n>>, <<"MaxNewTokensReached", 0>>}
    BY <1>2, <1>7 DEF DetermineDecodePhase
  <2>3. QED
    BY <1>5, <2>1, <2>2 DEF Phase, Finished
<1>8. QED
  BY <1>6, <1>7

LEMMA CompletionAdvances ==
  ASSUME GenerationInv, NEW r \in Requests, CompleteRequest(r)
  PROVE  StepAdvances(r)
<1> DEFINE before == generation_phase[r][2]
           left == before - Smaller(token_budget[r], before)
<1>1. EndStepOf(r) /\ r \in pending /\ step = "Completing" /\ stage[r] = "Executing"
  <2>1. EndStepOf(r)
    BY DEF CompleteRequest, CompletePrefill, CompleteDecode, CompleteSpeculativePrefill,
           CompleteSpeculativeDecode
  <2>2. QED
    BY <2>1, EndFacts
<1>2. /\ RequestInv(r) /\ before \in Nat /\ token_budget[r] \in Nat
      /\ target_position[r] \in Nat /\ draft_position[r] \in Nat
      /\ MaxNewTokenCount[r] \in Nat /\ InputTokenCount(r) \in Nat
  BY <1>1, BatchFacts, RequestFacts, ConstantFacts DEF GenerationInv
<1>3. CASE Phase(r) = "Prefill"
  <2>1. /\ PrefillPosition(r) \in Nat /\ ChunkEnd(r) \in Nat /\ PrefillEnd(r) \in Nat
        /\ PrefillPosition(r) < ChunkEnd(r)
        /\ ChunkEnd(r) = Smaller(PrefillPosition(r) + token_budget[r], PrefillEnd(r))
        /\ ChunkEnd(r) <= PrefillEnd(r) /\ Len(tokens[r]) = InputTokenCount(r)
        /\ before = PrefillEnd(r) - PrefillPosition(r)
        /\ target_position[r] <= PrefillEnd(r) /\ draft_position[r] <= PrefillEnd(r)
    BY <1>1, <1>2, <1>3, ChunkFacts DEF RequestInv, PrefillInv
  <2>2. left = PrefillEnd(r) - ChunkEnd(r) /\ left \in Nat
    BY <1>2, <2>1 DEF Smaller
  <2> HIDE DEF left
  <2>3. IF left > 0 THEN generation_phase'[r] = <<"Prefill", left>> ELSE Phase(r)' # "Prefill"
    <3>1. CASE CompletePrefill(r)
      <4>1. PrefillEnd(r) = InputTokenCount(r)
        BY <3>1 DEF CompletePrefill, PrefillEnd
      <4>2. CASE ChunkEnd(r) < InputTokenCount(r)
        <5>1. generation_phase' = [generation_phase EXCEPT ![r] = DeterminePrefillPhase(left)]
          BY <2>2, <3>1, <4>1, <4>2 DEF CompletePrefill
        <5>2. left > 0
          BY <1>2, <2>1, <2>2, <4>1, <4>2
        <5>3. QED
          BY <5>1, <5>2 DEF DeterminePrefillPhase, GenerationInv, GenerationTypeOK
      <4>3. CASE ~ (ChunkEnd(r) < InputTokenCount(r))
        <5>1. ChunkEnd(r) = InputTokenCount(r) /\ left = 0
          BY <1>2, <2>1, <2>2, <4>1, <4>3
        <5>2. PICK token \in NextSelections(r) : Commit(r, 0, <<token>>)
          BY <3>1, <4>3 DEF CompletePrefill
        <5>3. token \in Tokens
          BY SelectionsAreTokens DEF NextSelections
        <5>4. IsSelection(<<token>>)
          BY <5>3, EmptySeq DEF IsSelection
        <5>5. Len(tokens[r]) = InputTokenCount(r) + 0
          BY <1>2, <2>1
        <5>6. Phase(r)' # "Prefill"
          BY <5>2, <5>4, <5>5, CommitAdvances
        <5>7. QED
          BY <5>1, <5>6
      <4>4. QED
        BY <4>2, <4>3
    <3>2. CASE CompleteSpeculativePrefill(r)
      <4> DEFINE rest == PrefillEnd(r) - Smaller(Larger(target_position[r], ChunkEnd(r)),
                                                 Larger(draft_position[r], ChunkEnd(r)))
      <4>1. generation_phase' = [generation_phase EXCEPT ![r] = DeterminePrefillPhase(rest)]
        BY <3>2 DEF CompleteSpeculativePrefill
      <4>2. rest = left
        <5>1. PrefillPosition(r) = Smaller(target_position[r], draft_position[r])
          BY <3>2 DEF CompleteSpeculativePrefill, PrefillPosition
        <5>2. QED
          BY <1>2, <2>1, <2>2, <5>1 DEF Smaller, Larger
      <4> HIDE DEF rest
      <4>3. generation_phase'[r] = DeterminePrefillPhase(left)
        BY <4>1, <4>2 DEF GenerationInv, GenerationTypeOK
      <4>4. QED
        BY <2>2, <4>3 DEF DeterminePrefillPhase, Phase
    <3>3. QED
      BY <1>3, <3>1, <3>2 DEF CompleteRequest, CompleteDecode, CompleteSpeculativeDecode, Verifies
  <2>4. QED
    BY <1>3, <2>3 DEF StepAdvances, left
<1>4. CASE Phase(r) # "Prefill"
  <2>1. Phase(r) = "Decode" /\ Len(tokens[r]) = InputTokenCount(r) + before
    BY <1>1, <1>2, <1>4, BatchFacts DEF RequestInv, ProgressInv
  <2>2. PICK selected : IsSelection(selected) /\ Commit(r, before, selected)
    <3>1. CASE CompleteDecode(r)
      <4>1. PICK token \in NextSelections(r) : Commit(r, before, <<token>>)
        BY <3>1 DEF CompleteDecode
      <4>2. token \in Tokens
        BY SelectionsAreTokens DEF NextSelections
      <4>3. IsSelection(<<token>>)
        BY <4>2, EmptySeq DEF IsSelection
      <4>4. QED
        BY <4>1, <4>3
    <3>2. CASE CompleteSpeculativeDecode(r)
      <4>1. Verifies(r)
        BY <3>2 DEF CompleteSpeculativeDecode
      <4>2. PICK v \in Verifications(r) :
              Commit(r, before, SubSeq(proposals[r], 1, v.accepted) \o ReplacementOf(v))
        BY <3>2 DEF CompleteSpeculativeDecode
      <4>3. IsSelection(SubSeq(proposals[r], 1, v.accepted) \o ReplacementOf(v))
        BY <1>1, <4>1, VerifiedSelection
      <4>4. QED
        BY <4>2, <4>3
    <3>3. QED
      BY <1>4, <3>1, <3>2 DEF CompleteRequest, CompletePrefill, CompleteSpeculativePrefill
  <2>3. \/ Phase(r)' \in Finished
        \/ generation_phase'[r] = <<"Decode", Len(Output(r)')>> /\ Len(Output(r)') > before
    BY <1>2, <2>1, <2>2, CommitAdvances
  <2>4. QED
    BY <1>4, <2>3 DEF StepAdvances
<1>5. QED
  BY <1>3, <1>4

\* Only its completion takes a request that goes on from the batch.
LEMMA AdvanceFollows ==
  ASSUME GenerationInv, [TextGenerationNext]_vars,
         NEW r \in pending, r \notin pending', stage'[r] = "Executing"
  PROVE  StepAdvances(r)
<1>1. /\ r \in Requests /\ r \in batch /\ step # "Idle"
  BY BatchFacts DEF GenerationInv, GenerationTypeOK, StepInv
<1>2. TextGenerationNext
  BY DEF vars, stepVars
<1>3. ~ PrepareStep /\ ~ RunDraftPrefill /\ ~ ProposeDraftTokens /\ ~ RunTargetForward
  BY <1>1 DEF PrepareStep, RunDraftPrefill, ProposeDraftTokens, RunTargetForward
<1>4. ~ FailStep
  BY <1>1 DEF FailStep
<1>5. PICK q \in Requests : CompleteRequest(q)
  BY <1>1, <1>2, <1>3, <1>4 DEF TextGenerationNext, StartRequest, FailToStartRequest,
     AbortRequest, FinishRequest, ReleaseCaches
<1>6. EndStepOf(q)
  BY <1>5 DEF CompleteRequest, CompletePrefill, CompleteDecode, CompleteSpeculativePrefill,
     CompleteSpeculativeDecode
<1>7. q = r
  BY <1>1, <1>6, EndFacts
<1>8. QED
  BY <1>5, <1>7, CompletionAdvances

-----------------------------------------------------------------------------
(* The theorems *)

\* Every value keeps to its range; in particular the draft token count of a request stays within
\* the bounds of its policy, whatever is accepted (draft_token_count.rs), and a request of the
\* running step has neither been stopped nor finished.
THEOREM GenerationTypeCorrect == TextGenerationSpec => []GenerationTypeOK
<1>1. GenerationInv => GenerationTypeOK
  BY DEF GenerationInv
<1>2. QED
  BY <1>1, InvariantHolds, PTL

\* Between steps both models' caches hold the beginning of the committed tokens and nothing else,
\* and all but the last of them while the request decodes, however many proposals were rejected
\* (complete_speculative_iteration).
THEOREM CachesCorrect == TextGenerationSpec => []CachesHoldCommittedTokens
BY CachesFollow, InvariantHolds, PTL

\* No cache ever exceeds what the scheduler reserves for its request, not even with the tokens of
\* a proposal that is still to be verified (get_maximum_cached_token_count).
THEOREM ReservationCorrect == TextGenerationSpec => []ReservationCoversThePeak
BY ReservationFollows, InvariantHolds, PTL

\* Speculative decoding is lossless: a greedy request's output is what its target model alone
\* gives, whatever the draft model proposes, whatever the policy and however its input is cut into
\* chunks; and every request ends for the reason it reports (verify_draft_tokens).
THEOREM OutputCorrect == TextGenerationSpec => []OutputIsTheTargetsOwn
BY OutputFollows, InvariantHolds, PTL

\* No check inside a step can fail: every forward starts where the cache ends, no proposal is
\* empty, every prefill advances, no truncation asks for more than is cached.
THEOREM SelfChecksCorrect == TextGenerationSpec => []SelfChecksNeverFail
BY SelfChecksFollow, InvariantHolds, PTL

\* A completed step does what the scheduler counted on: a prefill advances by its budget, a decode
\* adds a token or ends the request (complete_forward, complete_speculative_forward).
THEOREM StepsAdvanceCorrect == TextGenerationSpec => StepsAdvance
<1> DEFINE A == \A r \in pending : r \notin pending' /\ stage'[r] = "Executing" => StepAdvances(r)
<1>1. GenerationInv /\ [TextGenerationNext]_vars => [A]_vars
  BY AdvanceFollows
<1>2. StepsAdvance <=> [][A]_vars
  BY DEF StepsAdvance
<1> HIDE DEF A
<1>3. QED
  BY <1>1, <1>2, InvariantHolds, PTL DEF TextGenerationSpec
=============================================================================
