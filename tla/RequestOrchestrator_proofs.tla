--------------------- MODULE RequestOrchestrator_proofs ---------------------
(***************************************************************************)
(* Routing's bookkeeping, for every number of backends and requests and    *)
(* every policy: the reserved loads are the loads of the reservations that *)
(* are held, and a router sees every outstanding request exactly once and  *)
(* never less work than there is. What is needed about the rest of the     *)
(* state is that channels hold exactly what they are said to hold, and     *)
(* that a worker publishes one change before it makes the next. A decision *)
(* reads the backends one by one; each read is exact when it is made, and  *)
(* grows stale only by requests that end.                                  *)
(***************************************************************************)
EXTENDS RequestOrchestrator, FiniteSetTheorems, FunctionTheorems, TLAPS

-----------------------------------------------------------------------------
(* Sums *)

Pairs(f, S) == UNION {{x} \X (1 .. f[x]) : x \in S}

LEMMA PairsAreFinite ==
  ASSUME NEW S, IsFiniteSet(S), NEW f, \A x \in S : f[x] \in Nat
  PROVE  IsFiniteSet(Pairs(f, S))
<1> DEFINE Row(x) == {x} \X (1 .. f[x])
           Rows == {Row(x) : x \in S}
           g == [x \in S |-> Row(x)]
<1>1. g \in Surjection(S, Rows)
  BY Fun_IsSurj
<1>2. IsFiniteSet(Rows)
  BY <1>1, FS_Surjection
<1>3. ASSUME NEW x \in S PROVE IsFiniteSet(Row(x))
  <2>1. IsFiniteSet({x}) /\ IsFiniteSet(1 .. f[x])
    <3>1. 1 \in Int /\ f[x] \in Int
      OBVIOUS
    <3>2. QED
      BY <3>1, FS_Singleton, FS_Interval
  <2>2. QED
    BY <2>1, FS_Product
<1>4. \A R \in Rows : IsFiniteSet(R)
  BY <1>3
<1>5. IsFiniteSet(UNION Rows)
  <2> HIDE DEF Rows
  <2>1. QED
    BY <1>2, <1>4, FS_UNION
<1>6. QED
  BY <1>5 DEF Pairs

\* A sum is a natural number, grows with its terms and depends on them only.
LEMMA TotalsCompare ==
  ASSUME NEW S, IsFiniteSet(S), NEW f, NEW g,
         \A x \in S : f[x] \in Nat /\ g[x] \in Nat
  PROVE  /\ Total(f, S) \in Nat
         /\ (\A x \in S : f[x] <= g[x]) => Total(f, S) <= Total(g, S)
         /\ (\A x \in S : f[x] = g[x]) => Total(f, S) = Total(g, S)
<1>1. IsFiniteSet(Pairs(f, S)) /\ IsFiniteSet(Pairs(g, S))
  BY PairsAreFinite
<1>2. Total(f, S) = Cardinality(Pairs(f, S)) /\ Total(g, S) = Cardinality(Pairs(g, S))
  BY DEF Total, Pairs
<1>3. ASSUME \A x \in S : f[x] <= g[x] PROVE Pairs(f, S) \subseteq Pairs(g, S)
  <2>1. \A x \in S : \A i \in 1 .. f[x] : i \in 1 .. g[x]
    BY <1>3
  <2>2. \A x \in S : {x} \X (1 .. f[x]) \subseteq {x} \X (1 .. g[x])
    BY <2>1
  <2>3. QED
    BY <2>2 DEF Pairs
<1>4. ASSUME \A x \in S : f[x] = g[x] PROVE Pairs(f, S) = Pairs(g, S)
  BY <1>4 DEF Pairs
<1>5. QED
  BY <1>1, <1>2, <1>3, <1>4, FS_CardinalityType, FS_Subset

\* Sums over disjoint sets add up.
LEMMA TotalsAdd ==
  ASSUME NEW S, NEW T, IsFiniteSet(S), IsFiniteSet(T), S \cap T = {},
         NEW f, \A x \in S \cup T : f[x] \in Nat
  PROVE  Total(f, S \cup T) = Total(f, S) + Total(f, T)
<1>1. IsFiniteSet(Pairs(f, S)) /\ IsFiniteSet(Pairs(f, T))
  BY PairsAreFinite
<1>2. Pairs(f, S \cup T) = Pairs(f, S) \cup Pairs(f, T)
  BY DEF Pairs
<1>3. Pairs(f, S) \cap Pairs(f, T) = {}
  BY DEF Pairs
<1>4. Cardinality(Pairs(f, S) \cup Pairs(f, T)) =
        Cardinality(Pairs(f, S)) + Cardinality(Pairs(f, T)) - Cardinality({})
  BY <1>1, <1>3, FS_Union
<1>5. /\ Total(f, S) = Cardinality(Pairs(f, S)) /\ Total(f, T) = Cardinality(Pairs(f, T))
      /\ Total(f, S \cup T) = Cardinality(Pairs(f, S \cup T))
  BY DEF Total, Pairs
<1>6. Cardinality(Pairs(f, S)) \in Nat /\ Cardinality(Pairs(f, T)) \in Nat
  BY <1>1, FS_CardinalityType
<1>7. QED
  BY <1>2, <1>4, <1>5, <1>6, FS_EmptySet

LEMMA TotalOfOne ==
  ASSUME NEW x, NEW f, f[x] \in Nat
  PROVE  Total(f, {x}) = f[x]
<1>1. Total(f, {x}) = Cardinality({x} \X (1 .. f[x]))
  BY DEF Total
<1>2. IsFiniteSet({x}) /\ Cardinality({x}) = 1
  BY FS_Singleton
<1>3. 1 \in Int /\ f[x] \in Int
  OBVIOUS
<1>4. IsFiniteSet(1 .. f[x]) /\ Cardinality(1 .. f[x]) = f[x]
  BY <1>3, FS_Interval
<1>5. Cardinality({x} \X (1 .. f[x])) = Cardinality({x}) * Cardinality(1 .. f[x])
  BY <1>2, <1>4, FS_Product
<1>6. QED
  BY <1>1, <1>2, <1>4, <1>5
-----------------------------------------------------------------------------
(* Loads *)

\* The load of the reservations of a set of requests, with the given estimates.
LoadOfAll(estimate, S) ==
  [requests |-> Cardinality(S), prefill |-> Total(InputTokenCount, S),
   cached |-> Total(estimate, S), output |-> Total(MaxNewTokenCount, S)]

LEMMA RequestsAreFinite ==
  ASSUME NEW S \in SUBSET Requests
  PROVE  IsFiniteSet(S) /\ Cardinality(S) \in Nat
  BY OrchestratorAssumption, FS_Subset, FS_CardinalityType

LEMMA LoadIsNatural ==
  ASSUME NEW S \in SUBSET Requests, NEW e \in [Requests -> Nat]
  PROVE  /\ Total(InputTokenCount, S) \in Nat /\ Total(e, S) \in Nat
         /\ Total(MaxNewTokenCount, S) \in Nat
  BY RequestsAreFinite, TotalsCompare, OrchestratorAssumption

LEMMA LoadOfOne ==
  ASSUME NEW r \in Requests, NEW e \in [Requests -> Nat], e[r] <= InputTokenCount[r]
  PROVE  LoadOf(r, e[r]) = LoadOfAll(e, {r})
<1>1. Cardinality({r}) = 1
  BY FS_Singleton
<1>2. /\ Total(InputTokenCount, {r}) = InputTokenCount[r] /\ Total(e, {r}) = e[r]
      /\ Total(MaxNewTokenCount, {r}) = MaxNewTokenCount[r]
  BY TotalOfOne, OrchestratorAssumption
<1>3. QED
  BY <1>1, <1>2 DEF LoadOf, LoadOfAll

\* Loads add up over disjoint sets, and a part can be taken off again.
LEMMA LoadsAdd ==
  ASSUME NEW S \in SUBSET Requests, NEW T \in SUBSET Requests, S \cap T = {},
         NEW e \in [Requests -> Nat]
  PROVE  /\ Plus(LoadOfAll(e, S), LoadOfAll(e, T)) = LoadOfAll(e, S \cup T)
         /\ Minus(LoadOfAll(e, S \cup T), LoadOfAll(e, T)) = LoadOfAll(e, S)
<1>1. IsFiniteSet(S) /\ IsFiniteSet(T) /\ S \cup T \in SUBSET Requests
  BY RequestsAreFinite
<1>2. /\ Total(InputTokenCount, S \cup T) = Total(InputTokenCount, S) + Total(InputTokenCount, T)
      /\ Total(e, S \cup T) = Total(e, S) + Total(e, T)
      /\ Total(MaxNewTokenCount, S \cup T) =
           Total(MaxNewTokenCount, S) + Total(MaxNewTokenCount, T)
  BY <1>1, TotalsAdd, OrchestratorAssumption
<1>3. Cardinality(S \cup T) = Cardinality(S) + Cardinality(T)
  <2>1. Cardinality(S \cup T) = Cardinality(S) + Cardinality(T) - Cardinality({})
    BY <1>1, FS_Union
  <2>2. QED
    BY <2>1, RequestsAreFinite, FS_EmptySet
<1>4. /\ Cardinality(S) \in Nat /\ Cardinality(T) \in Nat
      /\ Total(InputTokenCount, S) \in Nat /\ Total(InputTokenCount, T) \in Nat
      /\ Total(e, S) \in Nat /\ Total(e, T) \in Nat
      /\ Total(MaxNewTokenCount, S) \in Nat /\ Total(MaxNewTokenCount, T) \in Nat
  BY RequestsAreFinite, LoadIsNatural
<1>5. Plus(LoadOfAll(e, S), LoadOfAll(e, T)) = LoadOfAll(e, S \cup T)
  BY <1>2, <1>3 DEF Plus, LoadOfAll
<1>6. Minus(LoadOfAll(e, S \cup T), LoadOfAll(e, T)) = LoadOfAll(e, S)
  <2>1. /\ Cardinality(S \cup T) - Cardinality(T) = Cardinality(S)
        /\ Total(InputTokenCount, S \cup T) - Total(InputTokenCount, T)
             = Total(InputTokenCount, S)
        /\ Total(e, S \cup T) - Total(e, T) = Total(e, S)
        /\ Total(MaxNewTokenCount, S \cup T) - Total(MaxNewTokenCount, T)
             = Total(MaxNewTokenCount, S)
    BY <1>2, <1>3, <1>4
  <2>2. QED
    BY <2>1 DEF Minus, LoadOfAll
<1>7. QED
  BY <1>5, <1>6

-----------------------------------------------------------------------------
(* The invariant *)

Working == {"enqueued", "removed"}
Scheduled == {"queued", "active", "removed"}

RoutedSomewhere ==
  /\ \A r \in Requests : stage[r] \notin Unrouted => backend[r] \in Backends
  /\ \A r \in Requests : cached_estimate[r] <= InputTokenCount[r]

\* A channel holds requests that were sent to its backend, each once.
ChannelsHoldSent ==
  \A b \in Backends :
    /\ \A i \in 1 .. Len(messages[b]) :
         stage[messages[b][i]] = "sent" /\ backend[messages[b][i]] = b
    /\ \A i, j \in 1 .. Len(messages[b]) : messages[b][i] = messages[b][j] => i = j

\* A worker publishes one change before it makes the next.
OneChangeAtATime ==
  \A r, q \in Requests :
    stage[r] \in Working /\ stage[q] \in Working /\ backend[r] = backend[q] => r = q

\* The reserved loads are those of the held reservations.
LoadsAreHeld ==
  \A b \in Backends :
    reserved_load[b] = LoadOfAll(cached_estimate, HoldingReservation(b))

\* What a worker has published: every request it scheduled.
CountsArePublished ==
  \A b \in Backends \ stopped :
    operational_state[b].queued + operational_state[b].active
      = Cardinality(At(b, Scheduled))

\* Work only shrinks, and not before a request is admitted; so what was published
\* is at least what remains.
WorkOnlyShrinks ==
  /\ \A r \in Requests : prefill[r] <= InputTokenCount[r] /\ output[r] <= MaxNewTokenCount[r]
  /\ \A b \in Backends \ stopped :
       /\ operational_state[b].queued_prefill + operational_state[b].active_prefill
            >= Total(prefill, At(b, {"queued", "active"}))
       /\ operational_state[b].queued_output + operational_state[b].active_output
            >= Total(output, At(b, {"queued", "active"}))

IInv ==
  /\ OrchestratorTypeOK /\ RoutedSomewhere /\ ChannelsHoldSent /\ OneChangeAtATime
  /\ LoadsAreHeld /\ CountsArePublished /\ WorkOnlyShrinks

-----------------------------------------------------------------------------
(* What the steps have in common *)

\* A request that changes its stage, and nothing about its backend.
LEMMA AtAfterMove ==
  ASSUME stage \in [Requests -> Stages], NEW r \in Requests, NEW s,
         stage' = [stage EXCEPT ![r] = s], backend' = backend
  PROVE  \A b, stages : At(b, stages)' =
           IF backend[r] = b /\ s \in stages THEN At(b, stages) \cup {r}
                                            ELSE At(b, stages) \ {r}
  BY DEF At

LEMMA AtIsASet == \A b, stages : At(b, stages) \in SUBSET Requests
  BY DEF At

LEMMA MessagesAreSent ==
  ASSUME OrchestratorTypeOK, ChannelsHoldSent
  PROVE  \A b \in Backends : \A i \in 1 .. Len(messages[b]) :
           messages[b][i] \in Requests /\ stage[messages[b][i]] = "sent"
<1>1. \A b \in Backends : messages[b] \in Seq(Requests)
  BY DEF OrchestratorTypeOK
<1>2. QED
  BY <1>1 DEF ChannelsHoldSent

\* Estimates outside a set do not matter to its load.
LEMMA SameLoad ==
  ASSUME NEW S \in SUBSET Requests, NEW e \in [Requests -> Nat],
         NEW g \in [Requests -> Nat], \A q \in S : e[q] = g[q]
  PROVE  LoadOfAll(e, S) = LoadOfAll(g, S)
<1>1. Total(e, S) = Total(g, S)
  BY RequestsAreFinite, TotalsCompare
<1>2. QED
  BY <1>1 DEF LoadOfAll

LEMMA HeldLoadsAreTyped ==
  ASSUME NEW S \in SUBSET Requests, NEW e \in [Requests -> Nat]
  PROVE  LoadOfAll(e, S) \in [requests : Nat, prefill : Nat, cached : Nat, output : Nat]
  BY RequestsAreFinite, LoadIsNatural DEF LoadOfAll

\* Snapshots are typed and sum up the whole schedule.
LEMMA SnapshotsSumUp ==
  ASSUME OrchestratorTypeOK, NEW S \in SUBSET Requests, NEW T \in SUBSET Requests,
         S \cap T = {}
  PROVE  /\ Snapshot(S, T) \in OperationalStateType
         /\ Snapshot(S, T).queued + Snapshot(S, T).active = Cardinality(S \cup T)
         /\ Snapshot(S, T).queued_prefill + Snapshot(S, T).active_prefill
              = Total(prefill, S \cup T)
         /\ Snapshot(S, T).queued_output + Snapshot(S, T).active_output
              = Total(output, S \cup T)
<1>1. IsFiniteSet(S) /\ IsFiniteSet(T)
  BY RequestsAreFinite
<1>2. /\ \A q \in Requests : prefill[q] \in Nat
      /\ \A q \in Requests : output[q] \in Nat
      /\ \A q \in Requests : cached_estimate[q] \in Nat
  BY DEF OrchestratorTypeOK
<1>3. /\ Total(prefill, S) \in Nat /\ Total(prefill, T) \in Nat
      /\ Total(output, S) \in Nat /\ Total(output, T) \in Nat
      /\ Total(cached_estimate, S) \in Nat
  BY <1>1, <1>2, TotalsCompare
<1>4. /\ Total(prefill, S \cup T) = Total(prefill, S) + Total(prefill, T)
      /\ Total(output, S \cup T) = Total(output, S) + Total(output, T)
  BY <1>1, <1>2, TotalsAdd
<1>5. Cardinality(S) \in Nat /\ Cardinality(T) \in Nat
  BY RequestsAreFinite
<1>6. Cardinality(S \cup T) = Cardinality(S) + Cardinality(T)
  <2>1. Cardinality(S \cup T) = Cardinality(S) + Cardinality(T) - Cardinality({})
    BY <1>1, FS_Union
  <2>2. QED
    BY <2>1, <1>5, FS_EmptySet
<1>7. QED
  BY <1>3, <1>4, <1>5, <1>6 DEF Snapshot, OperationalStateType

\* A reservation is dropped by whoever holds it.
LEMMA LoadAfterDrop ==
  ASSUME IInv, NEW r \in Requests, stage[r] \in {"routed", "sent", "enqueued"},
         reserved_load' = [reserved_load EXCEPT ![backend[r]] = Minus(@, ReservedFor(r))],
         stage' \in {[stage EXCEPT ![r] = "gone"], [stage EXCEPT ![r] = "queued"]},
         UNCHANGED <<backend, cached_estimate>>
  PROVE  /\ LoadsAreHeld'
         /\ reserved_load' \in
              [Backends -> [requests : Nat, prefill : Nat, cached : Nat, output : Nat]]
<1> DEFINE b == backend[r]
           H == HoldingReservation(b) \ {r}
<1>1. b \in Backends
  BY DEF IInv, RoutedSomewhere, Unrouted
<1>2. /\ cached_estimate \in [Requests -> Nat] /\ cached_estimate[r] <= InputTokenCount[r]
      /\ stage \in [Requests -> Stages]
      /\ reserved_load \in
           [Backends -> [requests : Nat, prefill : Nat, cached : Nat, output : Nat]]
  BY DEF IInv, OrchestratorTypeOK, RoutedSomewhere
<1>3. r \in HoldingReservation(b)
  BY DEF HoldingReservation, At
<1>4. \A c \in Backends : HoldingReservation(c)' = HoldingReservation(c) \ {r}
  BY <1>2, AtAfterMove DEF HoldingReservation
<1>5. \A c \in Backends \ {b} : r \notin HoldingReservation(c)
  BY DEF HoldingReservation, At
<1>6. HoldingReservation(b) \in SUBSET Requests
  BY AtIsASet DEF HoldingReservation
<1>7. H \cup {r} = HoldingReservation(b) /\ H \cap {r} = {} /\ H \in SUBSET Requests
  BY <1>3, <1>6
<1>8. ReservedFor(r) = LoadOfAll(cached_estimate, {r})
  BY <1>2, LoadOfOne DEF ReservedFor
<1> HIDE DEF H
<1>9. Minus(LoadOfAll(cached_estimate, HoldingReservation(b)), ReservedFor(r))
        = LoadOfAll(cached_estimate, H)
  <2>1. {r} \in SUBSET Requests
    OBVIOUS
  <2>2. Minus(LoadOfAll(cached_estimate, H \cup {r}), LoadOfAll(cached_estimate, {r}))
          = LoadOfAll(cached_estimate, H)
    BY <1>2, <1>7, <2>1, LoadsAdd
  <2>3. QED
    BY <1>7, <1>8, <2>2
<1>10. reserved_load[b] = LoadOfAll(cached_estimate, HoldingReservation(b))
  BY <1>1 DEF IInv, LoadsAreHeld
<1>11. /\ reserved_load'[b] = LoadOfAll(cached_estimate, H)
       /\ \A c \in Backends \ {b} : reserved_load'[c] = reserved_load[c]
  BY <1>1, <1>2, <1>9, <1>10
<1>12. LoadsAreHeld'
  BY <1>4, <1>5, <1>11 DEF IInv, LoadsAreHeld, H
<1>13. LoadOfAll(cached_estimate, H)
         \in [requests : Nat, prefill : Nat, cached : Nat, output : Nat]
  BY <1>2, <1>7, HeldLoadsAreTyped
<1>14. QED
  BY <1>1, <1>2, <1>9, <1>10, <1>12, <1>13

\* The schedule of every worker, and what is published of it, are as before.
ScheduleIsKept ==
  /\ UNCHANGED <<operational_state, stopped>>
  /\ \A b \in Backends : /\ At(b, Scheduled)' = At(b, Scheduled)
                         /\ At(b, {"queued", "active"})' = At(b, {"queued", "active"})

LEMMA KeptScheduleKeepsCounts ==
  ASSUME IInv, ScheduleIsKept
  PROVE  /\ CountsArePublished'
         /\ UNCHANGED <<prefill, output>> => WorkOnlyShrinks'
  BY DEF IInv, ScheduleIsKept, CountsArePublished, WorkOnlyShrinks

-----------------------------------------------------------------------------
(* Initial states *)

LEMMA InitInvariant == OrchestratorInit => IInv
<1> SUFFICES ASSUME OrchestratorInit PROVE IInv
  OBVIOUS
<1>1. \A b, stages : "new" \notin stages => At(b, stages) = {}
  BY DEF OrchestratorInit, At
<1>2. \A f : Total(f, {}) = 0
  BY FS_EmptySet DEF Total
<1>3. Cardinality({}) = 0
  BY FS_EmptySet
<1>4. Snapshot({}, {}) = [queued |-> 0, active |-> 0, queued_prefill |-> 0,
        queued_cached |-> 0, queued_output |-> 0, active_prefill |-> 0, active_output |-> 0]
  BY <1>2, <1>3 DEF Snapshot
<1>5. \A b \in Backends : HoldingReservation(b) = {} /\ At(b, Scheduled) = {}
                          /\ At(b, {"queued", "active"}) = {}
  BY <1>1 DEF HoldingReservation, Scheduled
<1>6. OrchestratorTypeOK
  <2>1. /\ reserved_load \in
             [Backends -> [requests : Nat, prefill : Nat, cached : Nat, output : Nat]]
    BY DEF OrchestratorInit, NoLoad
  <2>2. operational_state \in [Backends -> OperationalStateType]
    BY <1>4 DEF OrchestratorInit, OperationalStateType
  <2>3. messages \in [Backends -> Seq(Requests)]
        /\ \A b \in Backends : Len(messages[b]) <= MessageCapacity
    BY OrchestratorAssumption DEF OrchestratorInit
  <2>4. /\ policy \in Policies /\ selection_epoch \in Nat
        /\ last_selected_epoch \in [Backends -> 0 .. selection_epoch]
        /\ cache_affinity_state \in [Backends -> SUBSET Requests]
        /\ stopped \subseteq Backends
    BY DEF OrchestratorInit
  <2>7. ReadsTypeOK
    BY OrchestratorAssumption DEF OrchestratorInit, ReadsTypeOK
  <2>5. /\ stage \in [Requests -> Stages]
        /\ backend \in [Requests -> Backends \cup {NoBackend}]
        /\ cached_estimate \in [Requests -> Nat]
        /\ prefill \in [Requests -> Nat] /\ output \in [Requests -> Nat]
    BY OrchestratorAssumption DEF OrchestratorInit, Stages, Unrouted
  <2>6. QED
    BY <2>1, <2>2, <2>3, <2>4, <2>5, <2>7 DEF OrchestratorTypeOK
<1>7. RoutedSomewhere
  BY OrchestratorAssumption DEF OrchestratorInit, RoutedSomewhere, Unrouted
<1>8. ChannelsHoldSent
  BY DEF OrchestratorInit, ChannelsHoldSent
<1>9. OneChangeAtATime
  BY DEF OrchestratorInit, OneChangeAtATime, Working
<1>10. LoadsAreHeld
  BY <1>2, <1>3, <1>5 DEF OrchestratorInit, LoadsAreHeld, LoadOfAll, NoLoad
<1>14. \A b \in Backends :
         /\ operational_state[b].queued = 0 /\ operational_state[b].active = 0
         /\ operational_state[b].queued_prefill = 0 /\ operational_state[b].active_prefill = 0
         /\ operational_state[b].queued_output = 0 /\ operational_state[b].active_output = 0
  BY <1>4 DEF OrchestratorInit
<1>11. CountsArePublished
  BY <1>3, <1>5, <1>14 DEF CountsArePublished
<1>12. WorkOnlyShrinks
  <2>1. \A r \in Requests : prefill[r] <= InputTokenCount[r] /\ output[r] <= MaxNewTokenCount[r]
    BY OrchestratorAssumption DEF OrchestratorInit
  <2>2. \A b \in Backends \ stopped :
          /\ operational_state[b].queued_prefill + operational_state[b].active_prefill
               >= Total(prefill, At(b, {"queued", "active"}))
          /\ operational_state[b].queued_output + operational_state[b].active_output
               >= Total(output, At(b, {"queued", "active"}))
    BY <1>2, <1>5, <1>14
  <2>3. QED
    BY <2>1, <2>2 DEF WorkOnlyShrinks
<1>13. QED
  BY <1>6, <1>7, <1>8, <1>9, <1>10, <1>11, <1>12 DEF IInv

-----------------------------------------------------------------------------
(* RPC handlers *)

\* A handler reads the next backend's state: nothing but the decision under way changes.
LEMMA ReadInvariant ==
  ASSUME IInv, NEW r \in Requests, ReadOperationalState(r) \/ ReadCacheAffinityState(r)
  PROVE  IInv'
<1>1. /\ stage[r] \in Unrouted /\ stage' = [stage EXCEPT ![r] = "routing"]
      /\ UNCHANGED <<policy, selection_epoch, last_selected_epoch, reserved_load, publishedVars,
                     messages, backend, workVars, stopped>>
  BY DEF ReadOperationalState, ReadCacheAffinityState, MayRoute, Unrouted
<1>2. OrchestratorTypeOK /\ stage \in [Requests -> Stages] /\ stage' \in [Requests -> Stages]
  BY <1>1 DEF IInv, OrchestratorTypeOK, Stages, Unrouted
<1>3. ReadsTypeOK'
  <2>1. /\ ReadsTypeOK /\ BackendCount \in Nat
        /\ Len(load_reads) \in Nat /\ Len(cache_reads) \in Nat
    BY <1>2, OrchestratorAssumption DEF OrchestratorTypeOK, ReadsTypeOK
  <2>2. CASE ReadOperationalState(r)
    <3>1. Len(load_reads) + 1 \in Backends /\ cache_reads' = cache_reads
      BY <2>2 DEF ReadOperationalState
    <3>2. Seen(Len(load_reads) + 1) \in OperationalStateType
      <4> DEFINE b == Len(load_reads) + 1
                 state == operational_state[b]
                 load == reserved_load[b]
      <4>1. /\ state \in OperationalStateType
            /\ load \in [requests : Nat, prefill : Nat, cached : Nat, output : Nat]
        BY <1>2, <3>1 DEF OrchestratorTypeOK
      <4>2. Seen(b) = [state EXCEPT !.queued = @ + load.requests,
                                    !.queued_prefill = @ + load.prefill,
                                    !.queued_cached = @ + load.cached,
                                    !.queued_output = @ + load.output]
        BY DEF Seen
      <4> HIDE DEF b, state, load
      <4>3. /\ state.queued + load.requests \in Nat
            /\ state.queued_prefill + load.prefill \in Nat
            /\ state.queued_cached + load.cached \in Nat
            /\ state.queued_output + load.output \in Nat
        BY <4>1 DEF OperationalStateType
      <4>4. Seen(b) \in OperationalStateType
        BY <4>1, <4>2, <4>3 DEF OperationalStateType
      <4>5. QED
        BY <4>4 DEF b
    <3>3. Outstanding(Len(load_reads) + 1) \in SUBSET Requests
      BY AtIsASet DEF Outstanding
    <3>4. /\ load_reads' = Append(load_reads, Seen(Len(load_reads) + 1))
          /\ outstanding_at_read' =
               Append(outstanding_at_read, Outstanding(Len(load_reads) + 1))
      BY <2>2 DEF ReadOperationalState
    <3>5. /\ load_reads' \in Seq(OperationalStateType) /\ Len(load_reads') = Len(load_reads) + 1
          /\ outstanding_at_read' \in Seq(SUBSET Requests)
          /\ Len(outstanding_at_read') = Len(outstanding_at_read) + 1
      BY <2>1, <3>2, <3>3, <3>4 DEF ReadsTypeOK
    <3>6. QED
      BY <2>1, <3>1, <3>5 DEF ReadsTypeOK, Backends
  <2>3. CASE ReadCacheAffinityState(r)
    <3>1. /\ Len(cache_reads) + 1 \in Backends
          /\ UNCHANGED <<load_reads, outstanding_at_read>>
          /\ cache_reads' = Append(cache_reads, CachedEstimate(r, Len(cache_reads) + 1))
      BY <2>3 DEF ReadCacheAffinityState
    <3>2. CachedEstimate(r, Len(cache_reads) + 1) \in Nat
      BY OrchestratorAssumption DEF CachedEstimate
    <3>3. cache_reads' \in Seq(Nat) /\ Len(cache_reads') = Len(cache_reads) + 1
      BY <2>1, <3>1, <3>2 DEF ReadsTypeOK
    <3>4. QED
      BY <2>1, <3>1, <3>3 DEF ReadsTypeOK, Backends
  <2>4. QED
    BY <2>2, <2>3
<1>4. OrchestratorTypeOK'
  BY <1>1, <1>2, <1>3 DEF OrchestratorTypeOK, publishedVars, workVars
<1>5. \A q \in Requests \ {r} : stage'[q] = stage[q]
  BY <1>1, <1>2
<1>6. RoutedSomewhere'
  BY <1>1, <1>2, <1>5 DEF IInv, RoutedSomewhere, Unrouted, workVars
<1>7. ChannelsHoldSent'
  <2>1. \A c \in Backends : \A i \in 1 .. Len(messages[c]) : messages[c][i] \in Requests \ {r}
    BY <1>1, MessagesAreSent DEF IInv, Unrouted
  <2>2. QED
    BY <1>1, <1>5, <2>1 DEF IInv, ChannelsHoldSent
<1>8. OneChangeAtATime'
  BY <1>1, <1>2 DEF IInv, OneChangeAtATime, Working
<1>9. \A c, stages : stages \cap Unrouted = {} => At(c, stages)' = At(c, stages)
  BY <1>1, <1>2, <1>5 DEF At, Unrouted
<1>10. LoadsAreHeld'
  BY <1>1, <1>9 DEF IInv, LoadsAreHeld, HoldingReservation, Unrouted, workVars
<1>11. ScheduleIsKept
  BY <1>1, <1>9 DEF ScheduleIsKept, Scheduled, Unrouted, publishedVars
<1>12. CountsArePublished' /\ WorkOnlyShrinks'
  BY <1>1, <1>11, KeptScheduleKeepsCounts DEF workVars
<1>13. QED
  BY <1>4, <1>6, <1>7, <1>8, <1>10, <1>12 DEF IInv

LEMMA RouteInvariant ==
  ASSUME IInv, NEW r \in Requests, Route(r)
  PROVE  IInv'
<1>1. PICK b \in Backends :
        /\ selection_epoch' = selection_epoch + 1
        /\ last_selected_epoch' = [last_selected_epoch EXCEPT ![b] = selection_epoch']
        /\ cached_estimate' =
             [cached_estimate EXCEPT ![r] = LoadOf(r, EstimatedCachedPrefix(b)).cached]
        /\ reserved_load' =
             [reserved_load EXCEPT ![b] = Plus(@, LoadOf(r, EstimatedCachedPrefix(b)))]
        /\ backend' = [backend EXCEPT ![r] = b]
  BY DEF Route
<1>2. /\ stage[r] \in Unrouted /\ stage' = [stage EXCEPT ![r] = "routed"]
      /\ load_reads' = <<>> /\ cache_reads' = <<>> /\ outstanding_at_read' = <<>>
      /\ UNCHANGED <<policy, operational_state, cache_affinity_state, messages, prefill,
                     output, stopped>>
  BY DEF Route, MayRoute, Unrouted, publishedVars
<1> DEFINE e == LoadOf(r, EstimatedCachedPrefix(b)).cached
           H == HoldingReservation(b)
<1>4. OrchestratorTypeOK
  BY DEF IInv
<1>3. e \in Nat /\ e <= InputTokenCount[r] /\ LoadOf(r, EstimatedCachedPrefix(b)) = LoadOf(r, e)
  <2>1. EstimatedCachedPrefix(b) \in Nat
    <3>1. policy \in CachePolicies => b \in 1 .. Len(cache_reads)
      BY DEF Route, Backends
    <3>2. cache_reads \in Seq(Nat)
      BY <1>4 DEF OrchestratorTypeOK, ReadsTypeOK
    <3>3. QED
      BY <3>1, <3>2 DEF EstimatedCachedPrefix
  <2>2. InputTokenCount[r] \in Nat
    BY OrchestratorAssumption
  <2>3. QED
    BY <2>1, <2>2 DEF LoadOf
<1> HIDE DEF e
<1>5. /\ cached_estimate \in [Requests -> Nat] /\ cached_estimate' \in [Requests -> Nat]
      /\ cached_estimate'[r] = e
      /\ \A q \in Requests \ {r} : cached_estimate'[q] = cached_estimate[q]
      /\ \A q \in Requests : cached_estimate'[q] <= InputTokenCount[q]
  BY <1>1, <1>3, <1>4 DEF e, OrchestratorTypeOK, IInv, RoutedSomewhere
<1>6. \A c, stages : At(c, stages)' =
        IF c = b /\ "routed" \in stages THEN At(c, stages) \cup {r}
                                         ELSE At(c, stages) \ {r}
  BY <1>1, <1>2, <1>4 DEF At, OrchestratorTypeOK
<1>7. \A c, stages : stages \cap Unrouted = {} => r \notin At(c, stages)
  BY <1>2 DEF At
<1>8. /\ HoldingReservation(b)' = H \cup {r} /\ r \notin H
      /\ \A c \in Backends \ {b} : /\ HoldingReservation(c)' = HoldingReservation(c)
                                  /\ r \notin HoldingReservation(c)
      /\ \A c \in Backends : HoldingReservation(c) \in SUBSET Requests
  BY <1>6, <1>7, AtIsASet DEF HoldingReservation, Unrouted
<1>9. LoadOf(r, EstimatedCachedPrefix(b)) = LoadOfAll(cached_estimate', {r})
  BY <1>3, <1>5, LoadOfOne
<1>10. \A c \in Backends :
         LoadOfAll(cached_estimate', HoldingReservation(c))
           = LoadOfAll(cached_estimate, HoldingReservation(c))
  BY <1>5, <1>8, SameLoad
<1>11. Plus(LoadOfAll(cached_estimate', H), LoadOfAll(cached_estimate', {r}))
         = LoadOfAll(cached_estimate', H \cup {r})
  <2>1. {r} \in SUBSET Requests /\ H \in SUBSET Requests /\ H \cap {r} = {}
    BY <1>8
  <2> HIDE DEF H
  <2>2. QED
    BY <1>5, <2>1, LoadsAdd
<1>12. /\ reserved_load'[b] = LoadOfAll(cached_estimate', H \cup {r})
       /\ \A c \in Backends \ {b} : reserved_load'[c] = reserved_load[c]
  BY <1>1, <1>4, <1>9, <1>10, <1>11 DEF e, OrchestratorTypeOK, IInv, LoadsAreHeld
<1>13. LoadsAreHeld'
  BY <1>8, <1>10, <1>12 DEF IInv, LoadsAreHeld
<1>14. OrchestratorTypeOK'
  <2>1. LoadOfAll(cached_estimate', H \cup {r})
          \in [requests : Nat, prefill : Nat, cached : Nat, output : Nat]
    BY <1>5, <1>8, HeldLoadsAreTyped
  <2>2. reserved_load' \in
          [Backends -> [requests : Nat, prefill : Nat, cached : Nat, output : Nat]]
    BY <1>1, <1>4, <1>12, <2>1 DEF OrchestratorTypeOK
  <2>3. /\ selection_epoch' \in Nat
        /\ last_selected_epoch' \in [Backends -> 0 .. selection_epoch']
    <3>1. selection_epoch \in Nat /\ selection_epoch' = selection_epoch + 1
      BY <1>1, <1>4 DEF OrchestratorTypeOK
    <3>2. \A n \in 0 .. selection_epoch : n \in 0 .. selection_epoch'
      BY <3>1
    <3>3. selection_epoch' \in 0 .. selection_epoch'
      BY <3>1
    <3>4. last_selected_epoch \in [Backends -> 0 .. selection_epoch]
      BY <1>4 DEF OrchestratorTypeOK
    <3>5. last_selected_epoch' = [last_selected_epoch EXCEPT ![b] = selection_epoch']
      BY <1>1
    <3>6. QED
      BY <3>1, <3>2, <3>3, <3>4, <3>5
  <2>4. /\ stage' \in [Requests -> Stages]
        /\ backend' \in [Requests -> Backends \cup {NoBackend}]
    BY <1>1, <1>2, <1>4 DEF OrchestratorTypeOK, Stages
  <2>6. ReadsTypeOK'
    BY <1>2, OrchestratorAssumption DEF ReadsTypeOK
  <2>5. QED
    BY <1>2, <1>4, <1>5, <2>2, <2>3, <2>4, <2>6 DEF OrchestratorTypeOK
<1>15. RoutedSomewhere'
  BY <1>1, <1>2, <1>4, <1>5 DEF RoutedSomewhere, IInv, OrchestratorTypeOK
<1>16. ChannelsHoldSent'
  <2>1. \A c \in Backends : \A i \in 1 .. Len(messages[c]) :
          messages[c][i] \in Requests \ {r}
    BY <1>2, MessagesAreSent DEF IInv, Unrouted
  <2>2. \A q \in Requests \ {r} : stage'[q] = stage[q] /\ backend'[q] = backend[q]
    BY <1>1, <1>2, <1>4 DEF OrchestratorTypeOK
  <2>3. QED
    BY <1>2, <2>1, <2>2 DEF ChannelsHoldSent, IInv
<1>17. OneChangeAtATime'
  BY <1>1, <1>2, <1>4 DEF OneChangeAtATime, IInv, OrchestratorTypeOK, Working
<1>18. ScheduleIsKept
  BY <1>2, <1>6, <1>7 DEF ScheduleIsKept, Scheduled, Unrouted
<1>19. QED
  BY <1>2, <1>13, <1>14, <1>15, <1>16, <1>17, <1>18, KeptScheduleKeepsCounts DEF IInv

\* A routed request moves on outside the channels.
LEMMA MoveKeepsChannels ==
  ASSUME IInv, NEW r \in Requests, stage[r] \notin Unrouted \cup {"sent"},
         NEW s \in Stages \ Unrouted, stage' = [stage EXCEPT ![r] = s],
         UNCHANGED <<backend, cached_estimate, messages>>
  PROVE  /\ stage' \in [Requests -> Stages] /\ backend[r] \in Backends
         /\ RoutedSomewhere' /\ ChannelsHoldSent'
<1>1. /\ stage \in [Requests -> Stages] /\ OrchestratorTypeOK
      /\ RoutedSomewhere /\ ChannelsHoldSent
  BY DEF IInv, OrchestratorTypeOK
<1>2. stage' \in [Requests -> Stages] /\ backend[r] \in Backends /\ RoutedSomewhere'
  BY <1>1 DEF RoutedSomewhere
<1>3. \A c \in Backends : \A i \in 1 .. Len(messages[c]) : messages[c][i] \in Requests \ {r}
  BY <1>1, MessagesAreSent
<1>4. \A q \in Requests \ {r} : stage'[q] = stage[q]
  BY <1>1
<1>5. ChannelsHoldSent'
  BY <1>1, <1>3, <1>4 DEF ChannelsHoldSent
<1>6. QED
  BY <1>2, <1>5

LEMMA SendInvariant ==
  ASSUME IInv, NEW r \in Requests, Send(r)
  PROVE  IInv'
<1> DEFINE b == backend[r]
<1>1. /\ stage[r] = "routed" /\ b \notin stopped /\ Len(messages[b]) < MessageCapacity
      /\ messages' = [messages EXCEPT ![b] = Append(messages[b], r)]
      /\ stage' = [stage EXCEPT ![r] = "sent"]
      /\ UNCHANGED <<routingVars, publishedVars, backend, workVars, stopped>>
  BY DEF Send
<1>2. /\ OrchestratorTypeOK /\ RoutedSomewhere /\ ChannelsHoldSent /\ OneChangeAtATime
      /\ LoadsAreHeld /\ b \in Backends
  BY <1>1 DEF IInv, RoutedSomewhere, Unrouted
<1>3. /\ stage \in [Requests -> Stages] /\ stage' \in [Requests -> Stages]
      /\ \A q \in Requests \ {r} : stage'[q] = stage[q]
      /\ stage'[r] = "sent"
  BY <1>1, <1>2 DEF OrchestratorTypeOK, Stages
<1>4. /\ messages[b] \in Seq(Requests) /\ Len(messages[b]) \in Nat
      /\ Append(messages[b], r) \in Seq(Requests)
      /\ Len(Append(messages[b], r)) = Len(messages[b]) + 1
      /\ \A i \in 1 .. Len(messages[b]) : Append(messages[b], r)[i] = messages[b][i]
      /\ Append(messages[b], r)[Len(messages[b]) + 1] = r
  BY <1>2 DEF OrchestratorTypeOK
<1>5. /\ messages' \in [Backends -> Seq(Requests)]
      /\ messages'[b] = Append(messages[b], r)
      /\ \A c \in Backends \ {b} : messages'[c] = messages[c]
  BY <1>1, <1>2, <1>4 DEF OrchestratorTypeOK
<1>6. \A c \in Backends : Len(messages'[c]) <= MessageCapacity
  BY <1>1, <1>2, <1>4, <1>5, OrchestratorAssumption DEF OrchestratorTypeOK
<1>7. OrchestratorTypeOK'
  BY <1>1, <1>2, <1>3, <1>5, <1>6
     DEF OrchestratorTypeOK, ReadsTypeOK, routingVars, decisionVars, publishedVars, workVars
<1>8. RoutedSomewhere'
  BY <1>1, <1>2, <1>3 DEF RoutedSomewhere, workVars
<1>9. ChannelsHoldSent'
  <2>1. \A c \in Backends : \A i \in 1 .. Len(messages[c]) :
          messages[c][i] \in Requests \ {r} /\ stage[messages[c][i]] = "sent"
    BY <1>1, <1>2, MessagesAreSent
  <2>2. ASSUME NEW c \in Backends, c # b, NEW i \in 1 .. Len(messages'[c])
        PROVE  stage'[messages'[c][i]] = "sent" /\ backend[messages'[c][i]] = c
    BY <1>2, <1>3, <1>5, <2>1, <2>2 DEF ChannelsHoldSent
  <2>3. ASSUME NEW i \in 1 .. Len(messages[b]) + 1
        PROVE  /\ i \in 1 .. Len(messages[b]) \/ i = Len(messages[b]) + 1
               /\ stage'[messages'[b][i]] = "sent" /\ backend[messages'[b][i]] = b
    <3>1. i \in 1 .. Len(messages[b]) \/ i = Len(messages[b]) + 1
      BY <1>4
    <3>2. QED
      BY <1>2, <1>3, <1>4, <1>5, <2>1, <3>1 DEF ChannelsHoldSent
  <2>4. ASSUME NEW i \in 1 .. Len(messages[b]) + 1, NEW j \in 1 .. Len(messages[b]) + 1,
               messages'[b][i] = messages'[b][j]
        PROVE  i = j
    BY <1>2, <1>4, <1>5, <2>1, <2>3, <2>4 DEF ChannelsHoldSent
  <2>5. ASSUME NEW c \in Backends, c # b
        PROVE  \A i, j \in 1 .. Len(messages'[c]) : messages'[c][i] = messages'[c][j] => i = j
    BY <1>2, <1>5, <2>5 DEF ChannelsHoldSent
  <2>6. backend' = backend /\ Len(messages'[b]) = Len(messages[b]) + 1
    BY <1>1, <1>4, <1>5
  <2>7. QED
    BY <2>2, <2>3, <2>4, <2>5, <2>6 DEF ChannelsHoldSent
<1>10. OneChangeAtATime'
  BY <1>1, <1>2, <1>3 DEF OneChangeAtATime, Working
<1>11. \A c, stages : At(c, stages)' =
         IF b = c /\ "sent" \in stages THEN At(c, stages) \cup {r} ELSE At(c, stages) \ {r}
  BY <1>1, <1>3, AtAfterMove
<1>12. \A c \in Backends : HoldingReservation(c)' = HoldingReservation(c)
  <2>1. \A c \in Backends : r \in At(c, {"routed", "sent", "enqueued"}) <=> c = b
    BY <1>1 DEF At
  <2>2. QED
    BY <1>11, <2>1 DEF HoldingReservation
<1>13. LoadsAreHeld'
  BY <1>1, <1>2, <1>12 DEF LoadsAreHeld, routingVars, workVars
<1>14. ScheduleIsKept
  <2>1. \A c \in Backends : r \notin At(c, Scheduled) /\ r \notin At(c, {"queued", "active"})
    BY <1>1 DEF At, Scheduled
  <2>2. QED
    BY <1>1, <1>11, <2>1 DEF ScheduleIsKept, Scheduled, publishedVars
<1>15. CountsArePublished' /\ WorkOnlyShrinks'
  BY <1>1, <1>14, KeptScheduleKeepsCounts DEF workVars
<1>16. QED
  BY <1>7, <1>8, <1>9, <1>10, <1>13, <1>15 DEF IInv

\* A handler or a worker drops a request with its reservation.
LEMMA AbandonInvariant ==
  ASSUME IInv, NEW r \in Requests, Abandon(r) \/ FailToEnqueue(r)
  PROVE  IInv'
<1>1. /\ stage[r] \in {"routed", "enqueued"} /\ stage' = [stage EXCEPT ![r] = "gone"]
      /\ reserved_load' = [reserved_load EXCEPT ![backend[r]] = Minus(@, ReservedFor(r))]
      /\ UNCHANGED <<decisionVars, publishedVars, messages, backend, workVars, stopped>>
  BY DEF Abandon, FailToEnqueue, DropReservation
<1>2. /\ stage' \in [Requests -> Stages] /\ RoutedSomewhere' /\ ChannelsHoldSent'
  BY <1>1, MoveKeepsChannels DEF Stages, Unrouted, workVars
<1>3. /\ LoadsAreHeld'
      /\ reserved_load' \in
           [Backends -> [requests : Nat, prefill : Nat, cached : Nat, output : Nat]]
  BY <1>1, LoadAfterDrop DEF workVars
<1>4. OrchestratorTypeOK'
  BY <1>1, <1>2, <1>3
     DEF IInv, OrchestratorTypeOK, ReadsTypeOK, decisionVars, publishedVars, workVars
<1>5. OneChangeAtATime'
  BY <1>1 DEF IInv, OneChangeAtATime, OrchestratorTypeOK, Working
<1>6. ScheduleIsKept
  <2>1. \A c : r \notin At(c, Scheduled) /\ r \notin At(c, {"queued", "active"})
    BY <1>1 DEF At, Scheduled
  <2>2. stage \in [Requests -> Stages]
    BY DEF IInv, OrchestratorTypeOK
  <2>3. \A c, stages : At(c, stages)' =
          IF backend[r] = c /\ "gone" \in stages THEN At(c, stages) \cup {r}
                                                 ELSE At(c, stages) \ {r}
    BY <1>1, <2>2, AtAfterMove
  <2>4. QED
    BY <1>1, <2>1, <2>3 DEF ScheduleIsKept, Scheduled, publishedVars
<1>7. CountsArePublished' /\ WorkOnlyShrinks'
  BY <1>1, <1>6, KeptScheduleKeepsCounts DEF workVars
<1>8. QED
  BY <1>2, <1>3, <1>4, <1>5, <1>7 DEF IInv

-----------------------------------------------------------------------------
(* Workers *)

\* A worker publishes its whole schedule, unless it is about to drop a request.
LEMMA PublishingIsExact ==
  ASSUME IInv, NEW b \in Backends, NEW S \in SUBSET Requests, NEW T \in SUBSET Requests,
         S \cap T = {},
         operational_state' = [operational_state EXCEPT ![b] = Snapshot(S, T)],
         UNCHANGED <<stopped, prefill, output>>,
         At(b, Scheduled)' = S \cup T, At(b, {"queued", "active"})' = S \cup T,
         \A c \in Backends \ {b} :
           /\ At(c, Scheduled)' = At(c, Scheduled)
           /\ At(c, {"queued", "active"})' = At(c, {"queued", "active"})
  PROVE  /\ operational_state' \in [Backends -> OperationalStateType]
         /\ CountsArePublished' /\ WorkOnlyShrinks'
<1>1. OrchestratorTypeOK /\ CountsArePublished /\ WorkOnlyShrinks
  BY DEF IInv
<1> DEFINE snapshot == Snapshot(S, T)
<1>2. /\ snapshot \in OperationalStateType
      /\ snapshot.queued + snapshot.active = Cardinality(S \cup T)
      /\ snapshot.queued_prefill + snapshot.active_prefill = Total(prefill, S \cup T)
      /\ snapshot.queued_output + snapshot.active_output = Total(output, S \cup T)
  BY <1>1, SnapshotsSumUp
<1>3. /\ Total(prefill, S \cup T) \in Nat /\ Total(output, S \cup T) \in Nat
  <2>1. IsFiniteSet(S \cup T) /\ \A q \in S \cup T : prefill[q] \in Nat /\ output[q] \in Nat
    BY <1>1, RequestsAreFinite DEF OrchestratorTypeOK
  <2>2. QED
    BY <2>1, TotalsCompare
<1> HIDE DEF snapshot
<1>4. /\ operational_state'[b] = snapshot
      /\ \A c \in Backends \ {b} : operational_state'[c] = operational_state[c]
      /\ operational_state' \in [Backends -> OperationalStateType]
  BY <1>1, <1>2 DEF snapshot, OrchestratorTypeOK
<1>5. CountsArePublished'
  BY <1>1, <1>2, <1>4 DEF CountsArePublished
<1>6. WorkOnlyShrinks'
  <2>1. /\ Total(prefill, S \cup T) >= Total(prefill, S \cup T)
        /\ Total(output, S \cup T) >= Total(output, S \cup T)
    BY <1>3
  <2>2. QED
    BY <1>1, <1>2, <1>4, <2>1 DEF WorkOnlyShrinks
<1>7. QED
  BY <1>4, <1>5, <1>6

LEMMA ReleaseAfterInvariant ==
  ASSUME IInv, NEW r \in Requests, ReleaseAfter(r)
  PROVE  IInv'
<1>0. PICK b \in Backends : b = backend[r]
  BY DEF IInv, RoutedSomewhere, Unrouted, ReleaseAfter, PublishOperationalState
<1> DEFINE S == At(b, {"queued", "enqueued"})
           T == At(b, {"active"})
<1>1. /\ stage[r] = "enqueued" /\ stage' = [stage EXCEPT ![r] = "queued"]
      /\ operational_state' = [operational_state EXCEPT ![b] = Snapshot(S, T)]
      /\ reserved_load' = [reserved_load EXCEPT ![backend[r]] = Minus(@, ReservedFor(r))]
      /\ UNCHANGED <<decisionVars, cache_affinity_state, messages, backend, workVars, stopped>>
  BY <1>0 DEF ReleaseAfter
<1>2. /\ stage' \in [Requests -> Stages] /\ RoutedSomewhere' /\ ChannelsHoldSent'
      /\ b \in Backends
  BY <1>0, <1>1, MoveKeepsChannels DEF Stages, Unrouted, workVars
<1>3. /\ LoadsAreHeld'
      /\ reserved_load' \in
           [Backends -> [requests : Nat, prefill : Nat, cached : Nat, output : Nat]]
  BY <1>1, LoadAfterDrop DEF workVars
<1>4. /\ OrchestratorTypeOK /\ OneChangeAtATime /\ stage \in [Requests -> Stages]
  BY DEF IInv, OrchestratorTypeOK
<1>5. \A c, stages : At(c, stages)' =
        IF b = c /\ "queued" \in stages THEN At(c, stages) \cup {r} ELSE At(c, stages) \ {r}
  <2>1. \A c, stages : At(c, stages)' =
          IF backend[r] = c /\ "queued" \in stages THEN At(c, stages) \cup {r}
                                               ELSE At(c, stages) \ {r}
    BY <1>1, <1>4, AtAfterMove
  <2>2. QED
    BY <1>0, <2>1
<1>6. /\ At(b, {"removed"}) = {} /\ At(b, {"enqueued"}) = {r}
      /\ \A c, stages : c # b => r \notin At(c, stages)
  BY <1>0, <1>1, <1>4 DEF OneChangeAtATime, Working, At
<1>7. At(b, Scheduled)' = S \cup T /\ At(b, {"queued", "active"})' = S \cup T
  <2>1. /\ At(b, Scheduled) = At(b, {"queued"}) \cup T
        /\ At(b, {"queued", "active"}) = At(b, {"queued"}) \cup T
        /\ S = At(b, {"queued"}) \cup {r}
    BY <1>6 DEF At, Scheduled
  <2>2. /\ At(b, Scheduled)' = At(b, Scheduled) \cup {r}
        /\ At(b, {"queued", "active"})' = At(b, {"queued", "active"}) \cup {r}
    BY <1>5 DEF Scheduled
  <2> HIDE DEF S, T
  <2>3. QED
    BY <2>1, <2>2
<1>8. /\ S \in SUBSET Requests /\ T \in SUBSET Requests /\ S \cap T = {}
  BY DEF At
<1>9. \A c \in Backends \ {b} :
        /\ At(c, Scheduled)' = At(c, Scheduled)
        /\ At(c, {"queued", "active"})' = At(c, {"queued", "active"})
  BY <1>5, <1>6 DEF Scheduled
<1> HIDE DEF S, T
<1>10. /\ operational_state' \in [Backends -> OperationalStateType]
       /\ CountsArePublished' /\ WorkOnlyShrinks'
  BY <1>1, <1>2, <1>7, <1>8, <1>9, PublishingIsExact DEF workVars
<1>11. OrchestratorTypeOK'
  BY <1>1, <1>2, <1>3, <1>4, <1>10 DEF OrchestratorTypeOK, ReadsTypeOK, decisionVars, workVars
<1>12. OneChangeAtATime'
  BY <1>1, <1>4 DEF OneChangeAtATime, Working
<1>13. QED
  BY <1>2, <1>3, <1>10, <1>11, <1>12 DEF IInv

LEMMA PublishOperationalStateInvariant ==
  ASSUME IInv, NEW r \in Requests, PublishOperationalState(r)
  PROVE  IInv'
<1>0. PICK b \in Backends : b = backend[r]
  BY DEF IInv, RoutedSomewhere, Unrouted, ReleaseAfter, PublishOperationalState
<1> DEFINE S == At(b, {"queued"})
           T == At(b, {"active"})
<1>1. /\ stage[r] = "removed" /\ stage' = [stage EXCEPT ![r] = "gone"]
      /\ operational_state' = [operational_state EXCEPT ![b] = Snapshot(S, T)]
      /\ UNCHANGED <<routingVars, cache_affinity_state, messages, backend, workVars, stopped>>
  BY <1>0 DEF PublishOperationalState
<1>2. /\ stage' \in [Requests -> Stages] /\ RoutedSomewhere' /\ ChannelsHoldSent'
      /\ b \in Backends
  BY <1>0, <1>1, MoveKeepsChannels DEF Stages, Unrouted, workVars
<1>3. /\ OrchestratorTypeOK /\ OneChangeAtATime /\ stage \in [Requests -> Stages]
  BY DEF IInv, OrchestratorTypeOK
<1>4. \A c, stages : At(c, stages)' =
        IF b = c /\ "gone" \in stages THEN At(c, stages) \cup {r} ELSE At(c, stages) \ {r}
  <2>1. \A c, stages : At(c, stages)' =
          IF backend[r] = c /\ "gone" \in stages THEN At(c, stages) \cup {r}
                                               ELSE At(c, stages) \ {r}
    BY <1>1, <1>3, AtAfterMove
  <2>2. QED
    BY <1>0, <2>1
<1>5. /\ At(b, {"removed"}) = {r} /\ r \notin S /\ r \notin T
      /\ \A c, stages : c # b => r \notin At(c, stages)
      /\ \A c : r \notin At(c, {"routed", "sent", "enqueued"})
  BY <1>0, <1>1, <1>3 DEF OneChangeAtATime, Working, At
<1>6. At(b, Scheduled)' = S \cup T /\ At(b, {"queued", "active"})' = S \cup T
  <2>1. /\ At(b, Scheduled) = S \cup T \cup {r}
        /\ At(b, {"queued", "active"}) = S \cup T
    BY <1>5 DEF At, Scheduled
  <2>2. /\ At(b, Scheduled)' = At(b, Scheduled) \ {r}
        /\ At(b, {"queued", "active"})' = At(b, {"queued", "active"}) \ {r}
    BY <1>4 DEF Scheduled
  <2> HIDE DEF S, T
  <2>3. QED
    BY <1>5, <2>1, <2>2
<1>7. /\ S \in SUBSET Requests /\ T \in SUBSET Requests /\ S \cap T = {}
  BY DEF At
<1>8. \A c \in Backends \ {b} :
        /\ At(c, Scheduled)' = At(c, Scheduled)
        /\ At(c, {"queued", "active"})' = At(c, {"queued", "active"})
  BY <1>4, <1>5 DEF Scheduled
<1>9. \A c \in Backends : HoldingReservation(c)' = HoldingReservation(c)
  BY <1>4, <1>5 DEF HoldingReservation
<1>10. LoadsAreHeld'
  BY <1>1, <1>9 DEF IInv, LoadsAreHeld, routingVars, workVars
<1> HIDE DEF S, T
<1>11. /\ operational_state' \in [Backends -> OperationalStateType]
       /\ CountsArePublished' /\ WorkOnlyShrinks'
  BY <1>1, <1>2, <1>6, <1>7, <1>8, PublishingIsExact DEF workVars
<1>12. OrchestratorTypeOK'
  BY <1>1, <1>2, <1>3, <1>11
     DEF OrchestratorTypeOK, ReadsTypeOK, routingVars, decisionVars, workVars
<1>13. OneChangeAtATime'
  BY <1>1, <1>3 DEF OneChangeAtATime, Working
<1>14. QED
  BY <1>2, <1>10, <1>11, <1>12, <1>13 DEF IInv

\* A worker takes the oldest message of its channel.
LEMMA PopInvariant ==
  ASSUME IInv, NEW b \in Backends, messages[b] # <<>>, NEW s \in Stages \ (Unrouted \cup {"sent"}),
         messages' = [messages EXCEPT ![b] = Tail(@)],
         stage' = [stage EXCEPT ![Head(messages[b])] = s],
         UNCHANGED <<backend, cached_estimate>>
  PROVE  /\ Head(messages[b]) \in Requests /\ stage[Head(messages[b])] = "sent"
         /\ backend[Head(messages[b])] = b
         /\ stage' \in [Requests -> Stages] /\ RoutedSomewhere' /\ ChannelsHoldSent'
         /\ messages' \in [Backends -> Seq(Requests)]
         /\ \A c \in Backends : Len(messages'[c]) <= MessageCapacity
<1> DEFINE r == Head(messages[b])
<1>1. OrchestratorTypeOK /\ RoutedSomewhere /\ ChannelsHoldSent
  BY DEF IInv
<1>2. /\ messages[b] \in Seq(Requests) /\ Len(messages[b]) \in Nat \ {0}
      /\ r = messages[b][1] /\ Tail(messages[b]) \in Seq(Requests)
      /\ Len(Tail(messages[b])) = Len(messages[b]) - 1
      /\ \A i \in 1 .. Len(Tail(messages[b])) : Tail(messages[b])[i] = messages[b][i + 1]
      /\ 1 \in 1 .. Len(messages[b])
  <2>1. messages[b] \in Seq(Requests)
    BY <1>1 DEF OrchestratorTypeOK
  <2>2. Len(messages[b]) \in Nat \ {0} /\ Tail(messages[b]) \in Seq(Requests)
    BY <2>1
  <2>3. /\ Len(Tail(messages[b])) = Len(messages[b]) - 1
        /\ \A i \in 1 .. Len(Tail(messages[b])) : Tail(messages[b])[i] = messages[b][i + 1]
    BY <2>1, <2>2
  <2>4. QED
    BY <2>1, <2>2, <2>3
<1>3. r \in Requests /\ stage[r] = "sent" /\ backend[r] = b
  BY <1>1, <1>2 DEF ChannelsHoldSent
<1>4. /\ messages' \in [Backends -> Seq(Requests)]
      /\ messages'[b] = Tail(messages[b])
      /\ \A c \in Backends \ {b} : messages'[c] = messages[c]
  BY <1>1, <1>2 DEF OrchestratorTypeOK
<1>5. \A c \in Backends : Len(messages'[c]) <= MessageCapacity
  BY <1>1, <1>2, <1>4, OrchestratorAssumption DEF OrchestratorTypeOK
<1> HIDE DEF r
<1>6. /\ stage' \in [Requests -> Stages] /\ stage'[r] = s
      /\ \A q \in Requests \ {r} : stage'[q] = stage[q]
  BY <1>1, <1>3 DEF OrchestratorTypeOK, r
<1>7. RoutedSomewhere'
  BY <1>1, <1>3, <1>6 DEF RoutedSomewhere
<1>8. ASSUME NEW c \in Backends, c # b
      PROVE  /\ \A i \in 1 .. Len(messages'[c]) :
                  stage'[messages'[c][i]] = "sent" /\ backend'[messages'[c][i]] = c
             /\ \A i, j \in 1 .. Len(messages'[c]) : messages'[c][i] = messages'[c][j] => i = j
  <2>1. /\ messages'[c] = messages[c] /\ backend' = backend
        /\ \A i \in 1 .. Len(messages[c]) : messages[c][i] \in Requests
    BY <1>1, <1>4, <1>8, MessagesAreSent
  <2>2. \A i \in 1 .. Len(messages[c]) :
          stage[messages[c][i]] = "sent" /\ backend[messages[c][i]] = c
    BY <1>1 DEF ChannelsHoldSent
  <2>3. \A i \in 1 .. Len(messages[c]) : messages[c][i] # r
    BY <1>3, <1>8, <2>2
  <2>4. QED
    BY <1>1, <1>6, <2>1, <2>2, <2>3 DEF ChannelsHoldSent
<1>9. /\ \A i \in 1 .. Len(messages'[b]) :
           stage'[messages'[b][i]] = "sent" /\ backend'[messages'[b][i]] = b
      /\ \A i, j \in 1 .. Len(messages'[b]) : messages'[b][i] = messages'[b][j] => i = j
  <2>1. \A i \in 1 .. Len(Tail(messages[b])) : i + 1 \in 1 .. Len(messages[b]) /\ i + 1 # 1
    BY <1>2
  <2>2. \A i \in 1 .. Len(messages[b]) :
          /\ messages[b][i] \in Requests
          /\ stage[messages[b][i]] = "sent" /\ backend[messages[b][i]] = b
    BY <1>1, MessagesAreSent DEF ChannelsHoldSent
  <2>3. \A i, j \in 1 .. Len(messages[b]) : messages[b][i] = messages[b][j] => i = j
    BY <1>1 DEF ChannelsHoldSent
  <2>4. \A i \in 1 .. Len(Tail(messages[b])) :
          /\ Tail(messages[b])[i] \in Requests \ {r}
          /\ stage[Tail(messages[b])[i]] = "sent" /\ backend[Tail(messages[b])[i]] = b
    <3> TAKE i \in 1 .. Len(Tail(messages[b]))
    <3>1. i + 1 \in 1 .. Len(messages[b]) /\ Tail(messages[b])[i] = messages[b][i + 1]
      BY <1>2, <2>1
    <3>2. messages[b][i + 1] # messages[b][1]
      BY <1>2, <2>1, <2>3, <3>1
    <3>3. QED
      BY <1>2, <2>2, <3>1, <3>2
  <2>5. ASSUME NEW i \in 1 .. Len(Tail(messages[b])), NEW j \in 1 .. Len(Tail(messages[b])),
               Tail(messages[b])[i] = Tail(messages[b])[j]
        PROVE  i = j
    <3>1. messages[b][i + 1] = messages[b][j + 1]
      BY <1>2, <2>5
    <3>2. i + 1 = j + 1
      BY <2>1, <2>3, <3>1
    <3>3. QED
      BY <1>2, <3>2
  <2>6. QED
    BY <1>4, <1>6, <2>4, <2>5
<1>10. ChannelsHoldSent'
  <2>1. SUFFICES ASSUME NEW c \in Backends
                 PROVE  /\ \A i \in 1 .. Len(messages'[c]) :
                             stage'[messages'[c][i]] = "sent" /\ backend'[messages'[c][i]] = c
                        /\ \A i, j \in 1 .. Len(messages'[c]) :
                             messages'[c][i] = messages'[c][j] => i = j
    BY DEF ChannelsHoldSent
  <2>2. CASE c = b
    BY <1>9, <2>2
  <2>3. CASE c # b
    BY <1>8, <2>3
  <2>4. QED
    BY <2>2, <2>3
<1>11. QED
  BY <1>3, <1>4, <1>5, <1>6, <1>7, <1>10 DEF r

\* A message goes to its worker, or is dropped with the channel of one that stopped.
LEMMA EnqueueInvariant ==
  ASSUME IInv, NEW b \in Backends, Enqueue(b) \/ DropMessage(b)
  PROVE  IInv'
<1> DEFINE r == Head(messages[b])
<1>1. /\ messages[b] # <<>>
      /\ messages' = [messages EXCEPT ![b] = Tail(@)]
      /\ UNCHANGED <<decisionVars, publishedVars, backend, workVars, stopped>>
  BY DEF Enqueue, DropMessage, routingVars
<1>2. PICK s \in {"enqueued", "gone"} :
        /\ stage' = [stage EXCEPT ![r] = s]
        /\ s = "enqueued" => reserved_load' = reserved_load /\ At(b, Working) = {}
        /\ s = "gone" =>
             reserved_load' = [reserved_load EXCEPT ![backend[r]] = Minus(@, ReservedFor(r))]
  BY DEF Enqueue, BetweenCalls, DropMessage, DropReservation, routingVars, Working
<1>3. /\ r \in Requests /\ stage[r] = "sent" /\ backend[r] = b
      /\ stage' \in [Requests -> Stages] /\ RoutedSomewhere' /\ ChannelsHoldSent'
      /\ messages' \in [Backends -> Seq(Requests)]
      /\ \A c \in Backends : Len(messages'[c]) <= MessageCapacity
  BY <1>1, <1>2, PopInvariant DEF Stages, Unrouted, workVars
<1> HIDE DEF r
<1>4. /\ OrchestratorTypeOK /\ OneChangeAtATime /\ stage \in [Requests -> Stages]
  BY DEF IInv, OrchestratorTypeOK
<1>5. \A c, stages : At(c, stages)' =
        IF b = c /\ s \in stages THEN At(c, stages) \cup {r} ELSE At(c, stages) \ {r}
  <2>1. backend' = backend /\ stage' = [stage EXCEPT ![r] = s]
    BY <1>1, <1>2
  <2>2. \A c, stages : At(c, stages)' =
          IF backend[r] = c /\ s \in stages THEN At(c, stages) \cup {r}
                                            ELSE At(c, stages) \ {r}
    BY <1>3, <1>4, <2>1, AtAfterMove
  <2>3. QED
    BY <1>3, <2>2
<1>6. /\ LoadsAreHeld'
      /\ reserved_load' \in
           [Backends -> [requests : Nat, prefill : Nat, cached : Nat, output : Nat]]
  <2>1. CASE s = "gone"
    BY <1>1, <1>2, <1>3, <2>1, LoadAfterDrop DEF workVars
  <2>2. CASE s = "enqueued"
    <3>1. \A c \in Backends : r \in At(c, {"routed", "sent", "enqueued"}) <=> c = b
      BY <1>3 DEF At
    <3>2. \A c \in Backends : HoldingReservation(c)' = HoldingReservation(c)
      BY <1>5, <2>2, <3>1 DEF HoldingReservation
    <3>3. QED
      BY <1>1, <1>2, <1>4, <2>2, <3>2 DEF IInv, LoadsAreHeld, OrchestratorTypeOK, workVars
  <2>3. QED
    BY <2>1, <2>2
<1>7. OrchestratorTypeOK'
  BY <1>1, <1>3, <1>4, <1>6
     DEF OrchestratorTypeOK, ReadsTypeOK, decisionVars, publishedVars, workVars
<1>8. OneChangeAtATime'
  <2>1. s = "enqueued" => \A q \in Requests : stage[q] \in Working => backend[q] # b
    BY <1>2 DEF At
  <2>2. QED
    BY <1>1, <1>2, <1>3, <1>4, <2>1 DEF OneChangeAtATime, Working
<1>9. ScheduleIsKept
  <2>1. \A c : r \notin At(c, Scheduled) /\ r \notin At(c, {"queued", "active"})
    BY <1>3 DEF At, Scheduled
  <2>2. QED
    BY <1>1, <1>5, <2>1 DEF ScheduleIsKept, Scheduled, publishedVars
<1>10. CountsArePublished' /\ WorkOnlyShrinks'
  BY <1>1, <1>9, KeptScheduleKeepsCounts DEF workVars
<1>11. QED
  BY <1>3, <1>6, <1>7, <1>8, <1>10 DEF IInv

\* The scheduler admits requests, runs them and drops them, unpublished.
LEMMA AdvanceInvariant ==
  ASSUME IInv, NEW r \in Requests, Advance(r)
  PROVE  IInv'
<1>1. /\ stage[r] \in {"queued", "active"} /\ stage' = [stage EXCEPT ![r] = "active"]
      /\ UNCHANGED <<routingVars, publishedVars, messages, backend, cached_estimate, stopped>>
  BY DEF Advance
<1>2. PICK p \in 0 .. prefill[r], n \in 1 .. output[r] :
        prefill' = [prefill EXCEPT ![r] = p] /\ output' = [output EXCEPT ![r] = n]
  BY DEF Advance
<1>3. /\ OrchestratorTypeOK /\ OneChangeAtATime /\ WorkOnlyShrinks /\ LoadsAreHeld
      /\ stage \in [Requests -> Stages]
      /\ prefill \in [Requests -> Nat] /\ output \in [Requests -> Nat]
  BY DEF IInv, OrchestratorTypeOK
<1>4. /\ stage' \in [Requests -> Stages] /\ RoutedSomewhere' /\ ChannelsHoldSent'
  BY <1>1, MoveKeepsChannels DEF Stages, Unrouted
<1>5. /\ prefill' \in [Requests -> Nat] /\ output' \in [Requests -> Nat]
      /\ \A q \in Requests : prefill'[q] <= prefill[q] /\ output'[q] <= output[q]
  BY <1>2, <1>3
<1>6. OrchestratorTypeOK'
  BY <1>1, <1>3, <1>4, <1>5
     DEF OrchestratorTypeOK, ReadsTypeOK, routingVars, decisionVars, publishedVars
<1>7. OneChangeAtATime'
  BY <1>1, <1>3 DEF OneChangeAtATime, Working
<1>8. \A c, stages : At(c, stages)' =
        IF backend[r] = c /\ "active" \in stages THEN At(c, stages) \cup {r}
                                                 ELSE At(c, stages) \ {r}
  BY <1>1, <1>3, AtAfterMove
<1>9. /\ \A c : r \in At(c, Scheduled) <=> c = backend[r]
      /\ \A c : r \in At(c, {"queued", "active"}) <=> c = backend[r]
      /\ \A c : r \notin At(c, {"routed", "sent", "enqueued"})
  BY <1>1 DEF At, Scheduled
<1>10. LoadsAreHeld'
  <2>1. \A c \in Backends : HoldingReservation(c)' = HoldingReservation(c)
    BY <1>8, <1>9 DEF HoldingReservation
  <2>2. QED
    BY <1>1, <1>3, <2>1 DEF LoadsAreHeld, routingVars
<1>11. ScheduleIsKept
  <2>1. \A c \in Backends :
          /\ At(c, Scheduled)' = At(c, Scheduled)
          /\ At(c, {"queued", "active"})' = At(c, {"queued", "active"})
    <3> TAKE c \in Backends
    <3>1. CASE c = backend[r]
      BY <1>8, <1>9, <3>1 DEF Scheduled
    <3>2. CASE c # backend[r]
      BY <1>8, <1>9, <3>2 DEF Scheduled
    <3>3. QED
      BY <3>1, <3>2
  <2>2. QED
    BY <1>1, <2>1 DEF ScheduleIsKept, publishedVars
<1>12. WorkOnlyShrinks'
  <2>1. \A q \in Requests : prefill'[q] <= InputTokenCount[q] /\ output'[q] <= MaxNewTokenCount[q]
    <3> TAKE q \in Requests
    <3>1. prefill[q] <= InputTokenCount[q] /\ output[q] <= MaxNewTokenCount[q]
      BY <1>3 DEF WorkOnlyShrinks
    <3>2. /\ prefill[q] \in Nat /\ prefill'[q] \in Nat /\ InputTokenCount[q] \in Nat
          /\ output[q] \in Nat /\ output'[q] \in Nat /\ MaxNewTokenCount[q] \in Nat
          /\ prefill'[q] <= prefill[q] /\ output'[q] <= output[q]
      BY <1>3, <1>5, OrchestratorAssumption
    <3>3. QED
      BY <3>1, <3>2
  <2>2. ASSUME NEW b \in Backends \ stopped
        PROVE  /\ operational_state[b].queued_prefill + operational_state[b].active_prefill
                    >= Total(prefill', At(b, {"queued", "active"}))
               /\ operational_state[b].queued_output + operational_state[b].active_output
                    >= Total(output', At(b, {"queued", "active"}))
    <3> DEFINE A == At(b, {"queued", "active"})
    <3>1. A \in SUBSET Requests /\ IsFiniteSet(A)
      BY AtIsASet, RequestsAreFinite
    <3> HIDE DEF A
    <3>2. /\ Total(prefill', A) \in Nat /\ Total(prefill, A) \in Nat
          /\ Total(prefill', A) <= Total(prefill, A)
      BY <1>3, <1>5, <3>1, TotalsCompare
    <3>3. /\ Total(output', A) \in Nat /\ Total(output, A) \in Nat
          /\ Total(output', A) <= Total(output, A)
      BY <1>3, <1>5, <3>1, TotalsCompare
    <3>4. /\ operational_state[b].queued_prefill \in Nat
          /\ operational_state[b].active_prefill \in Nat
          /\ operational_state[b].queued_output \in Nat
          /\ operational_state[b].active_output \in Nat
      BY <1>3 DEF OrchestratorTypeOK, OperationalStateType
    <3>5. /\ operational_state[b].queued_prefill + operational_state[b].active_prefill
               >= Total(prefill, A)
          /\ operational_state[b].queued_output + operational_state[b].active_output
               >= Total(output, A)
      BY <1>3 DEF WorkOnlyShrinks, A
    <3>6. QED
      BY <3>2, <3>3, <3>4, <3>5 DEF A
  <2>3. QED
    BY <1>11, <2>1, <2>2 DEF WorkOnlyShrinks, ScheduleIsKept
<1>13. QED
  BY <1>4, <1>6, <1>7, <1>10, <1>11, <1>12, KeptScheduleKeepsCounts DEF IInv

LEMMA RemoveInvariant ==
  ASSUME IInv, NEW r \in Requests, Remove(r)
  PROVE  IInv'
<1>1. /\ stage[r] = "active" /\ stage' = [stage EXCEPT ![r] = "removed"]
      /\ backend[r] \notin stopped /\ At(backend[r], {"enqueued", "removed"}) = {}
      /\ UNCHANGED <<routingVars, publishedVars, messages, backend, workVars, stopped>>
  BY DEF Remove, BetweenCalls
<1>2. /\ OrchestratorTypeOK /\ OneChangeAtATime /\ WorkOnlyShrinks /\ CountsArePublished
      /\ LoadsAreHeld /\ stage \in [Requests -> Stages]
  BY DEF IInv, OrchestratorTypeOK
<1>3. /\ stage' \in [Requests -> Stages] /\ RoutedSomewhere' /\ ChannelsHoldSent'
      /\ backend[r] \in Backends
  BY <1>1, MoveKeepsChannels DEF Stages, Unrouted, workVars
<1>4. OrchestratorTypeOK'
  BY <1>1, <1>2, <1>3
     DEF OrchestratorTypeOK, ReadsTypeOK, routingVars, decisionVars, publishedVars, workVars
<1>5. OneChangeAtATime'
  <2>1. \A q \in Requests : stage[q] \in Working => backend[q] # backend[r]
    BY <1>1 DEF At, Working
  <2>2. QED
    BY <1>1, <1>2, <2>1 DEF OneChangeAtATime, Working
<1>6. \A c, stages : At(c, stages)' =
        IF backend[r] = c /\ "removed" \in stages THEN At(c, stages) \cup {r}
                                                  ELSE At(c, stages) \ {r}
  BY <1>1, <1>2, AtAfterMove
<1>7. /\ \A c : r \in At(c, Scheduled) <=> c = backend[r]
      /\ \A c : r \notin At(c, {"routed", "sent", "enqueued"})
  BY <1>1 DEF At, Scheduled
<1>8. LoadsAreHeld'
  <2>1. \A c \in Backends : HoldingReservation(c)' = HoldingReservation(c)
    BY <1>6, <1>7 DEF HoldingReservation
  <2>2. QED
    BY <1>1, <1>2, <2>1 DEF LoadsAreHeld, routingVars, workVars
<1>9. CountsArePublished'
  <2>1. \A c \in Backends : At(c, Scheduled)' = At(c, Scheduled)
    <3> TAKE c \in Backends
    <3>1. CASE c = backend[r]
      BY <1>6, <1>7, <3>1 DEF Scheduled
    <3>2. CASE c # backend[r]
      BY <1>6, <1>7, <3>2 DEF Scheduled
    <3>3. QED
      BY <3>1, <3>2
  <2>2. QED
    BY <1>1, <1>2, <2>1 DEF CountsArePublished, publishedVars
<1>10. WorkOnlyShrinks'
  <2>1. ASSUME NEW c \in Backends \ stopped
        PROVE  /\ operational_state[c].queued_prefill + operational_state[c].active_prefill
                    >= Total(prefill, At(c, {"queued", "active"}) \ {r})
               /\ operational_state[c].queued_output + operational_state[c].active_output
                    >= Total(output, At(c, {"queued", "active"}) \ {r})
    <3> DEFINE A == At(c, {"queued", "active"})
               B == A \ {r}
    <3>1. /\ A \in SUBSET Requests /\ B \in SUBSET Requests
          /\ A \cap {r} \in SUBSET Requests
          /\ IsFiniteSet(B) /\ IsFiniteSet(A \cap {r})
          /\ B \cap (A \cap {r}) = {} /\ B \cup (A \cap {r}) = A
      BY AtIsASet, RequestsAreFinite
    <3> HIDE DEF A, B
    <3>2. /\ \A q \in Requests : prefill[q] \in Nat
          /\ \A q \in Requests : output[q] \in Nat
      BY <1>2 DEF OrchestratorTypeOK
    <3>3. /\ Total(prefill, A) = Total(prefill, B) + Total(prefill, A \cap {r})
          /\ Total(output, A) = Total(output, B) + Total(output, A \cap {r})
      BY <3>1, <3>2, TotalsAdd
    <3>4. /\ Total(prefill, B) \in Nat /\ Total(prefill, A \cap {r}) \in Nat
          /\ Total(output, B) \in Nat /\ Total(output, A \cap {r}) \in Nat
      BY <3>1, <3>2, TotalsCompare
    <3>5. /\ operational_state[c].queued_prefill \in Nat
          /\ operational_state[c].active_prefill \in Nat
          /\ operational_state[c].queued_output \in Nat
          /\ operational_state[c].active_output \in Nat
      BY <1>2 DEF OrchestratorTypeOK, OperationalStateType
    <3>6. /\ operational_state[c].queued_prefill + operational_state[c].active_prefill
               >= Total(prefill, A)
          /\ operational_state[c].queued_output + operational_state[c].active_output
               >= Total(output, A)
      BY <1>2 DEF WorkOnlyShrinks, A
    <3>7. QED
      BY <3>3, <3>4, <3>5, <3>6 DEF A, B
  <2>2. \A c \in Backends :
          At(c, {"queued", "active"})' = At(c, {"queued", "active"}) \ {r}
    BY <1>6
  <2>3. QED
    BY <1>1, <1>2, <2>1, <2>2 DEF WorkOnlyShrinks, publishedVars, workVars
<1>11. QED
  BY <1>3, <1>4, <1>5, <1>8, <1>9, <1>10 DEF IInv

\* A worker that stops drops its scheduled requests.
LEMMA StopWorkerInvariant ==
  ASSUME IInv, NEW b \in Backends, StopWorker(b)
  PROVE  IInv'
<1>1. /\ stopped' = stopped \cup {b}
      /\ stage' = [r \in Requests |->
                     IF r \in At(b, {"queued", "active"}) THEN "gone" ELSE stage[r]]
      /\ UNCHANGED <<routingVars, publishedVars, messages, backend, workVars>>
  BY DEF StopWorker
<1>2. /\ OrchestratorTypeOK /\ OneChangeAtATime /\ WorkOnlyShrinks /\ CountsArePublished
      /\ LoadsAreHeld /\ RoutedSomewhere /\ ChannelsHoldSent
      /\ stage \in [Requests -> Stages]
  BY DEF IInv, OrchestratorTypeOK
<1>3. /\ stage' \in [Requests -> Stages]
      /\ \A r \in Requests : \/ stage'[r] = stage[r]
                             \/ stage[r] \in {"queued", "active"} /\ stage'[r] = "gone"
      /\ \A r \in Requests : backend[r] # b => stage'[r] = stage[r]
  BY <1>1, <1>2 DEF At, Stages
<1>4. \A c \in Backends \ {b} : \A stages : At(c, stages)' = At(c, stages)
  BY <1>1, <1>3 DEF At
<1>5. RoutedSomewhere'
  BY <1>1, <1>2, <1>3 DEF RoutedSomewhere, Unrouted, workVars
<1>6. ChannelsHoldSent'
  <2>1. \A c \in Backends : \A i \in 1 .. Len(messages[c]) :
          messages[c][i] \in Requests /\ stage[messages[c][i]] = "sent"
    BY <1>2, MessagesAreSent
  <2>2. \A c \in Backends : \A i \in 1 .. Len(messages[c]) : stage'[messages[c][i]] = "sent"
    BY <1>3, <2>1
  <2>3. QED
    BY <1>1, <1>2, <2>2 DEF ChannelsHoldSent
<1>7. OneChangeAtATime'
  BY <1>1, <1>2, <1>3 DEF OneChangeAtATime, Working
<1>8. \A c \in Backends : HoldingReservation(c)' = HoldingReservation(c)
  BY <1>1, <1>3 DEF HoldingReservation, At
<1>9. LoadsAreHeld'
  BY <1>1, <1>2, <1>8 DEF LoadsAreHeld, routingVars, workVars
<1>10. OrchestratorTypeOK'
  BY <1>1, <1>2, <1>3
     DEF OrchestratorTypeOK, ReadsTypeOK, routingVars, decisionVars, publishedVars, workVars
<1>11. CountsArePublished' /\ WorkOnlyShrinks'
  BY <1>1, <1>2, <1>4 DEF CountsArePublished, WorkOnlyShrinks, publishedVars, workVars
<1>12. QED
  BY <1>5, <1>6, <1>7, <1>9, <1>10, <1>11 DEF IInv

\* Nothing but the published snapshot of the prefix cache changes.
LEMMA QuietInvariant ==
  ASSUME IInv, (\E b \in Backends : PublishCacheAffinityState(b)) \/ UNCHANGED orchestratorVars
  PROVE  IInv'
<1>1. /\ UNCHANGED <<routingVars, operational_state, messages, stage, backend, workVars, stopped>>
      /\ cache_affinity_state' \in [Backends -> SUBSET Requests]
  BY DEF PublishCacheAffinityState, orchestratorVars, publishedVars, IInv, OrchestratorTypeOK
<1>2. \A c, stages : At(c, stages)' = At(c, stages)
  BY <1>1 DEF At
<1>3. OrchestratorTypeOK'
  BY <1>1 DEF IInv, OrchestratorTypeOK, ReadsTypeOK, routingVars, decisionVars, workVars
<1>4. RoutedSomewhere' /\ ChannelsHoldSent' /\ OneChangeAtATime'
  BY <1>1 DEF IInv, RoutedSomewhere, ChannelsHoldSent, OneChangeAtATime, workVars
<1>5. LoadsAreHeld' /\ CountsArePublished' /\ WorkOnlyShrinks'
  BY <1>1, <1>2 DEF IInv, LoadsAreHeld, HoldingReservation, CountsArePublished,
     WorkOnlyShrinks, routingVars, workVars
<1>6. QED
  BY <1>3, <1>4, <1>5 DEF IInv

LEMMA StepInvariant == IInv /\ [OrchestratorNext]_orchestratorVars => IInv'
<1> SUFFICES ASSUME IInv, [OrchestratorNext]_orchestratorVars PROVE IInv'
  OBVIOUS
<1>0. ASSUME NEW r \in Requests, ReadOperationalState(r) \/ ReadCacheAffinityState(r)
      PROVE  IInv'
  BY <1>0, ReadInvariant
<1>1. ASSUME NEW r \in Requests, Route(r) \/ Send(r) \/ Abandon(r) \/ FailToEnqueue(r)
      PROVE  IInv'
  BY <1>1, RouteInvariant, SendInvariant, AbandonInvariant
<1>2. ASSUME NEW r \in Requests, ReleaseAfter(r) \/ PublishOperationalState(r) PROVE IInv'
  BY <1>2, ReleaseAfterInvariant, PublishOperationalStateInvariant
<1>3. ASSUME NEW r \in Requests, Advance(r) \/ Remove(r) PROVE IInv'
  BY <1>3, AdvanceInvariant, RemoveInvariant
<1>4. ASSUME NEW b \in Backends, Enqueue(b) \/ DropMessage(b) \/ StopWorker(b) PROVE IInv'
  BY <1>4, EnqueueInvariant, StopWorkerInvariant
<1>5. CASE (\E b \in Backends : PublishCacheAffinityState(b)) \/ UNCHANGED orchestratorVars
  BY <1>5, QuietInvariant
<1>6. QED
  BY <1>0, <1>1, <1>2, <1>3, <1>4, <1>5 DEF OrchestratorNext

LEMMA InvariantHolds == OrchestratorSpec => []IInv
  BY InitInvariant, StepInvariant, PTL DEF OrchestratorSpec

-----------------------------------------------------------------------------
(* What follows from it *)

\* Every value of the routing state has its type: no reserved load is ever negative.
THEOREM OrchestratorTypeCorrect == OrchestratorSpec => []OrchestratorTypeOK
<1>1. IInv => OrchestratorTypeOK
  BY DEF IInv
<1>2. QED
  BY <1>1, InvariantHolds, PTL

\* A backend's reserved load is the load of exactly the reservations held for it.
THEOREM ReservationsAlwaysMatch == OrchestratorSpec => []ReservationsMatch
<1>1. IInv => ReservationsMatch
  BY DEF IInv, LoadsAreHeld, LoadOfAll, ReservationsMatch
<1>2. QED
  BY <1>1, InvariantHolds, PTL

\* What a router sees of a backend: the published state with the reserved load.
LEMMA SeenLoads ==
  ASSUME IInv, NEW b \in Backends
  PROVE  LET H == HoldingReservation(b) IN
         /\ RequestCount(Seen(b)) = operational_state[b].queued + operational_state[b].active
                                    + Cardinality(H)
         /\ PrefillTokens(Seen(b)) = operational_state[b].queued_prefill
                               + operational_state[b].active_prefill + Total(InputTokenCount, H)
         /\ OutputTokens(Seen(b)) = operational_state[b].queued_output
                              + operational_state[b].active_output + Total(MaxNewTokenCount, H)
<1> DEFINE H == HoldingReservation(b)
           state == operational_state[b]
           load == reserved_load[b]
<1>1. state \in OperationalStateType
  BY DEF IInv, OrchestratorTypeOK
<1>2. /\ load.requests = Cardinality(H) /\ load.prefill = Total(InputTokenCount, H)
      /\ load.output = Total(MaxNewTokenCount, H)
  <2>1. load = LoadOfAll(cached_estimate, H)
    BY DEF IInv, LoadsAreHeld
  <2> HIDE DEF H, load
  <2>2. QED
    BY <2>1 DEF LoadOfAll
<1>3. H \in SUBSET Requests
  BY AtIsASet DEF HoldingReservation
<1>4. cached_estimate \in [Requests -> Nat]
  BY DEF IInv, OrchestratorTypeOK
<1>5. /\ Cardinality(H) \in Nat /\ Total(InputTokenCount, H) \in Nat
      /\ Total(MaxNewTokenCount, H) \in Nat
  <2> HIDE DEF H
  <2>1. QED
    BY <1>3, <1>4, RequestsAreFinite, LoadIsNatural
<1>6. /\ Seen(b).queued = state.queued + load.requests
      /\ Seen(b).queued_prefill = state.queued_prefill + load.prefill
      /\ Seen(b).queued_output = state.queued_output + load.output
      /\ Seen(b).active = state.active
      /\ Seen(b).active_prefill = state.active_prefill
      /\ Seen(b).active_output = state.active_output
  <2> HIDE DEF H
  <2>1. QED
    BY <1>1 DEF Seen, OperationalStateType
<1>7. /\ state.queued \in Nat /\ state.active \in Nat
      /\ state.queued_prefill \in Nat /\ state.active_prefill \in Nat
      /\ state.queued_output \in Nat /\ state.active_output \in Nat
  BY <1>1 DEF OperationalStateType
<1> HIDE DEF H, state, load
<1>8. /\ RequestCount(Seen(b)) = state.queued + state.active + Cardinality(H)
      /\ PrefillTokens(Seen(b)) = state.queued_prefill + state.active_prefill
                            + Total(InputTokenCount, H)
      /\ OutputTokens(Seen(b)) = state.queued_output + state.active_output
                           + Total(MaxNewTokenCount, H)
  BY <1>2, <1>5, <1>6, <1>7 DEF RequestCount, PrefillTokens, OutputTokens
<1>9. QED
  BY <1>8 DEF H, state

\* Outstanding requests hold a reservation or were scheduled by their worker.
LEMMA OutstandingIsHeldOrScheduled ==
  ASSUME stage \in [Requests -> Stages], NEW b
  PROVE  /\ Outstanding(b) = HoldingReservation(b) \cup At(b, Scheduled)
         /\ HoldingReservation(b) \cap At(b, Scheduled) = {}
         /\ Outstanding(b) \ At(b, {"removed"})
              = HoldingReservation(b) \cup At(b, {"queued", "active"})
         /\ HoldingReservation(b) \cap At(b, {"queued", "active"}) = {}
  BY DEF Outstanding, HoldingReservation, At, Scheduled, Stages, Unrouted

LEMMA CountedOnceFollows == IInv => CountedOnce
<1> SUFFICES ASSUME IInv, NEW b \in Backends \ stopped
             PROVE  RequestCount(Seen(b)) = Cardinality(Outstanding(b))
  BY DEF CountedOnce
<1> DEFINE H == HoldingReservation(b)
           S == At(b, Scheduled)
<1>1. Outstanding(b) = H \cup S /\ H \cap S = {}
  BY OutstandingIsHeldOrScheduled DEF IInv, OrchestratorTypeOK
<1>2. /\ RequestCount(Seen(b)) = operational_state[b].queued + operational_state[b].active
                                 + Cardinality(H)
      /\ operational_state[b].queued + operational_state[b].active = Cardinality(S)
  BY SeenLoads DEF IInv, CountsArePublished
<1>3. H \in SUBSET Requests /\ S \in SUBSET Requests
  BY AtIsASet DEF HoldingReservation
<1> HIDE DEF H, S
<1>4. IsFiniteSet(H) /\ IsFiniteSet(S) /\ Cardinality(H) \in Nat /\ Cardinality(S) \in Nat
  BY <1>3, RequestsAreFinite
<1>5. Cardinality(H \cup S) = Cardinality(H) + Cardinality(S) - Cardinality({})
  BY <1>1, <1>4, FS_Union
<1>6. QED
  BY <1>1, <1>2, <1>4, <1>5, FS_EmptySet

\* Routing sees either the reservation or the published load of an outstanding
\* request, never both or neither.
THEOREM EveryRequestIsCountedOnce == OrchestratorSpec => []CountedOnce
  BY InvariantHolds, CountedOnceFollows, PTL

LEMMA WorkIsCoveredFollows == IInv => WorkIsNeverUnderestimated
<1> SUFFICES ASSUME IInv, NEW b \in Backends \ stopped
             PROVE  LET pending == Outstanding(b) \ At(b, {"removed"}) IN
                    /\ PrefillTokens(Seen(b)) >= Total(prefill, pending)
                    /\ OutputTokens(Seen(b)) >= Total(output, pending)
  BY DEF WorkIsNeverUnderestimated
<1> DEFINE H == HoldingReservation(b)
           S == At(b, {"queued", "active"})
           p == operational_state[b].queued_prefill + operational_state[b].active_prefill
           o == operational_state[b].queued_output + operational_state[b].active_output
<1>1. Outstanding(b) \ At(b, {"removed"}) = H \cup S /\ H \cap S = {}
  BY OutstandingIsHeldOrScheduled DEF IInv, OrchestratorTypeOK
<1>2. /\ PrefillTokens(Seen(b)) = p + Total(InputTokenCount, H)
      /\ OutputTokens(Seen(b)) = o + Total(MaxNewTokenCount, H)
  BY SeenLoads
<1>3. p >= Total(prefill, S) /\ o >= Total(output, S)
  BY DEF IInv, WorkOnlyShrinks
<1>4. p \in Nat /\ o \in Nat
  BY DEF IInv, OrchestratorTypeOK, OperationalStateType
<1>5. H \in SUBSET Requests /\ S \in SUBSET Requests
  BY AtIsASet DEF HoldingReservation
<1>6. \A q \in Requests : /\ prefill[q] \in Nat /\ InputTokenCount[q] \in Nat
                          /\ output[q] \in Nat /\ MaxNewTokenCount[q] \in Nat
                          /\ prefill[q] <= InputTokenCount[q]
                          /\ output[q] <= MaxNewTokenCount[q]
  BY OrchestratorAssumption DEF IInv, OrchestratorTypeOK, WorkOnlyShrinks
<1> HIDE DEF H, S, p, o
<1>7. IsFiniteSet(H) /\ IsFiniteSet(S)
  BY <1>5, RequestsAreFinite
<1>8. /\ Total(prefill, H \cup S) = Total(prefill, H) + Total(prefill, S)
      /\ Total(output, H \cup S) = Total(output, H) + Total(output, S)
  BY <1>1, <1>5, <1>6, <1>7, TotalsAdd
<1>9. /\ Total(prefill, H) <= Total(InputTokenCount, H)
      /\ Total(output, H) <= Total(MaxNewTokenCount, H)
      /\ Total(prefill, H) \in Nat /\ Total(InputTokenCount, H) \in Nat
      /\ Total(output, H) \in Nat /\ Total(MaxNewTokenCount, H) \in Nat
      /\ Total(prefill, S) \in Nat /\ Total(output, S) \in Nat
  <2>1. /\ \A q \in H : prefill[q] \in Nat /\ InputTokenCount[q] \in Nat
        /\ \A q \in H : output[q] \in Nat /\ MaxNewTokenCount[q] \in Nat
        /\ \A q \in S : prefill[q] \in Nat /\ output[q] \in Nat
        /\ \A q \in H : prefill[q] <= InputTokenCount[q]
        /\ \A q \in H : output[q] <= MaxNewTokenCount[q]
    BY <1>5, <1>6
  <2>2. QED
    BY <1>7, <2>1, TotalsCompare
<1>10. /\ PrefillTokens(Seen(b)) >= Total(prefill, H \cup S)
       /\ OutputTokens(Seen(b)) >= Total(output, H \cup S)
  BY <1>2, <1>3, <1>4, <1>8, <1>9
<1>11. QED
  BY <1>1, <1>10

\* What a router sees of a running backend is at least the work it has left, however
\* old the published state is.
THEOREM WorkIsAlwaysCovered == OrchestratorSpec => []WorkIsNeverUnderestimated
  BY InvariantHolds, WorkIsCoveredFollows, PTL

\* The steps that are not part of a routing decision.
OtherStep ==
  \/ \E r \in Requests : \/ Send(r) \/ Abandon(r) \/ FailToEnqueue(r) \/ ReleaseAfter(r)
                         \/ Advance(r) \/ Remove(r) \/ PublishOperationalState(r)
  \/ \E b \in Backends : \/ Enqueue(b) \/ PublishCacheAffinityState(b)
                         \/ StopWorker(b) \/ DropMessage(b)
  \/ UNCHANGED orchestratorVars

\* They leave a decision under way as it is, and no request leaves or joins the ones
\* that no backend has yet, or comes back when it is gone.
LEMMA OtherStepsRouteNothing ==
  ASSUME IInv, OtherStep
  PROVE  /\ UNCHANGED <<policy, last_selected_epoch, load_reads, outstanding_at_read, backend>>
         /\ stopped \subseteq stopped'
         /\ \A r \in Requests :
              \/ stage'[r] = stage[r]
              \/ /\ stage[r] \notin Unrouted \cup {"gone"}
                 /\ stage'[r] \notin Unrouted \cup {"routed"}
<1>1. stage \in [Requests -> Stages]
  BY DEF IInv, OrchestratorTypeOK
<1>2. ASSUME NEW q \in Requests, stage[q] \notin Unrouted \cup {"gone"},
             NEW s, s \notin Unrouted \cup {"routed"}, stage' = [stage EXCEPT ![q] = s]
      PROVE  \A r \in Requests : \/ stage'[r] = stage[r]
                                 \/ /\ stage[r] \notin Unrouted \cup {"gone"}
                                    /\ stage'[r] \notin Unrouted \cup {"routed"}
  BY <1>1, <1>2
<1>3. ASSUME NEW q \in Requests,
             \/ Send(q) \/ Abandon(q) \/ FailToEnqueue(q) \/ ReleaseAfter(q)
             \/ Advance(q) \/ Remove(q) \/ PublishOperationalState(q)
      PROVE  /\ UNCHANGED <<policy, last_selected_epoch, load_reads, outstanding_at_read,
                            backend, stopped>>
             /\ stage[q] \notin Unrouted \cup {"gone"}
             /\ \E s \in {"sent", "gone", "queued", "active", "removed"} :
                  stage' = [stage EXCEPT ![q] = s]
  BY <1>3 DEF Send, Abandon, FailToEnqueue, DropReservation, ReleaseAfter, Advance, Remove,
     PublishOperationalState, routingVars, decisionVars, Unrouted
<1>4. ASSUME NEW b \in Backends, Enqueue(b) \/ DropMessage(b)
      PROVE  /\ UNCHANGED <<policy, last_selected_epoch, load_reads, outstanding_at_read,
                            backend, stopped>>
             /\ \E q \in Requests : /\ stage[q] = "sent"
                                    /\ \E s \in {"enqueued", "gone"} :
                                         stage' = [stage EXCEPT ![q] = s]
  <2>1. messages[b] # <<>> /\ messages[b] \in Seq(Requests)
    BY <1>4 DEF Enqueue, DropMessage, IInv, OrchestratorTypeOK
  <2>2. Head(messages[b]) = messages[b][1] /\ 1 \in 1 .. Len(messages[b])
    BY <2>1
  <2>3. Head(messages[b]) \in Requests /\ stage[Head(messages[b])] = "sent"
    BY <2>2, MessagesAreSent DEF IInv
  <2>4. QED
    BY <1>4, <2>3 DEF Enqueue, DropMessage, DropReservation, routingVars, decisionVars
<1>5. ASSUME NEW b \in Backends, StopWorker(b)
      PROVE  /\ UNCHANGED <<policy, last_selected_epoch, load_reads, outstanding_at_read, backend>>
             /\ stopped \subseteq stopped'
             /\ \A r \in Requests : \/ stage'[r] = stage[r]
                                    \/ stage[r] \in {"queued", "active"} /\ stage'[r] = "gone"
  <2>1. /\ stage' = [q \in Requests |->
                       IF q \in At(b, {"queued", "active"}) THEN "gone" ELSE stage[q]]
        /\ stopped' = stopped \cup {b}
        /\ UNCHANGED <<policy, last_selected_epoch, load_reads, outstanding_at_read, backend>>
    BY <1>5 DEF StopWorker, routingVars, decisionVars
  <2>2. \A r \in Requests :
          stage'[r] = IF r \in At(b, {"queued", "active"}) THEN "gone" ELSE stage[r]
    BY <2>1
  <2>3. \A r \in At(b, {"queued", "active"}) : stage[r] \in {"queued", "active"}
    BY DEF At
  <2>4. QED
    BY <2>1, <2>2, <2>3
<1>6. ASSUME (\E b \in Backends : PublishCacheAffinityState(b)) \/ UNCHANGED orchestratorVars
      PROVE  UNCHANGED <<policy, last_selected_epoch, load_reads, outstanding_at_read, backend,
                         stopped, stage>>
  BY <1>6 DEF PublishCacheAffinityState, orchestratorVars, routingVars, decisionVars
<1>7. CASE \E q \in Requests :
             \/ Send(q) \/ Abandon(q) \/ FailToEnqueue(q) \/ ReleaseAfter(q)
             \/ Advance(q) \/ Remove(q) \/ PublishOperationalState(q)
  BY <1>2, <1>3, <1>7 DEF Unrouted
<1>8. CASE \E b \in Backends : Enqueue(b) \/ DropMessage(b)
  BY <1>2, <1>4, <1>8 DEF Unrouted
<1>9. CASE \E b \in Backends : StopWorker(b)
  BY <1>5, <1>9 DEF Unrouted
<1>10. CASE (\E b \in Backends : PublishCacheAffinityState(b)) \/ UNCHANGED orchestratorVars
  BY <1>6, <1>10
<1>11. QED
  BY <1>7, <1>8, <1>9, <1>10 DEF OtherStep

LEMMA StepsAre ==
  [OrchestratorNext]_orchestratorVars =>
    \/ \E r \in Requests : ReadOperationalState(r) \/ ReadCacheAffinityState(r)
    \/ \E r \in Requests : Route(r)
    \/ OtherStep
  BY DEF OrchestratorNext, OtherStep

\* What the decision under way has read of a running backend: the requests that were
\* outstanding, all of which still are, or have ended. New ones wait for the lock.
ReadsAreExact ==
  \A b \in 1 .. Len(load_reads) : b \notin stopped =>
    /\ RequestCount(load_reads[b]) = Cardinality(outstanding_at_read[b])
    /\ Outstanding(b) \subseteq outstanding_at_read[b]
    /\ outstanding_at_read[b] \subseteq Outstanding(b) \cup {r \in Requests : stage[r] = "gone"}

LEMMA ReadKeepsExact ==
  ASSUME IInv, ReadsAreExact, NEW r \in Requests,
         ReadOperationalState(r) \/ ReadCacheAffinityState(r)
  PROVE  ReadsAreExact'
<1>1. /\ stage[r] \in Unrouted /\ stage' = [stage EXCEPT ![r] = "routing"]
      /\ UNCHANGED <<backend, stopped>>
  BY DEF ReadOperationalState, ReadCacheAffinityState, MayRoute, Unrouted
<1>2. OrchestratorTypeOK /\ stage \in [Requests -> Stages]
  BY DEF IInv, OrchestratorTypeOK
<1>3. /\ \A b : Outstanding(b)' = Outstanding(b)
      /\ {q \in Requests : stage'[q] = "gone"} = {q \in Requests : stage[q] = "gone"}
  BY <1>1, <1>2 DEF Outstanding, At, Unrouted
<1>4. CASE ReadOperationalState(r)
  <2> DEFINE b == Len(load_reads) + 1
  <2>1. /\ load_reads' = Append(load_reads, Seen(b)) /\ b \in Backends
        /\ outstanding_at_read' = Append(outstanding_at_read, Outstanding(b))
    BY <1>4 DEF ReadOperationalState
  <2>2. /\ load_reads \in Seq(OperationalStateType)
        /\ outstanding_at_read \in Seq(SUBSET Requests)
        /\ Len(outstanding_at_read) = Len(load_reads) /\ Len(load_reads) \in Nat
    BY <1>2 DEF OrchestratorTypeOK, ReadsTypeOK
  <2>3. /\ Len(load_reads') = b
        /\ load_reads'[b] = Seen(b) /\ outstanding_at_read'[b] = Outstanding(b)
        /\ \A c \in 1 .. Len(load_reads) :
             load_reads'[c] = load_reads[c] /\ outstanding_at_read'[c] = outstanding_at_read[c]
    BY <2>1, <2>2
  <2>4. b \notin stopped => RequestCount(Seen(b)) = Cardinality(Outstanding(b))
    BY <2>1, CountedOnceFollows DEF CountedOnce
  <2>5. \A c \in 1 .. b : c = b \/ c \in 1 .. Len(load_reads)
    BY <2>2
  <2> HIDE DEF b
  <2>6. QED
    BY <1>1, <1>3, <2>3, <2>4, <2>5 DEF ReadsAreExact
<1>5. CASE ReadCacheAffinityState(r)
  BY <1>1, <1>3, <1>5 DEF ReadCacheAffinityState, ReadsAreExact
<1>6. QED
  BY <1>4, <1>5

LEMMA StepKeepsExact ==
  IInv /\ ReadsAreExact /\ [OrchestratorNext]_orchestratorVars => ReadsAreExact'
<1> SUFFICES ASSUME IInv, ReadsAreExact, [OrchestratorNext]_orchestratorVars
             PROVE  ReadsAreExact'
  OBVIOUS
<1>1. CASE \E r \in Requests : Route(r)
  <2>1. load_reads' = <<>>
    BY <1>1 DEF Route
  <2>2. QED
    BY <2>1 DEF ReadsAreExact
<1>2. CASE OtherStep
  <2>1. /\ UNCHANGED <<load_reads, outstanding_at_read, backend>> /\ stopped \subseteq stopped'
        /\ \A r \in Requests :
             \/ stage'[r] = stage[r]
             \/ /\ stage[r] \notin Unrouted \cup {"gone"}
                /\ stage'[r] \notin Unrouted \cup {"routed"}
    BY <1>2, OtherStepsRouteNothing
  <2>2. stage \in [Requests -> Stages] /\ stage' \in [Requests -> Stages]
    BY StepInvariant DEF IInv, OrchestratorTypeOK
  <2>3. /\ \A b : Outstanding(b)' \subseteq Outstanding(b)
        /\ \A b : Outstanding(b) \subseteq
                   Outstanding(b)' \cup {r \in Requests : stage'[r] = "gone"}
        /\ {r \in Requests : stage[r] = "gone"} \subseteq {r \in Requests : stage'[r] = "gone"}
    BY <2>1, <2>2 DEF Outstanding, At
  <2>4. QED
    BY <2>1, <2>3 DEF ReadsAreExact
<1>3. QED
  BY <1>1, <1>2, StepsAre, ReadKeepsExact

\* Only Route takes a request that no backend has to a backend.
LEMMA OnlyRouteRoutes ==
  ASSUME IInv, [OrchestratorNext]_orchestratorVars, NEW r \in Requests,
         stage[r] \in Unrouted, stage'[r] = "routed"
  PROVE  Route(r)
<1>1. stage \in [Requests -> Stages]
  BY DEF IInv, OrchestratorTypeOK
<1>2. ASSUME NEW q \in Requests, Route(q) PROVE Route(r)
  <2>1. stage' = [stage EXCEPT ![q] = "routed"]
    BY <1>2 DEF Route
  <2>2. q = r
    BY <1>1, <2>1 DEF Unrouted
  <2>3. QED
    BY <1>2, <2>2
<1>3. ASSUME NEW q \in Requests, ReadOperationalState(q) \/ ReadCacheAffinityState(q)
      PROVE  FALSE
  <2>1. stage' = [stage EXCEPT ![q] = "routing"]
    BY <1>3 DEF ReadOperationalState, ReadCacheAffinityState
  <2>2. QED
    BY <1>1, <2>1 DEF Unrouted
<1>4. CASE OtherStep
  BY <1>4, OtherStepsRouteNothing DEF Unrouted
<1>5. QED
  BY <1>2, <1>3, <1>4, StepsAre

\* While requests end between its reads, LeastRequests takes a backend that has no more
\* outstanding requests, wherever they are, than any other had when it was read.
THEOREM LeastLoadedIsAlwaysChosen == OrchestratorSpec => LeastLoadedIsChosen
<1> DEFINE Chosen ==
      \A r \in Requests :
        policy = "LeastRequests" /\ stage[r] \in Unrouted /\ stage'[r] = "routed"
          /\ BackendOverride[r] = NoBackend /\ backend'[r] \notin stopped =>
            \A b \in Backends \ stopped :
              Cardinality(Outstanding(backend'[r]))
                <= Cardinality(Outstanding(b) \cup EndedSinceRead(b))
<1>1. OrchestratorInit => ReadsAreExact
  BY DEF OrchestratorInit, ReadsAreExact
<1>2. IInv /\ ReadsAreExact /\ [OrchestratorNext]_orchestratorVars => Chosen
  <2> SUFFICES ASSUME IInv, ReadsAreExact, [OrchestratorNext]_orchestratorVars,
                      NEW r \in Requests, policy = "LeastRequests", stage[r] \in Unrouted,
                      stage'[r] = "routed", BackendOverride[r] = NoBackend,
                      backend'[r] \notin stopped, NEW c \in Backends \ stopped
               PROVE  Cardinality(Outstanding(backend'[r]))
                        <= Cardinality(Outstanding(c) \cup EndedSinceRead(c))
    OBVIOUS
  <2>1. Route(r)
    BY OnlyRouteRoutes
  <2>2. PICK b \in Backends : Selects(r, b) /\ backend' = [backend EXCEPT ![r] = b]
    BY <2>1 DEF Route
  <2>3. backend'[r] = b /\ b \in Backends \ stopped
    BY <2>2 DEF IInv, OrchestratorTypeOK
  <2>4. \A d \in Backends : d \in 1 .. Len(load_reads)
    BY <2>1 DEF Route, LoadPolicies, Backends
  <2>5. \A d \in Backends \ stopped :
          /\ Score(r, d) = Cardinality(outstanding_at_read[d])
          /\ Outstanding(d) \subseteq outstanding_at_read[d]
          /\ outstanding_at_read[d] \subseteq Outstanding(d) \cup EndedSinceRead(d)
    <3> TAKE d \in Backends \ stopped
    <3>1. /\ RequestCount(load_reads[d]) = Cardinality(outstanding_at_read[d])
          /\ Outstanding(d) \subseteq outstanding_at_read[d]
          /\ outstanding_at_read[d] \subseteq
               Outstanding(d) \cup {q \in Requests : stage[q] = "gone"}
      BY <2>4 DEF ReadsAreExact
    <3>2. Score(r, d) = RequestCount(load_reads[d])
      BY DEF Score
    <3>3. QED
      BY <3>1, <3>2 DEF EndedSinceRead
  <2>6. \A d \in Backends : outstanding_at_read[d] \in SUBSET Requests
    <3>1. /\ outstanding_at_read \in Seq(SUBSET Requests)
          /\ Len(outstanding_at_read) = Len(load_reads)
      BY DEF IInv, OrchestratorTypeOK, ReadsTypeOK
    <3>2. QED
      BY <2>4, <3>1
  <2>7. /\ IsFiniteSet(outstanding_at_read[b]) /\ IsFiniteSet(outstanding_at_read[c])
        /\ Cardinality(outstanding_at_read[b]) \in Nat
        /\ Cardinality(outstanding_at_read[c]) \in Nat
    BY <2>3, <2>6, RequestsAreFinite
  <2>8. Cardinality(outstanding_at_read[b]) <= Cardinality(outstanding_at_read[c])
    <3>1. c = b \/ Score(r, b) < Score(r, c) \/ Score(r, b) = Score(r, c)
      BY <2>2 DEF Selects
    <3>2. QED
      BY <2>3, <2>5, <2>7, <3>1
  <2>9. Cardinality(Outstanding(b)) <= Cardinality(outstanding_at_read[b])
    BY <2>3, <2>5, <2>7, FS_Subset
  <2>10. Outstanding(c) \cup EndedSinceRead(c) \in SUBSET Requests
    BY <2>6, AtIsASet DEF Outstanding, EndedSinceRead
  <2>11. Cardinality(outstanding_at_read[c]) <= Cardinality(Outstanding(c) \cup EndedSinceRead(c))
    <3>1. IsFiniteSet(Outstanding(c) \cup EndedSinceRead(c))
      BY <2>10, RequestsAreFinite
    <3>2. QED
      BY <2>5, <3>1, FS_Subset
  <2>12. /\ Cardinality(Outstanding(b)) \in Nat
         /\ Cardinality(Outstanding(c) \cup EndedSinceRead(c)) \in Nat
    BY <2>10, AtIsASet, RequestsAreFinite DEF Outstanding
  <2>13. QED
    BY <2>3, <2>7, <2>8, <2>9, <2>11, <2>12
<1>3. QED
  BY <1>1, <1>2, StepKeepsExact, InvariantHolds, PTL DEF OrchestratorSpec, LeastLoadedIsChosen

-----------------------------------------------------------------------------
(* Round robin *)

Precedes(b, c) ==
  \/ last_selected_epoch[b] < last_selected_epoch[c]
  \/ last_selected_epoch[b] = last_selected_epoch[c] /\ b < c

NoOverrideUsed == \A r \in Requests : stage[r] \notin Unrouted => BackendOverride[r] = NoBackend

\* A backend whose turn is earlier has as many requests as one whose turn is later, or
\* one less.
TurnsInv ==
  /\ \A r \in Requests : stage[r] \in Unrouted => backend[r] = NoBackend
  /\ policy = "RoundRobin" /\ NoOverrideUsed =>
       \A b, c \in Backends : Precedes(b, c) =>
         /\ Cardinality(At(b, Stages)) <= Cardinality(At(c, Stages))
         /\ Cardinality(At(c, Stages)) <= Cardinality(At(b, Stages)) + 1

LEMMA InitTurns == OrchestratorInit => TurnsInv
<1> SUFFICES ASSUME OrchestratorInit PROVE TurnsInv
  OBVIOUS
<1>1. \A b \in Backends : At(b, Stages) = {}
  BY OrchestratorAssumption DEF OrchestratorInit, At
<1>2. Cardinality({}) = 0
  BY FS_EmptySet
<1>3. \A r \in Requests : backend[r] = NoBackend
  BY DEF OrchestratorInit
<1>4. \A b \in Backends : Cardinality(At(b, Stages)) = 0
  BY <1>1, <1>2
<1>5. QED
  BY <1>3, <1>4 DEF TurnsInv

LEMMA RouteTurns ==
  ASSUME IInv, TurnsInv, NEW r \in Requests, Route(r)
  PROVE  TurnsInv'
<1>1. PICK b \in Backends :
        /\ Selects(r, b)
        /\ selection_epoch' = selection_epoch + 1
        /\ last_selected_epoch' = [last_selected_epoch EXCEPT ![b] = selection_epoch']
        /\ backend' = [backend EXCEPT ![r] = b]
  BY DEF Route
<1>2. /\ stage[r] \in Unrouted /\ stage' = [stage EXCEPT ![r] = "routed"] /\ policy' = policy
      /\ stage \in [Requests -> Stages] /\ backend \in [Requests -> Backends \cup {NoBackend}]
      /\ selection_epoch \in Nat /\ last_selected_epoch \in [Backends -> 0 .. selection_epoch]
  BY DEF Route, MayRoute, Unrouted, IInv, OrchestratorTypeOK
<1>3. backend[r] = NoBackend /\ NoBackend \notin Backends
  BY <1>2, OrchestratorAssumption DEF TurnsInv
<1>4. At(b, Stages)' = At(b, Stages) \cup {r} /\ r \notin At(b, Stages)
  BY <1>1, <1>2, <1>3 DEF At, Stages
<1>5. \A c \in Backends \ {b} : At(c, Stages)' = At(c, Stages)
  BY <1>1, <1>2, <1>3 DEF At, Stages
<1>6. \A c \in Backends : Cardinality(At(c, Stages)) \in Nat /\ IsFiniteSet(At(c, Stages))
  BY AtIsASet, RequestsAreFinite
<1>7. Cardinality(At(b, Stages)') = Cardinality(At(b, Stages)) + 1
  BY <1>4, <1>6, FS_AddElement
<1>8. \A q \in Requests : stage'[q] \in Unrouted => backend'[q] = NoBackend
  BY <1>1, <1>2 DEF TurnsInv, Unrouted
<1>9. ASSUME policy' = "RoundRobin", NoOverrideUsed', NEW c \in Backends, NEW d \in Backends,
             Precedes(c, d)'
      PROVE  /\ Cardinality(At(c, Stages)') <= Cardinality(At(d, Stages)')
             /\ Cardinality(At(d, Stages)') <= Cardinality(At(c, Stages)') + 1
  <2>1. policy = "RoundRobin" /\ NoOverrideUsed /\ BackendOverride[r] = NoBackend
    BY <1>2, <1>9 DEF NoOverrideUsed, Unrouted
  <2>2. \A e \in Backends \ {b} : Precedes(b, e)
    <3>1. \A e \in Backends : Score(r, e) = 0
      BY <2>1 DEF Score
    <3>2. QED
      BY <1>1, <2>1, <3>1 DEF Selects, Precedes
  <2>3. \A e \in Backends \ {b} :
          /\ last_selected_epoch'[e] = last_selected_epoch[e]
          /\ last_selected_epoch'[e] < last_selected_epoch'[b]
    BY <1>1, <1>2
  <2>4. \A e, f \in Backends : Precedes(e, f) =>
          /\ Cardinality(At(e, Stages)) <= Cardinality(At(f, Stages))
          /\ Cardinality(At(f, Stages)) <= Cardinality(At(e, Stages)) + 1
    BY <2>1 DEF TurnsInv
  <2>5. c # b
    <3>1. last_selected_epoch'[b] \in Nat /\ \A e \in Backends \ {b} : last_selected_epoch'[e] \in Nat
      BY <1>1, <1>2
    <3>2. b \in Int
      BY OrchestratorAssumption DEF Backends
    <3>3. QED
      BY <1>9, <2>3, <3>1, <3>2 DEF Precedes
  <2>6. CASE d = b
    BY <1>5, <1>6, <1>7, <2>2, <2>4, <2>5, <2>6
  <2>7. CASE d # b
    <3>1. Precedes(c, d)
      BY <1>9, <2>3, <2>5, <2>7 DEF Precedes
    <3>2. QED
      BY <1>5, <2>4, <2>5, <2>7, <3>1
  <2>8. QED
    BY <2>6, <2>7
<1>10. QED
  BY <1>8, <1>9 DEF TurnsInv

\* The other steps route nothing.
LEMMA OtherTurns ==
  ASSUME IInv, IInv', TurnsInv, UNCHANGED <<policy, last_selected_epoch, backend>>,
         \A r \in Requests : stage'[r] \in Unrouted <=> stage[r] \in Unrouted
  PROVE  TurnsInv'
<1>1. \A b : At(b, Stages)' = At(b, Stages)
  BY DEF At, IInv, OrchestratorTypeOK
<1>2. \A b, c : Precedes(b, c)' = Precedes(b, c)
  BY DEF Precedes
<1>3. NoOverrideUsed' = NoOverrideUsed
  BY DEF NoOverrideUsed
<1>4. QED
  BY <1>1, <1>2, <1>3 DEF TurnsInv

LEMMA StepTurns == IInv /\ IInv' /\ TurnsInv /\ [OrchestratorNext]_orchestratorVars => TurnsInv'
<1> SUFFICES ASSUME IInv, IInv', TurnsInv, [OrchestratorNext]_orchestratorVars PROVE TurnsInv'
  OBVIOUS
<1>1. ASSUME NEW q \in Requests, ReadOperationalState(q) \/ ReadCacheAffinityState(q)
      PROVE  TurnsInv'
  <2>1. /\ stage[q] \in Unrouted /\ stage' = [stage EXCEPT ![q] = "routing"]
        /\ UNCHANGED <<policy, last_selected_epoch, backend>>
    BY <1>1 DEF ReadOperationalState, ReadCacheAffinityState, MayRoute, Unrouted
  <2>2. \A r \in Requests : stage'[r] \in Unrouted <=> stage[r] \in Unrouted
    BY <2>1 DEF IInv, OrchestratorTypeOK, Unrouted
  <2>3. QED
    BY <2>1, <2>2, OtherTurns
<1>2. CASE OtherStep
  BY <1>2, OtherStepsRouteNothing, OtherTurns
<1>3. QED
  BY <1>1, <1>2, RouteTurns, StepsAre

\* Round robin spreads the requests evenly, whatever the workers do meanwhile.
THEOREM RoundRobinStaysBalanced == OrchestratorSpec => []RoundRobinIsBalanced
<1>1. IInv /\ TurnsInv => RoundRobinIsBalanced
  <2> SUFFICES ASSUME IInv, TurnsInv, policy = "RoundRobin", NoOverrideUsed,
                      NEW b \in Backends, NEW c \in Backends
               PROVE  Cardinality(At(b, Stages)) <= Cardinality(At(c, Stages)) + 1
    BY DEF RoundRobinIsBalanced, NoOverrideUsed
  <2>1. Cardinality(At(b, Stages)) \in Nat /\ Cardinality(At(c, Stages)) \in Nat
    BY AtIsASet, RequestsAreFinite
  <2>2. Precedes(b, c) \/ Precedes(c, b) \/ b = c
    <3>1. /\ last_selected_epoch[b] \in Int /\ last_selected_epoch[c] \in Int
          /\ b \in Int /\ c \in Int
      <4>1. last_selected_epoch \in [Backends -> 0 .. selection_epoch] /\ selection_epoch \in Nat
        BY DEF IInv, OrchestratorTypeOK
      <4>2. \A d \in Backends : d \in Int
        BY OrchestratorAssumption DEF Backends
      <4>3. QED
        BY <4>1, <4>2
    <3>2. QED
      BY <3>1 DEF Precedes
  <2>3. QED
    BY <2>1, <2>2 DEF TurnsInv
<1>2. QED
  BY <1>1, InitTurns, StepTurns, InvariantHolds, PTL DEF OrchestratorSpec
=============================================================================
