------------------------ MODULE RequestOrchestrator ------------------------
(***************************************************************************)
(* Routing between backends (routing/request_orchestrator.rs and           *)
(* routing_policy.rs): the loads reserved for requests that no worker has  *)
(* reported yet, the operational states the workers publish, and the       *)
(* choice of a backend from both.                                          *)
(*                                                                         *)
(* A handler holds the routing lock from its first read of a published     *)
(* state to its choice; every release of a reservation waits for the lock. *)
(* The end of a request is published without it, so it may come between    *)
(* two reads. A worker changes its scheduler and publishes the change in   *)
(* two steps.                                                              *)
(***************************************************************************)
EXTENDS Integers, Sequences, Totals

CONSTANTS
  Requests,
  BackendCount,
  InputTokenCount,      \* request -> input_token_count
  MaxNewTokenCount,     \* request -> max_new_token_count
  CachedTokenCount,     \* request -> length of its prefix when a snapshot has it
  BackendOverride,      \* request -> benchmark backend, or NoBackend
  NoBackend,
  Profiles,             \* sequence of throughput profiles
  NanosecondsPerSecond,
  MessageCapacity,      \* capacity of a worker's channel
  Policies              \* the routing policies a server may be started with

Backends == 1 .. BackendCount

\* A profile: the measured workload, and the rates of each backend's device.
ProfileType ==
  [input : Nat, output : Nat,
   prefill : [Backends -> Nat \ {0}], decode : [Backends -> Nat \ {0}]]

ASSUME OrchestratorAssumption ==
  /\ IsFiniteSet(Requests)
  /\ BackendCount \in Nat \ {0}
  /\ InputTokenCount \in [Requests -> Nat \ {0}]
  /\ MaxNewTokenCount \in [Requests -> Nat \ {0}]
  /\ CachedTokenCount \in [Requests -> Nat]
  /\ \A r \in Requests : CachedTokenCount[r] < InputTokenCount[r]
  /\ NoBackend \notin Backends
  /\ BackendOverride \in [Requests -> Backends \cup {NoBackend}]
  /\ Profiles \in Seq(ProfileType) /\ Profiles # <<>>
  /\ NanosecondsPerSecond \in Nat \ {0}
  /\ MessageCapacity \in Nat \ {0}
  /\ Policies \subseteq {"RoundRobin", "LeastRequests", "LeastEstimatedWork",
                         "MostCachedPrefix", "CacheAwareLeastEstimatedWork"}

VARIABLES
  policy,                \* the server's routing policy
  selection_epoch,
  last_selected_epoch,   \* backend -> epoch of its last selection
  load_reads,            \* the loads that the decision under way has read, by backend
  cache_reads,           \* the cached prefixes that it has found, by backend
  outstanding_at_read,   \* history: the outstanding requests at each read of a load
  reserved_load,         \* backend -> BackendReservedLoad
  operational_state,     \* backend -> the published OperationalState
  cache_affinity_state,  \* backend -> requests whose prefix is in the snapshot
  messages,              \* backend -> requests in its channel
  stage,                 \* where each request is
  backend,               \* the backend a request is routed to
  cached_estimate,       \* request -> estimated_cached_prefix_token_count
  prefill,               \* request -> remaining prefill tokens
  output,                \* request -> remaining output tokens
  stopped                \* backends whose thread is gone

decisionVars == <<policy, selection_epoch, last_selected_epoch, load_reads, cache_reads,
                  outstanding_at_read>>
routingVars == <<decisionVars, reserved_load>>
publishedVars == <<operational_state, cache_affinity_state>>
workVars == <<cached_estimate, prefill, output>>
orchestratorVars ==
  <<routingVars, publishedVars, messages, stage, backend, workVars, stopped>>

\* A request being routed has its handler hold the routing lock. Routed and sent
\* requests hold their reservation in the handler and in the channel, enqueued ones
\* in the worker until it has published them or failed to add them.
Unrouted == {"new", "routing"}
Stages == Unrouted \cup {"routed", "sent", "enqueued", "queued", "active", "removed", "gone"}

LockIsFree == \A r \in Requests : stage[r] # "routing"

At(b, stages) == {r \in Requests : backend[r] = b /\ stage[r] \in stages}

HoldingReservation(b) == At(b, {"routed", "sent", "enqueued"})

\* The worker is not between a change of its scheduler and its publication.
BetweenCalls(b) == b \notin stopped /\ At(b, {"enqueued", "removed"}) = {}

-----------------------------------------------------------------------------
(* Loads *)

NoLoad == [requests |-> 0, prefill |-> 0, cached |-> 0, output |-> 0]

\* Mutant: the cached prefix is taken off the prefill tokens at once.
UncachedLoadOf(r, cached) ==
  [requests |-> 1, prefill |-> InputTokenCount[r] - cached, cached |-> cached,
   output |-> MaxNewTokenCount[r]]

\* BackendReservedLoad::new
LoadOf(r, cached) ==
  [requests |-> 1, prefill |-> InputTokenCount[r],
   cached |-> IF cached <= InputTokenCount[r] THEN cached ELSE InputTokenCount[r],
   output |-> MaxNewTokenCount[r]]

Plus(load, other) == [f \in DOMAIN load |-> load[f] + other[f]]

\* checked_sub: the result must not be negative.
Minus(load, other) == [f \in DOMAIN load |-> load[f] - other[f]]

\* Mutant: the estimate is made again when the reservation is released.
ReestimatedFor(r) == LoadOf(r, CachedTokenCount[r])

\* The load a reservation keeps until it is released.
ReservedFor(r) == LoadOf(r, cached_estimate[r])

\* create_load_snapshot, with the given queued and active requests.
Snapshot(queued, active) ==
  [queued |-> Cardinality(queued), active |-> Cardinality(active),
   queued_prefill |-> Total(prefill, queued),
   queued_cached |-> Total(cached_estimate, queued),
   queued_output |-> Total(output, queued),
   active_prefill |-> Total(prefill, active),
   active_output |-> Total(output, active)]

\* with_reserved_load
Seen(b) ==
  LET state == operational_state[b]
      load == reserved_load[b]
  IN  [state EXCEPT !.queued = @ + load.requests,
                    !.queued_prefill = @ + load.prefill,
                    !.queued_cached = @ + load.cached,
                    !.queued_output = @ + load.output]

RequestCount(state) == state.queued + state.active
PrefillTokens(state) == state.queued_prefill + state.active_prefill
OutputTokens(state) == state.queued_output + state.active_output

-----------------------------------------------------------------------------
(* Scores *)

Distance(m, n) == IF m <= n THEN n - m ELSE m - n
SaturatingSub(m, n) == IF n <= m THEN m - n ELSE 0

\* estimate_throughput: the closest profile, the first one of equals.
ProfileDistance(p, r) ==
  Distance(p.input, InputTokenCount[r]) + Distance(p.output, MaxNewTokenCount[r])

ClosestProfile(r) ==
  Profiles[CHOOSE i \in DOMAIN Profiles : \A j \in DOMAIN Profiles :
             \/ ProfileDistance(Profiles[i], r) < ProfileDistance(Profiles[j], r)
             \/ /\ ProfileDistance(Profiles[i], r) = ProfileDistance(Profiles[j], r)
                /\ i <= j]

CachedEstimate(r, b) == IF r \in cache_affinity_state[b] THEN CachedTokenCount[r] ELSE 0

\* EstimatedTokenWork::estimate_duration
EstimatedDuration(r, b, prefillTokens, outputTokens) ==
  LET profile == ClosestProfile(r) IN
  (prefillTokens * NanosecondsPerSecond) \div profile.prefill[b]
    + (outputTokens * NanosecondsPerSecond) \div profile.decode[b]

LoadPolicies == {"LeastRequests", "LeastEstimatedWork", "CacheAwareLeastEstimatedWork"}
CachePolicies == {"MostCachedPrefix", "CacheAwareLeastEstimatedWork"}

\* Smaller is better; Reverse of a prefix length is its negation.
Score(r, b) ==
  CASE policy = "RoundRobin" -> 0
    [] policy = "LeastRequests" -> RequestCount(load_reads[b])
    [] policy = "LeastEstimatedWork" ->
         EstimatedDuration(r, b, PrefillTokens(load_reads[b]) + InputTokenCount[r],
                           OutputTokens(load_reads[b]) + MaxNewTokenCount[r])
    [] policy = "MostCachedPrefix" -> -cache_reads[b]
    [] policy = "CacheAwareLeastEstimatedWork" ->
         EstimatedDuration(r, b,
           SaturatingSub(load_reads[b].queued_prefill, load_reads[b].queued_cached)
             + load_reads[b].active_prefill + InputTokenCount[r] - cache_reads[b],
           OutputTokens(load_reads[b]) + MaxNewTokenCount[r])

\* Load-only policies estimate no cached prefix.
EstimatedCachedPrefix(b) == IF policy \in CachePolicies THEN cache_reads[b] ELSE 0

\* Mutant: equal scores always take the first backend.
SelectFirst(r, b) ==
  IF BackendOverride[r] # NoBackend THEN b = BackendOverride[r]
  ELSE \A c \in Backends \ {b} :
         Score(r, b) < Score(r, c) \/ (Score(r, b) = Score(r, c) /\ b < c)

\* route_by_score: equal scores take the least recently selected backend, then the
\* first one; a valid override takes its backend.
Selects(r, b) ==
  IF BackendOverride[r] # NoBackend THEN b = BackendOverride[r]
  ELSE \A c \in Backends \ {b} :
         \/ Score(r, b) < Score(r, c)
         \/ /\ Score(r, b) = Score(r, c)
            /\ \/ last_selected_epoch[b] < last_selected_epoch[c]
               \/ last_selected_epoch[b] = last_selected_epoch[c] /\ b < c

-----------------------------------------------------------------------------
(* States *)

OperationalStateType ==
  [queued : Nat, active : Nat, queued_prefill : Nat, queued_cached : Nat,
   queued_output : Nat, active_prefill : Nat, active_output : Nat]

ReadsTypeOK ==
  /\ load_reads \in Seq(OperationalStateType) /\ Len(load_reads) <= BackendCount
  /\ cache_reads \in Seq(Nat) /\ Len(cache_reads) <= BackendCount
  /\ outstanding_at_read \in Seq(SUBSET Requests)
  /\ Len(outstanding_at_read) = Len(load_reads)

OrchestratorTypeOK ==
  /\ policy \in Policies
  /\ selection_epoch \in Nat
  /\ last_selected_epoch \in [Backends -> 0 .. selection_epoch]
  /\ ReadsTypeOK
  /\ reserved_load \in
       [Backends -> [requests : Nat, prefill : Nat, cached : Nat, output : Nat]]
  /\ operational_state \in [Backends -> OperationalStateType]
  /\ cache_affinity_state \in [Backends -> SUBSET Requests]
  /\ messages \in [Backends -> Seq(Requests)]
  /\ \A b \in Backends : Len(messages[b]) <= MessageCapacity
  /\ stage \in [Requests -> Stages]
  /\ backend \in [Requests -> Backends \cup {NoBackend}]
  /\ cached_estimate \in [Requests -> Nat]
  /\ prefill \in [Requests -> Nat]
  /\ output \in [Requests -> Nat]
  /\ stopped \subseteq Backends

OrchestratorInit ==
  /\ policy \in Policies
  /\ selection_epoch = 0
  /\ last_selected_epoch = [b \in Backends |-> 0]
  /\ load_reads = <<>> /\ cache_reads = <<>> /\ outstanding_at_read = <<>>
  /\ reserved_load = [b \in Backends |-> NoLoad]
  /\ prefill = InputTokenCount
  /\ output = MaxNewTokenCount
  /\ cached_estimate = [r \in Requests |-> 0]
  /\ operational_state = [b \in Backends |-> Snapshot({}, {})]
  /\ cache_affinity_state = [b \in Backends |-> {}]
  /\ messages = [b \in Backends |-> <<>>]
  /\ stage = [r \in Requests |-> "new"]
  /\ backend = [r \in Requests |-> NoBackend]
  /\ stopped = {}

-----------------------------------------------------------------------------
(* RPC handlers *)

Outstanding(b) == At(b, Stages \ (Unrouted \cup {"gone"}))

\* The handler of r has the routing lock, or can take it now.
MayRoute(r) ==
  \/ stage[r] = "routing"
  \/ stage[r] = "new" /\ LockIsFree

\* route_by_score scores one backend after the other. Each borrow of a published
\* state is a step, and the backend's cache comes after its load.
ReadOperationalState(r) ==
  LET b == Len(load_reads) + 1 IN
  /\ MayRoute(r)
  /\ policy \in LoadPolicies /\ b \in Backends
  /\ policy \in CachePolicies => Len(cache_reads) = Len(load_reads)
  /\ load_reads' = Append(load_reads, Seen(b))
  /\ outstanding_at_read' = Append(outstanding_at_read, Outstanding(b))
  /\ stage' = [stage EXCEPT ![r] = "routing"]
  /\ UNCHANGED <<policy, selection_epoch, last_selected_epoch, cache_reads, reserved_load,
                 publishedVars, messages, backend, workVars, stopped>>

ReadCacheAffinityState(r) ==
  LET b == Len(cache_reads) + 1 IN
  /\ MayRoute(r)
  /\ policy \in CachePolicies /\ b \in Backends
  /\ policy \in LoadPolicies => b = Len(load_reads)
  /\ cache_reads' = Append(cache_reads, CachedEstimate(r, b))
  /\ stage' = [stage EXCEPT ![r] = "routing"]
  /\ UNCHANGED <<policy, selection_epoch, last_selected_epoch, load_reads,
                 outstanding_at_read, reserved_load, publishedVars, messages, backend,
                 workVars, stopped>>

\* Every candidate has its score: the backend is selected, the load reserved and the
\* lock released.
Route(r) ==
  /\ MayRoute(r)
  /\ policy \in LoadPolicies => Len(load_reads) = BackendCount
  /\ policy \in CachePolicies => Len(cache_reads) = BackendCount
  /\ \E b \in Backends :
       LET load == LoadOf(r, EstimatedCachedPrefix(b)) IN
       /\ Selects(r, b)
       /\ selection_epoch' = selection_epoch + 1
       /\ last_selected_epoch' = [last_selected_epoch EXCEPT ![b] = selection_epoch']
       /\ cached_estimate' = [cached_estimate EXCEPT ![r] = load.cached]
       /\ reserved_load' = [reserved_load EXCEPT ![b] = Plus(@, load)]
       /\ backend' = [backend EXCEPT ![r] = b]
  /\ stage' = [stage EXCEPT ![r] = "routed"]
  /\ load_reads' = <<>> /\ cache_reads' = <<>> /\ outstanding_at_read' = <<>>
  /\ UNCHANGED <<policy, publishedVars, messages, prefill, output, stopped>>

Send(r) ==
  LET b == backend[r] IN
  /\ stage[r] = "routed" /\ b \notin stopped
  /\ Len(messages[b]) < MessageCapacity
  /\ messages' = [messages EXCEPT ![b] = Append(@, r)]
  /\ stage' = [stage EXCEPT ![r] = "sent"]
  /\ UNCHANGED <<routingVars, publishedVars, backend, workVars, stopped>>

\* Mutant: the dropped reservation is not released.
DropWithoutRelease(r) ==
  /\ LockIsFree
  /\ stage' = [stage EXCEPT ![r] = "gone"]
  /\ UNCHANGED reserved_load

\* RoutingReservation::drop, under the lock.
DropReservation(r) ==
  /\ LockIsFree
  /\ stage' = [stage EXCEPT ![r] = "gone"]
  /\ reserved_load' = [reserved_load EXCEPT ![backend[r]] = Minus(@, ReservedFor(r))]

\* The RPC is cancelled while it waits for queue space, or the send fails.
Abandon(r) ==
  /\ stage[r] = "routed"
  /\ DropReservation(r)
  /\ UNCHANGED <<decisionVars, publishedVars, messages, backend, workVars, stopped>>

-----------------------------------------------------------------------------
(* Workers *)

\* The worker takes a message; add_request and the scheduler's enqueue_request run,
\* and nothing is published yet.
Enqueue(b) ==
  /\ BetweenCalls(b) /\ messages[b] # <<>>
  /\ messages' = [messages EXCEPT ![b] = Tail(@)]
  /\ stage' = [stage EXCEPT ![Head(messages[b])] = "enqueued"]
  /\ UNCHANGED <<routingVars, publishedVars, backend, workVars, stopped>>

\* add_request failed: enqueue_request returns early and drops the request and its
\* reservation.
FailToEnqueue(r) ==
  /\ stage[r] = "enqueued"
  /\ DropReservation(r)
  /\ UNCHANGED <<decisionVars, publishedVars, messages, backend, workVars, stopped>>

\* Mutant: the reservation is kept.
ReleaseNothing(r) ==
  LET b == backend[r] IN
  /\ stage[r] = "enqueued" /\ LockIsFree
  /\ operational_state' =
       [operational_state EXCEPT ![b] = Snapshot(At(b, {"queued", "enqueued"}), At(b, {"active"}))]
  /\ stage' = [stage EXCEPT ![r] = "queued"]
  /\ UNCHANGED <<routingVars, cache_affinity_state, messages, backend, workVars, stopped>>

\* release_after: under the lock, the load with r is published and the reservation
\* released.
ReleaseAfter(r) ==
  LET b == backend[r] IN
  /\ stage[r] = "enqueued" /\ LockIsFree
  /\ operational_state' =
       [operational_state EXCEPT ![b] = Snapshot(At(b, {"queued", "enqueued"}), At(b, {"active"}))]
  /\ reserved_load' = [reserved_load EXCEPT ![b] = Minus(@, ReservedFor(r))]
  /\ stage' = [stage EXCEPT ![r] = "queued"]
  /\ UNCHANGED <<decisionVars, cache_affinity_state, messages, backend, workVars, stopped>>

\* The scheduler admits r and runs it: its remaining work shrinks unpublished.
Advance(r) ==
  /\ stage[r] \in {"queued", "active"} /\ BetweenCalls(backend[r])
  /\ stage' = [stage EXCEPT ![r] = "active"]
  /\ \E p \in 0 .. prefill[r], n \in 1 .. output[r] :
       /\ p > 0 => n = output[r]
       /\ prefill' = [prefill EXCEPT ![r] = p]
       /\ output' = [output EXCEPT ![r] = n]
  /\ UNCHANGED <<routingVars, publishedVars, messages, backend, cached_estimate, stopped>>

\* r finishes or is aborted: the scheduler drops it.
Remove(r) ==
  /\ stage[r] = "active" /\ BetweenCalls(backend[r])
  /\ stage' = [stage EXCEPT ![r] = "removed"]
  /\ UNCHANGED <<routingVars, publishedVars, messages, backend, workVars, stopped>>

\* Mutant: the state is created before r is removed.
PublishStale(r) ==
  LET b == backend[r] IN
  /\ stage[r] = "removed"
  /\ operational_state' =
       [operational_state EXCEPT ![b] = Snapshot(At(b, {"queued"}), At(b, {"active", "removed"}))]
  /\ stage' = [stage EXCEPT ![r] = "gone"]
  /\ UNCHANGED <<routingVars, cache_affinity_state, messages, backend, workVars, stopped>>

\* publish_operational_state at the end of a request, without the routing lock.
PublishOperationalState(r) ==
  LET b == backend[r] IN
  /\ stage[r] = "removed"
  /\ operational_state' =
       [operational_state EXCEPT ![b] = Snapshot(At(b, {"queued"}), At(b, {"active"}))]
  /\ stage' = [stage EXCEPT ![r] = "gone"]
  /\ UNCHANGED <<routingVars, cache_affinity_state, messages, backend, workVars, stopped>>

\* publish_cache_affinity_state: pages are indexed and evicted in between.
PublishCacheAffinityState(b) ==
  /\ BetweenCalls(b)
  /\ \E indexed \in SUBSET {r \in Requests : CachedTokenCount[r] > 0} :
       cache_affinity_state' = [cache_affinity_state EXCEPT ![b] = indexed]
  /\ UNCHANGED <<routingVars, operational_state, messages, stage, backend, workVars, stopped>>

\* The thread ends with requests left. Its last operational state stays published.
StopWorker(b) ==
  /\ BetweenCalls(b)
  /\ stopped' = stopped \cup {b}
  /\ stage' = [r \in Requests |-> IF r \in At(b, {"queued", "active"}) THEN "gone" ELSE stage[r]]
  /\ UNCHANGED <<routingVars, publishedVars, messages, backend, workVars>>

\* Its channel is dropped with it, message by message, each with its reservation.
DropMessage(b) ==
  /\ b \in stopped /\ messages[b] # <<>>
  /\ messages' = [messages EXCEPT ![b] = Tail(@)]
  /\ DropReservation(Head(messages[b]))
  /\ UNCHANGED <<decisionVars, publishedVars, backend, workVars, stopped>>

-----------------------------------------------------------------------------

OrchestratorNext ==
  \/ \E r \in Requests :
       \/ ReadOperationalState(r)
       \/ ReadCacheAffinityState(r)
       \/ Route(r)
       \/ Send(r)
       \/ Abandon(r)
       \/ FailToEnqueue(r)
       \/ ReleaseAfter(r)
       \/ Advance(r)
       \/ Remove(r)
       \/ PublishOperationalState(r)
  \/ \E b \in Backends :
       \/ Enqueue(b)
       \/ PublishCacheAffinityState(b)
       \/ StopWorker(b)
       \/ DropMessage(b)

OrchestratorSpec == OrchestratorInit /\ [][OrchestratorNext]_orchestratorVars

-----------------------------------------------------------------------------
(* Properties *)

\* The state is well typed, and a backend's reserved load is the load of exactly the
\* reservations that are held for it, whoever drops them: checked_sub never underflows
\* and nothing is leaked.
ReservationsMatch == OrchestratorTypeOK /\
  \A b \in Backends :
    LET held == HoldingReservation(b) IN
    reserved_load[b] = [requests |-> Cardinality(held),
                        prefill |-> Total(InputTokenCount, held),
                        cached |-> Total(cached_estimate, held),
                        output |-> Total(MaxNewTokenCount, held)]

\* Routing "sees either the reservation or the published load, not both or neither":
\* at every moment each outstanding request of a running backend is counted once.
CountedOnce ==
  \A b \in Backends \ stopped : RequestCount(Seen(b)) = Cardinality(Outstanding(b))

\* Between publications the published load is old, but it never hides work: what a
\* router sees is at least what the backend has left to do.
WorkIsNeverUnderestimated ==
  \A b \in Backends \ stopped :
    LET pending == Outstanding(b) \ At(b, {"removed"}) IN
    /\ PrefillTokens(Seen(b)) >= Total(prefill, pending)
    /\ OutputTokens(Seen(b)) >= Total(output, pending)

\* Requests that ended since the decision under way has read b's load.
EndedSinceRead(b) == {r \in outstanding_at_read[b] : stage[r] = "gone"}

\* A decision reads the backends one after the other while requests end. LeastRequests
\* still takes a backend that has, when it is taken, no more outstanding requests
\* (wherever they are: in a handler, a channel, a queue or a batch) than any other had
\* when it was read, so it can only be wrong by requests that ended in between.
LeastLoadedIsChosen ==
  [][\A r \in Requests :
       policy = "LeastRequests" /\ stage[r] \in Unrouted /\ stage'[r] = "routed"
         /\ BackendOverride[r] = NoBackend /\ backend'[r] \notin stopped =>
           \A b \in Backends \ stopped :
             Cardinality(Outstanding(backend'[r]))
               <= Cardinality(Outstanding(b) \cup EndedSinceRead(b))]_orchestratorVars

\* RoundRobin spreads the requests evenly over the backends, whatever the workers do
\* meanwhile, unless a request names its backend.
RoundRobinIsBalanced ==
  (/\ policy = "RoundRobin"
   /\ \A r \in Requests : stage[r] \notin Unrouted => BackendOverride[r] = NoBackend)
    => \A b, c \in Backends :
         Cardinality(At(b, Stages)) <= Cardinality(At(c, Stages)) + 1
=============================================================================
