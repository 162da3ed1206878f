----------------------------- MODULE Scheduler -----------------------------
(***************************************************************************)
(* The scheduler of one inference backend (execution/scheduler.rs): the    *)
(* queued and active requests, admission against KV-cache page             *)
(* reservations, the choice of each batch, and the flight coordinator it   *)
(* owns.                                                                   *)
(*                                                                         *)
(* A Vec that is only pushed to at its end and removed from is a set of    *)
(* requests, and ahead[r] is the set of requests in front of r.  The queue *)
(* is sorted by a stable sort with keys that never change while a request  *)
(* is queued, so it is kept in arrival order and read in policy order.     *)
(***************************************************************************)
EXTENDS PrefixCacheFlight, FiniteSets, Totals

CONSTANTS
  InputTokenCount,        \* input -> number of tokens
  MaxNewTokenCount,       \* request -> max_new_tokens after normalization
  PageTokenCount,         \* KvCacheGeometry::page_token_count
  PageCapacity,           \* KvCacheGeometry::page_capacity()
  MaxActiveRequestCount,
  MaxBatchedTokenCount,
  SchedulingPolicy,
  NoRequest               \* None of next_round_robin_prefill_request_id

SchedulingPolicies == {"FirstComeFirstServed", "ShortestPrefillFirst", "RoundRobin"}

\* KvCacheGeometry::get_required_page_count for the longest cached sequence of r:
\* the final generated token is never appended to the cache.
MaxRequiredPageCount ==
  [r \in Requests |->
     (InputTokenCount[InputOf[r]] + MaxNewTokenCount[r] - 1 + PageTokenCount - 1)
       \div PageTokenCount]

\* normalize_generate_text_request rejects or caps every request whose cache
\* demand exceeds the capacity.
ASSUME SchedulerAssumption ==
  /\ IsFiniteSet(Requests)
  /\ InputTokenCount \in [Inputs -> Nat \ {0}]
  /\ MaxNewTokenCount \in [Requests -> Nat \ {0}]
  /\ PageTokenCount \in Nat \ {0}
  /\ PageCapacity \in Nat
  /\ MaxActiveRequestCount \in Nat \ {0}
  /\ MaxBatchedTokenCount \in Nat \ {0}
  /\ SchedulingPolicy \in SchedulingPolicies
  /\ NoRequest \notin Requests
  /\ MaxRequiredPageCount \in [Requests -> 0 .. PageCapacity]

VARIABLES
  queued_requests,   \* members of the Vec of queued requests
  active_requests,   \* members of the Vec of active requests
  ahead,             \* request -> the requests in front of it in its Vec
  blocked_requests,  \* is_blocked: followers that must not be admitted
  phase,             \* SchedulingPhase of a queued or active request
  remaining,         \* remaining_token_count of its prefill; 0 in decode
  generated,         \* generated_token_count
  next_round_robin_prefill_request_id,
  publishing,        \* leaders told to publish their prefix, not released yet
  leaving            \* out of both lists, termination not reported yet

requestVars == <<queued_requests, active_requests, ahead, phase, remaining, generated>>
callerVars == <<publishing, leaving>>
schedulerVars == <<flightVars, requestVars, blocked_requests,
                   next_round_robin_prefill_request_id, callerVars>>

HasCoordinator == CoordinationPolicy # "Independent"

SchedulerTypeOK ==
  /\ FlightTypeOK
  /\ queued_requests \subseteq Requests
  /\ active_requests \subseteq Requests
  /\ ahead \in [Requests -> SUBSET Requests]
  /\ blocked_requests \subseteq Requests
  /\ phase \in [Requests -> {"prefill", "decode"}]
  /\ remaining \in [Requests -> Nat]
  /\ generated \in [Requests -> Nat]
  /\ next_round_robin_prefill_request_id \in Requests \cup {NoRequest}
  /\ publishing \subseteq Requests
  /\ leaving \subseteq Requests
  /\ \A r \in queued_requests : phase[r] = "prefill"

SchedulerInit ==
  /\ FlightInit
  /\ queued_requests = {}
  /\ active_requests = {}
  /\ ahead = [r \in Requests |-> {}]
  /\ blocked_requests = {}
  /\ phase = [r \in Requests |-> "prefill"]
  /\ remaining = [r \in Requests |-> 0]
  /\ generated = [r \in Requests |-> 0]
  /\ next_round_robin_prefill_request_id = NoRequest
  /\ publishing = {}
  /\ leaving = {}

-----------------------------------------------------------------------------
(* Order *)

Least(m, n) == IF m <= n THEN m ELSE n

\* compare_prefills: whether queued request q is considered before r.
QueuedBefore(q, r) ==
  IF SchedulingPolicy = "ShortestPrefillFirst"
  THEN remaining[q] < remaining[r] \/ (remaining[q] = remaining[r] /\ q \in ahead[r])
  ELSE q \in ahead[r]

ActiveIn(p) == {r \in active_requests : phase[r] = p}

\* order_prefills: a round-robin cursor that still is an active prefill is
\* rotated to the front.
IsRotatedToFront(r) ==
  LET cursor == next_round_robin_prefill_request_id IN
  cursor \notin ActiveIn("prefill") \/ r = cursor \/ cursor \in ahead[r]

PrefillBefore(q, r) ==
  CASE SchedulingPolicy = "FirstComeFirstServed" -> q \in ahead[r]
    [] SchedulingPolicy = "ShortestPrefillFirst" ->
         remaining[q] < remaining[r] \/ (remaining[q] = remaining[r] /\ q \in ahead[r])
    [] SchedulingPolicy = "RoundRobin" ->
         IF IsRotatedToFront(q) = IsRotatedToFront(r)
         THEN q \in ahead[r]
         ELSE IsRotatedToFront(q)

IsFirst(r, S) == r \in S /\ \A q \in S \ {r} : PrefillBefore(r, q)

-----------------------------------------------------------------------------
(* enqueue_request *)

EnqueueRequest(r) ==
  /\ r \notin queued_requests \cup active_requests \cup leaving
  /\ IF HasCoordinator THEN AddRequest(r) ELSE UNCHANGED flightVars
  /\ queued_requests' = queued_requests \cup {r}
  /\ ahead' = [ahead EXCEPT ![r] = queued_requests]
  /\ phase' = [phase EXCEPT ![r] = "prefill"]
  /\ remaining' = [remaining EXCEPT ![r] = InputTokenCount[InputOf[r]]]
  /\ generated' = [generated EXCEPT ![r] = 0]
  /\ blocked_requests' =
       IF HasCoordinator /\ JoinsFlight(r)
       THEN blocked_requests \cup {r}
       ELSE blocked_requests
  /\ UNCHANGED <<active_requests, next_round_robin_prefill_request_id, callerVars>>

-----------------------------------------------------------------------------
(* admit_queued_requests *)

Runnable == queued_requests \ blocked_requests

\* get_unreserved_cache_page_count; the subtraction saturates.
UnreservedPageCount ==
  LET reserved == Total(MaxRequiredPageCount, active_requests)
  IN  IF reserved <= PageCapacity THEN PageCapacity - reserved ELSE 0

\* Mutant: each candidate is compared with the pages free before the call.
CanAdmitEach(A) ==
  /\ Cardinality(active_requests \cup A) <= MaxActiveRequestCount
  /\ \A r \in A : MaxRequiredPageCount[r] <= UnreservedPageCount

\* Whether the loop can have admitted all of A.
CanAdmit(A) ==
  \/ A = {}
  \/ /\ Cardinality(active_requests \cup A) <= MaxActiveRequestCount
     /\ Total(MaxRequiredPageCount, A) <= UnreservedPageCount

\* Blocked requests are skipped, runnable ones are admitted in policy order, and
\* the first one that does not fit ends the loop.
IsAdmission(A) ==
  /\ CanAdmit(A)
  /\ \A r \in Runnable :
       (\A q \in Runnable : QueuedBefore(q, r) => q \in A)
         => (r \in A <=> CanAdmit(A \cup {r}))
  /\ \A r \in A, q \in Runnable : QueuedBefore(q, r) => q \in A

Admit(A) ==
  /\ queued_requests' = queued_requests \ A
  /\ active_requests' = active_requests \cup A
  /\ ahead' = [r \in Requests |->
                 IF r \in A THEN active_requests \cup {q \in A : QueuedBefore(q, r)}
                            ELSE ahead[r] \ A]

AdmitQueuedRequests ==
  /\ \E A \in SUBSET Runnable : IsAdmission(A) /\ Admit(A)
  /\ UNCHANGED <<flightVars, blocked_requests, phase, remaining, generated,
                 next_round_robin_prefill_request_id, callerVars>>

-----------------------------------------------------------------------------
(* update_request_phase and remove_active_request *)

\* active_requests.remove; the removed metadata is dropped.
RemoveActive(r) ==
  /\ r \in active_requests
  /\ active_requests' = active_requests \ {r}
  /\ ahead' = [q \in Requests |-> IF q = r THEN {} ELSE ahead[q] \ {r}]
  /\ phase' = [phase EXCEPT ![r] = "prefill"]
  /\ remaining' = [remaining EXCEPT ![r] = 0]
  /\ generated' = [generated EXCEPT ![r] = 0]
  /\ UNCHANGED queued_requests

\* Prefill { n } for a request that is prefilling.
UpdatePrefill(r, n) ==
  /\ r \in active_requests /\ phase[r] = "prefill"
  /\ remaining' = [remaining EXCEPT ![r] = n]
  /\ UNCHANGED <<queued_requests, active_requests, ahead, phase, generated>>

\* Mutant: queued requests are found too.
UpdateDecodeAnywhere(r, n) ==
  /\ r \in active_requests \cup queued_requests
  /\ phase' = [phase EXCEPT ![r] = "decode"]
  /\ remaining' = [remaining EXCEPT ![r] = 0]
  /\ generated' = [generated EXCEPT ![r] = n]
  /\ UNCHANGED <<queued_requests, active_requests, ahead>>

\* Decode { n }; a leader of a flight that waits for publication must publish.
UpdateDecode(r, n) ==
  /\ r \in active_requests
  /\ phase' = [phase EXCEPT ![r] = "decode"]
  /\ remaining' = [remaining EXCEPT ![r] = 0]
  /\ generated' = [generated EXCEPT ![r] = n]
  /\ UNCHANGED <<queued_requests, active_requests, ahead>>

\* The value update_request_phase returns with Decode.
PublicationIsRequired(r) == phase[r] = "prefill" /\ RequiresPrefixPublication(r)

-----------------------------------------------------------------------------
(* Terminations and releases *)

\* Mutant: is_blocked is not cleared.
UnblockNobody(R) ==
  /\ R \subseteq queued_requests \cap blocked_requests
  /\ UNCHANGED blocked_requests

\* unblock_requests: every ID must belong to a blocked queued request.
UnblockRequests(R) ==
  /\ R \subseteq queued_requests \cap blocked_requests
  /\ blocked_requests' = blocked_requests \ R

\* Mutant: a leader without followers is not reported to the coordinator.
CompleteRequestWithFollowers(r) ==
  IF HasCoordinator /\ RunnableAfterCompletion(r) # {}
  THEN RemoveCompleted(r) /\ UnblockRequests(RunnableAfterCompletion(r))
  ELSE UNCHANGED <<flightVars, blocked_requests>>

CompleteRequest(r) ==
  IF HasCoordinator
  THEN RemoveCompleted(r) /\ UnblockRequests(RunnableAfterCompletion(r))
  ELSE UNCHANGED <<flightVars, blocked_requests>>

AbortRequest(r) ==
  IF HasCoordinator
  THEN RemoveAborted(r) /\ UnblockRequests(RunnableAfterAbort(r))
  ELSE UNCHANGED <<flightVars, blocked_requests>>

ReleasePrefixFlight(r) ==
  IF HasCoordinator
  THEN ReleaseAfterPrefixPublication(r) /\ UnblockRequests(RunnableAfterPublication(r))
  ELSE UNCHANGED <<flightVars, blocked_requests>>

-----------------------------------------------------------------------------
(* create_scheduling_decision *)

\* schedule_decodes: one token each, in active order, while the budget lasts.
ScheduledDecodes ==
  {r \in ActiveIn("decode") :
     Cardinality({q \in ActiveIn("decode") : q \in ahead[r]}) < MaxBatchedTokenCount}

\* Mutant: the decodes do not use the budget.
PrefillTokenBudgetOfAll == MaxBatchedTokenCount

PrefillTokenBudget == MaxBatchedTokenCount - Cardinality(ScheduledDecodes)

\* schedule_prefills: what the prefills before r leave of the budget.
PrefillShare(r) ==
  LET taken == Total(remaining, {q \in ActiveIn("prefill") : PrefillBefore(q, r)}) IN
  IF taken < PrefillTokenBudget THEN Least(remaining[r], PrefillTokenBudget - taken) ELSE 0

ScheduledPrefills == {r \in ActiveIn("prefill") : PrefillShare(r) > 0}

\* The batch: request -> token_budget, 0 for a request that is not scheduled.
SchedulingDecision ==
  [r \in Requests |->
     IF r \in ScheduledDecodes THEN 1
     ELSE IF r \in ActiveIn("prefill") THEN PrefillShare(r)
     ELSE 0]

\* update_round_robin_prefill_cursor: the prefill after the last scheduled one.
UpdateRoundRobinCursor ==
  LET prefills == ActiveIn("prefill")
      later == {q \in prefills : \A r \in ScheduledPrefills : PrefillBefore(r, q)}
      cursor == next_round_robin_prefill_request_id
  IN  \/ /\ SchedulingPolicy # "RoundRobin" \/ (prefills # {} /\ ScheduledPrefills = {})
         /\ cursor' = cursor
      \/ /\ SchedulingPolicy = "RoundRobin"
         /\ prefills = {}
         /\ cursor' = NoRequest
      \/ /\ SchedulingPolicy = "RoundRobin"
         /\ ScheduledPrefills # {}
         /\ \E r \in prefills :
              /\ IsFirst(r, IF later = {} THEN prefills ELSE later)
              /\ cursor' = r

CreateSchedulingDecision ==
  /\ UpdateRoundRobinCursor
  /\ UNCHANGED <<flightVars, requestVars, blocked_requests, callerVars>>

-----------------------------------------------------------------------------
(* The caller: any order of calls in which a request reports a phase while   *)
(* it is active and its termination once it is not.                          *)

CallUpdatePrefill(r, n) ==
  /\ n \in 1 .. remaining[r]
  /\ UpdatePrefill(r, n)
  /\ UNCHANGED <<flightVars, blocked_requests, next_round_robin_prefill_request_id,
                 callerVars>>

CallUpdateDecode(r, n) ==
  /\ n \in generated[r] .. MaxNewTokenCount[r]
  /\ UpdateDecode(r, n)
  /\ publishing' = IF PublicationIsRequired(r) THEN publishing \cup {r} ELSE publishing
  /\ UNCHANGED <<flightVars, blocked_requests, next_round_robin_prefill_request_id, leaving>>

CallReleasePrefixFlight(r) ==
  /\ r \in publishing
  /\ ReleasePrefixFlight(r)
  /\ publishing' = publishing \ {r}
  /\ UNCHANGED <<requestVars, next_round_robin_prefill_request_id, leaving>>

\* Finished in update_request_phase, or remove_active_request.
CallRemoveActive(r) ==
  /\ RemoveActive(r)
  /\ leaving' = leaving \cup {r}
  /\ publishing' = publishing \ {r}
  /\ UNCHANGED <<flightVars, blocked_requests, next_round_robin_prefill_request_id>>

CallComplete(r) ==
  /\ r \in leaving
  /\ CompleteRequest(r)
  /\ leaving' = leaving \ {r}
  /\ UNCHANGED <<requestVars, next_round_robin_prefill_request_id, publishing>>

CallAbort(r) ==
  /\ r \in leaving
  /\ AbortRequest(r)
  /\ leaving' = leaving \ {r}
  /\ UNCHANGED <<requestVars, next_round_robin_prefill_request_id, publishing>>

SchedulerNext ==
  \/ AdmitQueuedRequests
  \/ CreateSchedulingDecision
  \/ \E r \in Requests :
       \/ EnqueueRequest(r)
       \/ \E n \in 1 .. remaining[r] : CallUpdatePrefill(r, n)
       \/ \E n \in generated[r] .. MaxNewTokenCount[r] : CallUpdateDecode(r, n)
       \/ CallReleasePrefixFlight(r)
       \/ CallRemoveActive(r)
       \/ CallComplete(r)
       \/ CallAbort(r)

SchedulerSpec == SchedulerInit /\ [][SchedulerNext]_schedulerVars

-----------------------------------------------------------------------------
(* Properties *)

\* The pages and slots reserved by the active requests fit: admission compares a
\* candidate with what all active requests may still grow to, so every one of
\* them can reach its output limit without preemption.
ReservationsFit ==
  /\ Total(MaxRequiredPageCount, active_requests) <= PageCapacity
  /\ Cardinality(active_requests) <= MaxActiveRequestCount

\* is_blocked and the flights agree: the blocked requests are exactly the
\* followers, and all of them are queued.  So unblock_requests finds every ID it
\* is given queued and blocked, and no request stays blocked without a flight.
BlockedAreFollowers ==
  /\ blocked_requests \subseteq queued_requests
  /\ \A r \in Requests : r \in blocked_requests <=> IsFollower(r)

\* No lost wakeup: whoever leads a flight can be admitted, is active, or is about
\* to report its termination, which releases or promotes its followers.
LeadersMakeProgress ==
  \A f \in DOMAIN flights :
    flights[f].leader \in Runnable \cup active_requests \cup leaving

\* The coordinator tracks exactly the requests the scheduler knows.
TrackedRequests ==
  \A r \in Requests : IsRegistered(r) =>
    r \in queued_requests \cup active_requests \cup leaving

\* A batch never exceeds the budget and leaves none of it unused while an active
\* request has work: every policy order yields the same total.
BatchFillsBudget ==
  Total(SchedulingDecision, Requests) =
    Least(MaxBatchedTokenCount,
          Cardinality(ActiveIn("decode")) + Total(remaining, ActiveIn("prefill")))
=============================================================================
