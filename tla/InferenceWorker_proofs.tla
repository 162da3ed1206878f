----------------------- MODULE InferenceWorker_proofs -----------------------
(***************************************************************************)
(* The worker's invariants for every set of requests, every capacity and   *)
(* every policy.  Its calls are shown to be steps of the scheduler's own   *)
(* specification first, so that the scheduler's invariant is available;    *)
(* then the locals of the loop, the request manager, the executor and the  *)
(* clients are related to the scheduler's lists.                           *)
(***************************************************************************)
EXTENDS InferenceWorker, Scheduler_proofs

-----------------------------------------------------------------------------
(* What the worker's calls do to the scheduler's lists *)

listVars == <<queued_requests, active_requests, leaving, publishing>>

LEMMA ReportPhaseEffect ==
  ASSUME NEW r, NEW step, ReportPhase(r, step)
  PROVE  /\ r \in active_requests
         /\ UNCHANGED <<queued_requests, active_requests, leaving>>
         /\ publishing' \subseteq publishing \cup {r}
BY DEF ReportPhase, CallUpdatePrefill, CallUpdateDecode, UpdatePrefill, UpdateDecode,
       callerVars

LEMMA RemoveActiveEffect ==
  ASSUME NEW r, CallRemoveActive(r)
  PROVE  /\ r \in active_requests
         /\ queued_requests' = queued_requests
         /\ active_requests' = active_requests \ {r}
         /\ leaving' = leaving \cup {r}
         /\ publishing' = publishing \ {r}
BY DEF CallRemoveActive, RemoveActive

LEMMA TerminationEffect ==
  ASSUME NEW r, CallComplete(r) \/ CallAbort(r)
  PROVE  /\ r \in leaving
         /\ UNCHANGED <<queued_requests, active_requests, publishing>>
         /\ leaving' = leaving \ {r}
BY DEF CallComplete, CallAbort, requestVars

LEMMA ReleaseFlightEffect ==
  ASSUME NEW r, CallReleasePrefixFlight(r)
  PROVE  /\ UNCHANGED <<queued_requests, active_requests, leaving>>
         /\ publishing' = publishing \ {r}
BY DEF CallReleasePrefixFlight, requestVars

LEMMA AcceptEffect ==
  ASSUME NEW r, Accept(r)
  PROVE  /\ r \notin queued_requests \cup active_requests \cup leaving
         /\ queued_requests' = queued_requests \cup {r}
         /\ UNCHANGED <<active_requests, leaving, publishing>>
BY DEF Accept, EnqueueRequest, callerVars

LEMMA AdmissionEffect ==
  ASSUME AdmitQueuedRequests
  PROVE  \E A \in SUBSET queued_requests :
           /\ queued_requests' = queued_requests \ A
           /\ active_requests' = active_requests \cup A
           /\ UNCHANGED <<leaving, publishing>>
BY DEF AdmitQueuedRequests, Admit, Runnable, callerVars

LEMMA DecisionEffect == CreateSchedulingDecision => UNCHANGED listVars
BY DEF CreateSchedulingDecision, requestVars, callerVars, listVars

LEMMA OnlyActiveAreScheduled == ScheduledRequests \subseteq active_requests
BY DEF ScheduledRequests, SchedulingDecision, ScheduledDecodes, ActiveIn

LEMMA SameLists == UNCHANGED schedulerVars => UNCHANGED listVars
BY DEF schedulerVars, requestVars, callerVars, listVars

-----------------------------------------------------------------------------
(* The worker calls the scheduler as its specification allows *)

LEMMA SchedulerStep ==
  ASSUME messages \in Seq(Requests), [WorkerNext]_workerVars
  PROVE  [SchedulerNext]_schedulerVars
<1>1. ASSUME NEW r \in Requests, NEW step, ReportPhase(r, step) PROVE SchedulerNext
  BY <1>1 DEF ReportPhase, SchedulerNext, CallUpdatePrefill, CallUpdateDecode
<1>2. ASSUME NEW r \in Requests, CallRemoveActive(r) PROVE SchedulerNext
  BY <1>2 DEF SchedulerNext
<1>3. ASSUME NEW r \in Requests, CallComplete(r) \/ CallAbort(r) PROVE SchedulerNext
  BY <1>3 DEF SchedulerNext
<1>4. ASSUME messages # <<>>, Accept(Head(messages)) PROVE SchedulerNext
  <2>1. Head(messages) \in Requests
    BY <1>4
  <2>2. QED
    BY <1>4, <2>1 DEF Accept, SchedulerNext
<1>5. CASE ReceiveFirst \/ ReceiveMore
  BY <1>4, <1>5 DEF ReceiveFirst, ReceiveMore
<1>6. CASE AdmitRequests \/ RunBatch
  BY <1>6 DEF AdmitRequests, RunBatch, SchedulerNext
<1>7. CASE BeginIteration \/ Exit \/ EndIteration \/ StopAccepting
  BY <1>7 DEF BeginIteration, Exit, EndIteration, StopAccepting
<1>8. CASE Stopped \/ UNCHANGED workerVars
  BY <1>8 DEF Stopped, workerVars
<1>9. ASSUME NEW r \in Requests,
             SendMessage(r) \/ ReadEvent(r) \/ Disconnect(r) \/ SendToken(r)
      PROVE  UNCHANGED schedulerVars
  BY <1>9 DEF SendMessage, ReadEvent, Disconnect, SendToken
<1>10. ASSUME NEW r \in Requests, StartRequest(r) \/ ContinueRequest(r)
       PROVE  SchedulerNext
  BY <1>1, <1>10 DEF StartRequest, ContinueRequest
<1>11. ASSUME NEW r \in Requests,
              FailToStart(r) \/ FinishRequest(r) \/ AbortResult(r) \/ FailToPublish(r)
       PROVE  SchedulerNext
  BY <1>2, <1>11
     DEF FailToStart, FinishRequest, AbortResult, FailToPublish, AbortStartedRequest
<1>12. ASSUME NEW r \in Requests, PublishPrefix(r) \/ ReportOutcome(r)
       PROVE  SchedulerNext
  BY <1>3, <1>12 DEF PublishPrefix, ReportOutcome, SchedulerNext
<1>13. QED
  BY <1>5, <1>6, <1>7, <1>8, <1>9, <1>10, <1>11, <1>12 DEF WorkerNext, Run

-----------------------------------------------------------------------------
(* The invariant *)

\* Where the loop's locals and the calls it is in the middle of stand.
LoopInv ==
  /\ starting \subseteq active_requests
  /\ pc # "start" => starting = {}
  /\ publishing \subseteq active_requests \ starting
  /\ \A q \in publishing \cup leaving, r \in publishing \cup leaving : q = r
  /\ pc \in {"receive", "drain", "stopped"} => BetweenCalls
  /\ \A r \in Requests :
       steps[r] # NoStep => /\ pc = "results"
                            /\ r \in active_requests
                            /\ r \notin publishing
  /\ pc = "stopped" => IsVacant /\ messages = <<>> /\ ~accepting

InWorker(r) == r \in queued_requests \cup active_requests \cup leaving

\* Each request is sent once, and answered when the worker lets it go.
ClientsInv ==
  /\ NoDuplicates(messages)
  /\ \A r \in Requests :
       /\ r \in Elements(messages) \/ InWorker(r) =>
            clients[r] # "idle" /\ answers[r] = "none"
       /\ r \in Elements(messages) => ~InWorker(r)
       /\ clients[r] = "idle" => answers[r] = "none"
       /\ clients[r] = "connected" /\ answers[r] = "none" =>
            r \in Elements(messages) \/ InWorker(r)

\* Only a failed publication leaves the executor with state of an aborted request.
KvInv == ~PublicationMayFail => KvStateIsReleased

WorkerInv ==
  /\ SchedulerInv
  /\ WorkerTypeOK
  /\ LoopInv
  /\ LifecyclesAgree
  /\ KvInv
  /\ PublishedLoadIsExact
  /\ ClientsInv

LEMMA MessagesFacts ==
  ASSUME NEW r \in Requests, messages \in Seq(Requests)
  PROVE  /\ Append(messages, r) \in Seq(Requests)
         /\ Len(Append(messages, r)) = Len(messages) + 1
         /\ Elements(Append(messages, r)) = Elements(messages) \cup {r}
         /\ NoDuplicates(messages) /\ r \notin Elements(messages) =>
              NoDuplicates(Append(messages, r))
         /\ messages # <<>> => Len(Tail(messages)) = Len(messages) - 1
         /\ messages = <<>> => Elements(messages) = {}
         /\ Len(messages) \in Nat
<1> DEFINE longer == Append(messages, r)
<1>1. /\ longer \in Seq(Requests)
      /\ Len(longer) = Len(messages) + 1
      /\ DOMAIN longer = 1 .. Len(messages) + 1
      /\ DOMAIN messages = 1 .. Len(messages)
      /\ Len(messages) \in Nat
      /\ \A n \in 1 .. Len(messages) : longer[n] = messages[n]
      /\ longer[Len(messages) + 1] = r
  OBVIOUS
<1> HIDE DEF longer
<1>2. Elements(longer) = Elements(messages) \cup {r}
  BY <1>1 DEF Elements
<1>3. ASSUME NoDuplicates(messages), r \notin Elements(messages)
      PROVE  NoDuplicates(longer)
  BY <1>1, <1>3 DEF NoDuplicates, Elements
<1>4. /\ messages # <<>> => Len(Tail(messages)) = Len(messages) - 1
      /\ messages = <<>> => Elements(messages) = {}
  BY DEF Elements
<1>5. QED
  BY <1>1, <1>2, <1>3, <1>4 DEF longer

LEMMA InitWorkerInv == WorkerInit => WorkerInv
<1> SUFFICES ASSUME WorkerInit PROVE WorkerInv
  OBVIOUS
<1> USE DEF WorkerInit
<1>1. SchedulerInv
  BY InitSchedulerInv
<1>2. queued_requests = {} /\ active_requests = {} /\ leaving = {} /\ publishing = {}
  BY DEF SchedulerInit
<1>3. WorkerTypeOK
  BY <1>1, WorkerAssumption DEF WorkerTypeOK, SchedulerInv
<1>4. LoopInv
  BY <1>2 DEF LoopInv, BetweenCalls
<1>5. LifecyclesAgree /\ KvInv
  BY <1>2 DEF LifecyclesAgree, KvInv, KvStateIsReleased
<1>6. PublishedLoadIsExact
  BY <1>2, FS_EmptySet DEF PublishedLoadIsExact
<1>7. ClientsInv
  BY <1>2 DEF ClientsInv, NoDuplicates, Elements, InWorker
<1>8. QED
  BY <1>1, <1>3, <1>4, <1>5, <1>6, <1>7 DEF WorkerInv

-----------------------------------------------------------------------------
(* Preservation.  SchedulerInv' comes from SchedulerStep. *)

\* Every request the worker is responsible for stays counted and unanswered.
LEMMA SameRequestsInv ==
  ASSUME WorkerInv, UNCHANGED <<published_count, messages, clients, answers>>,
         queued_requests' \cup active_requests' \cup leaving' =
           queued_requests \cup active_requests \cup leaving
  PROVE  PublishedLoadIsExact' /\ ClientsInv'
<1> DEFINE mine == queued_requests \cup active_requests \cup leaving
<1>1. mine' = mine
  OBVIOUS
<1>2. PublishedLoadIsExact'
  BY DEF WorkerInv, PublishedLoadIsExact
<1>3. \A r : InWorker(r)' <=> InWorker(r)
  BY <1>1 DEF InWorker
<1>4. ClientsInv'
  BY <1>3 DEF WorkerInv, ClientsInv
<1>5. QED
  BY <1>2, <1>4

\* Client actions leave the scheduler, the loop and the manager alone.
LEMMA ClientActionInv ==
  ASSUME WorkerInv, SchedulerInv',
         UNCHANGED <<schedulerVars, loopVars, managerVars>>,
         pc = "stopped" => messages' = messages /\ accepting' = accepting,
         WorkerTypeOK', ClientsInv'
  PROVE  WorkerInv'
<1>1. UNCHANGED <<pc, starting, steps, published_count, request_states, kv_requests>>
  BY DEF loopVars, managerVars
<1>2. UNCHANGED <<queued_requests, active_requests, leaving, publishing>>
  BY SameLists DEF listVars
<1>3. LoopInv'
  BY <1>1, <1>2 DEF WorkerInv, LoopInv, BetweenCalls, IsVacant
<1>4. LifecyclesAgree' /\ KvInv'
  BY <1>1, <1>2 DEF WorkerInv, LifecyclesAgree, KvInv, KvStateIsReleased
<1>5. PublishedLoadIsExact'
  BY <1>1, <1>2 DEF WorkerInv, PublishedLoadIsExact
<1>6. QED
  BY <1>3, <1>4, <1>5 DEF WorkerInv

LEMMA SendMessageInv ==
  ASSUME WorkerInv, SchedulerInv', NEW r \in Requests, SendMessage(r)
  PROVE  WorkerInv'
<1> USE DEF SendMessage
<1>1. messages \in Seq(Requests) /\ SchedulerTypeOK'
  BY DEF WorkerInv, WorkerTypeOK, SchedulerInv
<1>2. WorkerTypeOK'
  BY <1>1, MessagesFacts, WorkerAssumption
     DEF WorkerInv, WorkerTypeOK, loopVars, managerVars
<1>3. r \notin Elements(messages) /\ ~InWorker(r) /\ answers[r] = "none"
  BY DEF WorkerInv, ClientsInv
<1>4. \A q : InWorker(q)' <=> InWorker(q)
  BY SameLists DEF InWorker, listVars
<1>5. Elements(messages') = Elements(messages) \cup {r} /\ NoDuplicates(messages')
  BY <1>1, <1>3, MessagesFacts DEF WorkerInv, ClientsInv
<1>6. clients \in [Requests -> {"idle", "connected", "gone"}]
  BY DEF WorkerInv, WorkerTypeOK
<1>7. ClientsInv'
  BY <1>3, <1>4, <1>5, <1>6 DEF WorkerInv, ClientsInv
<1>8. pc = "stopped" => ~accepting
  BY DEF WorkerInv, LoopInv
<1>9. QED
  BY <1>2, <1>7, <1>8, ClientActionInv

LEMMA ReadEventInv ==
  ASSUME WorkerInv, SchedulerInv', NEW r \in Requests, ReadEvent(r)
  PROVE  WorkerInv'
<1> USE DEF ReadEvent
<1>1. unread \in [Requests -> 0 .. EventCapacity] /\ unread[r] - 1 \in 0 .. EventCapacity
  BY WorkerAssumption DEF WorkerInv, WorkerTypeOK
<1>2. WorkerTypeOK'
  BY <1>1 DEF WorkerInv, WorkerTypeOK, SchedulerInv, loopVars, managerVars
<1>3. \A q : InWorker(q)' <=> InWorker(q)
  BY SameLists DEF InWorker, listVars
<1>4. ClientsInv'
  BY <1>3 DEF WorkerInv, ClientsInv
<1>5. QED
  BY <1>2, <1>4, ClientActionInv

LEMMA DisconnectInv ==
  ASSUME WorkerInv, SchedulerInv', NEW r \in Requests, Disconnect(r)
  PROVE  WorkerInv'
<1> USE DEF Disconnect
<1>1. WorkerTypeOK'
  BY WorkerAssumption DEF WorkerInv, WorkerTypeOK, SchedulerInv, loopVars, managerVars
<1>2. \A q : InWorker(q)' <=> InWorker(q)
  BY SameLists DEF InWorker, listVars
<1>3. ClientsInv'
  BY <1>2 DEF WorkerInv, ClientsInv, WorkerTypeOK
<1>4. QED
  BY <1>1, <1>3, ClientActionInv

LEMMA StopAcceptingInv ==
  ASSUME WorkerInv, SchedulerInv', StopAccepting
  PROVE  WorkerInv'
<1> USE DEF StopAccepting
<1>1. WorkerTypeOK'
  BY DEF WorkerInv, WorkerTypeOK, SchedulerInv, loopVars, managerVars, clientVars
<1>2. \A q : InWorker(q)' <=> InWorker(q)
  BY SameLists DEF InWorker, listVars
<1>3. ClientsInv'
  BY <1>2 DEF WorkerInv, ClientsInv, clientVars
<1>4. pc = "stopped" => ~accepting
  BY DEF WorkerInv, LoopInv
<1>5. QED
  BY <1>1, <1>3, <1>4, ClientActionInv

\* Receiving: the request moves from the channel to the queue.
LEMMA AcceptInv ==
  ASSUME WorkerInv, SchedulerInv', messages # <<>>, Accept(Head(messages)),
         pc \in {"receive", "drain"}, pc' = "drain"
  PROVE  WorkerInv'
<1> DEFINE r == Head(messages)
<1>1. /\ r \in Requests /\ messages' = Tail(messages)
      /\ messages' \in Seq(Requests)
      /\ Elements(messages') = Elements(messages) \ {r}
      /\ r \in Elements(messages)
      /\ NoDuplicates(messages')
  BY PopFollower DEF WorkerInv, WorkerTypeOK, ClientsInv, Accept
<1>2. Len(messages') <= MessageCapacity
  BY <1>1, MessagesFacts, WorkerAssumption DEF WorkerInv, WorkerTypeOK
<1>3. Accept(r)
  OBVIOUS
<1> HIDE DEF r
<1>4. /\ r \notin queued_requests \cup active_requests \cup leaving
      /\ queued_requests' = queued_requests \cup {r}
      /\ UNCHANGED <<active_requests, leaving, publishing>>
  BY <1>3, AcceptEffect
<1>5. BetweenCalls /\ starting = {} /\ \A q \in Requests : steps[q] = NoStep
  BY DEF WorkerInv, LoopInv
<1>6. published_count' \in Nat
  <2>1. queued_requests' \cup active_requests' \in SUBSET Requests
    BY DEF SchedulerInv, SchedulerTypeOK
  <2>2. QED
    BY <1>3, <2>1, CountActive DEF Accept
<1>7. WorkerTypeOK'
  BY <1>1, <1>2, <1>3, <1>6 DEF WorkerInv, WorkerTypeOK, SchedulerInv, Accept, clientVars
<1>8. LoopInv'
  BY <1>3, <1>4, <1>5 DEF WorkerInv, LoopInv, Accept, BetweenCalls
<1>9. LifecyclesAgree' /\ KvInv'
  BY <1>1, <1>3, <1>4, <1>5
     DEF WorkerInv, WorkerTypeOK, LifecyclesAgree, KvInv, KvStateIsReleased, Accept
<1>10. PublishedLoadIsExact'
  <2>1. leaving' = {}
    BY <1>4, <1>5 DEF BetweenCalls
  <2>2. QED
    BY <1>3, <2>1 DEF Accept, PublishedLoadIsExact
<1>11. ClientsInv'
  <2>1. \A q : InWorker(q)' <=> InWorker(q) \/ q = r
    BY <1>4 DEF InWorker
  <2>2. QED
    BY <1>1, <1>3, <2>1 DEF WorkerInv, ClientsInv, Accept, clientVars
<1>12. QED
  BY <1>7, <1>8, <1>9, <1>10, <1>11 DEF WorkerInv

\* Steps of the loop that change its program counter and nothing else.
LEMMA LoopStepInv ==
  ASSUME WorkerInv, SchedulerInv', BeginIteration \/ Exit \/ EndIteration
  PROVE  WorkerInv'
<1>1. UNCHANGED <<schedulerVars, starting, steps, verdict, published_count,
                  managerVars, messages, accepting, clientVars>>
  BY DEF BeginIteration, Exit, EndIteration
<1>2. UNCHANGED <<queued_requests, active_requests, leaving, publishing>>
  BY <1>1, SameLists DEF listVars
<1>3. WorkerTypeOK'
  BY <1>1 DEF WorkerInv, WorkerTypeOK, SchedulerInv, BeginIteration, Exit, EndIteration,
              managerVars, clientVars
<1>4. LoopInv'
  BY <1>1, <1>2
     DEF WorkerInv, LoopInv, BeginIteration, Exit, EndIteration, BetweenCalls, IsVacant
<1>5. LifecyclesAgree' /\ KvInv'
  BY <1>1, <1>2 DEF WorkerInv, LifecyclesAgree, KvInv, KvStateIsReleased, managerVars
<1>6. PublishedLoadIsExact' /\ ClientsInv'
  BY <1>1, <1>2, SameRequestsInv DEF clientVars
<1>7. QED
  BY <1>3, <1>4, <1>5, <1>6 DEF WorkerInv

LEMMA AdmitRequestsInv ==
  ASSUME WorkerInv, SchedulerInv', AdmitRequests
  PROVE  WorkerInv'
<1>1. UNCHANGED <<steps, verdict, published_count, managerVars, messages, accepting,
                  clientVars>>
      /\ pc = "drain" /\ pc' = "start" /\ starting' = active_requests' \ active_requests
  BY DEF AdmitRequests
<1>2. PICK A \in SUBSET queued_requests :
        /\ queued_requests' = queued_requests \ A
        /\ active_requests' = active_requests \cup A
        /\ UNCHANGED <<leaving, publishing>>
  BY AdmissionEffect DEF AdmitRequests
<1>3. starting = {} /\ BetweenCalls /\ \A q \in Requests : steps[q] = NoStep
  BY <1>1 DEF WorkerInv, LoopInv
<1>4. starting' = A
  BY <1>1, <1>2 DEF WorkerInv, SchedulerInv, ListsAreDisjoint
<1>5. WorkerTypeOK'
  BY <1>1, <1>2, <1>4
     DEF WorkerInv, WorkerTypeOK, SchedulerInv, SchedulerTypeOK, managerVars, clientVars
<1>6. LoopInv'
  BY <1>1, <1>2, <1>3, <1>4 DEF LoopInv, BetweenCalls
<1>7. LifecyclesAgree' /\ KvInv'
  BY <1>1, <1>2, <1>3, <1>4
     DEF WorkerInv, LifecyclesAgree, KvInv, KvStateIsReleased, managerVars
<1>8. PublishedLoadIsExact' /\ ClientsInv'
  BY <1>1, <1>2, SameRequestsInv DEF clientVars
<1>9. QED
  BY <1>5, <1>6, <1>7, <1>8 DEF WorkerInv

LEMMA StartRequestInv ==
  ASSUME WorkerInv, SchedulerInv', NEW r \in Requests, StartRequest(r)
  PROVE  WorkerInv'
<1>1. /\ pc = "start" /\ BetweenCalls /\ r \in starting
      /\ request_states' = [request_states EXCEPT ![r] = "executing"]
      /\ kv_requests' = kv_requests \cup {r}
      /\ starting' = starting \ {r}
      /\ UNCHANGED <<pc, steps, verdict, published_count, messages, accepting, clientVars>>
  BY DEF StartRequest, NextToStart
<1>2. /\ r \in active_requests
      /\ UNCHANGED <<queued_requests, active_requests, leaving>>
      /\ publishing' \subseteq {r} /\ leaving = {}
  BY <1>1, ReportPhaseEffect DEF StartRequest, BetweenCalls
<1>3. WorkerTypeOK'
  BY <1>1 DEF WorkerInv, WorkerTypeOK, SchedulerInv, clientVars
<1>4. \A q \in Requests : steps[q] = NoStep
  BY <1>1 DEF WorkerInv, LoopInv
<1>5. LoopInv'
  BY <1>1, <1>2, <1>4 DEF WorkerInv, LoopInv
<1>6. LifecyclesAgree' /\ KvInv'
  <2>1. r \notin queued_requests
    BY <1>2 DEF WorkerInv, SchedulerInv, ListsAreDisjoint
  <2>2. QED
    BY <1>1, <1>2, <2>1 DEF WorkerInv, WorkerTypeOK, LifecyclesAgree, KvInv, KvStateIsReleased
<1>7. PublishedLoadIsExact' /\ ClientsInv'
  BY <1>1, <1>2, SameRequestsInv DEF clientVars
<1>8. QED
  BY <1>3, <1>5, <1>6, <1>7 DEF WorkerInv

\* Aborts and completions: the request leaves the active list and the manager.
LEMMA LeaveInv ==
  ASSUME WorkerInv, SchedulerInv', NEW r \in Requests, CallRemoveActive(r),
         pc \in {"start", "results"}, leaving = {}, publishing \subseteq {r},
         request_states' = [request_states EXCEPT ![r] = "absent"],
         verdict' \in {"completed", "aborted"},
         starting' = starting \ {r},
         steps' = steps \/ steps' = [steps EXCEPT ![r] = NoStep],
         steps'[r] = NoStep,
         kv_requests' \subseteq kv_requests,
         ~PublicationMayFail => kv_requests' = kv_requests \ {r},
         UNCHANGED <<pc, published_count, messages, accepting, clientVars>>
  PROVE  WorkerInv'
<1>1. /\ r \in active_requests
      /\ queued_requests' = queued_requests
      /\ active_requests' = active_requests \ {r}
      /\ leaving' = {r}
      /\ publishing' = {}
  BY RemoveActiveEffect
<1>2. WorkerTypeOK'
  BY DEF WorkerInv, WorkerTypeOK, SchedulerInv, clientVars
<1>3. \A q \in Requests : steps'[q] # NoStep => q # r /\ steps[q] # NoStep
  BY DEF WorkerInv, WorkerTypeOK
<1>4. LoopInv'
  BY <1>1, <1>3 DEF WorkerInv, LoopInv
<1>5. LifecyclesAgree' /\ KvInv'
  <2>1. r \notin queued_requests
    BY <1>1 DEF WorkerInv, SchedulerInv, ListsAreDisjoint
  <2>2. QED
    BY <1>1, <2>1
       DEF WorkerInv, WorkerTypeOK, LifecyclesAgree, KvInv, KvStateIsReleased
<1>6. PublishedLoadIsExact' /\ ClientsInv'
  BY <1>1, SameRequestsInv DEF clientVars
<1>7. QED
  BY <1>2, <1>4, <1>5, <1>6 DEF WorkerInv

LEMMA FailToStartInv ==
  ASSUME WorkerInv, SchedulerInv', NEW r \in Requests, FailToStart(r)
  PROVE  WorkerInv'
<1> USE DEF FailToStart, NextToStart
<1>1. /\ leaving = {} /\ publishing \subseteq {r}
      /\ steps' = steps /\ steps[r] = NoStep
  BY DEF WorkerInv, LoopInv, BetweenCalls
<1>2. kv_requests' \subseteq kv_requests
      /\ (~PublicationMayFail => kv_requests' = kv_requests \ {r})
  BY DEF WorkerInv, KvInv, KvStateIsReleased
<1>3. QED
  BY <1>1, <1>2, LeaveInv

LEMMA FinishOrAbortInv ==
  ASSUME WorkerInv, SchedulerInv', NEW r \in Requests, FinishRequest(r) \/ AbortResult(r)
  PROVE  WorkerInv'
<1> USE DEF FinishRequest, AbortResult, AbortStartedRequest, HandleResult
<1>1. leaving = {} /\ publishing \subseteq {r} /\ pc = "results"
  BY DEF BetweenCalls
<1>2. starting' = starting \ {r}
  BY <1>1 DEF WorkerInv, LoopInv
<1>3. steps' = [steps EXCEPT ![r] = NoStep] /\ steps'[r] = NoStep
  BY DEF WorkerInv, WorkerTypeOK
<1>4. QED
  BY <1>1, <1>2, <1>3, LeaveInv

LEMMA FailToPublishInv ==
  ASSUME WorkerInv, SchedulerInv', NEW r \in Requests, FailToPublish(r)
  PROVE  WorkerInv'
<1> USE DEF FailToPublish, AbortStartedRequest
<1>1. /\ leaving = {} /\ publishing \subseteq {r}
      /\ steps' = steps /\ steps[r] = NoStep
      /\ starting' = starting \ {r}
  BY DEF WorkerInv, LoopInv, SchedulerInv, ListsAreDisjoint
<1>2. PublicationMayFail /\ pc \in {"start", "results"} /\ CallRemoveActive(r)
  OBVIOUS
<1>3. QED
  BY <1>1, <1>2, LeaveInv

\* Only the request manager and the results change.
LEMMA RunBatchInv ==
  ASSUME WorkerInv, SchedulerInv', RunBatch
  PROVE  WorkerInv'
<1>1. /\ pc = "start" /\ BetweenCalls /\ starting = {} /\ pc' = "results"
      /\ UNCHANGED <<starting, verdict, published_count, kv_requests, messages, accepting,
                      clientVars>>
      /\ DOMAIN steps' = Requests
      /\ \A r \in Requests \ ScheduledRequests : steps'[r] = NoStep
  BY DEF RunBatch
<1>2. /\ request_states' \in [Requests -> {"absent", "queued", "executing", "failed_to_execute",
                                          "cancelled"}]
      /\ \A r \in Requests :
           IF r \in ScheduledRequests
           THEN request_states'[r] \in {"executing", "failed_to_execute", "cancelled"}
           ELSE request_states'[r] = request_states[r]
  BY DEF RunBatch, WorkerInv, WorkerTypeOK
<1>3. UNCHANGED <<queued_requests, active_requests, leaving, publishing>>
  BY DecisionEffect DEF RunBatch, listVars
<1>4. WorkerTypeOK'
  BY <1>1, <1>2 DEF WorkerInv, WorkerTypeOK, SchedulerInv, clientVars
<1>5. LoopInv'
  BY <1>1, <1>3, OnlyActiveAreScheduled DEF WorkerInv, LoopInv, BetweenCalls
<1>6. LifecyclesAgree' /\ KvInv'
  <2>1. \A r \in ScheduledRequests : r \in active_requests /\ r \notin queued_requests
    BY OnlyActiveAreScheduled DEF WorkerInv, SchedulerInv, ListsAreDisjoint
  <2>2. QED
    BY <1>1, <1>2, <1>3, <2>1 DEF WorkerInv, LifecyclesAgree, KvInv, KvStateIsReleased
<1>7. PublishedLoadIsExact' /\ ClientsInv'
  BY <1>1, <1>3, SameRequestsInv DEF clientVars
<1>8. QED
  BY <1>4, <1>5, <1>6, <1>7 DEF WorkerInv

\* An event fits in the queue the worker waited for.
LEMMA SentFits ==
  ASSUME WorkerInv, NEW r \in Requests, CanSend(r)
  PROVE  Sent(r) \in [Requests -> 0 .. EventCapacity]
BY WorkerAssumption DEF WorkerInv, WorkerTypeOK, CanSend, Sent

LEMMA SendTokenInv ==
  ASSUME WorkerInv, SchedulerInv', NEW r \in Requests, SendToken(r)
  PROVE  WorkerInv'
<1>1. /\ pc = "results" /\ steps[r] # NoStep
      /\ DOMAIN steps' = Requests
      /\ \A q \in Requests : steps'[q] # NoStep => steps[q] # NoStep
      /\ \/ request_states' = request_states
         \/ request_states' = [request_states EXCEPT ![r] = "cancelled"]
      /\ unread' = Sent(r) /\ CanSend(r)
      /\ UNCHANGED <<schedulerVars, pc, starting, verdict, published_count, kv_requests,
                      messages, accepting, clients, answers>>
  BY DEF SendToken, WorkerInv, WorkerTypeOK
<1>2. UNCHANGED <<queued_requests, active_requests, leaving, publishing>>
  BY <1>1, SameLists DEF listVars
<1>3. r \in active_requests \ starting /\ r \notin queued_requests
  BY <1>1 DEF WorkerInv, LoopInv, SchedulerInv, ListsAreDisjoint
<1>4. WorkerTypeOK'
  BY <1>1, SentFits DEF WorkerInv, WorkerTypeOK, SchedulerInv
<1>5. LoopInv'
  BY <1>1, <1>2 DEF WorkerInv, LoopInv
<1>6. LifecyclesAgree' /\ KvInv'
  BY <1>1, <1>2, <1>3
     DEF WorkerInv, WorkerTypeOK, LifecyclesAgree, KvInv, KvStateIsReleased
<1>7. PublishedLoadIsExact' /\ ClientsInv'
  BY <1>1, <1>2, SameRequestsInv
<1>8. QED
  BY <1>4, <1>5, <1>6, <1>7 DEF WorkerInv

LEMMA ContinueRequestInv ==
  ASSUME WorkerInv, SchedulerInv', NEW r \in Requests, ContinueRequest(r)
  PROVE  WorkerInv'
<1>1. /\ pc = "results" /\ BetweenCalls
      /\ steps' = [steps EXCEPT ![r] = NoStep]
      /\ UNCHANGED <<pc, starting, verdict, published_count, managerVars, messages, accepting,
                      clientVars>>
  BY DEF ContinueRequest, HandleResult
<1>2. /\ r \in active_requests
      /\ UNCHANGED <<queued_requests, active_requests, leaving>>
      /\ publishing' \subseteq {r} /\ leaving = {}
  BY <1>1, ReportPhaseEffect DEF ContinueRequest, BetweenCalls
<1>3. /\ DOMAIN steps' = Requests
      /\ \A q \in Requests : steps'[q] # NoStep => q # r /\ steps[q] # NoStep
  BY <1>1 DEF WorkerInv, WorkerTypeOK
<1>4. WorkerTypeOK'
  BY <1>1, <1>3 DEF WorkerInv, WorkerTypeOK, SchedulerInv, managerVars, clientVars
<1>5. LoopInv'
  BY <1>1, <1>2, <1>3 DEF WorkerInv, LoopInv
<1>6. LifecyclesAgree' /\ KvInv'
  BY <1>1, <1>2 DEF WorkerInv, LifecyclesAgree, KvInv, KvStateIsReleased, managerVars
<1>7. PublishedLoadIsExact' /\ ClientsInv'
  BY <1>1, <1>2, SameRequestsInv DEF clientVars
<1>8. QED
  BY <1>4, <1>5, <1>6, <1>7 DEF WorkerInv

LEMMA PublishPrefixInv ==
  ASSUME WorkerInv, SchedulerInv', NEW r \in Requests, PublishPrefix(r)
  PROVE  WorkerInv'
<1>1. UNCHANGED <<loopVars, managerVars, messages, accepting, clientVars>>
  BY DEF PublishPrefix
<1>2. /\ UNCHANGED <<queued_requests, active_requests, leaving>>
      /\ publishing' = publishing \ {r}
  BY ReleaseFlightEffect DEF PublishPrefix
<1>3. WorkerTypeOK'
  BY <1>1 DEF WorkerInv, WorkerTypeOK, SchedulerInv, loopVars, managerVars, clientVars
<1>4. LoopInv'
  BY <1>1, <1>2 DEF WorkerInv, LoopInv, loopVars, BetweenCalls, IsVacant
<1>5. LifecyclesAgree' /\ KvInv'
  BY <1>1, <1>2
     DEF WorkerInv, LifecyclesAgree, KvInv, KvStateIsReleased, loopVars, managerVars
<1>6. PublishedLoadIsExact' /\ ClientsInv'
  BY <1>1, <1>2, SameRequestsInv DEF loopVars, clientVars
<1>7. QED
  BY <1>3, <1>4, <1>5, <1>6 DEF WorkerInv

\* The request leaves the worker: the load without it is published, it is answered.
LEMMA ReportOutcomeInv ==
  ASSUME WorkerInv, SchedulerInv', NEW r \in Requests, ReportOutcome(r)
  PROVE  WorkerInv'
<1>1. /\ r \in leaving /\ CanSend(r) /\ unread' = Sent(r)
      /\ \E answer \in {"stats", "error"} : answers' = [answers EXCEPT ![r] = answer]
      /\ published_count' = LoadCount
      /\ UNCHANGED <<pc, starting, steps, verdict, managerVars, messages, accepting, clients>>
  BY DEF ReportOutcome
<1>2. UNCHANGED <<queued_requests, active_requests, publishing>>
      /\ leaving' = leaving \ {r}
  BY TerminationEffect DEF ReportOutcome
<1>3. leaving' = {}
  BY <1>1, <1>2 DEF WorkerInv, LoopInv
<1>4. LoadCount \in Nat
  <2>1. queued_requests \cup active_requests \in SUBSET Requests
    BY DEF WorkerInv, SchedulerInv, SchedulerTypeOK
  <2>2. QED
    BY <2>1, CountActive DEF LoadCount
<1>5. WorkerTypeOK'
  BY <1>1, <1>4, SentFits DEF WorkerInv, WorkerTypeOK, SchedulerInv, managerVars
<1>6. LoopInv'
  BY <1>1, <1>2 DEF WorkerInv, LoopInv, BetweenCalls, IsVacant
<1>7. LifecyclesAgree' /\ KvInv'
  BY <1>1, <1>2 DEF WorkerInv, LifecyclesAgree, KvInv, KvStateIsReleased, managerVars
<1>8. PublishedLoadIsExact'
  BY <1>1, <1>2, <1>3 DEF PublishedLoadIsExact, LoadCount
<1>9. ClientsInv'
  <2>1. \A q : InWorker(q)' <=> InWorker(q) /\ q # r
    BY <1>1, <1>2 DEF WorkerInv, SchedulerInv, ListsAreDisjoint, InWorker
  <2>2. r \notin Elements(messages) /\ clients[r] # "idle"
    BY <1>1 DEF WorkerInv, ClientsInv, InWorker
  <2>3. QED
    BY <1>1, <2>1, <2>2 DEF WorkerInv, WorkerTypeOK, ClientsInv
<1>10. QED
  BY <1>5, <1>6, <1>7, <1>8, <1>9 DEF WorkerInv

LEMMA NextWorkerInv == WorkerInv /\ [WorkerNext]_workerVars => WorkerInv'
<1> SUFFICES ASSUME WorkerInv, [WorkerNext]_workerVars PROVE WorkerInv'
  OBVIOUS
<1>1. [SchedulerNext]_schedulerVars
  BY SchedulerStep DEF WorkerInv, WorkerTypeOK
<1>2. SchedulerInv'
  BY <1>1, NextSchedulerInv DEF WorkerInv
<1>3. CASE Stopped \/ UNCHANGED workerVars
  <2>1. UNCHANGED <<schedulerVars, loopVars, managerVars, messages, accepting, clientVars>>
    BY <1>3 DEF Stopped, workerVars
  <2>2. WorkerTypeOK'
    BY <1>2, <2>1
       DEF WorkerInv, WorkerTypeOK, SchedulerInv, loopVars, managerVars, clientVars
  <2>3. ClientsInv'
    <3>1. \A q : InWorker(q)' <=> InWorker(q)
      BY <2>1, SameLists DEF InWorker, listVars
    <3>2. QED
      BY <2>1, <3>1 DEF WorkerInv, ClientsInv, clientVars
  <2>4. QED
    BY <1>2, <2>1, <2>2, <2>3, ClientActionInv
<1>4. CASE StopAccepting
  BY <1>2, <1>4, StopAcceptingInv
<1>5. CASE ReceiveFirst \/ ReceiveMore
  BY <1>2, <1>5, AcceptInv DEF ReceiveFirst, ReceiveMore
<1>6. CASE BeginIteration \/ Exit \/ EndIteration
  BY <1>2, <1>6, LoopStepInv
<1>7. CASE AdmitRequests
  BY <1>2, <1>7, AdmitRequestsInv
<1>8. CASE RunBatch
  BY <1>2, <1>8, RunBatchInv
<1>9. ASSUME NEW r \in Requests, SendMessage(r) \/ ReadEvent(r) \/ Disconnect(r)
      PROVE  WorkerInv'
  BY <1>2, <1>9, SendMessageInv, ReadEventInv, DisconnectInv
<1>10. ASSUME NEW r \in Requests, StartRequest(r) \/ FailToStart(r) PROVE WorkerInv'
  BY <1>2, <1>10, StartRequestInv, FailToStartInv
<1>11. ASSUME NEW r \in Requests, SendToken(r) \/ ContinueRequest(r) PROVE WorkerInv'
  BY <1>2, <1>11, SendTokenInv, ContinueRequestInv
<1>12. ASSUME NEW r \in Requests, FinishRequest(r) \/ AbortResult(r) PROVE WorkerInv'
  BY <1>2, <1>12, FinishOrAbortInv
<1>13. ASSUME NEW r \in Requests, PublishPrefix(r) \/ FailToPublish(r) PROVE WorkerInv'
  BY <1>2, <1>13, PublishPrefixInv, FailToPublishInv
<1>14. ASSUME NEW r \in Requests, ReportOutcome(r) PROVE WorkerInv'
  BY <1>2, <1>14, ReportOutcomeInv
<1>15. QED
  BY <1>3, <1>4, <1>5, <1>6, <1>7, <1>8, <1>9, <1>10, <1>11, <1>12, <1>13, <1>14
     DEF WorkerNext, Run

LEMMA WorkerInvHolds == WorkerSpec => []WorkerInv
BY InitWorkerInv, NextWorkerInv, PTL DEF WorkerSpec

-----------------------------------------------------------------------------
(* The theorems *)

\* Every state the worker reaches is well typed: in particular no channel or event
\* queue ever holds more than its capacity.
THEOREM WorkerTypeCorrect == WorkerSpec => []WorkerTypeOK
BY WorkerInvHolds, PTL DEF WorkerInv

\* The worker makes only calls that the scheduler's own specification allows, in an
\* order that it allows: what is proved of the scheduler holds inside the worker.
THEOREM WorkerImplementsScheduler == WorkerSpec => SchedulerSpec
<1>1. WorkerInit => SchedulerInit
  BY DEF WorkerInit
<1>2. WorkerInv /\ [WorkerNext]_workerVars => [SchedulerNext]_schedulerVars
  BY SchedulerStep DEF WorkerInv, WorkerTypeOK
<1>3. QED
  BY <1>1, <1>2, WorkerInvHolds, PTL DEF WorkerSpec, SchedulerSpec

\* The request manager and the scheduler never disagree about a request, whatever is
\* cancelled, fails to start, fails in a batch or fails to publish.
THEOREM LifecyclesAlwaysAgree == WorkerSpec => []LifecyclesAgree
BY WorkerInvHolds, PTL DEF WorkerInv

\* The executor holds state for exactly the running requests, unless a publication
\* fails.
THEOREM KvStateIsAlwaysReleased ==
  ~PublicationMayFail => (WorkerSpec => []KvStateIsReleased)
<1> SUFFICES ASSUME ~PublicationMayFail PROVE WorkerSpec => []KvStateIsReleased
  OBVIOUS
<1>1. WorkerInv => KvStateIsReleased
  BY DEF WorkerInv, KvInv
<1>2. QED
  BY <1>1, WorkerInvHolds, PTL

\* The published load counts every request of the worker once, until the request's
\* outcome is reported.
THEOREM PublishedLoadIsAlwaysExact == WorkerSpec => []PublishedLoadIsExact
BY WorkerInvHolds, PTL DEF WorkerInv

\* The thread never returns while a connected client waits for its answer.
THEOREM NothingIsEverLostAtExit == WorkerSpec => []NothingIsLostAtExit
<1>1. WorkerInv => NothingIsLostAtExit
  <2> SUFFICES ASSUME WorkerInv, pc = "stopped", NEW r \in Requests, clients[r] = "connected",
                      answers[r] = "none"
               PROVE  FALSE
    BY DEF NothingIsLostAtExit
  <2>1. IsVacant /\ messages = <<>> /\ BetweenCalls
    BY DEF WorkerInv, LoopInv
  <2>2. r \notin Elements(messages)
    BY <2>1 DEF Elements
  <2>3. ~InWorker(r)
    BY <2>1 DEF IsVacant, BetweenCalls, InWorker
  <2>4. QED
    BY <2>2, <2>3 DEF WorkerInv, ClientsInv
<1>2. QED
  BY <1>1, WorkerInvHolds, PTL

\* After its terminal event a client's stream carries nothing more.
THEOREM TerminalEventsAreAlwaysFinal == WorkerSpec => TerminalEventsAreFinal
<1> DEFINE Final == \A r \in Requests : answers[r] # "none" =>
                      answers'[r] = answers[r] /\ unread'[r] <= unread[r]
<1>1. ASSUME WorkerInv, [WorkerNext]_workerVars PROVE Final
  <2> SUFFICES ASSUME NEW r \in Requests, answers[r] # "none"
               PROVE  answers'[r] = answers[r] /\ unread'[r] <= unread[r]
    OBVIOUS
  <2>1. /\ DOMAIN unread = Requests /\ DOMAIN answers = Requests
        /\ unread[r] \in Nat
        /\ ~InWorker(r)
    BY <1>1, WorkerAssumption DEF WorkerInv, WorkerTypeOK, ClientsInv
  <2>2. ASSUME NEW q \in Requests, SendToken(q)
        PROVE  answers'[r] = answers[r] /\ unread'[r] = unread[r]
    <3>1. q # r
      BY <1>1, <2>1, <2>2 DEF SendToken, WorkerInv, LoopInv, InWorker
    <3>2. QED
      BY <2>1, <2>2, <3>1 DEF SendToken, Sent
  <2>3. ASSUME NEW q \in Requests, ReportOutcome(q)
        PROVE  answers'[r] = answers[r] /\ unread'[r] = unread[r]
    <3>1. q # r
      BY <2>1, <2>3 DEF ReportOutcome, InWorker
    <3>2. QED
      BY <2>1, <2>3, <3>1 DEF ReportOutcome, Sent
  <2>4. ASSUME NEW q \in Requests, ReadEvent(q) \/ Disconnect(q)
        PROVE  answers'[r] = answers[r] /\ unread'[r] <= unread[r]
    BY <2>1, <2>4 DEF ReadEvent, Disconnect
  <2>5. ASSUME UNCHANGED <<unread, answers>>
        PROVE  answers'[r] = answers[r] /\ unread'[r] <= unread[r]
    BY <2>1, <2>5
  <2>6. CASE StopAccepting \/ Stopped \/ UNCHANGED workerVars
    BY <2>5, <2>6 DEF StopAccepting, Stopped, workerVars, clientVars
  <2>7. CASE \/ ReceiveFirst \/ ReceiveMore \/ BeginIteration \/ Exit \/ EndIteration
             \/ AdmitRequests \/ RunBatch
    BY <2>5, <2>7
       DEF ReceiveFirst, ReceiveMore, Accept, BeginIteration, Exit, EndIteration, AdmitRequests,
           RunBatch, clientVars
  <2>8. ASSUME NEW q \in Requests,
               \/ SendMessage(q) \/ StartRequest(q) \/ FailToStart(q) \/ ContinueRequest(q)
               \/ FinishRequest(q) \/ AbortResult(q) \/ PublishPrefix(q) \/ FailToPublish(q)
        PROVE  UNCHANGED <<unread, answers>>
    BY <2>8
       DEF SendMessage, StartRequest, FailToStart, ContinueRequest, FinishRequest, AbortResult,
           PublishPrefix, FailToPublish, AbortStartedRequest, clientVars
  <2>9. QED
    BY <1>1, <2>1, <2>2, <2>3, <2>4, <2>5, <2>6, <2>7, <2>8 DEF WorkerNext, Run
<1>2. ASSUME WorkerInv, [WorkerNext]_workerVars PROVE [Final]_workerVars
  BY <1>1, <1>2
<1>3. QED
  BY <1>2, WorkerInvHolds, PTL DEF WorkerSpec, TerminalEventsAreFinal
=============================================================================
