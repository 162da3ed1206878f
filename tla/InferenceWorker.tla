-------------------------- MODULE InferenceWorker --------------------------
(***************************************************************************)
(* The thread of one inference backend (execution/inference_worker.rs)     *)
(* with its request manager (execution/request_manager.rs), the calls it   *)
(* makes to the model executor, its bounded message channel and the        *)
(* bounded event queue of each client.                                     *)
(*                                                                         *)
(* The worker alone changes the scheduler, so a stretch of its code that   *)
(* neither sends nor receives is one action.  Clients send, read and       *)
(* disconnect between any two actions.                                     *)
(***************************************************************************)
EXTENDS Scheduler

CONSTANTS
  MessageCapacity,      \* capacity of the worker's message channel
  EventCapacity,        \* capacity of a client's event queue
  SpeculativeDecoding,  \* whether the backend has a draft model
  PublicationMayFail,   \* whether publish_completed_prefix can return Err
  NoStep                \* no result is pending for a request

ASSUME WorkerAssumption ==
  /\ MessageCapacity \in Nat \ {0}
  /\ EventCapacity \in Nat \ {0}
  /\ SpeculativeDecoding \in BOOLEAN
  /\ PublicationMayFail \in BOOLEAN

VARIABLES
  pc,               \* where the worker's loop is
  messages,         \* requests in the message channel
  accepting,        \* the RPC server still holds senders of the channel
  request_states,   \* the request manager's states
  kv_requests,      \* requests with KV-cache state in the model executor
  starting,         \* admitted in this iteration, not started yet
  steps,            \* request -> result of the running batch, or NoStep
  verdict,          \* how the request in "leaving" ended
  published_count,  \* requests in the last published operational state
  clients,          \* "idle", "connected" or "gone"
  unread,           \* request -> events in its client's queue
  answers           \* request -> its terminal event: "none", "stats" or "error"

loopVars == <<pc, starting, steps, verdict, published_count>>
managerVars == <<request_states, kv_requests>>
clientVars == <<clients, unread, answers>>
workerVars == <<schedulerVars, loopVars, managerVars, messages, accepting, clientVars>>

\* A generation step: the phase it reports, that phase's count, and the tokens
\* that are still to be sent to the client.
Step(kind, count, tokens) == [kind |-> kind, count |-> count, tokens |-> tokens]
Failed == Step("failed", 0, 0)

WorkerTypeOK ==
  /\ SchedulerTypeOK
  /\ pc \in {"receive", "drain", "start", "results", "stopped"}
  /\ messages \in Seq(Requests) /\ Len(messages) <= MessageCapacity
  /\ accepting \in BOOLEAN
  /\ request_states \in
       [Requests -> {"absent", "queued", "executing", "failed_to_execute", "cancelled"}]
  /\ kv_requests \subseteq Requests
  /\ starting \subseteq Requests
  /\ DOMAIN steps = Requests
  /\ verdict \in {"completed", "aborted"}
  /\ published_count \in Nat
  /\ clients \in [Requests -> {"idle", "connected", "gone"}]
  /\ unread \in [Requests -> 0 .. EventCapacity]
  /\ answers \in [Requests -> {"none", "stats", "error"}]

WorkerInit ==
  /\ SchedulerInit
  /\ pc = "receive"
  /\ messages = <<>>
  /\ accepting = TRUE
  /\ request_states = [r \in Requests |-> "absent"]
  /\ kv_requests = {}
  /\ starting = {}
  /\ steps = [r \in Requests |-> NoStep]
  /\ verdict = "aborted"
  /\ published_count = 0
  /\ clients = [r \in Requests |-> "idle"]
  /\ unread = [r \in Requests |-> 0]
  /\ answers = [r \in Requests |-> "none"]

-----------------------------------------------------------------------------
(* Clients.  Request IDs come from the request handler's counter, so each    *)
(* request is sent once.                                                     *)

SendMessage(r) ==
  /\ accepting /\ clients[r] = "idle" /\ Len(messages) < MessageCapacity
  /\ messages' = Append(messages, r)
  /\ clients' = [clients EXCEPT ![r] = "connected"]
  /\ UNCHANGED <<schedulerVars, loopVars, managerVars, accepting, unread, answers>>

ReadEvent(r) ==
  /\ unread[r] > 0
  /\ unread' = [unread EXCEPT ![r] = @ - 1]
  /\ UNCHANGED <<schedulerVars, loopVars, managerVars, messages, accepting, clients, answers>>

\* The response stream is dropped.
Disconnect(r) ==
  /\ clients[r] = "connected"
  /\ clients' = [clients EXCEPT ![r] = "gone"]
  /\ unread' = [unread EXCEPT ![r] = 0]
  /\ UNCHANGED <<schedulerVars, loopVars, managerVars, messages, accepting, answers>>

\* The RPC server has stopped and every sender of the channel is dropped.
StopAccepting ==
  /\ accepting
  /\ accepting' = FALSE
  /\ UNCHANGED <<schedulerVars, loopVars, managerVars, messages, clientVars>>

\* Mutant: a full event queue is not waited for.
CanAlwaysSend(r) == TRUE

\* blocking_send returns, without effect once the stream is gone.
CanSend(r) == clients[r] = "gone" \/ unread[r] < EventCapacity
Sent(r) == IF clients[r] = "gone" THEN unread ELSE [unread EXCEPT ![r] = @ + 1]

-----------------------------------------------------------------------------
(* The loop: receiving *)

IsVacant == queued_requests = {} /\ active_requests = {}

LoadCount == Cardinality(queued_requests \cup active_requests)

\* enqueue_request: into the manager and the scheduler, then the new operational
\* state is published.
Accept(r) ==
  /\ request_states[r] = "absent"
  /\ EnqueueRequest(r)
  /\ request_states' = [request_states EXCEPT ![r] = "queued"]
  /\ published_count' = Cardinality(queued_requests' \cup active_requests')
  /\ messages' = Tail(messages)
  /\ UNCHANGED <<kv_requests, starting, steps, verdict, accepting, clientVars>>

\* blocking_recv when nothing is queued or active.
ReceiveFirst ==
  /\ pc = "receive" /\ IsVacant /\ messages # <<>>
  /\ Accept(Head(messages))
  /\ pc' = "drain"

BeginIteration ==
  /\ pc = "receive" /\ ~IsVacant
  /\ pc' = "drain"
  /\ UNCHANGED <<schedulerVars, starting, steps, verdict, published_count,
                 managerVars, messages, accepting, clientVars>>

ReceiveMore ==
  /\ pc = "drain" /\ messages # <<>>
  /\ Accept(Head(messages))
  /\ UNCHANGED pc

\* Mutant: the thread leaves with messages still in the channel.
ExitEarly ==
  /\ pc = "receive" /\ IsVacant /\ ~accepting
  /\ pc' = "stopped"
  /\ UNCHANGED <<schedulerVars, starting, steps, verdict, published_count,
                 managerVars, messages, accepting, clientVars>>

\* blocking_recv returns None.
Exit ==
  /\ pc = "receive" /\ IsVacant /\ messages = <<>> /\ ~accepting
  /\ pc' = "stopped"
  /\ UNCHANGED <<schedulerVars, starting, steps, verdict, published_count,
                 managerVars, messages, accepting, clientVars>>

-----------------------------------------------------------------------------
(* Starting admitted requests *)

BetweenCalls == publishing = {} /\ leaving = {}

AdmitRequests ==
  /\ pc = "drain" /\ messages = <<>>
  /\ AdmitQueuedRequests
  /\ starting' = active_requests' \ active_requests
  /\ pc' = "start"
  /\ UNCHANGED <<steps, verdict, published_count, managerVars, messages, accepting, clientVars>>

\* The phases of a fresh execution state, for every length of the restored prefix.
InitialPhases(r) ==
  LET input == InputTokenCount[InputOf[r]] IN
  IF SpeculativeDecoding
  THEN {Step("decode", 0, 0)} \cup {Step("prefill", n, 0) : n \in 1 .. input - 1}
  ELSE {Step("prefill", n, 0) : n \in 1 .. input}

ReportPhase(r, step) ==
  \/ step.kind = "prefill" /\ CallUpdatePrefill(r, step.count)
  \/ step.kind = "decode" /\ CallUpdateDecode(r, step.count)

NextToStart(r) == r \in starting /\ ahead[r] \cap starting = {}

\* start_request succeeds up to the synchronization with the scheduler.
StartRequest(r) ==
  /\ pc = "start" /\ BetweenCalls /\ NextToStart(r)
  /\ request_states[r] = "queued"
  /\ request_states' = [request_states EXCEPT ![r] = "executing"]
  /\ kv_requests' = kv_requests \cup {r}
  /\ starting' = starting \ {r}
  /\ \E step \in InitialPhases(r) : ReportPhase(r, step)
  /\ UNCHANGED <<pc, steps, verdict, published_count, messages, accepting, clientVars>>

\* Mutant: the scheduler drops r, the request manager keeps it.
FailToStartInSchedulerOnly(r) ==
  /\ pc = "start" /\ BetweenCalls /\ NextToStart(r)
  /\ starting' = starting \ {r}
  /\ CallRemoveActive(r)
  /\ verdict' = "aborted"
  /\ UNCHANGED <<pc, steps, published_count, managerVars, messages, accepting, clientVars>>

\* The model executor fails to start r and has released its KV state.
FailToStart(r) ==
  /\ pc = "start" /\ BetweenCalls /\ NextToStart(r)
  /\ starting' = starting \ {r}
  /\ CallRemoveActive(r)
  /\ request_states' = [request_states EXCEPT ![r] = "absent"]
  /\ verdict' = "aborted"
  /\ UNCHANGED <<pc, steps, published_count, kv_requests, messages, accepting, clientVars>>

-----------------------------------------------------------------------------
(* Running a batch *)

\* One token is sampled: end of sequence, or the (g + 1)-th token of the output.
Sampled(r, g) ==
  {Step("finished", 0, 0),
   IF g + 1 < MaxNewTokenCount[r] THEN Step("decode", g + 1, 1) ELSE Step("finished", 0, 1)}

\* Up to the rest of the output is committed, and an end of sequence may follow.
Verified(r, g) ==
  {Step("finished", 0, j) : j \in 0 .. MaxNewTokenCount[r] - g} \cup
  {Step("decode", g + j, j) : j \in 1 .. MaxNewTokenCount[r] - g - 1}

GenerationSteps(r, budget) ==
  CASE phase[r] = "decode" /\ SpeculativeDecoding -> Verified(r, generated[r])
    [] phase[r] = "decode" /\ ~SpeculativeDecoding -> Sampled(r, generated[r])
    [] phase[r] = "prefill" /\ budget < remaining[r] ->
         {Step("prefill", remaining[r] - budget, 0)}
    [] phase[r] = "prefill" /\ budget = remaining[r] ->
         IF SpeculativeDecoding THEN {Step("decode", 0, 0)} ELSE Sampled(r, 0)

ScheduledRequests == {r \in Requests : SchedulingDecision[r] > 0}
LiveRequests == {r \in ScheduledRequests : clients[r] = "connected"}

\* advance_executions: requests whose stream is closed are cancelled, and the model
\* either advances all others or fails for all of them.
RunBatch ==
  /\ pc = "start" /\ BetweenCalls /\ starting = {}
  /\ CreateSchedulingDecision
  /\ \E ok \in BOOLEAN :
       /\ steps' \in
            [Requests -> {NoStep, Failed} \cup
                         UNION {GenerationSteps(r, SchedulingDecision[r]) : r \in LiveRequests}]
       /\ \A r \in Requests :
            steps'[r] \in (IF r \notin ScheduledRequests THEN {NoStep}
                           ELSE IF r \in LiveRequests /\ ok
                           THEN GenerationSteps(r, SchedulingDecision[r])
                           ELSE {Failed})
       /\ request_states' =
            [r \in Requests |->
               IF r \notin ScheduledRequests THEN request_states[r]
               ELSE IF r \notin LiveRequests THEN "cancelled"
               ELSE IF ok THEN "executing" ELSE "failed_to_execute"]
  /\ pc' = "results"
  /\ UNCHANGED <<starting, verdict, published_count, kv_requests, messages, accepting, clientVars>>

\* send_output_tokens, one token at a time; the worker waits while the queue is
\* full.  The batch is sent in order, which no property depends on.
SendToken(r) ==
  /\ pc = "results" /\ steps[r] # NoStep /\ steps[r].tokens > 0
  /\ CanSend(r)
  /\ IF clients[r] = "gone"
     THEN /\ steps' = [steps EXCEPT ![r] = Failed]
          /\ request_states' = [request_states EXCEPT ![r] = "cancelled"]
     ELSE /\ steps' = [steps EXCEPT ![r] = Step(@.kind, @.count, @.tokens - 1)]
          /\ UNCHANGED request_states
  /\ unread' = Sent(r)
  /\ UNCHANGED <<schedulerVars, pc, starting, verdict, published_count, kv_requests,
                 messages, accepting, clients, answers>>

AllTokensSent == \A r \in Requests : steps[r] # NoStep => steps[r].tokens = 0

HandleResult(r) ==
  /\ pc = "results" /\ BetweenCalls /\ AllTokensSent
  /\ steps[r] # NoStep
  /\ steps' = [steps EXCEPT ![r] = NoStep]

\* complete_execution_step for a request that goes on.
ContinueRequest(r) ==
  /\ HandleResult(r)
  /\ ReportPhase(r, steps[r])
  /\ UNCHANGED <<pc, starting, verdict, published_count, managerVars, messages, accepting,
                 clientVars>>

\* complete_execution_step for a finished request; finalizing its KV state may fail,
\* and releases it all the same.
FinishRequest(r) ==
  /\ HandleResult(r)
  /\ steps[r].kind = "finished"
  /\ CallRemoveActive(r)
  /\ request_states' = [request_states EXCEPT ![r] = "absent"]
  /\ kv_requests' = kv_requests \ {r}
  /\ verdict' \in {"completed", "aborted"}
  /\ UNCHANGED <<pc, starting, published_count, messages, accepting, clientVars>>

\* Mutant: the model executor is not told.
AbortWithoutModelState(r) ==
  /\ CallRemoveActive(r)
  /\ request_states' = [request_states EXCEPT ![r] = "absent"]
  /\ verdict' = "aborted"
  /\ UNCHANGED <<pc, starting, published_count, kv_requests, messages, accepting, clientVars>>

\* abort_started_request, up to its report.
AbortStartedRequest(r) ==
  /\ CallRemoveActive(r)
  /\ request_states' = [request_states EXCEPT ![r] = "absent"]
  /\ kv_requests' = kv_requests \ {r}
  /\ verdict' = "aborted"
  /\ UNCHANGED <<pc, starting, published_count, messages, accepting, clientVars>>

AbortResult(r) ==
  /\ HandleResult(r)
  /\ steps[r].kind = "failed"
  /\ AbortStartedRequest(r)

\* handle_generation_phase publishes the leader's prefix and releases its flight.
PublishPrefix(r) ==
  /\ r \in publishing
  /\ CallReleasePrefixFlight(r)
  /\ UNCHANGED <<loopVars, managerVars, messages, accepting, clientVars>>

\* Publication fails.  After a batch the request is aborted with its model state;
\* start_request's error goes to finalize_request_abort alone.
FailToPublish(r) ==
  /\ PublicationMayFail /\ r \in publishing
  /\ UNCHANGED steps
  /\ \/ pc = "results" /\ AbortStartedRequest(r)
     \/ /\ pc = "start"
        /\ CallRemoveActive(r)
        /\ request_states' = [request_states EXCEPT ![r] = "absent"]
        /\ verdict' = "aborted"
        /\ UNCHANGED <<pc, starting, published_count, kv_requests, messages, accepting,
                       clientVars>>

\* Mutant: the new load is not published.
ReportOutcomeUnpublished(r) ==
  /\ r \in leaving /\ CanSend(r)
  /\ unread' = Sent(r)
  /\ answers' = [answers EXCEPT ![r] = IF verdict = "completed" THEN "stats" ELSE "error"]
  /\ IF verdict = "completed" THEN CallComplete(r) ELSE CallAbort(r)
  /\ UNCHANGED <<loopVars, managerVars, messages, accepting, clients>>

\* Mutant: the scheduler never learns of the termination.
ReportOutcomeToClientOnly(r) ==
  /\ r \in leaving /\ CanSend(r)
  /\ unread' = Sent(r)
  /\ answers' = [answers EXCEPT ![r] = IF verdict = "completed" THEN "stats" ELSE "error"]
  /\ leaving' = leaving \ {r}
  /\ published_count' = LoadCount
  /\ UNCHANGED <<flightVars, requestVars, blocked_requests, next_round_robin_prefill_request_id,
                 publishing, pc, starting, steps, verdict, managerVars, messages, accepting,
                 clients>>

\* Mutant: the outcome may be reported again.
ReportOutcomeRepeatedly(r) ==
  /\ r \in leaving /\ CanSend(r)
  /\ unread' = Sent(r)
  /\ answers' = [answers EXCEPT ![r] = IF verdict = "completed" THEN "stats" ELSE "error"]
  /\ published_count' = LoadCount
  /\ UNCHANGED <<schedulerVars, pc, starting, steps, verdict, managerVars, messages, accepting,
                 clients>>

\* report_request_outcome, then the scheduler learns of the termination and the
\* operational state is published.
ReportOutcome(r) ==
  /\ r \in leaving /\ CanSend(r)
  /\ unread' = Sent(r)
  /\ answers' = [answers EXCEPT ![r] = IF verdict = "completed" THEN "stats" ELSE "error"]
  /\ IF verdict = "completed" THEN CallComplete(r) ELSE CallAbort(r)
  /\ published_count' = LoadCount
  /\ UNCHANGED <<pc, starting, steps, verdict, managerVars, messages, accepting, clients>>

EndIteration ==
  /\ pc = "results" /\ BetweenCalls
  /\ \A r \in Requests : steps[r] = NoStep
  /\ pc' = "receive"
  /\ UNCHANGED <<schedulerVars, starting, steps, verdict, published_count,
                 managerVars, messages, accepting, clientVars>>

\* The thread has returned.
Stopped == pc = "stopped" /\ UNCHANGED workerVars

-----------------------------------------------------------------------------

Run ==
  \/ ReceiveFirst
  \/ BeginIteration
  \/ ReceiveMore
  \/ Exit
  \/ AdmitRequests
  \/ RunBatch
  \/ EndIteration
  \/ \E r \in Requests :
       \/ StartRequest(r)
       \/ FailToStart(r)
       \/ SendToken(r)
       \/ ContinueRequest(r)
       \/ FinishRequest(r)
       \/ AbortResult(r)
       \/ PublishPrefix(r)
       \/ FailToPublish(r)
       \/ ReportOutcome(r)

WorkerNext ==
  \/ Run
  \/ StopAccepting
  \/ Stopped
  \/ \E r \in Requests : SendMessage(r) \/ ReadEvent(r) \/ Disconnect(r)

WorkerSpec == WorkerInit /\ [][WorkerNext]_workerVars

\* The worker's thread keeps running, and a connected client keeps reading.
FairWorkerSpec ==
  /\ WorkerSpec
  /\ WF_workerVars(Run)
  /\ \A r \in Requests : WF_workerVars(ReadEvent(r))

-----------------------------------------------------------------------------
(* Properties *)

\* The manager, the scheduler and the executor agree on where each request is: no
\* request is lost between them, none runs after the scheduler has let it go.
LifecyclesAgree ==
  \A r \in Requests :
    /\ request_states[r] = "queued" <=> r \in queued_requests \cup starting
    /\ request_states[r] \notin {"absent", "queued"} <=> r \in active_requests \ starting

\* Exactly the running requests hold KV-cache state: nothing leaks, whatever fails
\* or is cancelled ("Any allocated model state must already have been released").
KvStateIsReleased == kv_requests = active_requests \ starting

\* Every published load counts exactly the requests the worker is responsible for,
\* so a router that adds its reservations counts each request once.
PublishedLoadIsExact ==
  published_count = Cardinality(queued_requests \cup active_requests \cup leaving)

\* When the thread ends, every accepted request has been answered or its client left.
NothingIsLostAtExit ==
  pc = "stopped" =>
    \A r \in Requests : clients[r] = "connected" => answers[r] # "none"

\* A terminal event is final: nothing follows it in a client's stream.
TerminalEventsAreFinal ==
  [][\A r \in Requests : answers[r] # "none" =>
       answers'[r] = answers[r] /\ unread'[r] <= unread[r]]_workerVars

\* Every request is answered unless its client leaves.
EveryRequestIsAnswered ==
  \A r \in Requests :
    clients[r] = "connected" ~> (answers[r] # "none" \/ clients[r] = "gone")

\* Once the server has stopped, the worker drains its work and returns.
ShutdownDrains == ~accepting ~> pc = "stopped"
=============================================================================
