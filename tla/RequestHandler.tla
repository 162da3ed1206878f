--------------------------- MODULE RequestHandler ---------------------------
(***************************************************************************)
(* The request-handler process (request_handler/server/mod.rs,             *)
(* input_preprocessing_pool.rs, generation_event_processor.rs and the      *)
(* decoder of tokenizer.rs): an RPC gets an id, is tokenized by a thread   *)
(* pool, goes to the model runner, and from then on a task of its own      *)
(* turns the runner's tokens into text events for the client, through a    *)
(* bounded channel. Shutdown lets the open calls end, then joins the pool. *)
(*                                                                         *)
(* Text is the sequence of the tokens it comes from. The decoder may hold  *)
(* back the tokens of a character that is not complete yet.                *)
(***************************************************************************)
EXTENDS Naturals, Sequences, SequencesExt, FiniteSets

CONSTANTS
  Requests,        \* the calls clients make
  StreamedSets,    \* bound: which of them may have stream_output
  Accepted,        \* bound: those the model runner may accept
  Workers,         \* the threads of the preprocessing pool
  Capacity,        \* GENERATION_EVENT_QUEUE_CAPACITY
  MaxRequestId,    \* u64::MAX
  MaxTokens        \* bound: how many tokens the runner emits for each call

ASSUME HandlerAssumption ==
  /\ StreamedSets \subseteq SUBSET Requests /\ Accepted \subseteq Requests
  /\ Requests \cap {"shutdown", "receiving", "returned", "panicked"} = {}
  /\ IsFiniteSet(Workers) /\ Workers # {}
  /\ Capacity \in Nat \ {0}
  /\ MaxRequestId \in Nat \ {0}
  /\ MaxTokens \in [Requests -> Nat]

VARIABLES
  streamed,   \* the calls with stream_output, fixed from the start
  server,     \* the life of the process's RPC server
  requestId,  \* RequestId: the next id
  call,       \* where each RPC is
  commands,   \* the pool's queue: requests and "shutdown"
  worker,     \* what each pool thread does
  result,     \* the oneshot a call waits on for its preprocessing
  task,       \* the forwarding task of each call
  sent,       \* history: the tokens the runner has emitted
  held,       \* IncrementalTokenDecoder: tokens without their text yet
  buffered,   \* GenerationEventProcessor::buffered_text
  out,        \* the processed events the task still has to send
  events,     \* the bounded channel to the client
  got         \* what the client has received

poolVars == <<commands, worker, result>>
taskVars == <<task, sent, held, buffered, out, events>>
vars == <<streamed, server, requestId, call, poolVars, taskVars, got>>

Text(s) == [kind |-> "text", tokens |-> s]
Stats == [kind |-> "stats", tokens |-> <<>>]
Error == [kind |-> "error", tokens |-> <<>>]

Open == {"preprocessing", "calling", "streaming"}
Gone == {"returned", "panicked"}
Tokens == Nat \ {0}
Events == [kind : {"text", "stats", "error"}, tokens : Seq(Tokens)]

HandlerTypeOK ==
  /\ streamed \in StreamedSets
  /\ server \in {"serving", "draining", "dropping", "joining", "exited"}
  /\ requestId \in 1..MaxRequestId
  /\ call \in [Requests -> {"idle", "left", "ok", "error"} \cup Open]
  /\ commands \in Seq(Requests \cup {"shutdown"})
  /\ worker \in [Workers -> {"receiving"} \cup Gone \cup Requests]
  /\ result \in [Requests -> {"none", "waiting", "ok", "error"}]
  /\ task \in [Requests -> {"none", "reading", "last", "done"}]
  /\ sent \in [Requests -> Seq(Tokens)] /\ held \in [Requests -> Seq(Tokens)]
  /\ buffered \in [Requests -> Seq(Tokens)]
  /\ out \in [Requests -> Seq(Events)] /\ events \in [Requests -> Seq(Events)]
  /\ got \in [Requests -> Seq(Events)]
  /\ \A r \in Requests : Len(events[r]) <= Capacity

\* The server is idle, whatever number of calls it has served before.
Init ==
  /\ streamed \in StreamedSets
  /\ server = "serving" /\ requestId \in 1..MaxRequestId
  /\ call = [r \in Requests |-> "idle"]
  /\ commands = <<>>
  /\ worker = [w \in Workers |-> "receiving"]
  /\ result = [r \in Requests |-> "none"]
  /\ task = [r \in Requests |-> "none"]
  /\ sent = [r \in Requests |-> <<>>]
  /\ held = [r \in Requests |-> <<>>]
  /\ buffered = [r \in Requests |-> <<>>]
  /\ out = [r \in Requests |-> <<>>]
  /\ events = [r \in Requests |-> <<>>]
  /\ got = [r \in Requests |-> <<>>]

-----------------------------------------------------------------------------
(* RequestHandlerRpcService::generate_text, up to each of its awaits. *)

\* The receiver of the command channel is dropped with the last worker.
ReceiverLives == \E w \in Workers : worker[w] \notin Gone

\* RequestId::next: fetch_update with checked_add, so that the last id is
\* never handed out and nothing wraps.
NextId ==
  /\ requestId < MaxRequestId
  /\ requestId' = requestId + 1

\* An id, then the submission to the pool (InputPreprocessingPool::preprocess
\* up to its await). A pool without workers refuses.
Arrive(r) ==
  /\ server = "serving" /\ call[r] = "idle"
  /\ NextId
  /\ IF ReceiverLives
     THEN /\ commands' = Append(commands, r)
          /\ result' = [result EXCEPT ![r] = "waiting"]
          /\ call' = [call EXCEPT ![r] = "preprocessing"]
     ELSE /\ call' = [call EXCEPT ![r] = "error"]
          /\ UNCHANGED <<commands, result>>
  /\ UNCHANGED <<streamed, server, worker, taskVars, got>>

\* The id space is exhausted.
ArriveTooLate(r) ==
  /\ server = "serving" /\ call[r] = "idle"
  /\ requestId = MaxRequestId
  /\ call' = [call EXCEPT ![r] = "error"]
  /\ UNCHANGED <<streamed, server, requestId, poolVars, taskVars, got>>

\* The oneshot holds a result, or its sender was dropped with the worker or
\* with the queue.
Preprocessed(r) ==
  /\ call[r] = "preprocessing" /\ result[r] \in {"ok", "error"}
  /\ call' = [call EXCEPT ![r] = IF result[r] = "ok" THEN "calling" ELSE "error"]
  /\ UNCHANGED <<streamed, server, requestId, poolVars, taskVars, got>>

\* The runner refuses the request, or accepts it and the forwarding task is
\* spawned.
RunnerRefuses(r) ==
  /\ call[r] = "calling"
  /\ call' = [call EXCEPT ![r] = "error"]
  /\ UNCHANGED <<streamed, server, requestId, poolVars, taskVars, got>>

RunnerAccepts(r) ==
  /\ call[r] = "calling" /\ r \in Accepted
  /\ call' = [call EXCEPT ![r] = "streaming"]
  /\ task' = [task EXCEPT ![r] = "reading"]
  /\ UNCHANGED <<streamed, server, requestId, poolVars, sent, held, buffered, out, events, got>>

-----------------------------------------------------------------------------
(* The pool's threads: run_worker. *)

\* Mutant: the queue outlives the threads, and the senders in it.
StopKeepingQueue(w, s, pending, done) ==
  /\ worker' = [worker EXCEPT ![w] = s]
  /\ commands' = pending
  /\ result' = [r \in Requests |-> IF r \in done THEN "error" ELSE result[r]]

\* Thread w stops as s, leaving the queue pending and the results of done
\* unsent. With the last thread the channel goes, and with it the senders of
\* the results that queued commands carry.
Stop(w, s, pending, done) ==
  LET last == \A v \in Workers \ {w} : worker[v] \in Gone
      lost == IF last THEN done \cup ToSet(pending) ELSE done
  IN  /\ worker' = [worker EXCEPT ![w] = s]
      /\ commands' = IF last THEN <<>> ELSE pending
      /\ result' = [r \in Requests |-> IF r \in lost THEN "error" ELSE result[r]]

\* One thread at a time holds the receiver's lock, and only while it waits in
\* recv, so that taking it is part of receiving. A request is preprocessed, a
\* shutdown ends the thread.
Receive(w) ==
  /\ worker[w] = "receiving" /\ commands # <<>>
  /\ IF Head(commands) = "shutdown"
     THEN Stop(w, "returned", Tail(commands), {})
     ELSE /\ worker' = [worker EXCEPT ![w] = Head(commands)]
          /\ commands' = Tail(commands)
          /\ UNCHANGED result
  /\ UNCHANGED <<streamed, server, requestId, call, taskVars, got>>

\* TokenizerWrapper::create_generate_text_request fails, or yields no tokens,
\* or gives the runner's request.
Outcomes == {"ok", "error"}

\* Mutant: a thread returns when nobody waits for its result any more.
PreprocessForListeners(w) ==
  /\ worker[w] \in Requests
  /\ IF call[worker[w]] = "preprocessing"
     THEN /\ \E o \in Outcomes : result' = [result EXCEPT ![worker[w]] = o]
          /\ worker' = [worker EXCEPT ![w] = "receiving"]
          /\ UNCHANGED commands
     ELSE Stop(w, "returned", commands, {worker[w]})
  /\ UNCHANGED <<streamed, server, requestId, call, taskVars, got>>

\* The result goes to the oneshot; that the call may be gone by now does not
\* matter to the thread.
Preprocess(w) ==
  /\ worker[w] \in Requests
  /\ \E o \in Outcomes :
       result' = [result EXCEPT ![worker[w]] = o]
  /\ worker' = [worker EXCEPT ![w] = "receiving"]
  /\ UNCHANGED <<streamed, server, requestId, call, commands, taskVars, got>>

\* The tokenizer panics: the thread is lost, and the sender of its result.
Panic(w) ==
  /\ worker[w] \in Requests
  /\ Stop(w, "panicked", commands, {worker[w]})
  /\ UNCHANGED <<streamed, server, requestId, call, taskVars, got>>

-----------------------------------------------------------------------------
(* forward_generation_events and GenerationEventProcessor::process. *)

\* The task has nothing left to send and reads on.
Reading(r) == task[r] = "reading" /\ out[r] = <<>>

\* A token: the decoder yields the text of all it holds, or nothing yet.
\* Streaming makes an event of the text, else it is buffered.
ReadToken(r) ==
  /\ Reading(r) /\ Len(sent[r]) < MaxTokens[r]
  /\ LET token == Len(sent[r]) + 1
         text == Append(held[r], token)
     IN  /\ sent' = [sent EXCEPT ![r] = Append(@, token)]
         /\ \/ /\ held' = [held EXCEPT ![r] = text]
               /\ UNCHANGED <<buffered, out>>
            \/ /\ held' = [held EXCEPT ![r] = <<>>]
               /\ IF r \in streamed
                  THEN out' = [out EXCEPT ![r] = <<Text(text)>>] /\ UNCHANGED buffered
                  ELSE buffered' = [buffered EXCEPT ![r] = @ \o text] /\ UNCHANGED out
  /\ UNCHANGED <<streamed, server, requestId, call, poolVars, task, events, got>>

\* The statistics: the buffered text goes first.
ReadStats(r) ==
  /\ Reading(r)
  /\ out' = [out EXCEPT ![r] = IF r \in streamed THEN <<Stats>>
                               ELSE <<Text(buffered[r]), Stats>>]
  /\ buffered' = [buffered EXCEPT ![r] = <<>>]
  /\ task' = [task EXCEPT ![r] = "last"]
  /\ UNCHANGED <<streamed, server, requestId, call, poolVars, sent, held, events, got>>

\* Mutant: a stream that ends without statistics just ends the task.
ReadFailureSilently(r) ==
  /\ Reading(r)
  /\ task' = [task EXCEPT ![r] = "done"]
  /\ UNCHANGED <<streamed, server, requestId, call, poolVars, sent, held, buffered, out, events, got>>

\* The stream ends before its statistics, fails, carries an empty event, or a
\* token the decoder rejects: one error ends the call.
ReadFailure(r) ==
  /\ Reading(r)
  /\ out' = [out EXCEPT ![r] = <<Error>>]
  /\ task' = [task EXCEPT ![r] = "last"]
  /\ UNCHANGED <<streamed, server, requestId, call, poolVars, sent, held, buffered, events, got>>

\* One event into the channel, as soon as there is room.
Send(r) ==
  /\ out[r] # <<>> /\ call[r] = "streaming" /\ Len(events[r]) < Capacity
  /\ events' = [events EXCEPT ![r] = Append(@, Head(out[r]))]
  /\ out' = [out EXCEPT ![r] = Tail(@)]
  /\ task' = [task EXCEPT ![r] = IF @ = "last" /\ Len(out[r]) = 1 THEN "done" ELSE @]
  /\ UNCHANGED <<streamed, server, requestId, call, poolVars, sent, held, buffered, got>>

\* The receiver is gone: the send fails and the task returns.
SendFails(r) ==
  /\ out[r] # <<>> /\ call[r] # "streaming"
  /\ task' = [task EXCEPT ![r] = "done"]
  /\ out' = [out EXCEPT ![r] = <<>>]
  /\ UNCHANGED <<streamed, server, requestId, call, poolVars, sent, held, buffered, events, got>>

-----------------------------------------------------------------------------
(* The clients, and shutdown. *)

\* The client reads an event; an error ends its call.
ClientReads(r) ==
  /\ call[r] = "streaming" /\ events[r] # <<>>
  /\ got' = [got EXCEPT ![r] = Append(@, Head(events[r]))]
  /\ events' = [events EXCEPT ![r] = Tail(@)]
  /\ call' = [call EXCEPT ![r] = IF Head(events[r]) = Error THEN "error" ELSE @]
  /\ UNCHANGED <<streamed, server, requestId, poolVars, task, sent, held, buffered, out>>

\* The channel is empty and its sender gone: the stream ends with success.
StreamEnds(r) ==
  /\ call[r] = "streaming" /\ events[r] = <<>> /\ task[r] = "done"
  /\ call' = [call EXCEPT ![r] = "ok"]
  /\ UNCHANGED <<streamed, server, requestId, poolVars, taskVars, got>>

\* The client goes away: the RPC's future, or the stream, is dropped.
ClientLeaves(r) ==
  /\ call[r] \in Open
  /\ call' = [call EXCEPT ![r] = "left"]
  /\ events' = [events EXCEPT ![r] = <<>>]
  /\ UNCHANGED <<streamed, server, requestId, poolVars, task, sent, held, buffered, out, got>>

\* The Shutdown RPC: no new call is accepted.
Shutdown ==
  /\ server = "serving"
  /\ server' = "draining"
  /\ UNCHANGED <<streamed, requestId, call, poolVars, taskVars, got>>

\* The server future ends once no call is open, and drops the service.
Drained ==
  /\ server = "draining"
  /\ \A r \in Requests : call[r] \notin Open
  /\ server' = "dropping"
  /\ UNCHANGED <<streamed, requestId, call, poolVars, taskVars, got>>

\* Mutant: one shutdown command for the whole pool.
DropPoolOnce ==
  /\ server = "dropping"
  /\ commands' = IF ReceiverLives THEN Append(commands, "shutdown") ELSE commands
  /\ server' = "joining"
  /\ UNCHANGED <<streamed, requestId, call, worker, result, taskVars, got>>

\* InputPreprocessingPool::drop: one shutdown command for each thread (a
\* failing send is ignored), then the joins.
DropPool ==
  /\ server = "dropping"
  /\ commands' = IF ReceiverLives
                 THEN commands \o [i \in 1..Cardinality(Workers) |-> "shutdown"]
                 ELSE commands
  /\ server' = "joining"
  /\ UNCHANGED <<streamed, requestId, call, worker, result, taskVars, got>>

Joined ==
  /\ server = "joining" /\ ~ReceiverLives
  /\ server' = "exited"
  /\ UNCHANGED <<streamed, requestId, call, poolVars, taskVars, got>>

-----------------------------------------------------------------------------

Serve(r) == Preprocessed(r) \/ RunnerRefuses(r) \/ RunnerAccepts(r)
Read(r) == ReadToken(r) \/ ReadStats(r) \/ ReadFailure(r)
Forward(r) == Read(r) \/ Send(r) \/ SendFails(r)
Consume(r) == ClientReads(r) \/ StreamEnds(r)
Work(w) == Receive(w) \/ Preprocess(w) \/ Panic(w)

Next ==
  \/ \E r \in Requests : \/ Arrive(r) \/ ArriveTooLate(r) \/ ClientLeaves(r)
                         \/ Serve(r) \/ Forward(r) \/ Consume(r)
  \/ \E w \in Workers : Work(w)
  \/ Shutdown \/ Drained \/ DropPool \/ Joined

\* Threads and tasks run, the runner answers and ends its streams, clients
\* read what there is. No client has to call, to leave, or to ask for shutdown.
Fairness ==
  /\ \A r \in Requests : WF_vars(Serve(r)) /\ WF_vars(Forward(r)) /\ WF_vars(Consume(r))
  /\ \A w \in Workers : WF_vars(Work(w))
  /\ WF_vars(Drained) /\ WF_vars(DropPool) /\ WF_vars(Joined)

Spec == Init /\ [][Next]_vars /\ Fairness

-----------------------------------------------------------------------------
(* Properties *)

TextOf(s) == FlattenSeq([i \in DOMAIN s |-> s[i].tokens])

\* Between runner and client no text is lost, repeated or reordered, whether
\* it is in the decoder, the buffer, the task, the channel or the client.
TextIsConserved(r) ==
  call[r] = "streaming" =>
    TextOf(got[r] \o events[r] \o out[r]) \o buffered[r] \o held[r] = sent[r]

\* "A successful response always ends with a statistics event": exactly one,
\* the last one, after the text of every token the runner sent but those of a
\* character it did not complete; a buffered response is one text event.
SuccessIsComplete(r) ==
  call[r] = "ok" =>
    /\ got[r] # <<>> /\ Last(got[r]) = Stats
    /\ \A i \in 1..Len(got[r]) - 1 : got[r][i].kind = "text"
    /\ TextOf(got[r]) \o held[r] = sent[r]
    /\ r \notin streamed => Len(got[r]) = 2

\* What a client is given is what the runner sent, in the order it was sent,
\* and a stream that stops early never looks like a success.
StreamsAreFaithful ==
  /\ HandlerTypeOK
  /\ \A r \in Requests : TextIsConserved(r) /\ SuccessIsComplete(r)

\* A thread leaves the pool only by a panic or in the shutdown: failed
\* requests and clients that left cost none.
WorkersStay ==
  (\E w \in Workers : worker[w] = "returned") => server \in {"joining", "exited"}

\* Every submission is answered, though threads may panic with commands still
\* queued and calls may be waiting on them.
PreprocessingEnds ==
  \A r \in Requests : call[r] = "preprocessing" ~> call[r] # "preprocessing"

\* The shutdown ends: open calls are served, queued commands worked off, and
\* every thread still alive gets its shutdown command and is joined.
ShutdownEnds == server = "draining" ~> server = "exited"

=============================================================================
