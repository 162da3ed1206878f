# Verification of mini-vllm-rs

TLA+ specifications of mini-vllm-rs, a local LLM inference service written in Rust, with TLC
model checking and TLAPS proofs. All source paths are relative to the repository (`src/` is its
Rust crate).

## 1. The system

Three processes talk over Unix sockets (gRPC):

* **main process** (`src/main_process/`): parses the command line, starts the model runner and the
  request handler as child processes, waits for a shutdown request or Ctrl-C and stops them.
* **request handler** (`src/request_handler/`): tokenizes prompts in a pool of threads, forwards
  requests to the model runner and streams the decoded text back.
* **model runner** (`src/model_runner/`): routes each request to one of several *backends*. A backend
  is an OS thread that owns an inference worker, a scheduler, a request manager, a model executor and
  the KV caches of its models. Async gRPC handlers reach it through a bounded channel.

| Component | State | Operations | Talks to | What is hard |
|---|---|---|---|---|
| Supervisor (`main_process/supervisor.rs`, the two `client.rs`, `utils/`) | the two children, their sockets, the control socket | start, wait, serve, stop, drop | processes, other programs at the public paths | a start that fails half way, one stop failing, Ctrl-C at any moment |
| Request handler (`request_handler/server/`) | request-ID counter, one forwarding task and one bounded event channel per call | preprocess, forward, decode, buffer, shut down | pool, model runner, clients | streams that end early, clients that leave or do not read |
| Preprocessing pool (`input_preprocessing_pool.rs`) | command queue, threads, one-shot results | submit, receive, preprocess, join | request handler | panics with commands queued, shutdown commands behind requests |
| Configuration and command line (`main_process/cli.rs`, `proto/inference_config.rs`) | - | resolve, normalize, validate, convert, write, read | both processes | two processes must work with the same configuration |
| Model-runner server (`server/mod.rs`) | channels, worker threads, shutdown trigger | start backends, generate, telemetry, shutdown | all of the below | capacity limits, output limits, shutdown |
| Request orchestrator (`server/routing/`) | reserved loads, selection epochs, the workers' snapshots | route, release, publish | gRPC handlers, workers | a request counted as reservation or in a snapshot, never both or neither |
| Inference worker (`server/execution/inference_worker.rs`) | the loop, published snapshots and their epochs | receive, admit and start, run a batch, finish, abort | message queue, scheduler, manager, executor, routing | errors in the middle of a step, shutdown drain, snapshots older than the state |
| Request manager (`server/execution/request_manager.rs`) | one lifecycle state per request, one bounded event queue per client | add, start, advance a batch, finish, abort | worker, executor, clients | a failed batch fails all its members, clients that leave or do not read |
| Scheduler (`server/execution/scheduler.rs`) | queued and active lists, phases, blocked flags, round-robin cursor | enqueue, admit, report a phase, terminate, create a batch | called by the worker | page reservations and head-of-line admission, blocked followers, budget arithmetic |
| Flight coordinator (`server/execution/prefix_cache_flight.rs`) | flights, request index, input index, released IDs | add, release after publication, remove completed or aborted | owned by the scheduler | leaders that abort, flights released while the leader runs, three indexes that must agree |
| Model executor (`server/model_executor.rs`, `model_instance.rs`) | KV state of a target and an optional draft model | start, run steps, publish, finish, abort | worker, caches, generation | both models or neither |
| Text generation (`server/generation/`) | committed tokens, cached tokens of both models, draft-count controller | prefill, decode, draft and verify, truncate | executor, caches | rejected drafts, the end-of-sequence token, output limits |
| Token samplers (`generation/sampler.rs`) | - | penalise, select, verify | generation | the law of what a verification returns |
| Paged KV cache and prefix index (`server/kv_cache/`) | page states, free list, block tables, publication cursors; a tree of blocks with access times | restore, append, truncate, publish, adopt, evict, reset | executor | pages shared between requests and the index, eviction while requests append |
| Model backends and contiguous cache (`models/backends/common.rs`, `kv_cache/contiguous_cache.rs`) | cached key and value rows | pack, append, attend, truncate | generation, caches | offsets, masks and pages of packed batches |

How they interact: a client's call gets an ID, is tokenized by the pool and sent to the runner, where
an RPC handler routes it under the routing lock, which reserves its load, and sends it through the
bounded channel of the chosen backend. The backend's thread takes messages, enqueues them in its
request manager and its scheduler, publishes the new load and drops the reservation under the same
lock, admits what fits, starts it in the model executor (which restores a cached prefix), asks the
scheduler for a batch, runs one generation step for it, sends the tokens to the bounded queues of its
callers, and reports each request's new phase or its end to the scheduler, which tells the flight
coordinator. The request handler's task turns tokens into text and sends it on through a channel of
its own. Only the routing lock, the channels, the pool's queue and the published snapshots are shared
between threads; scheduler, manager, executor and caches belong to one thread.

### What is hard to test

`PROJECT.json` lists each hazard with its line. They fall into seven groups.

1. *Waiting on one another.* A request waits for the leader of its flight, a leader for pages, the
   thread for a client's full queue, a call for a thread that panicked, shutdown for all of them.
2. *One request in several indexes.* The manager, the scheduler's two lists, the coordinator's three
   maps, the executor and the routing state must agree after every error path and cancellation.
3. *State published earlier.* Routers read loads that are old; a publication cursor names blocks that
   may have been evicted; a socket path is checked before it is used.
4. *Shared pages.* A page belongs to the index and to any number of requests; duplicates are adopted,
   rejected tokens truncated, leaves evicted while other requests append.
5. *Boundaries.* Page counts at block ends, the last prefill of a batch, the last token before the
   output limit, a proposal that ends with an end-of-sequence token, the offsets of a packed batch.
6. *Streams that are cut.* The runner fails after some tokens, the client leaves, a character is not
   complete: an answer that is not whole must not look whole.
7. *Processes.* Children that crash, hang or refuse to stop while the parent starts or ends.

What makes each component correct: the supervisor leaves nothing behind; the handler gives a client
what the runner sent, or an error, and its pool answers every submission; the coordinator is one
first-come line per input; the scheduler reserves what it admits and wakes what it blocked; the worker
answers every request once and keeps no state of a request that ended; the cache owns every page
exactly and never refuses an admitted append; the orchestrator counts each request once; text
generation gives a greedy request what the target model alone would, and the sampler gives the others
the target's distribution; a forward pass gives each request of a batch its own causal logits; both
processes work with the configuration that was validated.

## 2. Modules

| Module | Uses | Models |
|---|---|---|
| `Totals` | - | the sum of a function over a set of requests |
| `SingleFlight` | - | abstract: per input, a line whose head runs and whose others wait |
| `PrefixCacheFlight` | - | the coordinator's three maps and its five calls |
| `FlightRefinement` | extends `PrefixCacheFlight`, instantiates `SingleFlight` | how flights are lines |
| `Scheduler` | extends `PrefixCacheFlight`, `Totals` | the scheduler that owns the coordinator, and any caller of it |
| `InferenceWorker` | extends `Scheduler` | the thread, the request manager, the channel and the clients, calling the scheduler's own operators |
| `PagedKvCache` | extends `Totals` | page pool, block tables, prefix index |
| `RequestOrchestrator` | extends `Totals` | routing lock, reservations, snapshots, the five policies, the handlers and the workers as far as they touch them |
| `TextGeneration` | - | one executor's steps with the target alone or with a draft model |
| `Supervisor` | - | the main process, its two children, the control server and the files at their sockets |
| `RequestHandler` | - | the calls, the preprocessing pool, the forwarding tasks, the decoder and the buffers |
| `Attention` | - | forward passes over both caches, symbolically |
| `Sampling`, `Limits`, `Configuration` | - | functions of their inputs: selection and verification, the limits of a start-up and of a request, the way of a configuration from the command line to the runner |
| `*_proofs` | extends its module and `TLAPS` | lemmas and theorems; `Scheduler_proofs` has the coordinator's and its refinement's too, `Algorithms_proofs` extends `MCAlgorithms` |
| `MC*` | extends its module | the instances of section 4; `MCAlgorithms` composes the last four |

Two refinements tie modules together. `PrefixCacheFlight` implements `SingleFlight` (mapping in
`FlightRefinement`: the line of an input is the leader of its flight followed by the followers).
The worker implements the scheduler's specification: `Scheduler` lets a caller make any call that the
scheduler's API allows, and every step of `InferenceWorker` is one of those calls or leaves the
scheduler alone. Both are properties of a run and theorems.

The other seams are assumptions on one side and properties on the other. `Scheduler` admits against
`MaxRequiredPageCount`; `PagedKvCache` starts requests under the same rule and shows that appends then
succeed; `TextGeneration` shows that no cache exceeds what was reserved; `Limits` shows that a request
which passes `normalize_generate_text_request` fits, which `SchedulerAssumption` takes for granted.
`InferenceWorker` draws a step's result from sets (`GenerationSteps`); `StepsAdvance` of
`TextGeneration` is what justifies them. `TextGeneration` lets a stochastic verification return what
`Sampling` computes the law of, and caches tokens where `Attention` caches rows.
`InferenceWorker` publishes one count; `PublishedLoadIsExact` is what `RequestOrchestrator` relies on
when its workers publish the exact content of their queues. `RequestHandler` lets the runner end a
stream in the three ways that `InferenceWorker` ends one, and `Supervisor` sees either server only as
a child that may get ready, drain, hang or crash.

## 3. State and actions

`PROJECT.json` maps every definition to its lines. This section says what is left out or merged.

**PrefixCacheFlight.** `flights`, `request_flight_ids` and `exact_input_index` are the code's three
maps, `released_request_ids` its set, `next_flight_id` its counter (bounded by `MaxFlightId`,
which stands for `u64::MAX`: `RefuseRequest`). An input is a model value: the code compares whole token
vectors. One action per method; a call that returns an error changes nothing, so errors are guards.
`FlightRefinement` reads a flight as a line: its leader, then its followers in order.

**Scheduler.** The code keeps two `Vec`s. Order matters, positions do not, so each is a set with
`ahead[r]`, the requests before `r`. The queue's stable sort has keys that do not change while a
request is queued, and is modelled where it is read (`QueuedBefore`). Admission is one action that
admits the one set the loop would (`IsAdmission`): a prefix of the policy order, blocked requests
skipped, ended by the first request that does not fit. A batch is a function from requests to token
budgets. `publishing` and `leaving` are not scheduler state: they are the obligations of the caller
(publish and then release; report the end), which the worker keeps on its stack.

**InferenceWorker.** Program counter values are the loop's waiting points: `receive` (blocking
receive), `drain` (non-blocking receives), `start` (the admitted requests), `results` (after
`advance_executions`). A stretch that neither sends nor receives is one action; tokens are sent one at
a time, since each send may block. The end of a request is split at the send of its outcome. A result
is abstracted to the phase that `TextGeneration` may report. The client may disconnect before any
step. `FailToPublish` follows the code even where it forgets the executor's state (observation 1).

**PagedKvCache.** A page holds the values of one block in one layer; `contents` records which, so that
sharing, reuse and stale reads are visible. A block is named by the prefix that ends with it. Appends
are split at every page written and every leaf evicted. The code evicts the leaf whose access time is
oldest; the model evicts any leaf that nobody reads, which covers every order of accesses. A request
appends in layer order; it may be removed between two layers, when the forward pass has failed, and
truncate or publish only when all layers hold the same tokens. A publication may follow any step, as
with incremental publication; the policy that publishes at the end only is a subset of that.

**RequestOrchestrator.** A handler holds the routing lock from its first read to its choice (stage
`routing`), and scores one backend after the other: each borrow of a load or of a cache snapshot is an
action (`ReadOperationalState`, `ReadCacheAffinityState`), and `Route` selects by what was read. Every
release of a reservation waits for the lock: `Abandon` (a cancelled call or a failed send),
`ReleaseAfter` (with the publication of an enqueued request), `FailToEnqueue` and `DropMessage`. The
end of a request is published *without* the lock (`PublishOperationalState`), and so are the affinity
snapshots, so either may change between two reads of one decision. A worker's change of its scheduler
(`Enqueue`, `Advance`, `Remove`) and its publication are two steps. Affinity snapshots are arbitrary
sets of requests whose prefix they contain. `StopWorker` is a thread that ends with an error: its last
snapshot stays, and its channel is dropped message by message. `outstanding_at_read` is history: the
requests that were outstanding when a load was read. `LeastLoadedIsChosen` compares the backend chosen
with what the others had when they were read, which is all that the code can promise (observation 7).
All five policies are one specification: `policy` is chosen at the start and never changes.
`RoundRobinIsBalanced` is about requests without an override only.

**TextGeneration.** A cache is the sequence of the tokens that went through the model. What a greedy
target selects depends on the tokens before it: `reference` fixes its answer and any continuation off
that answer is free. The draft model proposes anything. A step goes through `PrepareStep`,
`RunDraftPrefill`, `ProposeDraftTokens`, `RunTargetForward` and one completion per request, and may
fail after each of them, upon which the worker aborts the batch. The average of the accepted-length
policy is rounded and may be anything between the old average and the new count, which covers every
smoothing factor.

**Supervisor.** `main` is the point that `supervisor::run` has reached, one value per call that can
fail or wait. `installed` turns true when the `select` is first polled, which is when tokio installs
its Ctrl-C handler; an `Interrupt` before that kills the main process without running a destructor. A
child is absent, loading, serving, draining, or has exited well or badly. It is armed while its
`RpcShutdown` holds the sender: a second shutdown call is refused. At each socket path lies no file,
a file of this server or a foreign one (`Intrude`: another program, or another server, binds it), and
`channel` says whose listener the owner's client connected to. `stuck` are the files the system does
not let go of, the control socket's among them. A timeout is a wait that gives up in any round.
`StopServing` drops the control server, and with it the file at its path, whoever has put it there; a
removal that fails is only logged there, so that `run` may still succeed (observation 8).

**RequestHandler.** A token stands for its text. The decoder may hold tokens back, as it does for an
incomplete character; `buffered` is `GenerationEventProcessor`'s text of a call that does not stream.
Each accepted call has a forwarding task, of which `out` are the events that wait to be sent, and a
bounded channel, `events`. The threads share the command queue; a thread takes one command, answers
its one-shot or panics. `Stop` drops the queue, and the one-shots in it, when the last thread goes.
The shutdown is tonic's: no new calls, then `Drained`, then `DropPool` queues one shutdown command per
thread, then `Joined`. `sent` and `got` are history. The runner ends a stream with statistics, with
an error, or without either.

**Attention.** Numbers are replaced by what they are computed from: a row is a term that names its
projection, head, position and hidden state, a head's output the set of score-value pairs it sums. The
packing of a batch, the narrowing of each request's rows, the reshaping for grouped heads, the page
that a token goes to, the gathering of pages, the masks and their offsets are the code's; a loop over
requests, layers or pages is a function of how many rounds were made. `mode` chooses the cache, the
device and the kernels, since the code takes other paths for each. A pass is given only what the pages
can take (`HasRoom`), as `ReservedAppendsSucceed` shows of the cache; the loop of `append_to_pages` then
meets no empty pool. Two bounds: `MaxLength` tokens per request and `MaxCalls` calls.

**Sampling, Limits, Configuration** have no state: each is a set of operators on a record that holds
the case. `Sampling` replaces probabilities by integer weights and compares fractions exactly where the
code rounds. `Limits` follows a start-up from model files and command line to the capacities of each
backend, then a request through `normalize_generate_text_request`. `Configuration` follows the messages
through resolution, normalisation, validation, conversion, writing and reading; an optional field is a
set of at most one value, and an unknown enumeration number, which the conversions panic at, is a value
of its own.

## 4. Runs, and why their bounds are enough

| Run | Instance | Shows |
|---|---|---|
| `flight_until_published` | 4 requests, 3 on one input; 4 flight IDs | every order of calls is a line per input; three requests give a leader, a follower that is promoted and one that must keep its place, the fourth shows that inputs do not meet; IDs run out; a leader that was released is still tracked while a new flight runs on its input |
| `scheduler_fcfs_published` | the same 4 requests, inputs of 2 and 3 tokens, pages of 2 tokens, 3 pages, 2 active, batches of 3 | reservations, blocking and wake-ups; requests need one or two pages, so two that need two do not fit together, and head-of-line blocking, promotion and release all happen |
| `worker_published` | 3 requests, 2 on one input; shortest prefill first; 3 pages; channel of 2; event queue of 1; batches of 2; publications that may fail | everything about one request's life, under fairness; the channel and the queue fill, every error path is taken, clients leave anywhere |
| `worker_speculative` | the same with a draft model, round robin, followers released at completion, longer requests and publications that do not fail | the executor's state goes with the request; a restored prefix may start in decode; a prefill as long as the batch competes with a decode, so a batch that leaves budget unused would show |
| `kv_pages` | 3 requests that share a block, 6 pages of 2 tokens, 2 layers | shared, duplicate and evicted blocks; a block too short to restore; six pages hold three blocks, so restores, evictions and truncations interfere, and a pass that stops between the layers leaves one with more pages than the other |
| `routing_policies` | 2 backends of different speeds, 3 requests (one with a cached prefix, one with an override), channel of 1, every policy | reservations, counting and choices for every interleaving of handlers and workers; a decision reads two loads, and requests end before, between and after the reads |
| `generation_batch` | a greedy request of 3 + 3 tokens, a stochastic one of 1 + 2, budget 2, 3 tokens with one end of sequence, 3 draft policies or none | chunked and restored prefills, accepted and rejected proposals, proposals that meet the end of sequence and the limit |
| `supervisor_lifecycle` | any foreign files at the start or at any moment, any files stuck (the control socket's too), children that fail anywhere | every way out of `run` is clean, in order, and reached; the state space is whole, without bounds |
| `supervisor_interrupt`, `supervisor_two_servers` | the same | the two findings of section 8: violated on purpose |
| `handler_calls` | 3 calls, 2 threads, one call that the runner may accept, with 2 tokens, streamed or buffered; channel of 1; 4 request IDs | two threads and three submissions leave one queued when threads panic; two tokens, one held back, and a full channel cover each order of decoder, task and client; IDs run out |
| `algorithms` | attention: 2 requests, 2 layers, 4 query and 2 key-value heads, 8 pages of 2, 5 modes, 4 tokens and 3 calls; tables of cases for the rest (`MCAlgorithms`) | batches of unequal offsets, pages that are not contiguous, masks over a cached prefix, verification after truncation; each branch of sampling, limits and configuration |

The largest, `routing_policies`, has about 1.4 million distinct states. Pages are interchangeable in the
cache's run and form a symmetry set; the other runs use none. No run but `algorithms` bounds the depth:
the state spaces are finite because each request runs once and a client's requests have fresh IDs (the
handler's counter). `CHECK_DEADLOCK FALSE` is given where all requests may have come and gone
(`routing_policies`, `generation_batch`, `handler_calls`), where the process has ended (the
supervisor's runs) and where the cases end (`algorithms`). The worker stops in `Stopped`.

The type invariant of a module is the first conjunct of an invariant that its run checks, or, where a
theorem has it, only the theorem's.

Each property has a mutant of the code that breaks it (`PROJECT.json`, "mutants"; the mutated
definitions stand before the real ones and say what they change).

## 5. Fairness

Liveness is checked of the three components that wait for others. All fairness is weak.

*Worker* (`EveryRequestIsAnswered`, `ShutdownDrains`): the thread (`Run`), since an OS thread is
scheduled and a model step returns; and each client's reads while events are in its queue
(`ReadEvent`), since the service drains a stream until the client leaves. Without the second nothing
would be live: the thread blocks on a full queue (observation 3).

*Supervisor* (`SupervisorTerminates`): the main process's own steps (`MainStep`), of which each wait
has a timeout, except that for the exit of a child that accepted the shutdown call. So a child that
drains comes to its end once its streams have (`ChildDrains`), a handler that cannot bind its socket
exits (`HandlerBindFails`), and clients finish their streams (`CloseStream`). Nothing makes a child
become ready, and nothing ends the serving.

*Request handler* (`PreprocessingEnds`, `ShutdownEnds`): each call's task, each thread, the stages of
the shutdown, and clients that read. A runner ends each of its streams (that is `Forward`), which
`EveryRequestIsAnswered` shows. No client has to call or to leave, and nobody has to shut down.

The liveness properties are over three requests. An endless stream of new ones is not covered, and
under shortest prefill first and round robin it may starve a long prefill.

## 6. What is proved

All theorems hold for every set of requests, every geometry and every capacity that the assumptions
`FlightAssumption`, `SchedulerAssumption`, `WorkerAssumption`, `PagedKvCacheAssumption`,
`OrchestratorAssumption`, `PathsAssumption`, `HandlerAssumption`, `TextGenerationAssumption` and
`AttentionAssumption` allow; TLC evaluates them on every instance. Two are not only about types, finite or non-empty sets and limits. No
request of the scheduler needs more pages than there are: `normalize_generate_text_request` rejects or
caps it (`LimitsHold`). And two prompts of the cache that have a prefix in common have it at the same
place, behind the same shorter one: that is what a prefix is.

| Theorem | Property |
|---|---|
| `FlightTypeCorrect`, `FlightsStayConsistent` | `FlightTypeOK`, `FlightConsistent` |
| `CoordinatorImplementsLines` | `ImplementsSingleFlight` |
| `SchedulerTypeCorrect`, `ReservationsAlwaysFit`, `BlockedRequestsFollow`, `NoLostWakeup`, `OnlyKnownRequestsAreTracked`, `BatchAlwaysFillsBudget` | `SchedulerTypeOK`, `ReservationsFit`, `BlockedAreFollowers`, `LeadersMakeProgress`, `TrackedRequests`, `BatchFillsBudget` |
| `WorkerTypeCorrect`, `WorkerImplementsScheduler`, `LifecyclesAlwaysAgree`, `PublishedLoadIsAlwaysExact`, `NothingIsEverLostAtExit`, `TerminalEventsAreAlwaysFinal` | `WorkerTypeOK`, `SchedulerSpec`, `LifecyclesAgree`, `PublishedLoadIsExact`, `NothingIsLostAtExit`, `TerminalEventsAreFinal` |
| `KvStateIsAlwaysReleased` (if publications do not fail) | `KvStateIsReleased` |
| `CacheInvariant`, `PageStatesAlwaysMatchOwners`, `IndexStaysATree`, `CursorsStayProtected`, `CachedValuesStayRight`, `ReservedAppendsAlwaysSucceed` | `CacheInv` (which has the types), `PageStatesMatchOwners`, `IndexIsATree`, `CursorsAreProtected`, `CachedValuesAreRight`, `ReservedAppendsSucceed` |
| `OrchestratorTypeCorrect`, `ReservationsAlwaysMatch`, `EveryRequestIsCountedOnce`, `WorkIsAlwaysCovered`, `LeastLoadedIsAlwaysChosen`, `RoundRobinStaysBalanced` | `OrchestratorTypeOK`, `ReservationsMatch`, `CountedOnce`, `WorkIsNeverUnderestimated`, `LeastLoadedIsChosen`, `RoundRobinIsBalanced` |
| `SupervisorTypeCorrect`, `EveryReturnIsClean`, `HandlerAlwaysGoesFirst`, `ForeignFilesAreAlwaysKept` | `SupervisorTypeOK`, `ReturnIsClean`, `HandlerGoesFirst`, `ForeignFilesAreKept` |
| `HandlerTypeCorrect`, `WorkersAlwaysStay`, `StreamsAreAlwaysFaithful` | `HandlerTypeOK`, `WorkersStay`, `StreamsAreFaithful` |
| `GenerationTypeCorrect`, `CachesCorrect`, `ReservationCorrect`, `OutputCorrect`, `SelfChecksCorrect`, `StepsAdvanceCorrect` | `GenerationTypeOK`, `CachesHoldCommittedTokens`, `ReservationCoversThePeak`, `OutputIsTheTargetsOwn`, `SelfChecksNeverFail`, `StepsAdvance` |
| `AcceptedRequestsAlwaysFit`, `LimitsAlwaysHold` | `LimitsHold`, and its start-up and requests for all values |
| `AcceptedConfigurationsAgree`, `ConfigurationsAlwaysAgree` | `ConfigurationsAgree`, and its command line for all values |
| `VerificationAlwaysFollowsTheTarget`, `SamplingIsAlwaysFaithful` | `SamplingIsFaithful`, and its distributions for all values |
| `AttentionInvIsInductive`, `AttentionIsAlwaysCausal` | `AttentionIsCausal` |

*Coordinator.* `FlightInv` is type correctness with `FlightConsistent`; it is inductive. Lemmas about
sequences give what appending, popping and removing a follower do to the set of followers; then each
method preserves it.

*Refinement.* With `FlightInv`, each call changes the flight of one input and leaves the others
(`OtherLinesStay`), so that a step is: join a line, leave it, release it, drop a released request. The
lemmas say what each of the coordinator's helpers does to the one line. `Scheduler_proofs` begins with
both parts.

*Scheduler.* `SchedulerInv` is the conjunction of the properties with the coordinator's invariant and
two facts of its own. `ListsAreDisjoint`: a request is in one of the queue, the active list and its
termination. Without it `LeadersMakeProgress` is not inductive, since reporting the end of a request
that is also queued would drop a leader that is still to run. `NoFlightsWithoutCoordinator`: under the
independent policy nobody is tracked, so nobody is blocked. Each scheduler call is first shown to have
an effect on followers and leaders (`AddRequestEffect`, `ReleaseEffect`, `PromoteEffect`), so that its
proof never opens the maps. `ReservationsFit` uses that sums over disjoint sets add up. A sum is
written as the cardinality of a set of pairs (`Pairs`), so that the library's theorems on cardinality
apply.

*Batches.* `BatchFillsBudget` is about three orders of the prefills. `OrderInv` says that each of the
scheduler's two lists is a strict order, so what a policy makes of one is a strict order too, round
robin's rotation at its cursor included (`PrefillsAreOrdered`). Requests that take their share of a
budget in a line then take the whole budget or all their work: otherwise one gets less than it wants,
and with all those before it that one has used up the budget (`LineTakesBudget`, which takes the first).

*Worker.* Every step is a scheduler step or a stutter (`WorkerImplementsScheduler`), so `SchedulerInv`
carries over; `WorkerInv` adds the loop's own facts (`LoopInv`: what is pending where, at most one
request being published or reported) and that each client's request is in exactly one place until it
is answered (`ClientsInv`), which is what `NothingIsLostAtExit` needs.

*Cache.* A page's state is a count in the code and a fact about all tables and the index in the
property. What makes that inductive (`CacheInv`) is what a page holds: its layer and prefix tell its
place in every prompt that has it, so no table has a page twice, and the index has it in one block. A
page that is not indexed has one reader (`PageInv`), which no cursor has passed (`TableInv`), so
publishing, adopting and truncating it concern nobody else. Readers of a block read the blocks before
it too (`CursorsAreProtected`), hence a block that nobody reads has only such blocks below it, and a
deepest of them is a leaf that eviction may take. So when no page is free and no leaf can go, every
page is read, each at a place of its own in some table; the tables of the active requests have no more
places than `Total(ReservedPageCount, active)`, which admission keeps within the pool, and the one that
appends has a place left: a contradiction, which is `ReservedAppendsSucceed`. `TypeInv`, `FreeInv`,
`IndexInv`, `AppendInv` and `AdmissionInv` complete the invariant; TLC checked it on the instance of
`kv_pages` before it was proved.

*Orchestrator.* The code adds a load when it reserves and subtracts it when it releases; the property
is about the set of reservations. `LoadsAreHeld` says that the former is the count of the latter, for
requests and for each kind of work, with a sum written as the cardinality of a set of pairs, so that
the library's theorems on cardinality apply. `CountsArePublished` relates the snapshot to the stages of
the requests, with the one change that a worker may not have published yet (`OneChangeAtATime`);
`WorkOnlyShrinks` says that what a worker has not published yet is only less work. A load that was read
counts the requests that were outstanding at the read, and while the lock is held requests leave that
set only by ending, and none joins it: this is `ReadsAreExact`, a second invariant
(`StepKeepsExact`), from which `LeastLoadedIsChosen` follows at the step that routes. For round robin,
`TurnsInv` orders the backends by their next turn: those before have been given as many requests as
those after, or one fewer.

*Supervisor.* The invariant says where each process may be at each point of `run`: `FilesHaveOwners`
(a file of our own belongs to a child that was spawned, or is the control socket's while serving or
after a removal that failed), `StartedInOrder` and `StoppedInOrder`.

*Request handler.* `ShutdownsAreLast`: the pool's queue holds shutdown commands only after the server
has drained and dropped the pool, so a thread that reads one is meant to go. `StreamInv` looks at all
that a client has been and will be given (`AllEvents`), which passing an event on does not change: while
the task reads it is text only, and when the task is done it ends in the statistics, with nothing left
in the buffer, or in an error. A client that has read all of it and met no error has the former. The
text of events is a fold over sequences in the library (`FlattenSeq`); that one event more adds its text
at the end (`TextGrows`) is shown without an induction: its loop can always go on, and two loops agree
as far as their sequences do, since there would be a first place where they do not (`LoopExists`,
`LoopAgrees`).

*Text generation.* Each cache is a cut of the committed tokens followed by the draft model's proposals,
and the phase and the step under way tell where it is cut (`CachesInv`). A cut does not see in what two
continuations differ (`CutExchanged`), so cutting a cache back to the verified tokens leaves a cut of
what is then committed; the place of the cut also bounds the cache by the reservation. A greedy request
has committed the beginning of its reference (`ReferenceInv`). That the accepted proposals are the
reference's next tokens would be an induction over them; instead, if some were not, one would be the
first (`LeastElement`), and the target model, which has seen only the reference before it, would have
rejected it (`AcceptedIsReference`).

*Limits.* `LimitsHold` is a property of one case; the theorem behind it quantifies over all start-ups
(`Startups`) and requests, where TLC has a table of each. A contiguous cache divides the bytes by what a
token takes, a paged one rounds down to whole pages of each layer, and a draft cache without a size of
its own takes what the target's capacity is worth: in each case a product of the quotient stays below
the total (`QuotientFacts`, `ProductDivided`) and a request is rounded up to pages that are still within
it (`RoundedUpFits`). The advertised capacity is the least of the backends' (`MinIsLeast`, from the
well-foundedness of the naturals), and the last token of a grant is never cached.

*Configuration.* The theorem is about every command line of the message types (`CommandLines`), with
every variant of their enumerations, an unknown number, and any sizes. Each part normalizes to something
that normalizes to itself and keeps the fields that were set; a text that leaves out the defaults gives
back the message (`TextRoundTrip`), so what differs after the way to the runner is the page size of a
contiguous cache, which no conversion reads (`KvCacheArrives`). The module enumerates the requirements
on a policy as the code does, in `Accepted`; that they are enough for the runner is `AcceptedArgsArrive`.

*Sampling.* The theorem is about all logits, windows and budgets (`SamplingInputs`). A mass is a fold over
a finite set; `TotalExists` shows that a sum over it exists, by taking one element at a time and induction
over the subsets that the library proves well-founded, and `MassIsTotal` that the fold is that sum. Then
masses add and scale. What the code keeps of a draft and what it gives back from the residual make up, for
each token, its mentored weight times one factor (`OutcomeIsMentored`), since the weight that the draft
law exceeds the target's is the weight that the target's exceeds it (`VariationIsMass`,
`VariationIsSymmetric`). The window is read off the tokens and ends with the draft
(`WindowHoldsRecentTokens`).

*Attention.* The theorem holds for any number of requests, layers, heads (with any heads per key-value
head), pages and tokens per page, whichever kernels are on. That the outputs are right says nothing of
the next pass, so the invariant (`AttentionInv`) is about the cache: every token that a request was
given and has not truncated is cached in every layer, at its place, as the key and value terms of its
reference state (`IsCacheOf`), in pages that no other table has and that are not free (`CacheOK`). A
state of the reference depends on the tokens up to its position only (`StatesAreCausal`), so tokens that
come later leave what is cached right, and so does cutting them off. Below that, one lemma for each
thing that the code does: an append writes the rows behind those cached and no other row, page by page;
both caches and both ways of reading one give the rows in their order; each combination of kernels
(grouped or repeated heads, contiguous, by pages or pagewise, without a mask for one row) attends to the
same pairs (`IsAttention`); each request of a batch finds its own rows in the packed tensors, and the
logits are handed back in that order. A loop is a recursive function on `0 .. n`, of which a fact is
shown for all rounds by taking the first that lacks it (`InductionTo`), since the library's
induction takes an operator. TLC checked the invariant on the instance of `algorithms`.

Each of the theorems on sampling, limits and configuration of `MCAlgorithms` only adds that the cases of the run are such inputs.

*Only model-checked:* the liveness properties (`EveryRequestIsAnswered`, `ShutdownDrains`,
`SupervisorTerminates`, `PreprocessingEnds`, `ShutdownEnds`), since fairness is out of the prover's
reach. Every other property of a run is also a theorem.

## 7. What is not modelled

| Part | Why |
|---|---|
| Downloads, tracing, logs | input and output only |
| Telemetry and statistics | read-only counters; only that a response ends with its statistics is modelled |
| The tokenizer's text | the `tokenizers` library; a token is its text, and the decoder may hold it back |
| Tensor arithmetic, norms, activations, loading and quantisation of weights | functions of their inputs in the `candle` library and CUDA/Metal kernels; `Attention` keeps what they are applied to |
| Help texts and messages of the command line | wording |
| gRPC and process primitives | external: a call arrives, fails or is cut; a process runs, exits or is killed |
| An endless stream of requests | section 5 |
| A request that the worker fails to enqueue, in `InferenceWorker` | request IDs are fresh, so it does not happen there; `RequestOrchestrator` has it for its reservation (`FailToEnqueue`) |
| A device error in the middle of an append that spans pages | an append of the cache succeeds or finds no page; the forward pass may fail between layers |
| The text form of a draft model's message and of the list of devices | `Configuration` carries them as values |
| A connected client that never reads | observation 3; liveness, of the shutdown too, is for clients that read or leave |

## 8. Observations

Two runs find that the code does not do what the documentation of the main process says.

* `supervisor_interrupt`: `main_process/README.md` line 79 says that Ctrl-C initiates the same cleanup
  as a shutdown call. Before the `select` of `run` nobody listens for it: Ctrl-C then ends the main
  process without its destructors, and the children, which run in process groups of their own, survive
  with their sockets.
* `supervisor_two_servers`: line 82 says that an owner removes its child's socket. The path is checked
  before the child is spawned and removed without a further look, so that what another server has bound
  there meanwhile goes instead.

The others are behaviours that the models made visible, none of them counted as a defect.

1. `start_request` may fail after the execution state exists, when the publication at the start fails.
   `finalize_request_abort` then runs without `abort_model_execution` and the KV state would stay. With
   the present cache the blocks are already indexed at that point and the publication does nothing, so
   `KvStateIsReleased` is checked and proved for `PublicationMayFail = FALSE`.
2. A worker that ends with an error leaves its last load published; routing keeps choosing it, and
   every such request fails when it is sent. `CountedOnce` is therefore about running backends.
3. The thread blocks while one client's event queue is full: a connected client that does not read
   stalls its backend until it reads or leaves.
4. Requests whose client left are noticed only when they are scheduled or a token is sent; until then
   they keep their pages.
5. A paged cache with fewer pages than the model has layers starts with a capacity of no token and
   refuses every request; the contiguous cache of the same size refuses to start.
6. Greedy selection takes the largest logit of the model's whole output, padding included; stochastic
   selection first cuts it to the tokenizer's vocabulary.
7. A routing decision borrows the backends' states one by one and the end of a request is published
   without the routing lock, so `LeastRequests` may pass over a backend whose request ended just after
   it was read, even one that had fewer requests at every moment. `LeastLoadedIsChosen` says that it is
   wrong by no more than that: without `EndedSinceRead`, TLC finds it violated.
8. The control server's destructor logs a failed removal of its socket file, and `run` may return
   success with the file in place. `ReturnIsClean` therefore makes success a statement about the
   children and their sockets.

## 9. Plan

Done, in this order: coordinator, scheduler, worker with manager and executor calls, cache,
orchestrator, text generation; supervisor, request handler; the sequential computations. Proofs of the
coordinator and its refinement, scheduler, worker, cache, supervisor, request handler, orchestrator and
text generation, limits, configuration, sampling and attention: every safety property that a run of
these checks is also a theorem.

What remains is an abstract specification of a response (any text, then one end), which the worker's
event queue and the request handler's channel both implement.
