# Formal models of CudaForge

CudaForge is an LLM fine-tuning and serving runtime. What can go wrong in it
between threads (a lost wakeup, a future nobody settles, a cache block held by
two sequences, a request abandoned at shutdown) is modelled here in TLA+,
checked with TLC on small instances, and proved with TLAPS for any number of
threads, requests and blocks and any capacity: every safety property and every
refinement that a passing run checks is a theorem; liveness is model-checked only.

`PROJECT.json` lists the components, the runs, for each property a mutation of
the code that breaks it, the source lines of each definition, the
disagreements found between documentation and code, and the hazards.

## The system

Two parallel stacks, a C++ one and a Python one, over the CUDA kernels, with
an HTTP server and a fine-tuning program on top of the Python one.

| Component | State | Operations | Talks to |
| --- | --- | --- | --- |
| `ConcurrentQueue` (C++) | `buffer_`, `closed_`, one mutex, two condition variables | push, try_push, pop, pop_for, try_pop, shutdown | under `DynamicBatcher` and `ThreadPool` |
| `DynamicBatcher` (C++) | queue, `stopping_`, the batch being formed | submit, try_submit, shutdown; one batcher thread | queue below, handler callback above |
| `ThreadPool` (C++) | task queue, workers, counters | submit, shutdown | queue |
| `MemoryPool` (C++) | size-class free lists, live blocks, statistics | allocate, deallocate, trim | allocator backends |
| `KVCacheManager` (C++ and Python) | free list, reference counts, block tables, admission order | admit, extend, preempt, release | called by the continuous scheduler |
| `DynamicBatcher` (Python) | bounded `queue.Queue` with a `None` sentinel, `_stopping` | submit, try_submit, shutdown; collect | handler: `InferenceEngine._dispatch` |
| `InferenceEngine` | `_futures`, `_closed`, a thread-pool executor | submit, shutdown; dispatch, execute, expire | batcher, executor, runner |
| `ContinuousBatcher` | queue, `_running`, `_deferred`, `_closed` | submit, shutdown; admit, reserve, decode, retire | cache, runner, callbacks |
| step-wise runners | cache tensor, mask, last tokens, row ids | prefill, decode_step, evict | called by `ContinuousBatcher` |
| `ContinuousEngine` | `_futures`, `_closed`, counters | submit, shutdown; finish, expire | `ContinuousBatcher` |
| `ReplicatedEngine` | rotation, routed counts, `_closed` | submit, shutdown | several engines |
| HTTP server | the engine of the application | lifespan, /generate, /health, /ready, /metrics | an engine |
| CLI, configuration | flags, file, environment | serve | starts the server |
| `SpeculativeDecoder`, sampling | context, two caches; a row of logits | one block; draw a token | draft and target model |
| `MetricsRegistry` | counters, histogram window, two locks | record, snapshot, reset | engines |
| training | gradients, optimiser, schedule, checkpoints | train | data set |
| `GpuScheduler` (CUDA) | streams, events, ticket counter | acquire, chain, synchronize_all | streams |

The hard behaviour, and what makes each part correct:

- **Queue.** A notification is issued after the unlock, so every interleaving
  of "insert, then announce" with parks, timeouts and shutdown has to be safe.
  Correct means: FIFO, exactly once; a refused value never enters; consumers
  drain a closed queue; nobody who could proceed stays parked.
- **Cache.** Reservations evict other sequences. Correct means: a block belongs
  to one table or to the free list; an infeasible demand evicts nobody; the
  table never has more than a block's slack.
- **Static engine.** Three kinds of thread settle futures that their callers may
  cancel. Correct means: at most once each, and all of them by the time shutdown returns,
  unless a cancel made the loop that settles them raise. The order
  matters: of registration and enqueueing, of setting `_stopping` and posting
  the sentinel, of draining the batcher and the executor.
- **Continuous engine.** One thread owns the running set, and the cache evicts
  from it as a side effect of admission and growth; the runner keeps four
  parallel structures in step with it; callers cancel futures that a callback
  or shutdown is about to settle. Correct means: scheduler, cache and runner
  agree on who runs and whose row is whose, rejection and deferral have the
  reason the comments give, accepted requests are answered, and futures are
  settled once.
- **Around the engines.** Replicas are read one after the other and shut down
  one after the other; handlers of one event loop wait for futures while the
  lifespan ends; settings go through two merges; two models' caches are cut
  back by counts; gradients outlive an epoch; two locks guard what belongs
  together. Correct means: the front promises what an engine promises, every
  handler answers, no setting is lost, the tokens are those of the target
  model alone, each gradient is applied once, counters and samples agree.
- **C++ batcher, thread pool, memory pool.** Whoever finds `stopping_` set
  returns before the drain. Correct means: what was accepted is finished once,
  in order, by the time the draining call returns; each block is cached or
  handed out, under its own size.

Findings and hazards are detailed in `PROJECT.json`.

## Modules

| Module | Models | Extends / instantiates |
| --- | --- | --- |
| `ConcurrentQueue` | `cpp/include/cudaforge/concurrent_queue.hpp` | `BoundedFifo` through a refinement mapping |
| `BoundedFifo` | what the queue promises: each call takes effect at one instant | |
| `ConcurrentQueueProofs` | theorems about `ConcurrentQueue` | `ConcurrentQueue`, TLAPS |
| `Filtering` | the loops that filter a list (`std::erase`, `[r for r in ... if ...]`), as a recursive function | |
| `FilteringProofs` | lemmas about lists and sums, and induction over sets, which the proofs share | `Filtering`, TLAPS |
| `NativeQueue` | submit and shutdown, which the C++ batcher and pool share | |
| `NativeBatcher` | `cpp/src/dynamic_batcher.cpp` | `NativeQueue` |
| `ThreadPool` | `cpp/include/cudaforge/thread_pool.hpp` | instance of `NativeQueue` |
| `NativeProofs` | theorems about `NativeBatcher`, `ThreadPool` and `MemoryPool` | all three, `FilteringProofs` |
| `MemoryPool` | `cpp/include/cudaforge/memory_pool.hpp` | |
| `KVCacheOps` | `python/cudaforge/kv_cache.py`: operations as operators from cache to cache | |
| `KVCache` | the same as a specification, one step per call | `KVCacheOps` |
| `KVCacheManager` | `cpp/src/kv_cache_manager.cpp`, `cpp/src/kv_cache.cpp`: free list, counts, block lists, one step per loop turn | `Filtering`; `KVCache` through a refinement mapping |
| `KVCacheManagerProofs` | theorems about `KVCacheManager` | `KVCacheManager`, `FilteringProofs` |
| `RequestQueue` | submit and shutdown, which both Python batchers share | |
| `InferenceEngine` | `engine.py` over `scheduler.py` over the executor | `RequestQueue`, `Filtering` |
| `InferenceEngineProofs` | theorems about `InferenceEngine` | `InferenceEngine`, `FilteringProofs` |
| `StepwiseRunner` | `stepwise.py`, `stepwise_transformers.py`: batch surgery as operators | |
| `ContinuousBatcher` | `continuous.py` with a runner, with or without a cache | `RequestQueue`, `KVCacheOps`, `StepwiseRunner`, `Filtering` |
| `ServingEngine` | what an engine promises (the protocol of `engine.py`) | |
| `ContinuousEngine` | `continuous_engine.py` over `ContinuousBatcher` | `ContinuousBatcher`, `ServingEngine` through a refinement mapping |
| `ContinuousEngineProofs` | theorems about `ContinuousEngine` and the batcher in it | `ContinuousEngine`, `FilteringProofs` |
| `ReplicatedEngine` | `replicated.py` over replicas that keep the promise | `ServingEngine` through a refinement mapping |
| `ReplicatedEngineProofs` | theorems about `ReplicatedEngine` | `ReplicatedEngine`, `FilteringProofs` |
| `Server` | `inference/server.py` | `ReplicatedEngine` |
| `Configuration` | `cli.py`, `config.py`, the environment of the server | |
| `SpeculativeDecoder` | the block loop of `speculative.py` | |
| `ProgramsProofs` | theorems about `Configuration`, `SpeculativeDecoder`, `Sampling`, `Training` and `Metrics` | all five, `FilteringProofs` |
| `Sampling` | filters and acceptance rule of `speculative.py`, `_sample` of `stepwise_transformers.py` | |
| `Training` | `training/`: validation, packing, the loop | |
| `Metrics` | `metrics.py`: registry and histogram | `Filtering` |
| `MC*` | constants and symmetry for TLC; `MCPrograms` picks one of ten components that share no state (`subject`) | |

### ConcurrentQueue

A critical section is one step; the notification that follows the unlock is
another. A condition variable is the set of threads whose `pc` is a parked one
(`NotEmptyWaiters`, `NotFullWaiters`), `NotifyOne` picks any member,
`SpuriousWakeup` lets a thread leave at any time, `Expire` is `pop_for`'s
timeout, after which the predicate is looked at once more. `accepted` and
`delivered` are history. `ret` is what the last call of each thread returned.
`MaxPush` bounds how many values each producer offers.

`ImplementsFifo` maps `buffer` to the abstract queue and all the places inside a
call to "about to take effect" or "took effect": parking, waking and
notifying are stutters.

### KVCacheManager, KVCacheOps, KVCache

`KVCacheOps` describes the Python manager by block *counts*. `KVCacheManager`
is the C++ manager with actual blocks: `op` is the reservation in progress
(the mutex is held), `EvictOne` and `AllocateOne` are one turn of each loop,
`fault` records any exception or branch the code calls unreachable.
`ImplementsAtomic` states that the C++ loops produce exactly the result,
the victims and the counts of the Python operators in one step: the two
implementations agree, and a refused call changes nothing but the table it may
have created. Until a reservation ends, the mapping shows the state from before
it (`op.before`), as other threads see it.

### RequestQueue, InferenceEngine

A client thread per request goes `idle → register → stopping → put → accepted`,
or `refused → raised`; a stopper thread per call of shutdown goes `idle → close
→ batcher → flag → sentinel → join → drained → wait → collect → fail →
returned` or `raised`. Each arrow is one access to shared state, so the tests of `_closed`
and `_stopping` and the acts that follow them can be separated by anything.
The collector is the batcher thread inside `_collect`: `first`, `fill`, `drain`
(after the sentinel), `repost`, `dispatch`. Workers take batches from the
executor's FIFO. Time is a set `late` of requests whose deadline has passed,
which grows at any moment, and a nondeterministic choice wherever a wait is
bounded. `gaveUp` and `raced` record that shutdown's join timed out and that
two shutdown calls got past the test together; `EarlyWorkIsServed` needs both.

Futures are settled one by one, and each in two steps: `Pop` takes it out of the
dictionary under the lock and asks `done()`; `setting` then says which future the thread
has in hand, until `SetFuture` sets it. Its caller may `Cancel` in between, and the set
raises `InvalidStateError` into the loop that settles. Where that leads is the code's:
`_drop_if_expired` catches it (`SettleDropped`); out of `_complete_batch` it makes
`_execute` fail the whole batch; out of the loop over expired members and out of
`_fail_batch` it leaves `_execute`, and nobody comes back to the members that are left
(`SettleSet`, which notes the batch in `broken`); out of the last loop of shutdown it leaves
shutdown (`SetException`). `rest` is what a worker's loop has not come to. `Stranded` names
the members of a broken batch one of whose members was cancelled: they are what
`HeldInOnePlace`, `EarlyWorkIsServed` and `FutureSettles` except, and `NeverLeftPending`
speaks of shutdown calls that returned.

### NativeQueue, NativeBatcher, ThreadPool, MemoryPool

The C++ clients use the queue by its proved promise: an operation is one step.
`closer` distinguishes the call of shutdown that found `stopping_` unset, which
closes and joins, from those that return early; the properties are about the
first. In `NativeBatcher` the time a batch has left is a choice, and deadlines
pass at any moment (`overdue`). `entered` and `handed` are history: at every moment the
batches delivered, the one being formed and the queue are what was accepted,
in order, without what was dropped as late. `pop_for` answers `Closed` only when
the queue is drained, so the `try_pop` loop after it never finds anything; in
the model closing a batch is one step whatever the reason. `ThreadPool` keeps
the relaxed counters apart from the acts they count. `MemoryPool` has one step
per call; the backend hands out any address it has not given out, those it got
back included, or nothing once its bytes are used.

### StepwiseRunner, ContinuousBatcher

One scheduler step is what happens between two accesses to the queue or two calls
of the runner. The cache is called only by this thread, so `KVCacheOps`'
operators are applied directly, and so are the runner's. Every offer takes a fresh
sequence id; `Seqs` bounds them, and the bound is never what stops the runs that
pass (an offer is repeated once per decode step of the others, and those are
limited by `MaxNewTokens`). A setup picks the runner (echo, which emits nothing in
prefill, or transformers, which samples the first token there) and the cache
(a policy, or none). A row of the transformers runner is an id, a mask (`pad`,
`ones`) and the last token, named by whose n-th sample it is: a wrong cut, pad or
join shows as a row whose parts disagree. `RunnerRaises` is an exception in
`prefill` or `decode_step`.

### ServingEngine, ContinuousEngine

`ServingEngine` knows a call of submit, a future (pending, owed, settled,
cancelled) and the phase of shutdown. A future is owed once somebody took it out
of the dictionary: from then on nobody else will settle it. `ContinuousEngine`
runs the batcher in one of two deployments: "engine", with futures, or "direct".
Callbacks run on the scheduler thread, which goes through the futures of the
requests a step has settled (`LookAt`, `Callback`) before it goes on. Callers in
`Cancelling` may cancel at any moment, so also between `done()` and
`set_exception`. The properties exclude a shutdown that this made raise.

### ReplicatedEngine, Server

`seen` is what a submitter has read of the replicas' depths so far; `tied` records that
so far every choice was among replicas of equal depth, which `RotationSpreads` asks for. Replicas are abstract: they accept,
refuse, settle and shut down as `ServingEngine` allows. `Server` adds
the event loop: submit and shutdown do not await, so each is one step of the loop,
and waiting for a future is left to a thread. `Observe` is /health, /ready and
/metrics. The engine may be of either class: a replica that schedules continuously may lose
its scheduler thread to an exception of the runner (`SchedulerThreadDies`); it then accepts
and can be shut down, and answers nobody.

### Configuration, SpeculativeDecoder, Sampling, Training, Metrics

`Configuration` follows a setting from flags and file through the environment into the
second `EngineConfig`, together with the switches the environment already has, which
`serve` sets and never clears, and with whether a size is a float, which `EngineConfig`
accepts and the server's `int` does not. In `SpeculativeDecoder` a cache *is* the sequence of tokens the
model ingested and a model's answer is a function of that history, so a cache cut one
token off answers for another history; the reference is the target model alone.
`Sampling` replaces probabilities by integer weights and compares by multiplying out: the
draw after acceptance or residual is exactly the target's. A row of `_sample` may ask for
more tokens than the vocabulary has, and then no row of its batch gets one. `Training` represents a
gradient by the micro-batches it sums, the weights by the gradients applied. `Metrics`
keeps what is done under each of the two locks a step of its own.

## Observations

What the models show beside the findings of `PROJECT.json`:

- Since admission may evict anybody, only a request larger than the whole cache is
  ever refused (`RefusedIsTooBig`): deferral never serves the transient pressure its
  comment describes; under pressure running sequences are cut short ("truncated").
- Each refused offer leaves an empty table in the cache that nobody releases
  (`continuous.py:323`).
- `RowFree` counts a sequence twice while it is in `admitted` and in `_running`, so a
  pass fills about half of the free rows; later passes fill the rest.
- The echo runner keeps the id of a sequence that was evicted in the pass that
  admitted it.
- `engine.py:418`: a cancellation between `done()` and `set_result` of an expired member
  leaves `_execute` through line 352, outside the `try`: the live members of the batch are
  neither run nor answered, although line 377 says that "every request in it must be settled so
  no caller is left waiting". In the loop of `_fail_batch` it loses the members that follow.
- `engine.py:306`: the same in shutdown makes it raise, and the futures it had taken
  and not reached stay pending.
- When shutdown's join gave up, the batcher thread may still have one future in hand, which
  is pending when shutdown returns.
- `continuous_engine.py:199`: a cancellation between `done()` and `set_exception` makes
  shutdown raise `InvalidStateError`; futures it had not reached stay pending.
- A future abandoned by shutdown becomes a 500, although `server.py:241` documents 503;
  `HandlersAnswer` is about being answered, not about the status.
- Handlers of a continuous engine whose scheduler thread has ended wait out their 300 s.
- A size that a `--config` file writes as a float (`8.0`) passes `EngineConfig` and raises
  in the server, where `int("8.0")` does (`server.py:79`).
- `/ready` compares the depth of all replicas with the capacity of one; the snapshot
  of `ReplicatedEngine` sums some of the counters only.
- `cudaforge-serve` does not pass on `generation`, `dtype` and `max_prompt_chars` of
  a file (`cli.py:146`).
- `runners.py:193` uses the first request's settings for the whole batch; a `top_k` above the
  vocabulary raises for every row of a step-wise batch.
- Training with `epochs <= 0` and `max_steps > 0`, or with fewer micro-batches than the
  accumulation, makes no optimiser step.
- A reset that races with `record_completion` leaves the counter ahead of the histogram.
- The C++ batcher counts one failure for a batch whose handler threw, whatever its
  size, and a second caller of `shutdown` returns before the drain.
- `MemoryPool` throws when the backend has no memory although blocks of other sizes lie
  cached (`gpu_scheduler.cuh:156` expects it to decide between that and trimming).
- `GpuScheduler::acquire` hands out streams round-robin, so the exclusive use that
  `gpu_scheduler.cuh:30` describes holds only for as many leases as there are streams.

## Runs

Passing runs:

| Run | Instance | States | What it shows |
| --- | --- | --- | --- |
| `queue` | 1 producer of 3 values, 2 consumers, 1 closer, 2 slots | 22 thousand | FIFO exactly once, close semantics, no lost wakeup, refinement of `BoundedFifo`; shutdown releases everyone, items do not stay beside parked consumers |
| `kv_cache_manager` | 3 sequences, 3 blocks of 2 tokens, demands up to more than the cache | 65 thousand | partition of blocks, no fault, slack, refinement of `KVCache` |
| `engine_safety` | 2 requests, both with a deadline and a caller who may cancel, 2 stoppers, 1 worker, queue and batches of 2 | 1.4 million | futures set once, none left pending, early work served, only broken batches lose members |
| `engine_liveness` | 2 requests as above, one of them shed, 2 workers, 1 stopper | 416 thousand | every future settles, shutdown ends |
| `continuous` | 2 requests of 2, 5 or 7 tokens, both runners, both policies or no cache, 3 blocks of 2 tokens; in the engine also a cancelling caller and a stopper | 103 thousand | cache, scheduler and runner agree; refusals are justified; early work is answered; stale rows leave; refinement of `ServingEngine`; after shutdown futures settle |
| `programs` | 3 callers, 2 handlers, 2 replicas of capacity 1 or 2; settings 0 to 3; 3 tokens to decode, lookaheads 1, 2, 4; 3 tokens vocabulary; 3 micro-batches per epoch; window of 2, 3 recordings, 1 reset; 3 requests and 2 closers for the batcher, 3 tasks and 2 workers for the pool; 3 addresses and 12 bytes of memory | 394 thousand | one property per component, see `PROJECT.json`; the front refines `ServingEngine`; every handler answers |

Runs that refute what a document says (each a single property):

| Run | Statement | What happens |
| --- | --- | --- |
| `engine_accepted_work` | shutdown "never loses accepted work" | a put that lands behind the sentinel is abandoned |
| `engine_submit_returns` | shutdown "must not hang"; submit returns False when shutting down | a client blocked on a full queue stays blocked after the batcher thread ended |
| `engine_dropped_executed` | an expired request is dropped "instead of" executed | the second pass of `expired()` settles a request that the first put in `live` |
| `continuous_mutual_eviction` | invested work is kept, "requests keep completing" | `_reserve_step` extends a sequence that was evicted in the same pass, and both are dropped |
| `continuous_runner_failure` | a failing model is isolated, "the runtime keeps serving" | the exception ends the scheduler thread |
| `training_overrun` | a run takes `total_steps` optimiser steps | left-over micro-batches make one more, and the schedule raises |

Bounds. One producer of three values and two consumers over two slots: the producer
blocks, order in the buffer shows, and there is a wrong consumer to notify. Three cache
blocks and three sequences, so that one reservation may evict none, one or two
others, and a demand of 7 tokens, one more than fit. Two requests over a queue of
two fill it, so that the sentinel finds no room, or share it with a sentinel and leave a
client blocked; they make a batch that closes by size, by timeout and by sentinel, and one of
whose members may be cancelled while the other is live: the smallest broken batch. Two
stoppers are what a race of shutdown calls needs. A third request is what the theorems are for. In `continuous` a prompt of 7 tokens never fits, 5 and 2 compete, and two
growing sequences evict each other. The queue of that run has room for both and a sentinel, so
it never turns a request away for being full; what `CountersAddUp` says of those rests on
the theorem. Three callers of two replicas tie and overtake; a
lookahead of 4 is more than the budget of 3, one of 1 gives the draft nothing to be
rejected twice; 3 micro-batches leave a remainder for an accumulation of 2, none for 3
and never fill 4; a window of 2 evicts on the third recording. Three tasks keep two
workers and the one slot busy. 12 bytes hold three blocks of 4, or one of 8 and one of 4.

The engines, the batcher and the programs stop for good when all calls have
returned, so their runs switch the deadlock check off; the cache manager can always
serve another call and its run has it on, as has the queue's, whose threads go on calling.
Symmetry is used in safety runs only.

## Fairness

- Queue: weak fairness for a thread's steps inside a call it has made: the
  operating system schedules threads that can run. No thread has to make
  calls, a parked thread is not woken for free (a spurious wakeup is never
  assumed), and nothing is assumed about who is notified.
- Engine: weak fairness for every client inside a call, the batcher thread, each
  worker and each stopper inside its call. The runner returns or raises. A bounded
  wait ends: its timeout is one of the steps. Nobody has to cancel.
- Continuous: weak fairness for the scheduler thread (callbacks included, failure of
  the runner excluded: it need not fail), and for clients and stoppers inside their calls. Nobody
  has to submit, cancel or shut down.
- Server: weak fairness for the engine's threads and for each handler that runs; the 300 s
  timeout of a handler is not needed for it to answer. A scheduler thread that has ended is
  not among those threads: what a dead replica has accepted only its shutdown settles, and
  `HandlersAnswer` excepts the handlers of one that nobody has shut down.

## Proofs

Every theorem holds for all values of the constants that the named assumptions allow;
TLC evaluates each assumption on the instance of its run.

| Module | Theorem | Property | Assumptions |
| --- | --- | --- | --- |
| `ConcurrentQueueProofs` | `TypeCorrect` | `TypeOK`, including the capacity bound | `ThreadsFinite`, `CapacityPositive`, `MaxPushNat` |
| | `DeliveryExact` | `ExactlyOnceInOrder` | |
| | `RefusalExact` | `RefusedNeverEnters` | |
| | `CloseDrains` | `ClosedMeansDrained` | |
| | `CloseFinal` | `NothingAcceptedAfterClose` | |
| | `WakeupsSuffice` | `NoLostWakeup` | |
| | `QueueImplementsFifo` | `ImplementsFifo`, a refinement | |
| `KVCacheManagerProofs` | `PartitionTheorem` | `BlocksPartitioned` | `ManagerAssumption` |
| | `NoFaultTheorem` | `NoFault` | |
| | `SlackTheorem` | `SlackBounded` | |
| | `AtomicTheorem` | `ImplementsAtomic`, a refinement | |
| `InferenceEngineProofs` | `EngineTypes` | `TypeOK` | `QueueAssumption`, `EngineAssumption` |
| | `HeldTheorem` | `HeldInOnePlace` | |
| | `NeverLeftPendingTheorem` | `NeverLeftPending` | |
| | `EarlyWorkTheorem` | `EarlyWorkIsServed` | |
| | `SettledOnceTheorem` | `SettledOnce` | |
| `NativeProofs` | `AcceptedIsHandledTheorem` | `AcceptedIsHandled` | `NativeQueueAssumption`, `BatcherAssumption` |
| | `PoolDrainsTheorem` | `PoolDrains` | `PoolAssumption` |
| | `PoolAccountsTheorem` | `PoolAccounts` | `MemoryPoolAssumption` |
| `ReplicatedEngineProofs` | `RotationTheorem` | `RotationSpreads` | `FrontAssumption` |
| | `FrontKeepsPromiseTheorem` | `FrontKeepsPromise`, a refinement | |
| `ContinuousEngineProofs` | `ServingTheorem` | `KeepsServingPromise`, a refinement | `QueueAssumption`, `BatcherAssumption`, `ContinuousEngineAssumption` |
| | `CountersTheorem` | `CountersAddUp` | |
| | `BlocksTheorem` | `BlocksBelongToRunning` | the same and `CacheAssumption` |
| | `RefusalTheorem` | `RefusedIsTooBig` | |
| | `RowsTheorem` | `RowsAligned` | |
| | `StaleRowsTheorem` | `StaleRowsLeave`, an action property | |
| `ProgramsProofs` | `SpeculationTheorem` | `SpeculationIsLossless` | `DecoderAssumption` |
| | `LaunchTheorem` | `LaunchKeepsSettings` | `ConfigurationAssumption` |
| | `AcceptanceExactTheorem` | `AcceptanceExact` | `SamplingAssumption` |
| | `SampledByOwnSettingsTheorem` | `SampledByOwnSettings` | |
| | `GradientsUsedOnceTheorem` | `GradientsUsedOnce` | `TrainingAssumption` |
| | `MetricsConsistentTheorem` | `MetricsConsistent` | `MetricsAssumption` |

The components that `MCPrograms` checks together are proved by themselves, from their own
specifications (`BatcherSpec`, `PoolSpec`, `MemoryPoolSpec`, `FrontSpec`, `DecoderSpec`,
`ConfigurationSpec`, `SamplingSpec`, `TrainSpec`, `MetricsSpec`): the same initial states
and actions.

### Lists and induction (`FilteringProofs`)

The library's induction theorems take an operator as a parameter, which the provers
cannot instantiate. `InductionOnNat` and `InductionOnSeq` are stated over a *set* of
numbers or sequences, which a proof names with DEFINE; the base is that < is well-founded
on Nat. From them follows what `Keep`, which filters a list, preserves:
order, distinctness, members, length. Every scan and every filtering loop of the cache, the
engines and the C++ batcher goes through these lemmas.

`InductionOnSubsets` is the same for the subsets of a finite set. The library's sum over a set
takes the elements out one by one in an order nobody knows; the `Sum*` lemmas
show by this induction that the order does not matter (`SumInsert`, `SumRemove`) and what a
sum over a union, over fewer elements, of two functions or of a multiple is. Blocks of tables,
bytes of a pool and weights of a distribution are all sums of this kind.

### Queue

Three layers of inductive invariants. `Base` is `TypeOK` with `Offering` (who is inside
push or try_push is a producer that has offered a value): without it an insertion could not
be shown to add an `Item`.

`DataInv` adds the data. `RefusedNeverEnters` is not inductive: a refusal happens
at the end of a call, so one must know at the start that the value in hand has
not been accepted (`PendingNotAccepted`), which follows from accepted items
having been offered (`AcceptedWereOffered`) and values being offered in
increasing order. `ClosedMeansDrained` speaks of a result that stays visible after the
call; `ResultMeansIdle` says the thread is then in no call that could change it.
All actions are first reduced (`StepKinds`) to seven kinds of step, by what they do to the
data, so that the invariants are proved for seven cases and not for twenty.

`WakeInv` counts wakeups: while a consumer is parked on an open queue there are
at least as many consumers awake and notifications due as there are items, the same for
producers and free slots, and while anybody is parked on a closed queue the
closing thread still has to notify. That there is *one* thread awake would not be
inductive: it may serve one item while a second waits. The count is. The
proof compares sizes of sets of threads before and after a step (`Counting`),
which is why the sets of threads are assumed finite.

`QueueImplementsFifo` shows, from `Base`, that each action maps to one of the
abstract FIFO or to a stutter.

### Cache

`IInv` adds to the partition that the admission order lists exactly the tables
(`OrderListsTables`), what is known in the middle of a reservation (`Reserving`: in the
eviction loop the demand fits into the cache and the free list is too short, in the
allocation loop it is long enough), and that every other table is tight. `NoFault` needs
all of it: the code calls a missing victim and an empty free list unreachable,
because the feasibility test counted enough. The proof shows that the test
is exact: if nothing can be evicted, every block is free or in the table of the
sequence that asks, and then the demand would fit.

`AtomicTheorem` says of the loops what `KVCache` says in one step. `Progress` is the invariant:
during a reservation the state is what the cache it began on becomes when `op.evicted` has been
released and the blocks allocated so far have been appended. The evicted set is always the first
so many of the policy's choices, and lies in every set of first choices that frees enough; so when
the loop ends with enough free blocks it is the smallest such set, which is how `KVCacheOps`
defines the victims. That the feasibility tests agree needs that the blocks which tables hold,
counted as pairs (`PairsCount`), are the sum of the tables' lengths (`HeldSum`).

### Static engine

`IInv` has fourteen parts in five groups, and for each group one lemma per kind of thread.

- Where a request is. `OnePlaceEach` gives the first half of `HeldInOnePlace`: queue, batch being
  formed, hand of the batcher thread, executor and workers exclude one another.
- Who has a future. `FuturesTracked` says that a future is registered, taken by one shutdown call
  or in the hand of one thread, and then settled by nobody but its caller, and that the pending
  future of a call under way is one of these unless a shutdown raised; `SettledOnce` follows.
- The order of a shutdown: `ShutdownOrder`, `Swept`, `OneShutdown`, `Joined`. `NeverLeftPending`
  needs them: a submit may test `_closed` and register after the last shutdown has cleared the
  dictionary, but then `_stopping` is set and the call will be refused; that only such calls are left
  in the dictionary is the strengthening. That the executor is empty leaves no future in a
  worker's hand, and the batcher thread has one only if it has not ended, so that the join gave up.
- What a worker still has to do. `WorkersSettle` says for each place in `_execute` that the batch's
  registered futures are those its loops will come to: the loop over expired members leaves
  live ones to the run, and what failed halfway through `_complete_batch` is gone through again.
  When the worker lets go of its batch, no future of it is left, or the batch is in `broken`.
- Early work: `EarlyFirst`, `ExitFirst`, `Kept`, `EarlySettled`, `AbandonedLate`. What entered
  before the stop is in front of every sentinel, the batcher thread ends only behind one, and
  what it hands over stays in the executor until a worker has it. `Kept`, that such work is somewhere
  with its future registered or about to be set, or stranded, gives the second half of
  `HeldInOnePlace` as well; a broken batch stays broken since a cancelled future stays
  cancelled (`StrandedLasts`).

### C++ batcher and pool

`BatcherInv`: the stream of accepted requests, without the dropped ones, is what was
handed over, then the batch, then the queue (`StreamKept`); the counters are the
sizes of these parts (`CountsExact`); the thread ends only when the queue is closed and
empty (`LoopExact`), which no later step can undo. `PoolInv` is the same for a set of workers,
where the counters lag behind the acts they count: `TallyExact` accounts for each worker by its place in the loop.

`MemoryInv`: every address the backend gave out is handed out or in the list of exactly
its size class, once (`Kept`), and each statistic is a sum over these (`Tallied`). `Taken` and
`Returned` say what one block changes in the sums, which is all that allocate, deallocate and trim need.

### Replicas

`FrontInv`: what callers and shutdown have done so far (`CallersProgress`,
`ShutdownInOrder`: replicas below the index are down), that a replica that is down owes
nothing (`DownIsSettled`), and for `RotationSpreads` that under ties the replicas before the
rotation have had one caller more than the others (`TurnsTaken`): "at most one
apart" is not inductive, where the extra ones are is. Both theorems are for every
assignment of capacities.

### Continuous engine

`ServeInv` is about the futures alone and needs nothing of the scheduler but the order of its
steps: a future is in the dictionary, owed by one thread (`SettersOwe`) or settled, and
shutdown takes all of them (`ShutdownTakesAll`). With it each of the engine's steps is
mapped to a step of `ServingEngine` or a stutter, the scheduler's own steps to
stutters. `CountersAddUp` needs the batcher as well: `HeldInv` says that queue, running set
and deferred request are disjoint and hold only pending requests, so that no step gives a second
outcome; the filtering and splitting of the running set in `_retire`, `_admit` and
`_evict_preempted` is where the list lemmas are used. On top of it `CountsExact` equates
each counter with the number of requests it is about: `refusal` remembers why the batcher
turned a request away, since only a full queue counts as received and rejected, a stopping
batcher as rejected alone. `MayFail` reserves
one failure for a `set_result` that is under way.

`CacheInv` ties the cache to the scheduler: it is sound (free blocks and blocks in tables
are all there are, every known sequence is in the admission order), and the sequences that hold
blocks are those of the running set, whose ids are distinct and below the next one. A refusal is traced to the
feasibility test: since everybody may be evicted, it fails only for what is larger than all blocks.
`RowInv` ties the runner to both: the columns of its batch have equal length, a running
sequence has a row or was admitted in this pass, never both, and a row that is still decoded
stands at the token its sequence stands at. The runner may hold rows of sequences that have
left the running set until it is told; `StaleRowsLeave` says that they do not outlast a
decode step.

### Speculation and settings

`DecoderInv` adds to the property that both models have ingested at most the context while
the loop goes on. By induction on the accepted proposals, the history behind each of the
target's answers is one it would have produced (`AgreedIsIdeal`), so the block continues the
ideal (`BlockIsIdeal`); cutting both caches back by counts leaves the same tokens
as the settled context begins with (`CachesCutBack`), for the draft too, which never ingests its
last proposal. The last block may be clipped by the budget and leave the caches wrong; the
invariant, like the code, claims nothing about them then.
`ConfigurationInv` says that the resolved configuration is valid: then widening it again
changes nothing; and that it has floats only if the file has.

### Sampling, training, metrics

`AcceptanceExact`: what is accepted and what is left over add up to the target's weight of each
token (`AcceptedAndResidual`), so with equal masses the leftover is exactly what the
rejected proposals have to give (`EqualMassExact`); two distributions get equal masses over
a common denominator (`CommonMass`). For `SampledByOwnSettings`, the largest `top_k` is
above the vocabulary exactly if one row's is, and otherwise a row is cut by its own threshold
and its own nucleus, and the nucleus of a row without one, when a neighbour has one, is everything
(`WholeNucleus`).

`TrainInv` numbers the micro-batches of the run: the steps taken and the gradients waiting are
consecutive numbers from the first on, also across epochs, and each step sums `accum` of them.
Quotients and remainders of these numbers are the epoch and the batch.

`MetricsInv`: the order window is the tail of what was recorded since the last reset, and the
sorted window holds the same values. `bisect` finds the place where a value may be inserted
(`Cutting`), so insertion and eviction keep both; as long as nobody has reset anything, the
histogram is ahead of the counters by exactly the threads between the two locks.

### Only model-checked

- Liveness: `ShutdownReleasesAll`, `ItemMeetsWaiter`, `FutureSettles`,
  `ShutdownReturns`, `ShutdownSettles`, `EarlyRequestsSettle`, `HandlersAnswer`: fairness and ENABLED are out of the prover's reach.

Everything else that a passing run checks is a theorem.

## Not modelled

- `GpuScheduler`: what a lease may rely on is a matter of CUDA streams and events.
- Kernels, bindings and `ops.py`: floating-point computation, shapes and glue.
- Tensors, LoRA layers, the arithmetic of the evaluation; the text of prompts and
  outputs, except for how many tokens they take.
- `run_static` (a comparison loop), the C++ histogram's buckets, the exposition text,
  single-counter additions, snapshots that only read, logging.
- Copy on write (`add_reference`, `replace_block`): no caller inside the managers.
- The `bench` and `device-info` commands, benchmarks, scripts and examples.
- `queue.Queue`, `Future`, `ThreadPoolExecutor` and the models: external, modelled by
  what the code in the repository relies on.

## What is left

No safety property of the modelled parts is left without a proof. Open are the liveness
properties, for which TLC's instances are the evidence, and the parts listed above as not
modelled. A change of the source is followed by the definition `PROJECT.json` maps to it, then by
the run of its component, then by the proof, which fails at the step that no longer holds.
