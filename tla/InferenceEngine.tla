-------------------------- MODULE InferenceEngine --------------------------
(***************************************************************************)
(* The static serving engine: InferenceEngine (python/cudaforge/engine.py) *)
(* over DynamicBatcher (python/cudaforge/scheduler.py) over a thread pool. *)
(*                                                                         *)
(* Client threads register a future and enqueue a request; the batcher     *)
(* thread forms batches and hands each to the executor; a worker drops     *)
(* what has expired and runs the rest; shutdown closes all of it in order  *)
(* and fails what is left.  Every thread moves one access to shared state  *)
(* at a time.  Time is abstracted: a deadline may pass at any moment, and  *)
(* so may the time a wait is bounded by.                                   *)
(*                                                                         *)
(* A future is taken out of the dictionary under a lock, tested with       *)
(* done() and set outside it; its caller may cancel it at any moment, and  *)
(* the set then raises InvalidStateError into the loop that settles.       *)
(***************************************************************************)
EXTENDS RequestQueue, Filtering

CONSTANTS
    Deadlined,   \* requests submitted with deadline_seconds
    MaxBatch,    \* max_batch_size
    Workers,     \* threads of the executor
    Cancelling,  \* requests whose caller may cancel the future
    NoRequest    \* a thread that is about to set no future

\* DynamicBatcher.__init__ demands capacity for one whole batch.
ASSUME EngineAssumption ==
    /\ Deadlined \subseteq Requests
    /\ MaxBatch \in 1 .. Capacity
    /\ IsFiniteSet(Workers) /\ Workers # {}
    /\ Cancelling \subseteq Requests /\ NoRequest \notin Requests
    /\ Workers \cap Stoppers = {} /\ "batcher" \notin Workers \cup Stoppers

VARIABLES
    closed,      \* the engine's _closed
    futures,     \* _futures: the requests with a registered future
    outcome,     \* what the future of each request was settled with
    late,        \* requests whose deadline has passed
    collector,   \* the batcher thread: where it is, and the batch it is forming
    open,        \* the executor still accepts work
    work,        \* batches the executor has queued
    worker,      \* each worker: where it is, its batch, the live part of it, and the
                 \* members its loop has not come to
    outstanding, \* the futures each stopper took out of _futures and has not looked at
    setting,     \* per thread: the future it took, found not done and is about to set
    ran,         \* history: requests that were passed to the runner
    broken,      \* history: the batches whose _execute raised
    gaveUp,      \* history: the wait for the batcher thread timed out
    raced        \* history: two shutdown calls both got past the _closed test

engineVars == <<closed, futures, outcome, late, collector, open, work, worker,
                outstanding, setting, ran, broken, gaveUp, raced>>
vars == <<frontVars, engineVars>>

Threads == Workers \cup Stoppers \cup {"batcher"}
IdleWorker == [pc |-> "idle", batch |-> <<>>, live |-> <<>>, rest |-> <<>>]

Init ==
    /\ queue = <<>> /\ stopping = FALSE /\ early = {}
    /\ client = [r \in Requests |-> "idle"]
    /\ stopper = [k \in Stoppers |-> "idle"]
    /\ closed = FALSE /\ futures = {} /\ late = {}
    /\ outcome = [r \in Requests |-> "pending"]
    /\ collector = [pc |-> "first", batch |-> <<>>]
    /\ open = TRUE /\ work = <<>>
    /\ worker = [w \in Workers |-> IdleWorker]
    /\ outstanding = [k \in Stoppers |-> {}]
    /\ setting = [t \in Threads |-> NoRequest]
    /\ ran = {} /\ broken = {} /\ gaveUp = FALSE /\ raced = FALSE

-----------------------------------------------------------------------------
(* Futures.                                                                *)

Free(t) == setting[t] = NoRequest

\* Mutation: the future is read, and stays in the dictionary until it is set.
PopKeepsEntry(t, r) ==
    /\ futures' = futures
    /\ setting' = [setting EXCEPT ![t] =
                     IF r \in futures /\ outcome[r] = "pending" THEN r ELSE NoRequest]

\* _complete up to done(): the future is popped under the lock; one that is gone or done
\* is left alone.
Pop(t, r) ==
    /\ futures' = futures \ {r}
    /\ setting' = [setting EXCEPT ![t] =
                     IF r \in futures /\ outcome[r] = "pending" THEN r ELSE NoRequest]

\* set_result or set_exception by thread t.  It raises InvalidStateError when the future
\* has been cancelled since done() was asked.
Raises(t) == outcome[setting[t]] # "pending"
SetFuture(t, how) ==
    /\ ~Free(t)
    /\ outcome' = [outcome EXCEPT ![setting[t]] = IF Raises(t) THEN @ ELSE how]
    /\ setting' = [setting EXCEPT ![t] = NoRequest]

\* Future.cancel succeeds as long as the future is pending: nobody marks it as running.
Cancel(r) ==
    /\ r \in Cancelling /\ client[r] = "accepted" /\ outcome[r] = "pending"
    /\ outcome' = [outcome EXCEPT ![r] = "cancelled"]
    /\ UNCHANGED <<frontVars, closed, futures, late, collector, open, work, worker,
                   outstanding, setting, ran, broken, gaveUp, raced>>

Expired(r) == r \in late

\* A deadline passes once the request exists.
DeadlinePasses(r) ==
    /\ r \in Deadlined \ late /\ client[r] # "idle"
    /\ late' = late \cup {r}
    /\ UNCHANGED <<frontVars, closed, futures, outcome, collector, open, work, worker,
                   outstanding, setting, ran, broken, gaveUp, raced>>

-----------------------------------------------------------------------------
(* InferenceEngine.submit.                                                 *)

CheckClosed(r) ==
    /\ client[r] = "idle"
    /\ client' = [client EXCEPT ![r] = IF closed THEN "raised" ELSE "register"]
    /\ UNCHANGED <<queue, stopping, stopper, early, engineVars>>

\* Registered before submission, so that the batcher thread finds it.
Register(r) ==
    /\ client[r] = "register"
    /\ futures' = futures \cup {r}
    /\ client' = [client EXCEPT ![r] = "stopping"]
    /\ UNCHANGED <<queue, stopping, stopper, early, closed, outcome, late, collector,
                   open, work, worker, outstanding, setting, ran, broken, gaveUp, raced>>

SubmitToBatcher(r) == Submit(r) /\ UNCHANGED engineVars

\* Not accepted: forget the future and raise.
Withdraw(r) ==
    /\ client[r] = "refused"
    /\ futures' = futures \ {r}
    /\ client' = [client EXCEPT ![r] = "raised"]
    /\ UNCHANGED <<queue, stopping, stopper, early, closed, outcome, late, collector,
                   open, work, worker, outstanding, setting, ran, broken, gaveUp, raced>>

Client(r) == CheckClosed(r) \/ Register(r) \/ SubmitToBatcher(r) \/ Withdraw(r)

-----------------------------------------------------------------------------
(* DynamicBatcher._run and _collect: the batcher thread.                   *)

CollectorUnchanged == UNCHANGED <<stopping, client, stopper, early, closed, late, outcome,
                                  worker, outstanding, ran, broken, gaveUp, raced>>

\* Where the collector goes with this batch: on to `more` while it has room.
Collect(batch, more, whenFull) ==
    collector' = [pc |-> IF Len(batch) < MaxBatch THEN more ELSE whenFull, batch |-> batch]

\* A request that was dequeued: _drop_if_expired as far as done(), or it joins the batch.
TakeHead(more, whenFull) ==
    LET r == Head(queue)
    IN  IF Expired(r)
          THEN Pop("batcher", r) /\ UNCHANGED collector
          ELSE /\ Collect(Append(collector.batch, r), more, whenFull)
               /\ UNCHANGED <<futures, setting>>

\* Its set_result; whatever that raises is caught.
SettleDropped ==
    /\ SetFuture("batcher", "expired")
    /\ UNCHANGED <<queue, stopping, client, stopper, early, closed, futures, late, collector,
                   open, work, worker, outstanding, ran, broken, gaveUp, raced>>

\* Blocks for the first request; a sentinel found here ends the thread.
CollectFirst ==
    /\ Free("batcher") /\ collector.pc = "first" /\ queue # <<>>
    /\ queue' = Tail(queue)
    /\ IF Head(queue) = Sentinel
         THEN /\ collector' = [collector EXCEPT !.pc = "exited"]
              /\ UNCHANGED <<futures, setting>>
         ELSE TakeHead("fill", "dispatch")
    /\ UNCHANGED <<open, work>> /\ CollectorUnchanged

\* Fills until the batch is full; a sentinel found here starts the drain.
CollectNext ==
    /\ Free("batcher") /\ collector.pc = "fill" /\ queue # <<>>
    /\ queue' = Tail(queue)
    /\ IF Head(queue) = Sentinel
         THEN /\ collector' = [collector EXCEPT !.pc = "drain"]
              /\ UNCHANGED <<futures, setting>>
         ELSE TakeHead("fill", "dispatch")
    /\ UNCHANGED <<open, work>> /\ CollectorUnchanged

\* Mutation: a batch that times out is thrown away.
CollectTimeoutDiscards ==
    /\ Free("batcher") /\ collector.pc = "fill"
    /\ collector' = [pc |-> "first", batch |-> <<>>]
    /\ UNCHANGED <<queue, futures, setting, open, work>> /\ CollectorUnchanged

\* The deadline of the batch, with or without requests still queued.
CollectTimeout ==
    /\ Free("batcher") /\ collector.pc = "fill"
    /\ collector' = [collector EXCEPT !.pc = "dispatch"]
    /\ UNCHANGED <<queue, futures, setting, open, work>> /\ CollectorUnchanged

\* After the sentinel: whatever is buffered, without waiting.
CollectDrain ==
    /\ Free("batcher") /\ collector.pc = "drain"
    /\ IF queue = <<>>
         THEN /\ collector' = [collector EXCEPT !.pc = "repost"]
              /\ UNCHANGED <<queue, futures, setting>>
         ELSE /\ queue' = Tail(queue)
              /\ IF Head(queue) = Sentinel
                   THEN /\ collector' = [collector EXCEPT !.pc = "repost"]
                        /\ UNCHANGED <<futures, setting>>
                   ELSE TakeHead("drain", "repost")
    /\ UNCHANGED <<open, work>> /\ CollectorUnchanged

\* Mutation: the sentinel is put into a full queue.
RepostAlways ==
    /\ Free("batcher") /\ collector.pc = "repost"
    /\ queue' = Append(queue, Sentinel)
    /\ collector' = [collector EXCEPT !.pc = "dispatch"]
    /\ UNCHANGED <<futures, setting, open, work>> /\ CollectorUnchanged

\* put_nowait(None): into a full queue the sentinel is not put, and is gone.
RepostSentinel ==
    /\ Free("batcher") /\ collector.pc = "repost"
    /\ queue' = IF Full THEN queue ELSE Append(queue, Sentinel)
    /\ collector' = [collector EXCEPT !.pc = "dispatch"]
    /\ UNCHANGED <<futures, setting, open, work>> /\ CollectorUnchanged

\* _dispatch; an executor that was shut down raises, and _run only counts it.
Dispatch ==
    /\ Free("batcher") /\ collector.pc = "dispatch"
    /\ work' = IF open THEN Append(work, collector.batch) ELSE work
    /\ collector' = [pc |-> "first", batch |-> <<>>]
    /\ UNCHANGED <<queue, futures, setting, open>> /\ CollectorUnchanged

Collector == \/ CollectFirst \/ CollectNext \/ CollectTimeout \/ CollectDrain
             \/ RepostSentinel \/ Dispatch \/ SettleDropped

Exited == collector.pc = "exited"

-----------------------------------------------------------------------------
(* InferenceEngine._execute: one batch on a worker of the executor.        *)

WorkerUnchanged == UNCHANGED <<frontVars, closed, late, collector, open, outstanding,
                               gaveUp, raced>>

\* A batch the executor has queued, and the first pass of expired() over it: `live`.  When
\* that drops any, a second pass goes over the whole batch again.
StartBatch(w) ==
    /\ worker[w].pc = "idle" /\ work # <<>>
    /\ work' = Tail(work)
    /\ LET batch == Head(work)
           live == Keep(batch, {r \in Requests : ~Expired(r)})
       IN  worker' = [worker EXCEPT
                        ![w] = [pc |-> IF live = batch THEN "run" ELSE "expire", batch |-> batch,
                                live |-> live, rest |-> IF live = batch THEN <<>> ELSE batch]]
    /\ UNCHANGED <<futures, outcome, setting, ran, broken>> /\ WorkerUnchanged

\* runner.generate on the live requests: _complete_batch follows, or _fail_batch.
Generate(w) ==
    /\ worker[w].pc = "run"
    /\ ran' = ran \cup ToSet(worker[w].live)
    /\ \E pc \in {"complete", "fail"} :
          worker' = [worker EXCEPT ![w].pc = pc, ![w].rest = worker[w].live]
    /\ UNCHANGED <<work, futures, outcome, setting, broken>> /\ WorkerUnchanged

\* The three loops that settle futures, and what they settle them with.
Answer == [expire |-> "expired", complete |-> "result", fail |-> "error"]

\* Where a worker goes on when nothing is left to set: to the next member of its loop, and
\* from the last one of the second pass to the runner.
Onward(b) == IF b.rest # <<>> THEN b
             ELSE IF b.pc = "expire" /\ b.live # <<>> THEN [b EXCEPT !.pc = "run"]
             ELSE IdleWorker

\* Mutation: expired members are dropped, their futures forgotten.
SettleNextSilently(w) ==
    /\ worker[w].pc \in DOMAIN Answer /\ Free(w) /\ worker[w].rest # <<>>
    /\ IF worker[w].pc = "expire" THEN UNCHANGED <<futures, setting>>
       ELSE Pop(w, Head(worker[w].rest))
    /\ LET b == [worker[w] EXCEPT !.rest = Tail(@)]
       IN  worker' = [worker EXCEPT ![w] = IF setting'[w] = NoRequest THEN Onward(b) ELSE b]
    /\ UNCHANGED <<work, outcome, ran, broken>> /\ WorkerUnchanged

\* The next member of the loop.  The second pass asks expired() again, at a later time.
SettleNext(w) ==
    /\ worker[w].pc \in DOMAIN Answer /\ Free(w) /\ worker[w].rest # <<>>
    /\ LET r == Head(worker[w].rest)
       IN  IF worker[w].pc = "expire" /\ ~Expired(r) THEN UNCHANGED <<futures, setting>>
           ELSE Pop(w, r)
    /\ LET b == [worker[w] EXCEPT !.rest = Tail(@)]
       IN  worker' = [worker EXCEPT ![w] = IF setting'[w] = NoRequest THEN Onward(b) ELSE b]
    /\ UNCHANGED <<work, outcome, ran, broken>> /\ WorkerUnchanged

\* set_result.  InvalidStateError leaves the loop: out of _complete_batch it makes
\* _execute fail the whole batch, out of the other two it leaves _execute, and nobody
\* comes back to the members that are left.
SettleSet(w) ==
    /\ worker[w].pc \in DOMAIN Answer
    /\ SetFuture(w, Answer[worker[w].pc])
    /\ IF ~Raises(w) THEN worker' = [worker EXCEPT ![w] = Onward(@)] /\ UNCHANGED broken
       ELSE IF worker[w].pc = "complete"
         THEN /\ worker' = [worker EXCEPT ![w].pc = "fail", ![w].rest = worker[w].live]
              /\ UNCHANGED broken
         ELSE /\ worker' = [worker EXCEPT ![w] = IdleWorker]
              /\ broken' = broken \cup {ToSet(worker[w].batch)}
    /\ UNCHANGED <<work, futures, ran>> /\ WorkerUnchanged

Worker(w) == StartBatch(w) \/ Generate(w) \/ SettleNext(w) \/ SettleSet(w)

-----------------------------------------------------------------------------
(* InferenceEngine.shutdown.                                               *)

\* The test and the set of _closed are two steps.
CallShutdown(k) ==
    /\ stopper[k] = "idle"
    /\ Goto(k, IF closed THEN "returned" ELSE "close")
    /\ UNCHANGED <<queue, stopping, client, early, engineVars>>

SetClosed(k) ==
    /\ stopper[k] = "close"
    /\ closed' = TRUE
    /\ raced' = (raced \/ closed)
    /\ Goto(k, "batcher")
    /\ UNCHANGED <<queue, stopping, client, early, futures, outcome, late, collector,
                   open, work, worker, outstanding, setting, ran, broken, gaveUp>>

ShutdownBatcher(k) ==
    \/ /\ CheckAlreadyStopping(k) \/ SetStopping(k) \/ PutSentinel(k) \/ SentinelRefused(k)
          \/ Join(k, Exited)
       /\ UNCHANGED engineVars
    \/ /\ JoinTimeout(k, Exited)
       /\ gaveUp' = TRUE
       /\ UNCHANGED <<closed, futures, outcome, late, collector, open, work, worker,
                      outstanding, setting, ran, broken, raced>>

\* executor.shutdown(wait=True) refuses new work, then waits for the workers.
ShutdownExecutor(k) ==
    /\ stopper[k] = "drained"
    /\ open' = FALSE
    /\ Goto(k, "wait")
    /\ UNCHANGED <<queue, stopping, client, early, closed, futures, outcome, late,
                   collector, work, worker, outstanding, setting, ran, broken, gaveUp, raced>>

\* Mutation: shutdown(wait=False).
AwaitExecutorNot(k) ==
    /\ stopper[k] = "wait"
    /\ Goto(k, "collect")
    /\ UNCHANGED <<queue, stopping, client, early, engineVars>>

AwaitExecutor(k) ==
    /\ stopper[k] = "wait"
    /\ work = <<>> /\ \A w \in Workers : worker[w].pc = "idle"
    /\ Goto(k, "collect")
    /\ UNCHANGED <<queue, stopping, client, early, engineVars>>

\* Under the lock: take every future that is left, and clear the dictionary.
TakeOutstanding(k) ==
    /\ stopper[k] = "collect"
    /\ outstanding' = [outstanding EXCEPT ![k] = futures]
    /\ futures' = {}
    /\ Goto(k, "fail")
    /\ UNCHANGED <<queue, stopping, client, early, closed, outcome, late, collector,
                   open, work, worker, setting, ran, broken, gaveUp, raced>>

FailUnchanged == UNCHANGED <<queue, stopping, client, early, closed, futures, late, collector,
                             open, work, worker, ran, broken, gaveUp, raced>>

\* Outside the lock, one future of those taken: is it done?
LookAt(k, r) ==
    /\ stopper[k] = "fail" /\ Free(k) /\ r \in outstanding[k]
    /\ outstanding' = [outstanding EXCEPT ![k] = @ \ {r}]
    /\ setting' = [setting EXCEPT ![k] = IF outcome[r] = "pending" THEN r ELSE NoRequest]
    /\ UNCHANGED <<stopper, outcome>> /\ FailUnchanged

\* set_exception.  InvalidStateError leaves shutdown, and the futures it has not looked at
\* are nobody's.
SetException(k) ==
    /\ stopper[k] = "fail"
    /\ SetFuture(k, "abandoned")
    /\ IF ~Raises(k) THEN UNCHANGED <<stopper, outstanding>>
       ELSE Goto(k, "raised") /\ outstanding' = [outstanding EXCEPT ![k] = {}]
    /\ FailUnchanged

FailingEnds(k) ==
    /\ stopper[k] = "fail" /\ Free(k) /\ outstanding[k] = {}
    /\ Goto(k, "returned")
    /\ UNCHANGED <<outcome, outstanding, setting>> /\ FailUnchanged

Stopper(k) == \/ CallShutdown(k) \/ SetClosed(k) \/ ShutdownBatcher(k)
              \/ ShutdownExecutor(k) \/ AwaitExecutor(k) \/ TakeOutstanding(k)
              \/ (\E r \in Requests : LookAt(k, r)) \/ SetException(k) \/ FailingEnds(k)

-----------------------------------------------------------------------------

Next == \/ \E r \in Requests : Client(r) \/ DeadlinePasses(r) \/ Cancel(r)
        \/ Collector
        \/ \E w \in Workers : Worker(w)
        \/ \E k \in Stoppers : Stopper(k)

Spec == Init /\ [][Next]_vars

\* Every thread that can move does, sooner or later; the runner returns or raises.
\* Nobody has to submit, to cancel, to shut the engine down or to miss a deadline.
Fairness ==
    /\ \A r \in Requests : WF_vars(client[r] # "idle" /\ Client(r))
    /\ WF_vars(Collector)
    /\ \A w \in Workers : WF_vars(Worker(w))
    /\ \A k \in Stoppers : WF_vars(stopper[k] # "idle" /\ Stopper(k))

FairSpec == Spec /\ Fairness

-----------------------------------------------------------------------------
(* Properties.                                                             *)

ClientStates == {"idle", "register", "stopping", "put", "accepted", "refused", "raised"}
StopperStates == {"idle", "close", "batcher", "flag", "sentinel", "join", "drained",
                  "wait", "collect", "fail", "returned", "raised"}
Outcomes == {"pending", "result", "error", "expired", "abandoned", "cancelled"}
Batches == SeqOf(Requests, MaxBatch)

\* Shapes, with the bounds the code promises: a queue within its capacity, and batches
\* that are never empty nor larger than max_batch_size once they are handed over.
TypeOK ==
    /\ queue \in Seq(Requests \cup {Sentinel}) /\ Len(queue) <= Capacity
    /\ stopping \in BOOLEAN /\ closed \in BOOLEAN /\ open \in BOOLEAN
    /\ gaveUp \in BOOLEAN /\ raced \in BOOLEAN
    /\ client \in [Requests -> ClientStates]
    /\ stopper \in [Stoppers -> StopperStates]
    /\ futures \subseteq Requests /\ late \subseteq Deadlined
    /\ early \subseteq Requests /\ ran \subseteq Requests
    /\ outcome \in [Requests -> Outcomes]
    /\ outstanding \in [Stoppers -> SUBSET Requests]
    /\ collector \in [pc : {"first", "fill", "drain", "repost", "dispatch", "exited"},
                      batch : Batches]
    /\ collector.pc \in {"first", "exited"} <=> collector.batch = <<>>
    /\ work \in Seq(Batches \ {<<>>})
    /\ setting \in [Threads -> Requests \cup {NoRequest}] /\ broken \subseteq SUBSET Requests
    /\ worker \in [Workers -> [pc : {"idle", "expire", "run", "complete", "fail"},
                               batch : Batches, live : Batches, rest : Batches]]
    /\ \A w \in Workers :
          /\ worker[w].pc = "idle" <=> worker[w].batch = <<>>
          /\ worker[w].pc = "run" => worker[w].live # <<>>

Accepted(r) == client[r] = "accepted"

\* The slots that hold a request: in the queue, in the batch being formed or about to be
\* answered as expired, in a batch the executor has queued, in the batch of a worker.
Slots(list, s, r) == {<<list, i>> : i \in {j \in 1..Len(s) : s[j] = r}}
Places(r) ==
    Slots(<<"queue", 0>>, queue, r) \cup Slots(<<"collector", 0>>, collector.batch, r)
      \cup Slots(<<"dropped", 0>>, <<setting["batcher"]>>, r)
      \cup (UNION {Slots(<<"work", j>>, work[j], r) : j \in 1..Len(work)})
      \cup (UNION {Slots(<<"worker", w>>, worker[w].batch, r) : w \in Workers})

\* Members of a batch that was given up in the middle: one of them was cancelled at the
\* moment its future was to be set, and _execute raised.
Stranded(r) == \E batch \in broken : r \in batch /\ \E c \in batch : outcome[c] = "cancelled"

\* Dequeue, batching, dispatch and fetch neither duplicate a request nor lose one: it
\* is in at most one place, and as long as the executor is open a request that was
\* accepted and not yet settled is in one (_collect, _dispatch, _execute).  Only a batch
\* out of which InvalidStateError was raised, by a cancelled member, may lose any.
HeldInOnePlace ==
    \A r \in Requests :
        /\ \A p, q \in Places(r) : p = q
        /\ open /\ Accepted(r) /\ outcome[r] = "pending" => Places(r) # {} \/ Stranded(r)

\* The guarantee of ServingEngine.shutdown: when the shutdown calls have returned, no
\* future that submit handed out, or still will hand out, is pending.  It rests on
\* the order of submit: register first, look at _stopping second.  The one future that may
\* still be pending is in the hands of a batcher thread the join gave up on, which is
\* about to set it.  (A shutdown call that raised, because a caller cancelled between its
\* done() and its set_exception, is out.)
NeverLeftPending ==
    Stoppers # {} /\ (\A k \in Stoppers : stopper[k] = "returned") =>
        \A r \in Requests : client[r] \in {"put", "accepted"} /\ outcome[r] = "pending" =>
            gaveUp /\ setting["batcher"] = r

\* Work enqueued before the batcher was told to stop is run, failed by the runner or
\* expired, never abandoned, unless the bounded wait for the batcher thread ran out, two
\* shutdown calls raced past the test of _closed, or a cancelled member broke its batch.
EarlyWorkIsServed ==
    \A r \in early : outcome[r] = "abandoned" => gaveUp \/ raced \/ Stranded(r)

\* set_result and set_exception are called at most once per future: worker, batcher
\* thread and shutdown all settle futures, the pop under _futures_lock decides which, and
\* a set that raises can only have been overtaken by the caller's cancel.
SettledOnce ==
    \A t \in Threads : ~Free(t) =>
        /\ outcome[setting[t]] \in {"pending", "cancelled"}
        /\ setting[t] \notin futures
        /\ \A u \in Threads : setting[u] = setting[t] => u = t

\* A future that submit returned is settled in the end, whether or not anybody shuts the
\* engine down: what fails or expires on the way leaves no caller waiting.  Left waiting
\* are only callers whose batch was broken by a cancelled member, and those a shutdown
\* did not come to because it was broken in the same way.
\* (Acceptance and outcome are final, so that this is a leads-to for every request.)
FutureSettles ==
    []<>(\A r \in Requests : Accepted(r) /\ outcome[r] = "pending" =>
           Stranded(r) \/ \E k \in Stoppers : stopper[k] = "raised")

\* shutdown ends, whatever state it finds the queue, the batcher and the pool in.
ShutdownReturns == []<>(\A k \in Stoppers : stopper[k] \in {"idle", "returned", "raised"})

-----------------------------------------------------------------------------
(* What the documentation says and the code does not do.                   *)

\* README.md: "Idempotent shutdown that never loses accepted work", here for a single
\* shutdown call none of whose waits timed out.
AcceptedWorkIsServed ==
    \A r \in Requests : Accepted(r) /\ outcome[r] = "abandoned" => gaveUp \/ raced

\* docs/concurrency.md: shutdown "must not hang"; a submit call returns or raises.
SubmitReturns == \A r \in Requests : client[r] # "idle" ~> client[r] \in {"accepted", "raised"}

\* README.md: a deadline has the runtime "drop the request instead of executing it".
DroppedIsNotExecuted == \A r \in Requests : outcome[r] = "expired" => r \notin ran

=============================================================================
