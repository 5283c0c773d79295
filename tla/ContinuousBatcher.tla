------------------------- MODULE ContinuousBatcher -------------------------
(***************************************************************************)
(* Iteration-level scheduling: ContinuousBatcher                           *)
(* (python/cudaforge/continuous.py) over a step-wise runner, with or       *)
(* without a KVCacheManager.  Clients call its submit, one scheduler       *)
(* thread owns the running set: it admits from the queue into free rows,   *)
(* reserves one token of cache per sequence, advances all of them by one   *)
(* token and retires the finished ones.                                    *)
(*                                                                         *)
(* A step of the scheduler is what it does between two accesses to the     *)
(* queue or two calls of the runner.                                       *)
(***************************************************************************)
EXTENDS RequestQueue, KVCacheOps, StepwiseRunner

CONSTANTS
    Deadlined,      \* requests with a deadline
    MaxBatch,       \* max_batch_size
    Setups,         \* runner, cache and prompt lengths it may be given: a set of choices
    MaxNewTokens,   \* max_new_tokens of each request
    NoRequest       \* the empty _deferred slot

\* Seqs are the values of _ids: one per offer to the cache.  An offer that is refused
\* is repeated once per decode step of the others, which bounds how many there are.
ASSUME BatcherAssumption ==
    /\ Deadlined \subseteq Requests
    /\ MaxBatch \in 1 .. Capacity
    /\ \A s \in Setups : /\ s.runner \in RunnerKinds /\ s.cache \in Policies \cup {"none"}
                        /\ s.prompt \in [Requests -> Nat \ {0}]
    /\ MaxNewTokens \in [Requests -> Nat \ {0}]
    /\ NoRequest \notin Requests \cup {Sentinel}
    /\ Seqs = 1 .. Cardinality(Seqs)

VARIABLES
    prompt,      \* estimate_tokens of each request's prompt
    sched,       \* where the scheduler thread is
    running,     \* _running: request, sequence id, tokens made, finished
    admitted,    \* what _admit has admitted in this pass: sequence id, prompt tokens
    deferred,    \* _deferred
    sawSentinel, \* _closed
    ids,         \* the last id taken from _ids
    cached,      \* _cache is not None
    cache,       \* the KVCacheManager
    runner,      \* what the runner holds
    late,        \* requests whose deadline has passed
    outcome      \* what the callbacks told each request's owner

schedVars == <<prompt, sched, running, admitted, deferred, sawSentinel, ids, cached, cache,
               runner, late, outcome>>
vars == <<frontVars, schedVars>>

InitAt(clientAt, stopperAt, setup) ==
    /\ queue = <<>> /\ stopping = FALSE /\ early = {}
    /\ client = [r \in Requests |-> clientAt]
    /\ stopper = [k \in Stoppers |-> stopperAt]
    /\ prompt = setup.prompt /\ runner = IdleRunner(setup.runner)
    /\ cached = (setup.cache # "none") /\ cache = EmptyCache(setup.cache)
    /\ sched = "admit" /\ running = <<>> /\ admitted = <<>>
    /\ deferred = NoRequest /\ sawSentinel = FALSE /\ ids = 0
    /\ late = {}
    /\ outcome = [r \in Requests |-> "pending"]

Init == \E setup \in Setups : InitAt("stopping", "batcher", setup)

-----------------------------------------------------------------------------
(* Other threads.                                                          *)

SubmitRequest(r) == Submit(r) /\ UNCHANGED schedVars

DeadlinePasses(r) ==
    /\ r \in Deadlined \ late
    /\ late' = late \cup {r}
    /\ UNCHANGED <<frontVars, prompt, sched, running, admitted, deferred, sawSentinel, ids, cached,
                   cache, runner, outcome>>

Exited == sched \in {"exited", "dead"}

Shutdown(k) ==
    /\ \/ CheckAlreadyStopping(k) \/ SetStopping(k) \/ PutSentinel(k) \/ SentinelRefused(k)
       \/ Join(k, Exited) \/ JoinTimeout(k, Exited)
    /\ UNCHANGED schedVars

-----------------------------------------------------------------------------
(* Leaving the running set.                                                *)

Granted(o) == o.result \in {"admitted", "preempted_others"}
IdsOf(run) == {run[i].id : i \in DOMAIN run}
RequestsOf(run) == {run[i].req : i \in DOMAIN run}
NewEntry(r, id) == [req |-> r, id |-> id, made |-> 0, finished |-> FALSE]
With(run, S) == Keep(run, {e \in ToSet(run) : e.id \in S})
Without(run, S) == Keep(run, {e \in ToSet(run) : e.id \notin S})
Finished(run) == Keep(run, {e \in ToSet(run) : e.finished})
Unfinished(run) == Keep(run, {e \in ToSet(run) : ~e.finished})

Settle(S, how) == outcome' = [r \in Requests |-> IF r \in S THEN how ELSE outcome[r]]

\* Mutation: the blocks are not given back.
LeaveHoldingBlocks(c, run, gone, how) ==
    /\ cache' = c
    /\ runner' = EvictAll(run, IdsOf(gone))
    /\ Settle(RequestsOf(gone), how)

\* Both _evict_preempted and _retire: the runner's rows and the blocks of the entries
\* in gone are given back, and on_complete is called for each.
Leave(c, run, gone, how) ==
    /\ cache' = IF cached THEN Releasing(c, IdsOf(gone)) ELSE c
    /\ runner' = EvictAll(run, IdsOf(gone))
    /\ Settle(RequestsOf(gone), how)

-----------------------------------------------------------------------------
(* _admit.                                                                 *)

\* Rows are counted twice while sequences are being admitted: they are in both lists.
RowFree == Len(running) + Len(admitted) < MaxBatch

\* The request starts under a fresh id; those the cache evicted for it leave.
Begin(r, o) ==
    /\ running' = Append(Without(running, o.preempted), NewEntry(r, ids + 1))
    /\ admitted' = Append(admitted, [id |-> ids + 1, tokens |-> prompt[r]])
    /\ Leave(o.cache, runner, With(running, o.preempted), "truncated")
    /\ deferred' = NoRequest
    /\ UNCHANGED sched

\* Held for the next pass, which ends this one.
Defer(r) ==
    /\ deferred' = r /\ sched' = "start"
    /\ UNCHANGED <<running, admitted, runner, outcome>>

\* _reject: the owner is told at once, through on_rejected or with an empty completion.
Reject(r) ==
    /\ Settle({r}, "rejected") /\ deferred' = NoRequest
    /\ UNCHANGED <<sched, running, admitted, runner>>

\* admit, or no cache to ask.
AskCache(r) ==
    IF cached THEN Admitting(cache, ids + 1, prompt[r]) ELSE Outcome(cache, "admitted", {})

\* _offer_to_cache: started; rejected when nothing could ever free blocks; or deferred.
Offer(r) ==
    /\ ids + 1 \in Seqs
    /\ ids' = ids + 1
    /\ \E o \in {AskCache(r)} :
         IF Granted(o) THEN Begin(r, o)
         ELSE /\ cache' = o.cache
              /\ IF running = <<>> /\ admitted = <<>> THEN Reject(r) ELSE Defer(r)

\* The request the cache refused in the last pass comes before the queue.
AdmitDeferred ==
    /\ sched = "admit" /\ RowFree /\ deferred # NoRequest
    /\ Offer(deferred)
    /\ UNCHANGED <<frontVars, prompt, sawSentinel, cached, late>>

AdmitNext ==
    /\ sched = "admit" /\ RowFree /\ deferred = NoRequest /\ queue # <<>>
    /\ queue' = Tail(queue)
    /\ LET r == Head(queue)
       IN  \/ /\ r = Sentinel
              /\ stopping' = TRUE /\ sawSentinel' = TRUE /\ sched' = "start"
              /\ UNCHANGED <<running, admitted, deferred, ids, cache, runner, outcome>>
           \/ /\ r \in late
              /\ Settle({r}, "expired")
              /\ UNCHANGED <<stopping, sawSentinel, sched, running, admitted, deferred, ids,
                             cache, runner>>
           \/ /\ r \in Requests \ late
              /\ Offer(r)
              /\ UNCHANGED <<stopping, sawSentinel>>
    /\ UNCHANGED <<prompt, client, stopper, early, cached, late>>

\* No free row, or queue.Empty: at once, or after the idle poll.
AdmitDone ==
    /\ sched = "admit"
    /\ RowFree => deferred = NoRequest /\ queue = <<>>
    /\ sched' = "start"
    /\ UNCHANGED <<frontVars, prompt, running, admitted, deferred, sawSentinel, ids, cached,
                   cache, runner, late, outcome>>

\* A token, or end-of-sequence, which finishes the sequence without one.
Sampled(e, eos) ==
    IF e.id \in eos THEN [e EXCEPT !.finished = TRUE]
    ELSE [e EXCEPT !.made = @ + 1, !.finished = e.made + 1 >= MaxNewTokens[e.req]]

AdmittedIds == {admitted[i].id : i \in DOMAIN admitted}

\* A runner that samples in prefill may finish a sequence there.
Prefilled(e, eos) ==
    IF e.id \in AdmittedIds /\ PrefillTokens(runner.kind) = 1 THEN Sampled(e, eos) ELSE e

\* prefill of everything admitted, evicted again in the same pass or not; then _run
\* decides: decode, look again, or end the thread.
PrefillAdmitted ==
    /\ sched = "start"
    /\ runner' = Prefill(runner, admitted)
    /\ \E eos \in IF runner.kind = "echo" THEN {{}} ELSE SUBSET AdmittedIds :
         running' = [i \in DOMAIN running |-> Prefilled(running[i], eos)]
    /\ admitted' = <<>>
    /\ UNCHANGED <<frontVars, prompt, deferred, sawSentinel, ids, cached, cache, late, outcome>>

\* Mutation: the thread ends when it has seen the sentinel, whatever is running.
StartStopsAtSentinel ==
    /\ PrefillAdmitted
    /\ sched' = IF sawSentinel THEN "exited" ELSE IF running # <<>> THEN "reserve" ELSE "admit"

Start ==
    /\ PrefillAdmitted
    /\ sched' = IF running # <<>> THEN "reserve"
                ELSE IF sawSentinel /\ queue = <<>> THEN "exited" ELSE "admit"

-----------------------------------------------------------------------------
(* _reserve_step, decode_step and _retire.                                 *)

\* One extend; lost are the sequences that were evicted or could not grow.
Grow(acc, e) ==
    LET o == Extending(acc.cache, e.id, 1)
    IN  [cache |-> o.cache,
         lost |-> acc.lost \cup (IF Granted(o) THEN o.preempted ELSE {e.id})]

\* Every running sequence in turn, those evicted earlier in the same pass included.
\* (The singletons have TLC evaluate each extend once.)
ReserveAll ==
    LET after[n \in 0 .. Len(running)] ==
          IF n = 0 THEN [cache |-> cache, lost |-> {}]
          ELSE CHOOSE next \in {Grow(acc, running[n]) : acc \in {after[n - 1]}} : TRUE
    IN  after[Len(running)]

ReserveStep ==
    /\ sched = "reserve"
    /\ \E after \in {IF cached THEN ReserveAll ELSE [cache |-> cache, lost |-> {}]} :
         /\ running' = Without(running, after.lost)
         /\ Leave(after.cache, runner, With(running, after.lost), "truncated")
    /\ sched' = IF running' = <<>> THEN "admit" ELSE "decode"
    /\ UNCHANGED <<frontVars, prompt, admitted, deferred, sawSentinel, ids, cached, late>>

\* The unfinished sequences a decode step of the runner reaches.
Reached == {running[i].id : i \in {j \in DOMAIN running :
              ~running[j].finished /\ (runner.kind = "echo" \/ running[j].id \in RowsHeld(runner))}}

\* decode_step and _retire: one sample for every unfinished sequence, then the runner
\* and the cache let go of the finished ones.
DecodeAndRetire ==
    /\ sched = "decode"
    /\ \E eos \in SUBSET Reached :
         \E run \in {[i \in DOMAIN running |->
                       IF running[i].id \in Reached THEN Sampled(running[i], eos) ELSE running[i]]} :
            /\ running' = Unfinished(run)
            /\ Leave(cache, DecodeStep(runner, Reached), Finished(run), "finished")
    /\ sched' = "admit"
    /\ UNCHANGED <<frontVars, prompt, admitted, deferred, sawSentinel, ids, cached, late>>

\* prefill or decode_step raises: nothing in _run catches it and the thread is gone.
RunnerRaises ==
    /\ sched \in {"start", "decode"} /\ (sched = "start" => admitted # <<>>)
    /\ sched' = "dead"
    /\ UNCHANGED <<frontVars, prompt, running, admitted, deferred, sawSentinel, ids, cached,
                   cache, runner, late, outcome>>

Scheduler == \/ AdmitDeferred \/ AdmitNext \/ AdmitDone \/ Start
             \/ ReserveStep \/ DecodeAndRetire

-----------------------------------------------------------------------------

Next == \/ \E r \in Requests : SubmitRequest(r) \/ DeadlinePasses(r)
        \/ \E k \in Stoppers : Shutdown(k)
        \/ Scheduler \/ RunnerRaises

Spec == Init /\ [][Next]_vars

\* The scheduler thread keeps running; nobody has to submit or to call shutdown, and
\* the runner need not fail.
Fairness == WF_vars(Scheduler)

FairSpec == Spec /\ Fairness

-----------------------------------------------------------------------------
(* Properties.                                                             *)

\* The scheduler and the cache agree: blocks are held by exactly the running sequences,
\* whoever was evicted, refused, deferred or retired before, and none are lost.
BlocksBelongToRunning ==
    cached => /\ {s \in Seqs : cache.held[s] > 0} = IdsOf(running)
              /\ IdsOf(running) \subseteq cache.known
              /\ cache.free + BlocksOf(cache, IdsOf(running)) = TotalBlocks

\* The cache refuses a request, and the batcher defers or rejects it, only when it is
\* larger than the whole cache: a request that fits evicts its way in, so "nothing is
\* running" is a sound reason to reject one that was refused.
RefusedIsTooBig ==
    \A r \in Requests : outcome[r] = "rejected" \/ deferred = r =>
        prompt[r] > TotalBlocks * BlockSize

\* Through every merge, eviction and retirement the i-th row of the cache, of the mask and
\* of the last tokens belong to the same sequence, as wide as the cache tensor; for a
\* sequence that will be decoded, the token fed to the model is the last one it sampled,
\* and the mask shows exactly its prompt and its earlier tokens.  Every sequence that is
\* decoded was prefilled and not evicted from the runner since, and there are never more
\* of them than max_batch_size.
RowsAligned ==
    /\ Len(running) <= MaxBatch
    /\ sched = "decode" => IdsOf(running) \subseteq RowsHeld(runner)
    /\ Len(runner.mask) = Len(runner.rows) /\ Len(runner.last) = Len(runner.rows)
    /\ IsInjective(runner.rows)
    /\ \A i \in DOMAIN runner.rows :
         /\ runner.last[i].id = runner.rows[i]
         /\ runner.mask[i].pad + runner.mask[i].ones = runner.width
    /\ \A e \in ToSet(running), i \in DOMAIN runner.rows :
         runner.rows[i] = e.id /\ ~e.finished =>
            /\ runner.last[i].n = e.made
            /\ runner.mask[i].ones = prompt[e.req] + e.made - 1

\* A sequence evicted in the pass that admitted it is prefilled afterwards, and keeps a row
\* nobody will evict; the next decode step drops it, so that rows do not pile up.
StaleRowsLeave ==
    [][DecodeAndRetire /\ runner.kind = "transformers" /\ Reached # {}
           => RowsHeld(runner') \subseteq IdsOf(running')]_vars

\* What was enqueued before shutdown is answered, through any number of refusals,
\* deferrals and evictions, and whether or not shutdown's waits time out.  (Neither a
\* place in early nor an outcome is ever lost, so that this is a leads-to per request.)
EarlyRequestsSettle ==
    []<>(\A r \in early : outcome[r] # "pending" \/ sched = "dead")

-----------------------------------------------------------------------------
(* What the documentation says and the code does not do.                   *)

\* docs/continuous-batching.md: "the work already invested is not thrown away and requests
\* keep completing".  A pass of reservations leaves somebody running, unless nobody has
\* room to grow even in an otherwise empty cache.
SomeoneKeepsRunning ==
    [][ReserveStep /\ cache.policy = "newest" /\ (\E i \in DOMAIN running :
                          cache.tokens[running[i].id] < TotalBlocks * BlockSize)
           => running' # <<>>]_vars

\* SECURITY.md: "A failing model, a failing batch or a failing task is isolated and
\* counted; the runtime keeps serving."
KeepsServing == \A r \in Requests : r \in early ~> outcome[r] # "pending"

=============================================================================
