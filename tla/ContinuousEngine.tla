-------------------------- MODULE ContinuousEngine --------------------------
(***************************************************************************)
(* The continuous serving engine: ContinuousEngine                         *)
(* (python/cudaforge/continuous_engine.py) over a ContinuousBatcher it     *)
(* gives no cache, or that batcher used directly, with or without one.     *)
(*                                                                         *)
(* The batcher's callbacks run on its scheduler thread: when a step of it  *)
(* settles requests, the thread first goes through their futures and only  *)
(* then moves on.  A future is taken out of the dictionary under a lock    *)
(* and settled outside it; a caller may cancel it at any moment.           *)
(***************************************************************************)
EXTENDS ContinuousBatcher

CONSTANTS
    EngineSetups, \* the choices of runner and prompts for a batcher inside the engine
    Cancelling    \* requests whose caller may cancel the future

ASSUME ContinuousEngineAssumption ==
    /\ \A s \in EngineSetups : s \in Setups /\ s.cache = "none"
    /\ Cancelling \subseteq Requests /\ "scheduler" \notin Stoppers

VARIABLES
    deployed,    \* "engine" or "direct"
    closed,      \* _closed
    futures,     \* _futures
    future,      \* the Future of each request
    owed,        \* requests whose future was taken out of _futures to be settled
    due,         \* requests whose callback the scheduler thread has to run
    outstanding, \* the futures each shutdown took and has not looked at
    setting,     \* per thread: the future it found not done and is about to set
    counts,      \* the counters of MetricsRegistry
    refusal      \* history: why the batcher turned each request away, if it did

serveVars == <<deployed, closed, futures, future, owed, due, outstanding, setting, counts,
               refusal>>
allVars == <<vars, serveVars>>

Threads == Stoppers \cup {"scheduler"}

EngineInit ==
    /\ \/ deployed = "direct" /\ Init
       \/ deployed = "engine" /\ \E setup \in EngineSetups : InitAt("idle", "idle", setup)
    /\ closed = FALSE /\ futures = {} /\ owed = {} /\ due = {}
    /\ future = [r \in Requests |-> "pending"]
    /\ outstanding = [k \in Stoppers |-> {}]
    /\ setting = [t \in Threads |-> NoRequest]
    /\ counts = [received |-> 0, rejected |-> 0, expired |-> 0, completed |-> 0, failed |-> 0]
    /\ refusal = [r \in Requests |-> "none"]

Count(field, n) == counts' = [counts EXCEPT ![field] = @ + n]

\* Without an engine, clients and stoppers call the batcher.
DirectStep == deployed = "direct" /\ Next /\ UNCHANGED serveVars

-----------------------------------------------------------------------------
(* submit.                                                                 *)

CheckClosed(r) ==
    /\ client[r] = "idle"
    /\ client' = [client EXCEPT ![r] = IF closed THEN "raised" ELSE "register"]
    /\ UNCHANGED <<queue, stopping, stopper, early, schedVars, serveVars>>

\* Registered before submission, so that the scheduler thread finds it.
Register(r) ==
    /\ client[r] = "register"
    /\ futures' = futures \cup {r}
    /\ client' = [client EXCEPT ![r] = "stopping"]
    /\ UNCHANGED <<queue, stopping, stopper, early, schedVars, deployed, closed, future, owed,
                   due, outstanding, setting, counts, refusal>>

\* The batcher's submit: received is counted before the put, rejected when refused.
SubmitCounted(r) ==
    /\ Submit(r)
    /\ Count(IF client'[r] = "put" THEN "received" ELSE "rejected",
             IF client'[r] = "accepted" THEN 0 ELSE 1)
    /\ refusal' = [refusal EXCEPT ![r] =
                     IF client'[r] # "refused" THEN @
                     ELSE IF client[r] = "put" THEN "full" ELSE "stopping"]
    /\ UNCHANGED <<schedVars, deployed, closed, futures, future, owed, due, outstanding, setting>>

\* Not accepted: forget the future and raise.
Withdraw(r) ==
    /\ client[r] = "refused"
    /\ futures' = futures \ {r}
    /\ client' = [client EXCEPT ![r] = "raised"]
    /\ UNCHANGED <<queue, stopping, stopper, early, schedVars, deployed, closed, future, owed,
                   due, outstanding, setting, counts, refusal>>

\* Future.cancel succeeds as long as the future is pending: nobody marks it as running.
Cancel(r) ==
    /\ r \in Cancelling /\ client[r] = "accepted" /\ future[r] = "pending"
    /\ future' = [future EXCEPT ![r] = "cancelled"]
    /\ UNCHANGED <<vars, deployed, closed, futures, owed, due, outstanding, setting, counts,
                   refusal>>

Client(r) == CheckClosed(r) \/ Register(r) \/ SubmitCounted(r) \/ Withdraw(r)

-----------------------------------------------------------------------------
(* The scheduler thread: a step of the batcher, then the callbacks of the  *)
(* requests it settled.                                                    *)

CallbacksDone == due = {} /\ setting["scheduler"] = NoRequest

BatcherStep ==
    /\ CallbacksDone
    /\ Scheduler \/ RunnerRaises
    /\ due' = {r \in Requests : outcome'[r] # outcome[r]}
    /\ Count("expired", Cardinality({r \in due' : outcome'[r] = "expired"}))
    /\ UNCHANGED <<deployed, closed, futures, future, owed, outstanding, setting, refusal>>

\* Mutation: a completion is counted only when somebody still waits for it.
CallbackCountsSettled(r) ==
    /\ r \in due /\ setting["scheduler"] = NoRequest
    /\ due' = due \ {r}
    /\ Count("completed", IF outcome[r] = "expired" \/ r \notin futures THEN 0 ELSE 1)
    /\ futures' = futures \ {r}
    /\ owed' = owed \cup ({r} \cap futures)
    /\ setting' = [setting EXCEPT !["scheduler"] =
                     IF r \in futures /\ future[r] = "pending" THEN r ELSE NoRequest]
    /\ UNCHANGED <<vars, deployed, closed, future, outstanding, refusal>>

\* _finish or _expire as far as _settle's pop; a future that is gone or done is left alone.
Callback(r) ==
    /\ r \in due /\ setting["scheduler"] = NoRequest
    /\ due' = due \ {r}
    /\ Count("completed", IF outcome[r] = "expired" THEN 0 ELSE 1)
    /\ futures' = futures \ {r}
    /\ owed' = owed \cup ({r} \cap futures)
    /\ setting' = [setting EXCEPT !["scheduler"] =
                     IF r \in futures /\ future[r] = "pending" THEN r ELSE NoRequest]
    /\ UNCHANGED <<vars, deployed, closed, future, outstanding, refusal>>

\* set_result.  When the caller has cancelled since, InvalidStateError reaches the batcher,
\* which suppresses it after on_expired and counts a failure after on_complete.
SetResult ==
    /\ setting["scheduler"] # NoRequest
    /\ LET r == setting["scheduler"]
       IN  IF future[r] = "pending"
             THEN future' = [future EXCEPT ![r] = "answered"] /\ UNCHANGED counts
             ELSE /\ Count("failed", IF outcome[r] = "expired" THEN 0 ELSE 1)
                  /\ UNCHANGED future
    /\ setting' = [setting EXCEPT !["scheduler"] = NoRequest]
    /\ UNCHANGED <<vars, deployed, closed, futures, owed, due, outstanding, refusal>>

SchedulerThread == BatcherStep \/ (\E r \in Requests : Callback(r)) \/ SetResult

-----------------------------------------------------------------------------
(* shutdown.                                                               *)

\* A second call returns at once, whether or not the first has finished.
CallShutdown(k) ==
    /\ stopper[k] = "idle"
    /\ Goto(k, IF closed THEN "skipped" ELSE "close")
    /\ UNCHANGED <<queue, stopping, client, early, schedVars, serveVars>>

SetClosed(k) ==
    /\ stopper[k] = "close"
    /\ closed' = TRUE
    /\ Goto(k, "batcher")
    /\ UNCHANGED <<queue, stopping, client, early, schedVars, deployed, futures, future, owed,
                   due, outstanding, setting, counts, refusal>>

\* Mutation: the batcher is not told to stop before the futures are collected.
ShutdownBatcherSkipped(k) ==
    /\ stopper[k] = "batcher"
    /\ Goto(k, "drained")
    /\ UNCHANGED <<queue, stopping, client, early, schedVars, serveVars>>

ShutdownBatcher(k) == Shutdown(k) /\ UNCHANGED serveVars

\* Under the lock: take every future that is left, and clear the dictionary.
TakeOutstanding(k) ==
    /\ stopper[k] = "drained"
    /\ outstanding' = [outstanding EXCEPT ![k] = futures]
    /\ owed' = owed \cup futures
    /\ futures' = {}
    /\ Goto(k, "fail")
    /\ UNCHANGED <<queue, stopping, client, early, schedVars, deployed, closed, future, due,
                   setting, counts, refusal>>

\* Mutation: the loop ends with the first future.
LookAtFirst(k, r) ==
    /\ stopper[k] = "fail" /\ setting[k] = NoRequest /\ r \in outstanding[k]
    /\ outstanding' = [outstanding EXCEPT ![k] = {}]
    /\ setting' = [setting EXCEPT ![k] = IF future[r] = "pending" THEN r ELSE NoRequest]
    /\ UNCHANGED <<vars, deployed, closed, futures, future, owed, due, counts, refusal>>

\* One future of those taken, in some order: is it done?
LookAt(k, r) ==
    /\ stopper[k] = "fail" /\ setting[k] = NoRequest /\ r \in outstanding[k]
    /\ outstanding' = [outstanding EXCEPT ![k] = @ \ {r}]
    /\ setting' = [setting EXCEPT ![k] = IF future[r] = "pending" THEN r ELSE NoRequest]
    /\ UNCHANGED <<vars, deployed, closed, futures, future, owed, due, counts, refusal>>

\* set_exception.  When the caller has cancelled since, InvalidStateError leaves shutdown,
\* and the futures it has not looked at are nobody's.
SetException(k) ==
    /\ setting[k] # NoRequest
    /\ IF future[setting[k]] = "pending"
         THEN /\ future' = [future EXCEPT ![setting[k]] = "abandoned"]
              /\ UNCHANGED <<stopper, outstanding>>
         ELSE /\ Goto(k, "raised")
              /\ outstanding' = [outstanding EXCEPT ![k] = {}]
              /\ UNCHANGED future
    /\ setting' = [setting EXCEPT ![k] = NoRequest]
    /\ UNCHANGED <<queue, stopping, client, early, schedVars, deployed, closed, futures, owed,
                   due, counts, refusal>>

ShutdownReturns(k) ==
    /\ stopper[k] = "fail" /\ setting[k] = NoRequest /\ outstanding[k] = {}
    /\ Goto(k, "returned")
    /\ UNCHANGED <<queue, stopping, client, early, schedVars, serveVars>>

Stopper(k) == \/ CallShutdown(k) \/ SetClosed(k) \/ ShutdownBatcher(k) \/ TakeOutstanding(k)
              \/ (\E r \in Requests : LookAt(k, r)) \/ SetException(k) \/ ShutdownReturns(k)

-----------------------------------------------------------------------------

EngineStep ==
    /\ deployed = "engine"
    /\ \/ \E r \in Requests : \/ Client(r) \/ Cancel(r)
                              \/ DeadlinePasses(r) /\ client[r] # "idle" /\ UNCHANGED serveVars
       \/ SchedulerThread
       \/ \E k \in Stoppers : Stopper(k)

EngineNext == DirectStep \/ EngineStep

\* Threads that have started their call go on; the scheduler thread keeps running, and the
\* runner need not fail.  Nobody has to submit, to cancel or to call shutdown.
EngineFairness ==
    /\ WF_allVars(deployed = "direct" /\ Scheduler /\ UNCHANGED serveVars)
    /\ WF_allVars(deployed = "engine" /\ SchedulerThread /\ sched' # "dead")
    /\ \A r \in Requests : WF_allVars(deployed = "engine" /\ client[r] # "idle" /\ Client(r))
    /\ \A k \in Stoppers : WF_allVars(deployed = "engine" /\ stopper[k] # "idle" /\ Stopper(k))

EngineSpec == EngineInit /\ [][EngineNext]_allVars
EngineFairSpec == EngineSpec /\ EngineFairness

-----------------------------------------------------------------------------
(* Properties.                                                             *)

\* What a caller sees of the engine, in the terms of the protocol.
CallSeen(r) == IF deployed = "direct" THEN "idle"
               ELSE IF client[r] \in {"idle", "raised", "accepted"} THEN client[r] ELSE "inside"
FutureSeen(r) == IF future[r] = "pending" /\ r \in owed THEN "owed" ELSE future[r]
PhaseSeen == IF ~closed THEN "open"
             ELSE IF \E k \in Stoppers : stopper[k] = "returned" THEN "down" ELSE "closing"

Serving == INSTANCE ServingEngine WITH
    call <- [r \in Requests |-> CallSeen(r)], future <- [r \in Requests |-> FutureSeen(r)],
    phase <- PhaseSeen

\* The engine keeps the promise of the ServingEngine protocol: submit returns a future or
\* raises, a future is settled once and by one thread, and when a shutdown has done its
\* work every accepted future is settled or owed.
KeepsServingPromise == Serving!Spec

\* What is owed is paid: after a shutdown that returned, every accepted future is settled,
\* those that were still running when the bounded join gave up included.  (A shutdown that
\* raised, because a caller cancelled between its done() and its set_exception, is out.)
ShutdownSettles ==
    []<>(\A k \in Stoppers, r \in Requests :
           stopper[k] = "returned" /\ client[r] = "accepted" /\ future[r] = "pending"
               => \E j \in Stoppers : stopper[j] = "raised")

\* The counters add up at every moment.  A request that was counted as received is in the
\* engine, has expired, was completed, or was turned away by a full queue; a request counted
\* as rejected was turned away once, by a full queue or by a batcher that was stopping, and
\* never got an outcome.  However shutdown and the scheduler race for its future, a
\* completion is counted once, and what failed on its way to the caller is part of those.
Received == {r \in Requests : client[r] \in {"put", "accepted"}}
InEngine == {r \in Received : outcome[r] = "pending" \/ (r \in due /\ outcome[r] # "expired")}
Turned(why) == {r \in Requests : refusal[r] \in why}
CountersAddUp ==
    deployed = "engine" =>
        /\ Cardinality(Received)
             = counts.expired + counts.completed + Cardinality(InEngine)
        /\ counts.received = Cardinality(Received) + Cardinality(Turned({"full"}))
        /\ counts.rejected = Cardinality(Turned({"full", "stopping"}))
        /\ \A r \in Turned({"full", "stopping"}) :
              client[r] \in {"refused", "raised"} /\ outcome[r] = "pending"
        /\ counts.failed <= counts.completed

=============================================================================
