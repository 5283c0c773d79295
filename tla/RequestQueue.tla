---------------------------- MODULE RequestQueue ----------------------------
(***************************************************************************)
(* The side of a Python batcher its callers meet: the bounded queue.Queue, *)
(* the _stopping event, submit / try_submit and shutdown.  DynamicBatcher  *)
(* (scheduler.py) and ContinuousBatcher (continuous.py) have this code     *)
(* line for line; what differs is the thread that empties the queue.       *)
(*                                                                         *)
(* A request has one client thread, and a step is one access to shared     *)
(* state.  queue.Queue itself is the standard library's: put and get are   *)
(* atomic under its mutex.                                                 *)
(***************************************************************************)
EXTENDS Integers, Sequences, FiniteSets, SequencesExt

CONSTANTS
    Requests,    \* every request some client will submit
    Shedding,    \* those submitted through try_submit, or with a timeout
    Stoppers,    \* threads that call shutdown
    Capacity,    \* queue_capacity
    Sentinel     \* the None that shutdown enqueues

ASSUME QueueAssumption ==
    /\ IsFiniteSet(Requests) /\ Shedding \subseteq Requests
    /\ IsFiniteSet(Stoppers)
    /\ Capacity \in Nat \ {0}
    /\ Sentinel \notin Requests

VARIABLES
    queue,       \* _queue
    stopping,    \* _stopping
    client,      \* where the client of each request is in its submit call
    stopper,     \* where each stopper is in its shutdown call
    early        \* history: requests enqueued while _stopping was not set

frontVars == <<queue, stopping, client, stopper, early>>

Full == Len(queue) >= Capacity

\* The requests in a sequence that may hold sentinels.
RequestsIn(s) == ToSet(s) \cap Requests

-----------------------------------------------------------------------------
(* submit and try_submit.                                                  *)

\* Mutation: the event is not looked at.
CheckStoppingIgnored(r) ==
    /\ client[r] = "stopping"
    /\ client' = [client EXCEPT ![r] = "put"]
    /\ UNCHANGED <<queue, stopping, stopper, early>>

\* `if self._stopping.is_set()`: refuse, or go on to the put.  Nothing keeps the
\* event from being set in between.
CheckStopping(r) ==
    /\ client[r] = "stopping"
    /\ client' = [client EXCEPT ![r] = IF stopping THEN "refused" ELSE "put"]
    /\ UNCHANGED <<queue, stopping, stopper, early>>

\* The put.  A blocking client stays here for as long as the queue is full.
Enqueue(r) ==
    /\ client[r] = "put" /\ ~Full
    /\ queue' = Append(queue, r)
    /\ client' = [client EXCEPT ![r] = "accepted"]
    /\ early' = IF stopping THEN early ELSE early \cup {r}
    /\ UNCHANGED <<stopping, stopper>>

\* queue.Full.
ShedLoad(r) ==
    /\ client[r] = "put" /\ Full /\ r \in Shedding
    /\ client' = [client EXCEPT ![r] = "refused"]
    /\ UNCHANGED <<queue, stopping, stopper, early>>

Submit(r) == CheckStopping(r) \/ Enqueue(r) \/ ShedLoad(r)

-----------------------------------------------------------------------------
(* shutdown: one call of the batcher's shutdown takes a stopper from       *)
(* "batcher" to "drained".                                                 *)

Goto(k, pc) == stopper' = [stopper EXCEPT ![k] = pc]

\* The test and the set of _stopping are two steps.
CheckAlreadyStopping(k) ==
    /\ stopper[k] = "batcher"
    /\ Goto(k, IF stopping THEN "drained" ELSE "flag")
    /\ UNCHANGED <<queue, stopping, client, early>>

SetStopping(k) ==
    /\ stopper[k] = "flag"
    /\ stopping' = TRUE
    /\ Goto(k, "sentinel")
    /\ UNCHANGED <<queue, client, early>>

PutSentinel(k) ==
    /\ stopper[k] = "sentinel" /\ ~Full
    /\ queue' = Append(queue, Sentinel)
    /\ Goto(k, "join")
    /\ UNCHANGED <<stopping, client, early>>

\* The put timed out and queue.Full is suppressed: no sentinel is in the queue.
SentinelRefused(k) ==
    /\ stopper[k] = "sentinel" /\ Full
    /\ Goto(k, "join")
    /\ UNCHANGED <<queue, stopping, client, early>>

\* _thread.join(timeout), when the thread has exited and when it has not.
Join(k, exited) ==
    /\ stopper[k] = "join" /\ exited
    /\ Goto(k, "drained")
    /\ UNCHANGED <<queue, stopping, client, early>>

\* Mutation: the join has no timeout.
JoinForever(k, exited) == FALSE /\ UNCHANGED frontVars

JoinTimeout(k, exited) ==
    /\ stopper[k] = "join" /\ ~exited
    /\ Goto(k, "drained")
    /\ UNCHANGED <<queue, stopping, client, early>>

=============================================================================
