-------------------------- MODULE ConcurrentQueue --------------------------
(***************************************************************************)
(* cudaforge::ConcurrentQueue (cpp/include/cudaforge/concurrent_queue.hpp):*)
(* a bounded FIFO guarded by one mutex and two condition variables.        *)
(*                                                                         *)
(* A critical section (everything a thread does between taking mutex_ and  *)
(* releasing it, by unlocking or by parking in a wait) is one step.  The   *)
(* notification that follows the unlock is a step of its own, so another   *)
(* thread can run between the state change and the wakeup it announces.    *)
(* A condition variable is the set of threads parked on it; a parked       *)
(* thread leaves that set when it is notified, spuriously, or (pop_for)    *)
(* when its timeout runs out, and then takes the mutex again.              *)
(***************************************************************************)
EXTENDS Integers, Sequences, FiniteSets

CONSTANTS
    Producers,   \* threads that call push and try_push
    Consumers,   \* threads that call pop, pop_for and try_pop
    Closers,     \* threads that call shutdown
    Capacity,    \* capacity_
    MaxPush      \* bound: how many insertions each producer attempts

Threads == Producers \cup Consumers \cup Closers

ASSUME ThreadsFinite == IsFiniteSet(Threads)
\* The constructor throws on a zero capacity.
ASSUME CapacityPositive == Capacity \in Nat \ {0}
ASSUME MaxPushNat == MaxPush \in [Producers -> Nat]

VARIABLES
    buffer,     \* buffer_, oldest item first
    closed,     \* closed_
    pc,         \* where each thread is in the call it is making
    ret,        \* <<operation, QueueStatus>> of the call each thread just made
    sent,       \* how many values each thread has offered so far
    accepted,   \* history: items the queue took, in order
    delivered   \* history: items handed to consumers, in order

vars == <<buffer, closed, pc, ret, sent, accepted, delivered>>

\* The n-th value offered by thread t.
Item == UNION {{[by |-> t, n |-> k] : k \in 1..MaxPush[t]} : t \in Producers}
Offered(t) == [by |-> t, n |-> sent[t]]

\* Threads parked on each condition variable ...
NotEmptyWaiters == {t \in Threads : pc[t] \in {"pop_parked", "pop_for_parked"}}
NotFullWaiters == {t \in Threads : pc[t] = "push_parked"}

\* ... and threads about to evaluate the matching wait predicate.
AwakeConsumers == {t \in Threads : pc[t] \in {"pop", "pop_for", "pop_for_expired"}}
AwakeProducers == {t \in Threads : pc[t] = "push"}

\* What a thread does once it has left a condition variable.
Resume(p) == CASE p = "push_parked" -> "push"
               [] p = "pop_parked" -> "pop"
               [] p = "pop_for_parked" -> "pop_for"
               [] OTHER -> p

WaitPcs == {"push_parked", "pop_parked", "pop_for_parked"}
Pcs == WaitPcs \cup
    {"idle", "push", "try_push", "notify_not_empty", "pop", "pop_for",
     "pop_for_expired", "try_pop", "notify_not_full", "shutdown",
     "notify_all_not_empty", "notify_all_not_full"}
Ops == {"none", "push", "pop", "shutdown"}
Statuses == {"none", "Ok", "Full", "Empty", "Closed", "Timeout"}

Init ==
    /\ buffer = <<>>
    /\ closed = FALSE
    /\ pc = [t \in Threads |-> "idle"]
    /\ ret = [t \in Threads |-> <<"none", "none">>]
    /\ sent = [t \in Threads |-> 0]
    /\ accepted = <<>>
    /\ delivered = <<>>

-----------------------------------------------------------------------------
(* Helpers. *)

Goto(t, p) == pc' = [pc EXCEPT ![t] = p]

Start(t, p) ==
    /\ pc' = [pc EXCEPT ![t] = p]
    /\ ret' = [ret EXCEPT ![t] = <<"none", "none">>]

Return(t, op, status) ==
    /\ pc' = [pc EXCEPT ![t] = "idle"]
    /\ ret' = [ret EXCEPT ![t] = <<op, status>>]

\* Mutation: a push that inserts at the consumers' end.
InsertAtFront(t) ==
    /\ buffer' = <<Offered(t)>> \o buffer
    /\ accepted' = Append(accepted, Offered(t))
    /\ pc' = [pc EXCEPT ![t] = "notify_not_empty"]
    /\ UNCHANGED <<closed, ret, sent, delivered>>

\* buffer_.push_back(std::move(value)), then unlock.
Insert(t) ==
    /\ buffer' = Append(buffer, Offered(t))
    /\ accepted' = Append(accepted, Offered(t))
    /\ pc' = [pc EXCEPT ![t] = "notify_not_empty"]
    /\ UNCHANGED <<closed, ret, sent, delivered>>

\* out = std::move(buffer_.front()); buffer_.pop_front(), then unlock.
Extract(t) ==
    /\ buffer # <<>>
    /\ buffer' = Tail(buffer)
    /\ delivered' = Append(delivered, Head(buffer))
    /\ pc' = [pc EXCEPT ![t] = "notify_not_full"]
    /\ UNCHANGED <<closed, ret, sent, accepted>>

-----------------------------------------------------------------------------
(* Calls. *)

CallPush(t) ==
    /\ t \in Producers
    /\ pc[t] = "idle"
    /\ sent[t] < MaxPush[t]
    /\ \E p \in {"push", "try_push"} : Start(t, p)
    /\ sent' = [sent EXCEPT ![t] = @ + 1]
    /\ UNCHANGED <<buffer, closed, accepted, delivered>>

CallPop(t) ==
    /\ t \in Consumers
    /\ pc[t] = "idle"
    /\ \E p \in {"pop", "pop_for", "try_pop"} : Start(t, p)
    /\ UNCHANGED <<buffer, closed, sent, accepted, delivered>>

CallShutdown(t) ==
    /\ t \in Closers
    /\ pc[t] = "idle"
    /\ Start(t, "shutdown")
    /\ UNCHANGED <<buffer, closed, sent, accepted, delivered>>

-----------------------------------------------------------------------------
(* push: the wait loop's predicate is closed_ || size < capacity_.         *)

PushWait(t) ==
    /\ pc[t] = "push"
    /\ ~closed /\ Len(buffer) >= Capacity
    /\ Goto(t, "push_parked")
    /\ UNCHANGED <<buffer, closed, ret, sent, accepted, delivered>>

\* Mutation: the wait predicate does not look at closed_ and nothing does after it.
PushOkAfterClose(t) ==
    /\ pc[t] = "push"
    /\ Len(buffer) < Capacity
    /\ Insert(t)

PushOk(t) ==
    /\ pc[t] = "push"
    /\ ~closed /\ Len(buffer) < Capacity
    /\ Insert(t)

PushClosed(t) ==
    /\ pc[t] = "push"
    /\ closed
    /\ Return(t, "push", "Closed")
    /\ UNCHANGED <<buffer, closed, sent, accepted, delivered>>

\* Mutation: the load-shedding insert that forgets to look at the capacity.
TryPushUnbounded(t) ==
    /\ pc[t] = "try_push"
    /\ IF closed THEN /\ Return(t, "push", "Closed")
                      /\ UNCHANGED <<buffer, closed, sent, accepted, delivered>>
                 ELSE Insert(t)

\* Mutation: try_push inserts first and reports Full afterwards.
TryPushKeepsRefused(t) ==
    /\ pc[t] = "try_push"
    /\ IF ~closed /\ Len(buffer) = Capacity - 1
         THEN /\ Return(t, "push", "Full")
              /\ buffer' = Append(buffer, Offered(t))
              /\ accepted' = Append(accepted, Offered(t))
              /\ UNCHANGED <<closed, sent, delivered>>
         ELSE TryPushUnbounded(t)

TryPush(t) ==
    /\ pc[t] = "try_push"
    /\ IF closed \/ Len(buffer) >= Capacity
         THEN /\ Return(t, "push", IF closed THEN "Closed" ELSE "Full")
              /\ UNCHANGED <<buffer, closed, sent, accepted, delivered>>
         ELSE Insert(t)

-----------------------------------------------------------------------------
(* pop, pop_for and try_pop: the predicate is closed_ || !empty.           *)

PopWait(t) ==
    /\ pc[t] \in {"pop", "pop_for"}
    /\ ~closed /\ buffer = <<>>
    /\ Goto(t, IF pc[t] = "pop" THEN "pop_parked" ELSE "pop_for_parked")
    /\ UNCHANGED <<buffer, closed, ret, sent, accepted, delivered>>

PopOk(t) ==
    /\ pc[t] \in {"pop", "pop_for", "pop_for_expired"}
    /\ Extract(t)

\* Mutation: a closed queue is reported as closed although items remain in it.
PopClosedUndrained(t) ==
    /\ pc[t] \in {"pop", "pop_for", "pop_for_expired"}
    /\ closed
    /\ Return(t, "pop", "Closed")
    /\ UNCHANGED <<buffer, closed, sent, accepted, delivered>>

PopClosed(t) ==
    /\ pc[t] \in {"pop", "pop_for", "pop_for_expired"}
    /\ closed /\ buffer = <<>>
    /\ Return(t, "pop", "Closed")
    /\ UNCHANGED <<buffer, closed, sent, accepted, delivered>>

\* The timeout of wait_for runs out, also for a thread that was notified and has
\* not got the mutex back yet: the predicate is evaluated a last time.
Expire(t) ==
    /\ pc[t] \in {"pop_for_parked", "pop_for"}
    /\ Goto(t, "pop_for_expired")
    /\ UNCHANGED <<buffer, closed, ret, sent, accepted, delivered>>

\* Mutation: an expired wait gives up without evaluating the predicate again.
PopTimeoutBlind(t) ==
    /\ pc[t] = "pop_for_expired"
    /\ Return(t, "pop", "Timeout")
    /\ UNCHANGED <<buffer, closed, sent, accepted, delivered>>

PopTimeout(t) ==
    /\ pc[t] = "pop_for_expired"
    /\ ~closed /\ buffer = <<>>
    /\ Return(t, "pop", "Timeout")
    /\ UNCHANGED <<buffer, closed, sent, accepted, delivered>>

TryPop(t) ==
    /\ pc[t] = "try_pop"
    /\ IF buffer = <<>>
         THEN /\ Return(t, "pop", IF closed THEN "Closed" ELSE "Empty")
              /\ UNCHANGED <<buffer, closed, sent, accepted, delivered>>
         ELSE Extract(t)

-----------------------------------------------------------------------------
(* Notifications, issued after the mutex was released.                     *)

\* Mutation: the consumer that made room tells nobody.
NotifyNotFullForgotten(t) ==
    /\ pc[t] = "notify_not_full"
    /\ Return(t, "pop", "Ok")
    /\ UNCHANGED <<buffer, closed, sent, accepted, delivered>>

\* notify_one: any one of the parked threads, or nobody when none is parked.
NotifyOne(t, op, waiters) ==
    /\ \/ /\ waiters = {}
          /\ pc' = [pc EXCEPT ![t] = "idle"]
       \/ \E w \in waiters :
            pc' = [pc EXCEPT ![t] = "idle", ![w] = Resume(pc[w])]
    /\ ret' = [ret EXCEPT ![t] = <<op, "Ok">>]
    /\ UNCHANGED <<buffer, closed, sent, accepted, delivered>>

NotifyNotEmpty(t) ==
    /\ pc[t] = "notify_not_empty"
    /\ NotifyOne(t, "push", NotEmptyWaiters)

NotifyNotFull(t) ==
    /\ pc[t] = "notify_not_full"
    /\ NotifyOne(t, "pop", NotFullWaiters)

\* A wait may return although nobody notified it.
SpuriousWakeup(t) ==
    /\ pc[t] \in WaitPcs
    /\ Goto(t, Resume(pc[t]))
    /\ UNCHANGED <<buffer, closed, ret, sent, accepted, delivered>>

-----------------------------------------------------------------------------
(* shutdown.                                                               *)

Close(t) ==
    /\ pc[t] = "shutdown"
    /\ ~closed
    /\ closed' = TRUE
    /\ Goto(t, "notify_all_not_empty")
    /\ UNCHANGED <<buffer, ret, sent, accepted, delivered>>

AlreadyClosed(t) ==
    /\ pc[t] = "shutdown"
    /\ closed
    /\ Return(t, "shutdown", "Ok")
    /\ UNCHANGED <<buffer, closed, sent, accepted, delivered>>

\* Mutation: shutdown() uses notify_one on not_empty_.
NotifyAllNotEmptyOne(t) ==
    /\ pc[t] = "notify_all_not_empty"
    /\ \/ /\ NotEmptyWaiters = {}
          /\ Goto(t, "notify_all_not_full")
       \/ \E w \in NotEmptyWaiters :
            pc' = [pc EXCEPT ![t] = "notify_all_not_full", ![w] = Resume(pc[w])]
    /\ UNCHANGED <<buffer, closed, ret, sent, accepted, delivered>>

NotifyAllNotEmpty(t) ==
    /\ pc[t] = "notify_all_not_empty"
    /\ pc' = [u \in Threads |-> IF u = t THEN "notify_all_not_full"
                                ELSE IF u \in NotEmptyWaiters THEN Resume(pc[u])
                                ELSE pc[u]]
    /\ UNCHANGED <<buffer, closed, ret, sent, accepted, delivered>>

NotifyAllNotFull(t) ==
    /\ pc[t] = "notify_all_not_full"
    /\ pc' = [u \in Threads |-> IF u = t THEN "idle"
                                ELSE IF u \in NotFullWaiters THEN Resume(pc[u])
                                ELSE pc[u]]
    /\ ret' = [ret EXCEPT ![t] = <<"shutdown", "Ok">>]
    /\ UNCHANGED <<buffer, closed, sent, accepted, delivered>>

-----------------------------------------------------------------------------
Call(t) == CallPush(t) \/ CallPop(t) \/ CallShutdown(t)

\* The steps a running thread takes on its own inside a call.
Run(t) ==
    \/ PushWait(t) \/ PushOk(t) \/ PushClosed(t) \/ TryPush(t)
    \/ PopWait(t) \/ PopOk(t) \/ PopClosed(t) \/ PopTimeout(t) \/ TryPop(t)
    \/ NotifyNotEmpty(t) \/ NotifyNotFull(t)
    \/ Close(t) \/ AlreadyClosed(t) \/ NotifyAllNotEmpty(t) \/ NotifyAllNotFull(t)

Next == \E t \in Threads : Call(t) \/ Run(t) \/ Expire(t) \/ SpuriousWakeup(t)

Spec == Init /\ [][Next]_vars

\* A runnable thread eventually runs.  Nobody is obliged to start a call, no
\* spurious wakeup is promised, and no wait_for has to time out.
Fairness == \A t \in Threads : WF_vars(Run(t))

FairSpec == Spec /\ Fairness

-----------------------------------------------------------------------------
(* Properties.                                                             *)

\* Every variable has its type and the buffer never exceeds capacity_, whichever
\* mixture of push and try_push fills it.
TypeOK ==
    /\ buffer \in Seq(Item) /\ Len(buffer) <= Capacity
    /\ closed \in BOOLEAN
    /\ pc \in [Threads -> Pcs]
    /\ ret \in [Threads -> Ops \X Statuses]
    /\ sent \in [Threads -> Nat]
    /\ \A t \in Producers : sent[t] <= MaxPush[t]
    /\ accepted \in Seq(Item)
    /\ delivered \in Seq(Item)

\* push and pop together neither lose, duplicate nor reorder: what was accepted
\* is what was delivered followed by what is still buffered.
ExactlyOnceInOrder == accepted = delivered \o buffer

\* A value refused with Full or Closed never reaches a consumer, and no value is
\* accepted twice: the items of a producer are accepted in the order offered.
RefusedNeverEnters ==
    /\ \A t \in Producers :
         ret[t] \in {<<"push", "Full">>, <<"push", "Closed">>} =>
            \A i \in 1..Len(accepted) : accepted[i] # Offered(t)
    /\ \A i, j \in 1..Len(accepted) :
         (i < j /\ accepted[i].by = accepted[j].by) => accepted[i].n < accepted[j].n

\* Once any consumer has been told Closed, everything ever accepted has been
\* delivered, and it stays so: shutdown drains, it does not drop.
ClosedMeansDrained ==
    \A t \in Threads :
        ret[t] = <<"pop", "Closed">> => closed /\ delivered = accepted

\* The wakeups in flight always suffice for the work at hand: while a consumer is
\* parked there are at least as many announced or already awake consumers as there
\* are items, likewise for producers and free slots, and a parked thread on a
\* closed queue still has a notify_all coming.  (notify_one after the unlock and a
\* wait_for that times out while it is being notified are the risks.)
NoLostWakeup ==
    /\ ~closed /\ NotEmptyWaiters # {} =>
         Cardinality({t \in Threads : pc[t] = "notify_not_empty"} \cup AwakeConsumers)
            >= Len(buffer)
    /\ ~closed /\ NotFullWaiters # {} =>
         Cardinality({t \in Threads : pc[t] = "notify_not_full"} \cup AwakeProducers)
            >= Capacity - Len(buffer)
    /\ closed /\ NotEmptyWaiters # {} =>
         \E t \in Threads : pc[t] = "notify_all_not_empty"
    /\ closed /\ NotFullWaiters # {} =>
         \E t \in Threads : pc[t] \in {"notify_all_not_empty", "notify_all_not_full"}

\* closed_ never goes back, and nothing is accepted once it is set.
NothingAcceptedAfterClose == [][closed => closed' /\ accepted' = accepted]_vars

\* A call in progress on a closed queue returns: shutdown releases every blocked
\* producer and consumer.
ShutdownReleasesAll ==
    \A t \in Threads : (closed /\ pc[t] # "idle") ~> (pc[t] = "idle")

\* Items and parked consumers do not stay side by side, nor free slots and parked
\* producers: one notify_one per operation moves on as many threads as it takes.
ItemMeetsWaiter ==
    /\ (buffer # <<>> /\ NotEmptyWaiters # {}) ~> (buffer = <<>> \/ NotEmptyWaiters = {})
    /\ (Len(buffer) < Capacity /\ NotFullWaiters # {})
          ~> (Len(buffer) = Capacity \/ NotFullWaiters = {})

-----------------------------------------------------------------------------
(* Refinement: every call takes effect at one instant.                     *)

\* What a thread at pc p is in the middle of, for a caller.
Phase(p) ==
    CASE p \in {"push", "push_parked", "try_push"} -> "push"
      [] p \in {"pop", "pop_parked", "pop_for", "pop_for_parked", "pop_for_expired",
                "try_pop"} -> "pop"
      [] p = "notify_not_empty" -> "pushed"
      [] p = "notify_not_full" -> "popped"
      [] p \in {"notify_all_not_empty", "notify_all_not_full"} -> "shut"
      [] OTHER -> p

Fifo == INSTANCE BoundedFifo WITH
            queue <- buffer,
            phase <- [t \in Threads |-> Phase(pc[t])]

\* push, try_push, pop, pop_for, try_pop and shutdown behave as the atomic
\* operations of BoundedFifo; parking, waking and notifying are invisible.
ImplementsFifo == Fifo!FifoSpec

=============================================================================
