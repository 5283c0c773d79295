---------------------------- MODULE BoundedFifo ----------------------------
(***************************************************************************)
(* What ConcurrentQueue promises its callers, without mutex, condition     *)
(* variables or notifications: a bounded FIFO whose operations each take   *)
(* effect at one instant between call and return, with the statuses of     *)
(* enum QueueStatus (concurrent_queue.hpp).                                *)
(***************************************************************************)
EXTENDS Integers, Sequences

CONSTANTS Producers, Consumers, Closers, Capacity, MaxPush

VARIABLES
    queue,      \* the items, oldest first
    closed,
    phase,      \* what each thread is in the middle of
    ret,        \* <<operation, status>> of the call each thread just made
    sent,       \* values offered by each thread so far
    delivered   \* items handed out, in order

fifoVars == <<queue, closed, phase, ret, sent, delivered>>

Threads == Producers \cup Consumers \cup Closers

FifoInit ==
    /\ queue = <<>>
    /\ closed = FALSE
    /\ phase = [t \in Threads |-> "idle"]
    /\ ret = [t \in Threads |-> <<"none", "none">>]
    /\ sent = [t \in Threads |-> 0]
    /\ delivered = <<>>

Begin(t, op) ==
    /\ phase[t] = "idle"
    /\ phase' = [phase EXCEPT ![t] = op]
    /\ ret' = [ret EXCEPT ![t] = <<"none", "none">>]
    /\ UNCHANGED <<queue, closed, delivered>>

BeginPush(t) ==
    /\ t \in Producers /\ sent[t] < MaxPush[t]
    /\ Begin(t, "push")
    /\ sent' = [sent EXCEPT ![t] = @ + 1]

BeginOther(t) ==
    /\ \/ t \in Consumers /\ Begin(t, "pop")
       \/ t \in Closers /\ Begin(t, "shutdown")
    /\ UNCHANGED sent

Put(t) ==
    /\ phase[t] = "push"
    /\ ~closed /\ Len(queue) < Capacity
    /\ queue' = Append(queue, [by |-> t, n |-> sent[t]])
    /\ phase' = [phase EXCEPT ![t] = "pushed"]
    /\ UNCHANGED <<closed, ret, sent, delivered>>

Take(t) ==
    /\ phase[t] = "pop"
    /\ queue # <<>>
    /\ queue' = Tail(queue)
    /\ delivered' = Append(delivered, Head(queue))
    /\ phase' = [phase EXCEPT ![t] = "popped"]
    /\ UNCHANGED <<closed, ret, sent>>

Shut(t) ==
    /\ phase[t] = "shutdown"
    /\ closed' = TRUE
    /\ phase' = [phase EXCEPT ![t] = "shut"]
    /\ UNCHANGED <<queue, ret, sent, delivered>>

Finish(t, op, status) ==
    /\ phase' = [phase EXCEPT ![t] = "idle"]
    /\ ret' = [ret EXCEPT ![t] = <<op, status>>]
    /\ UNCHANGED <<queue, closed, sent, delivered>>

\* A refusal carries the one status that the state justifies.
Refuse(t) ==
    \/ phase[t] = "push" /\ closed /\ Finish(t, "push", "Closed")
    \/ phase[t] = "push" /\ ~closed /\ Len(queue) = Capacity /\ Finish(t, "push", "Full")
    \/ phase[t] = "pop" /\ closed /\ queue = <<>> /\ Finish(t, "pop", "Closed")
    \/ /\ phase[t] = "pop" /\ ~closed /\ queue = <<>>
       /\ \E s \in {"Empty", "Timeout"} : Finish(t, "pop", s)
    \/ phase[t] = "shutdown" /\ closed /\ Finish(t, "shutdown", "Ok")

Complete(t) ==
    \/ phase[t] = "pushed" /\ Finish(t, "push", "Ok")
    \/ phase[t] = "popped" /\ Finish(t, "pop", "Ok")
    \/ phase[t] = "shut" /\ Finish(t, "shutdown", "Ok")

FifoNext == \E t \in Threads :
    BeginPush(t) \/ BeginOther(t) \/ Put(t) \/ Take(t) \/ Shut(t) \/ Refuse(t) \/ Complete(t)

FifoSpec == FifoInit /\ [][FifoNext]_fifoVars

=============================================================================
